----------------------------- MODULE KillSwitch -----------------------------
(***************************************************************************)
(* What the revocation sync promises, without threads, files or HTTP: a    *)
(* process enforces the kills of one version of the server's state, moves  *)
(* from a version to a later one in a single step, and never goes back     *)
(* while it runs.  Before its first sync it enforces the kills of some     *)
(* version it knew before a restart, or none.                              *)
(***************************************************************************)
EXTENDS Naturals, Sequences

CONSTANT Agents

VARIABLES
    history,   \* the server's states, oldest first
    view,      \* the version enforced, 0 before the first sync
    denied     \* the agents denied locally

KilledAt(v) == {a \in Agents : history[v].blanket \/ a \in history[v].killed}

Init ==
    /\ Len(history) = 1
    /\ view = 0
    /\ denied = {}

\* The server's operators kill and clear.
Change ==
    /\ Len(history') = Len(history) + 1
    /\ \A v \in 1 .. Len(history) : history'[v] = history[v]
    /\ UNCHANGED <<view, denied>>

\* A sync takes the process to the version it enforces or a later one.
Adopt ==
    /\ \E v \in 1 .. Len(history) :
          /\ v >= view
          /\ view' = v
          /\ denied' = KilledAt(v)
    /\ UNCHANGED history

\* The process restarts and enforces nothing yet.
Restart ==
    /\ view' = 0
    /\ denied' = {}
    /\ UNCHANGED history

\* Before its first sync it takes up what it has on disk.
Recall ==
    /\ view = 0
    /\ \E v \in 1 .. Len(history) : denied' = KilledAt(v)
    /\ UNCHANGED <<history, view>>

Next == Change \/ Adopt \/ Restart \/ Recall

Spec == Init /\ [][Next]_<<history, view, denied>>
=============================================================================
