-------------------------- MODULE MCRevocationSync --------------------------
(***************************************************************************)
(* RevocationSync on small instances, and the refinement of KillSwitch.    *)
(***************************************************************************)
EXTENDS RevocationSync, TLC

\* Workers and threads are interchangeable.  Agents are not quite: NoJob
\* names one of them.
Symmetry == Permutations(Workers) \cup Permutations(Threads)

Promise == INSTANCE KillSwitch
             WITH view   <- mem.version,
                  denied <- {a \in Agents : Denies(mem, a, now)}

\* One worker at a time and a cache loaded before it starts: the process
\* moves through the server's versions in order and enforces each of them
\* exactly.
KeepsPromise == Promise!Spec
=============================================================================
