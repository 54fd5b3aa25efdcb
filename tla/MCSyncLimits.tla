---------------------------- MODULE MCSyncLimits ----------------------------
(***************************************************************************)
(* RevocationSync with a disk or with overlapping workers: both at once    *)
(* are too many states for liveness, so each behaviour is held to one of   *)
(* two limits, chosen at its start.                                        *)
(***************************************************************************)
EXTENDS RevocationSync

CONSTANT Second   \* the worker that "one worker" leaves out

VARIABLE limit

\* One worker whose files are written, or two that overlap while no write
\* succeeds.
Within ==
    /\ limit = "one worker" => Second \notin current'
    /\ limit = "broken disk" => UNCHANGED <<path, tmp>>

OverlapSpec ==
    /\ Init /\ limit \in {"one worker", "broken disk"}
    /\ [][Next /\ Within /\ UNCHANGED limit]_<<vars, limit>>
    /\ Fairness
=============================================================================
