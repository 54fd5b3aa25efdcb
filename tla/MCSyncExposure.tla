--------------------------- MODULE MCSyncExposure ---------------------------
(***************************************************************************)
(* RevocationSync with a clock or with edits of the host: both at once are *)
(* too many states, so a behaviour in which the server begins with a kill  *)
(* of another agent than Victim has edits and one worker at a time, and    *)
(* any other has time and two workers that overlap.                        *)
(***************************************************************************)
EXTENDS MCRevocationSync

CONSTANT Victim   \* the agent that may be killed while the clock runs

Clocked == history[1].killed \subseteq {Victim}

\* The host only asks for decisions on Victim, and not early: BoundedExposure
\* says nothing of a decision that began before.
OnTheClock ==
    /\ \A v \in 1 .. Len(history') : history'[v].killed \subseteq {Victim}
    /\ \A t \in Threads : pc'[t] # "idle" =>
          /\ job'[t].op = "decide" /\ job'[t].agent = Victim
          /\ job'[t].began > StaleThreshold + 2 * PollTicks

\* Time stands still, and workers do not overlap.
AmongEdits ==
    /\ UNCHANGED now
    /\ \A v, w \in Workers : pc'[v] # "off" /\ pc'[w] # "off" => v = w

Within == IF Clocked THEN OnTheClock ELSE AmongEdits
=============================================================================
