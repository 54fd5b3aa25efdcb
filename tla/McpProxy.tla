------------------------------ MODULE McpProxy ------------------------------
(***************************************************************************)
(* One tool call through the governing MCP proxy: tool_fn of mcp-server/   *)
(* kswitch_mcp/proxy.py with local_rules.py, local_inspection.py, the      *)
(* rules of policy_cache.py, the control plane as enforcement_client.py    *)
(* sees it, and the one ReachabilityCache that all calls share.            *)
(*                                                                         *)
(* Calls are coroutines: what runs between two awaits is one action.  The  *)
(* probe of the control plane runs in an executor thread.                  *)
(***************************************************************************)
EXTENDS Integers, FiniteSets

CONSTANTS
    Calls,      \* the invocations of wrapped tools
    Requests,   \* what they ask: tool, arguments, and the tool's reply
    Modes,      \* KSWITCH_LOCAL_INSPECTION_MODE, "unloaded" without patterns
    Ttl,        \* ReachabilityCache._ttl
    Lag,        \* assumed: no probe and no enforcement check takes longer
    DiskFails,  \* the local audit file may refuse an entry
    MaxTime     \* bound: the clock

VARIABLES
    clock,      \* time.monotonic(), from the start of the process
    plane,      \* the control plane: "up", "rejecting" (errors), "down"
    lastUp,     \* when its health endpoint last answered
    mode,       \* how L1 inspects
    online,     \* ReachabilityCache._is_online
    checked,    \* ReachabilityCache._last_check
    pc,         \* where each call is
    request,    \* what it asks
    since,      \* when it began to wait
    probed,     \* the answer its probe got
    isOnline,   \* its is_online
    unreached,  \* how long the plane had been down when its check failed open
    result,     \* what it returned
    localLog,   \* the entries of the local audit log
    unwritten,  \* the calls whose entry the log refused
    planeLog,   \* the calls the control plane has recorded
    ran         \* the calls that ran on the upstream server

planeVars == <<clock, plane, lastUp, mode>>
reach     == <<online, checked>>
logs      == <<localLog, unwritten>>
vars == <<planeVars, reach, pc, request, since, probed, isOnline, unreached,
          result, logs, planeLog, ran>>

Layers  == {"L2a", "L1_request", "L2b", "remote", "L1_response"}
PCs     == {"idle", "probe", "probed", "resume", "access", "forward", "inspect",
            "done"}
NoBlame == -1

TypeOK ==
    /\ clock \in 0 .. MaxTime /\ lastUp \in 0 .. MaxTime /\ checked \in -Ttl .. MaxTime
    /\ plane \in {"up", "rejecting", "down"} /\ mode \in Modes /\ online \in BOOLEAN
    /\ pc \in [Calls -> PCs]
    /\ request \in [Calls -> Requests]
    /\ since \in [Calls -> 0 .. MaxTime]
    /\ probed \in [Calls -> BOOLEAN] /\ isOnline \in [Calls -> BOOLEAN]
    /\ unreached \in [Calls -> NoBlame .. MaxTime]
    /\ result \in [Calls -> {"none", "blocked", "error", "content", "sanitized"}]
    /\ localLog \subseteq [call : Calls, decision : {"allowed", "blocked"}, layer : Layers]
    /\ unwritten \subseteq Calls /\ planeLog \subseteq Calls /\ ran \subseteq Calls

Init ==
    /\ clock = 0 /\ lastUp = 0
    /\ plane \in {"up", "down"} /\ mode \in Modes
    /\ online = FALSE /\ checked \in {-Ttl, 0}
    /\ pc = [c \in Calls |-> "idle"]
    /\ request \in [Calls -> Requests]
    /\ since = [c \in Calls |-> 0]
    /\ probed = [c \in Calls |-> FALSE] /\ isOnline = [c \in Calls |-> FALSE]
    /\ unreached = [c \in Calls |-> NoBlame]
    /\ result = [c \in Calls |-> "none"]
    /\ localLog = {} /\ unwritten = {} /\ planeLog = {} /\ ran = {}

-----------------------------------------------------------------------------
(* The layers decided in the proxy.  A tool name is "long" (LU-001),       *)
(* "shell" (LU-002), on a "traversal" server (LU-003), "barred" by a BLOCK *)
(* rule of the loaded bundle, "broken" when a rule before it has a pattern *)
(* that re.search refuses, or "fine".  A text has a signature within the   *)
(* first 64 KB ("hit"), only beyond ("late"), or none ("clean").           *)

\* local_rules.check
FloorRules(tool) == tool \notin {"long", "shell", "traversal"}

\* PolicyCache.check: the first matching BLOCK rule
BundleRules(tool) == tool # "barred"

\* LocalInspectionEngine.inspect: an unknown mode acts as "enforce".
Inspected(text) == mode \in {"disabled", "unloaded", "shadow"} \/ text # "hit"

\* Steps 1 to 3, in their order: the layer that blocks, an exception, or on.
LocalVerdict(r) ==
    CASE ~FloorRules(r.tool)    -> "L2a"
      [] FloorRules(r.tool) /\ ~Inspected(r.args) -> "L1_request"
      [] FloorRules(r.tool) /\ Inspected(r.args) /\ r.tool = "broken" -> "raise"
      [] FloorRules(r.tool) /\ Inspected(r.args) /\ ~BundleRules(r.tool) -> "L2b"
      [] OTHER -> "pass"

\* append_entry: it never raises, and an entry it cannot write is gone.
AppendEntry(c, decision, layer) ==
    \/ /\ localLog' = localLog \cup {[call |-> c, decision |-> decision, layer |-> layer]}
       /\ UNCHANGED unwritten
    \/ /\ DiskFails
       /\ unwritten' = unwritten \cup {c}
       /\ UNCHANGED localLog

Return(c, what) ==
    /\ result' = [result EXCEPT ![c] = what]
    /\ pc' = [pc EXCEPT ![c] = "done"]

Block(c, layer) == AppendEntry(c, "blocked", layer) /\ Return(c, "blocked")

Goto(c, label) ==
    /\ pc' = [pc EXCEPT ![c] = label]
    /\ UNCHANGED <<result, logs>>

Waits(c)    == since' = [since EXCEPT ![c] = clock]
WaitOver(c) == since' = [since EXCEPT ![c] = 0]

\* Steps 1 to 3 have no await: they run on from the tick.
RunLocalLayers(c) ==
    LET verdict == LocalVerdict(request[c])
    IN \/ verdict = "pass" /\ Goto(c, "access") /\ Waits(c)
       \/ verdict = "raise" /\ Return(c, "error") /\ UNCHANGED logs /\ WaitOver(c)
       \/ verdict \in Layers /\ Block(c, verdict) /\ WaitOver(c)

-----------------------------------------------------------------------------
Reachable == plane # "down"

Tick ==
    /\ clock < MaxTime
    /\ \A c \in Calls : pc[c] \in {"probe", "probed", "resume", "access"}
                           => clock - since[c] < Lag
    /\ clock' = clock + 1
    /\ lastUp' = IF Reachable THEN clock' ELSE lastUp
    /\ UNCHANGED <<plane, mode, reach, pc, request, since, probed, isOnline,
                   unreached, result, logs, planeLog, ran>>

PlaneChanges ==
    /\ plane' \in {"up", "rejecting", "down"} \ {plane}
    /\ lastUp' = IF plane' # "down" THEN clock ELSE lastUp
    /\ UNCHANGED <<clock, mode, reach, pc, request, since, probed, isOnline,
                   unreached, result, logs, planeLog, ran>>

\* Mutant: once a probe has succeeded, only a call that finds the control
\* plane offline probes again.
TickOnce(c) ==
    /\ pc[c] = "idle"
    /\ \/ /\ clock - checked >= Ttl /\ ~online
          /\ Goto(c, "probe")
          /\ Waits(c)
          /\ UNCHANGED isOnline
       \/ /\ clock - checked < Ttl \/ online
          /\ isOnline' = [isOnline EXCEPT ![c] = online]
          /\ RunLocalLayers(c)
    /\ UNCHANGED <<planeVars, reach, request, probed, unreached, planeLog, ran>>

\* Step 0, ReachabilityCache.tick.  _last_check = 0 is the start of the host:
\* within the TTL of it a first call does not probe.
StartCall(c) ==
    /\ pc[c] = "idle"
    /\ \/ /\ clock - checked >= Ttl
          /\ Goto(c, "probe")
          /\ Waits(c)
          /\ UNCHANGED isOnline
       \/ /\ clock - checked < Ttl
          /\ isOnline' = [isOnline EXCEPT ![c] = online]
          /\ RunLocalLayers(c)
    /\ UNCHANGED <<planeVars, reach, request, probed, unreached, planeLog, ran>>

\* _probe, in its thread: the HEAD request is answered, or fails,
ProbeAnswers(c) ==
    /\ pc[c] = "probe"
    /\ \E ok \in {FALSE, Reachable} : probed' = [probed EXCEPT ![c] = ok]
    /\ Goto(c, "probed")
    /\ UNCHANGED <<planeVars, reach, request, since, isOnline, unreached, planeLog, ran>>

\* and the thread stores what it saw, over what a later probe stored.
ProbeStores(c) ==
    /\ pc[c] = "probed"
    /\ online' = probed[c]
    /\ checked' = clock
    /\ probed' = [probed EXCEPT ![c] = FALSE]
    /\ Goto(c, "resume")
    /\ UNCHANGED <<planeVars, request, since, isOnline, unreached, planeLog, ran>>

\* The coroutine resumes: `return self._is_online`.
Resume(c) ==
    /\ pc[c] = "resume"
    /\ isOnline' = [isOnline EXCEPT ![c] = online]
    /\ RunLocalLayers(c)
    /\ UNCHANGED <<planeVars, reach, request, probed, unreached, planeLog, ran>>

\* Mutant: a denial is logged, and the call goes on.
CheckOnly(c) ==
    /\ pc[c] = "access"
    /\ plane = "up" /\ planeLog' = planeLog \cup {c}
    /\ \/ Goto(c, "forward")
       \/ AppendEntry(c, "blocked", "remote") /\ pc' = [pc EXCEPT ![c] = "forward"]
          /\ UNCHANGED result
    /\ WaitOver(c)
    /\ UNCHANGED <<planeVars, reach, request, probed, isOnline, unreached, ran>>

\* Step 4, check_access: the control plane decides and records the call,
AccessAnswered(c) ==
    /\ pc[c] = "access"
    /\ plane = "up" /\ planeLog' = planeLog \cup {c}
    /\ Goto(c, "forward") \/ Block(c, "remote")
    /\ WaitOver(c)
    /\ UNCHANGED <<planeVars, reach, request, probed, isOnline, unreached, ran>>

\* or its answer is an error or lost, and the call is allowed.
AccessFailsOpen(c) ==
    /\ pc[c] = "access"
    /\ planeLog' \in IF plane = "up" THEN {planeLog, planeLog \cup {c}} ELSE {planeLog}
    /\ unreached' = [unreached EXCEPT ![c] = clock - lastUp]
    /\ Goto(c, "forward")
    /\ WaitOver(c)
    /\ UNCHANGED <<planeVars, reach, request, probed, isOnline, ran>>

\* Step 5: the upstream call, which may fail before or after it has run.
Forward(c) ==
    /\ pc[c] = "forward"
    /\ \/ ran' = ran \cup {c} /\ Goto(c, "inspect")
       \/ ran' \in {ran, ran \cup {c}} /\ Return(c, "error") /\ UNCHANGED logs
    /\ UNCHANGED <<planeVars, reach, request, since, probed, isOnline, unreached, planeLog>>

\* Step 7 and the offline audit.
Deliver(c) ==
    /\ Inspected(request[c].reply)
    /\ Return(c, "content")
    /\ \/ isOnline[c] /\ UNCHANGED logs
       \/ ~isOnline[c] /\ AppendEntry(c, "allowed", "remote")

\* Step 6, inspect_response: denied, sanitized - and then returned as it is -
\* or an answer that is no object, which raises; or allowed, as on a 404 and
\* on every other error.
InspectReply(c) ==
    /\ pc[c] = "inspect"
    /\ \/ plane = "up" /\ Block(c, "L1_response")
       \/ plane = "up" /\ UNCHANGED logs
          /\ \E what \in {"sanitized", "error"} : Return(c, what)
       \/ Deliver(c)
       \/ ~Inspected(request[c].reply) /\ Block(c, "L1_response")
    /\ UNCHANGED <<planeVars, reach, request, since, probed, isOnline, unreached,
                   planeLog, ran>>

Next ==
    \/ Tick \/ PlaneChanges
    \/ \E c \in Calls :
          \/ StartCall(c) \/ ProbeAnswers(c) \/ ProbeStores(c) \/ Resume(c)
          \/ AccessAnswered(c) \/ AccessFailsOpen(c) \/ Forward(c) \/ InspectReply(c)

Spec == Init /\ [][Next]_vars

-----------------------------------------------------------------------------
Logged(c)    == c \in planeLog \cup unwritten \/ \E e \in localLog : e.call = c
Delivered(c) == result[c] \in {"content", "sanitized"}

\* A call blocked before the upstream call has not run there, whatever mix of
\* layers and failures it met; a blocked call hands nothing over, and leaves
\* the one local entry that says so.
BlockedStaysBlocked ==
    \A c \in Calls :
        /\ \A e \in localLog : e.call = c /\ e.layer # "L1_response"
                                 /\ e.decision = "blocked" => c \notin ran
        /\ result[c] = "blocked" <=>
             \/ c \in unwritten /\ result[c] \notin {"none", "content"}
             \/ \E e \in localLog : e.call = c /\ e.decision = "blocked"
        /\ Cardinality({e \in localLog : e.call = c}) <= 1

\* A check that fails open when the health endpoint has been unreachable for
\* the TTL and the time a probe and a check may take is one of an outage the
\* call has noticed: its reply, handed over unsanitized, is recorded, by the
\* control plane or with an entry for the local log.  (A probe is faster than
\* the TTL: its answer may replace that of a later one.)  Nothing is said of a
\* control plane whose health endpoint answers while it rejects the checks or
\* loses the answers: those replies leave no trace, for as long as it lasts.
LongOutagesLeaveTraces ==
    \A c \in Calls :
        result[c] = "content" /\ unreached[c] >= Ttl + 2 * Lag => Logged(c)
=============================================================================
