---------------------------- MODULE GovernedCall ----------------------------
(***************************************************************************)
(* One governed tool call of the Python SDK, from KSwitchRuntime.invoke    *)
(* through KSwitchInterceptor.check_and_invoke and the local PDP's         *)
(* evaluate to the tool and back.  The async classes do the same in a task *)
(* of the event loop.                                                      *)
(*                                                                         *)
(* The calls are those of one thread or task, which has its own            *)
(* _active_execution_token: a tool may make a governed call itself, so     *)
(* calls nest.  The revocation cache, the context pack and the bundle may  *)
(* change under the evaluator between any two of its reads, so a read may  *)
(* return anything that what holds for the whole evaluation allows.        *)
(***************************************************************************)
EXTENDS Integers, Sequences, SequencesExt

CONSTANTS
    Packs,     \* context packs: records [tier, active, sensitive]
    Bundles,   \* policy bundles: records [fresh, enforce]
    DiskFails, \* the audit file may refuse an event
    MaxCalls   \* bound: calls begun

None     == "none"
Calls    == 1 .. MaxCalls
NoPack   == [tier |-> None, active |-> FALSE, sensitive |-> FALSE]
NoBundle == [fresh |-> FALSE, enforce |-> None]
High     == {"critical", "high"}
Outcomes == {"allow", "deny", "conditional"}
Outputs  == {"allow_raw", "mask_fields", "deny_export"}

VARIABLES
    config,    \* is there a client, is cedarpy installed, the stale mode
    stack,     \* the calls that have begun and not ended, innermost last
    active,    \* _active_execution_token: the call it was issued for
    begun,     \* number of calls begun
    ran,       \* the calls whose tool was invoked
    ended,     \* how each call ended
    events     \* the decision events of each call in the audit log

trail == <<ran, ended, events>>
vars  == <<config, stack, active, begun, trail>>

Config == [client : BOOLEAN, cedarpy : BOOLEAN,
           staleMode : {"warn", "deny", "conditional"}]

Decision == [by : {"nobody", "local", "server"}, outcome : Outcomes,
             blocking : BOOLEAN, output : Outputs]

\* A LocalDecision; none of its obligations blocks.
Locally(o) == [by |-> "local", outcome |-> o, blocking |-> FALSE,
               output |-> "allow_raw"]
Undecided  == [by |-> "nobody", outcome |-> "conditional", blocking |-> FALSE,
               output |-> "allow_raw"]

\* A fact that may hold for the whole of an evaluation: the agent revoked, the
\* sync stale, the pack of a suspended agent, a policy that forbids, a pack of
\* high risk and a stale bundle.
Facts == {"revoked", "unsynced", "inactive", "forbidden", "outdated"}

\* What a read may return while the fact `held` holds
Readings(fact, held) == IF held = fact THEN {TRUE} ELSE BOOLEAN

PackReadings(held) ==
    {p \in Packs \cup {NoPack} :
        /\ held = "inactive" => p # NoPack /\ ~p.active
        /\ held = "outdated" => p.tier \in High}

BundleReadings(held) ==
    {b \in Bundles \cup {NoBundle} :
        /\ held = "forbidden" => b.enforce = "forbid"
        /\ held = "outdated" => b # NoBundle /\ ~b.fresh}

Evaluating == {"staleness", "revocation", "context", "policy"}

\* `held` is a fact that holds while the call is evaluated, if any;
\* `previous` is what the call's token replaced.
Frame == [call : Calls, tier : {"low", "medium"} \cup High,
          at : Evaluating \cup {"decided", "tool", "output"},
          held : Facts \cup {None}, sensitive : BOOLEAN, decision : Decision,
          token : Calls \cup {0}, previous : Calls \cup {0}]

TypeOK ==
    /\ config \in Config
    /\ Len(stack) <= MaxCalls /\ \A i \in DOMAIN stack : stack[i] \in Frame
    /\ active \in Calls \cup {0} /\ begun \in 0 .. MaxCalls
    /\ ran \subseteq Calls
    /\ ended \in [Calls -> {None, "returned", "denied", "blocked",
                            "withheld", "raised"}]
    /\ events \in [Calls -> Seq({"allow", "deny"})]

Init ==
    /\ config \in Config
    /\ stack = <<>> /\ active = 0 /\ begun = 0 /\ ran = {}
    /\ ended = [c \in Calls |-> None]
    /\ events = [c \in Calls |-> <<>>]

Top      == stack[Len(stack)]
At(step) == stack # <<>> /\ Top.at = step

\* The innermost call moves on; the others wait in their tools.
Becomes(frame) == stack' = Front(stack) \o <<frame>>

Moves(step) == Becomes([Top EXCEPT !.at = step])

\* evaluate returns.
Decides(d) == Becomes([Top EXCEPT !.at = "decided", !.decision = d])

\* The innermost call returns or raises.
Ends(how) ==
    /\ stack' = Front(stack)
    /\ ended' = [ended EXCEPT ![Top.call] = how]

\* An event that cannot be written is given up in silence: "Audit failure must
\* never fail the governed call".
Records(outcome) ==
    \/ events' = [events EXCEPT ![Top.call] = Append(@, outcome)]
    \/ DiskFails /\ UNCHANGED events

-----------------------------------------------------------------------------
(* KSwitchRuntime.invoke and LocalPDPEvaluator.evaluate.                   *)

\* The host calls, or the tool of the innermost call does.
Invoke ==
    /\ stack = <<>> \/ At("tool")
    /\ begun < MaxCalls
    /\ begun' = begun + 1
    /\ \E tier \in {"medium", "high"}, fact \in Facts \cup {None} :
          stack' = Append(stack, [call |-> begun', at |-> "staleness",
                                  tier |-> tier, held |-> fact,
                                  sensitive |-> FALSE, decision |-> Undecided,
                                  token |-> 0, previous |-> 0])
    /\ UNCHANGED <<config, active, trail>>

\* Step 0.
CheckStaleRevocation ==
    /\ At("staleness")
    /\ \E unsynced \in Readings("unsynced", Top.held) :
          IF unsynced /\ config.staleMode # "warn"
          THEN Decides(Locally(config.staleMode))
          ELSE Moves("revocation")
    /\ UNCHANGED <<config, active, begun, trail>>

\* Step 1.
CheckRevocation ==
    /\ At("revocation")
    /\ \E revoked \in Readings("revoked", Top.held) :
          IF revoked THEN Decides(Locally("deny")) ELSE Moves("context")
    /\ UNCHANGED <<config, active, begun, trail>>

\* The call goes on at the tier the pack gives.
Adopts(pack) == Becomes([Top EXCEPT !.at = "policy", !.tier = pack.tier,
                                    !.sensitive = pack.sensitive])

\* Mutant: the pack's status is not looked at.
LoadAnyContext ==
    /\ At("context")
    /\ \E pack \in PackReadings(Top.held) :
          \/ pack = NoPack /\ Decides(Locally("conditional"))
          \/ pack # NoPack /\ Adopts(pack)
    /\ UNCHANGED <<config, active, begun, trail>>

\* Steps 2 and 3: without a pack only a call at high risk is denied here.
LoadContext ==
    /\ At("context")
    /\ \E pack \in PackReadings(Top.held) :
          \/ /\ pack = NoPack
             /\ Decides(Locally(IF Top.tier \in High THEN "deny"
                                                     ELSE "conditional"))
          \/ pack # NoPack /\ ~pack.active /\ Decides(Locally("deny"))
          \/ pack.active /\ Adopts(pack)
    /\ UNCHANGED <<config, active, begun, trail>>

\* Steps 4 to 6: the bundle does not decide, the server has to.
Escalates(bundle) ==
    \/ bundle = NoBundle
    \/ ~bundle.fresh /\ Top.tier \in High
    \/ ~config.cedarpy
    \/ bundle.enforce = "raises" /\ Top.tier \in High

\* Steps 4 to 9: shadow policies and the human-approval flag only add
\* obligations that block nothing; the pack's data classes choose the output.
EvaluatePolicy ==
    /\ At("policy")
    /\ \E bundle \in BundleReadings(Top.held) :
          \/ Escalates(bundle) /\ Decides(Locally("conditional"))
          \/ /\ ~Escalates(bundle) /\ bundle.enforce = "forbid"
             /\ Decides(Locally("deny"))
          \/ /\ ~Escalates(bundle) /\ bundle.enforce # "forbid"
             /\ Decides([Locally("allow") EXCEPT
                           !.output = IF Top.sensitive THEN "mask_fields"
                                                       ELSE "allow_raw"])
    /\ UNCHANGED <<config, active, begun, trail>>

\* evaluate raises: the interceptor asks the server, a runtime without a
\* client lets the exception through.
EvaluateRaises ==
    /\ stack # <<>> /\ Top.at \in Evaluating
    /\ IF config.client
       THEN Decides(Undecided) /\ UNCHANGED ended
       ELSE Ends("raised")
    /\ UNCHANGED <<config, active, begun, ran, events>>

-----------------------------------------------------------------------------
(* KSwitchInterceptor._check_and_invoke_inner.                             *)

Unsettled == At("decided") /\ Top.decision.outcome = "conditional"
Allowed   == At("decided") /\ Top.decision.outcome = "allow"
Barring   == config.client /\ Top.decision.blocking

\* The server (external) answers, with obligations and an output policy of
\* its own.
AskServer ==
    /\ Unsettled /\ config.client
    /\ \E o \in {"allow", "deny"}, b \in BOOLEAN, out \in Outputs :
          Decides([by |-> "server", outcome |-> o, blocking |-> b,
                   output |-> out])
    /\ UNCHANGED <<config, active, begun, trail>>

\* Without a client a conditional decision is a RuntimeError; with one the
\* request itself may fail.  Neither is recorded.
NoAnswer ==
    /\ Unsettled
    /\ Ends("raised")
    /\ UNCHANGED <<config, active, begun, ran, events>>

Denied ==
    /\ At("decided") /\ Top.decision.outcome = "deny"
    /\ Records("deny") /\ Ends("denied")
    /\ UNCHANGED <<config, active, begun, ran>>

\* _enforce_pre_invoke_obligations raises.
Blocked ==
    /\ Allowed /\ Barring
    /\ Ends("blocked")
    /\ UNCHANGED <<config, active, begun, ran, events>>

\* The interceptor may have a token issued, and sets the ContextVar to it or
\* to None; a runtime without a client leaves the ContextVar alone.
RunTool ==
    /\ Allowed /\ ~Barring
    /\ ran' = ran \cup {Top.call}
    /\ \E token \in {0} \cup (IF config.client THEN {Top.call} ELSE {}) :
          /\ Becomes([Top EXCEPT !.at = "tool", !.token = token,
                                 !.previous = active])
          /\ active' = IF config.client THEN token ELSE active
    /\ UNCHANGED <<config, begun, ended, events>>

\* Mutant: the token is taken down only when the tool returns.
ToolRaisesWithToken ==
    /\ At("tool")
    /\ Ends("raised")
    /\ UNCHANGED <<config, active, begun, ran, events>>

\* `finally: _active_execution_token.reset(...)`.
Reset == active' = IF config.client THEN Top.previous ELSE active

ToolRaises ==
    /\ At("tool")
    /\ Reset /\ Ends("raised")
    /\ UNCHANGED <<config, begun, ran, events>>

ToolReturns ==
    /\ At("tool")
    /\ Reset /\ Moves("output")
    /\ UNCHANGED <<config, begun, trail>>

\* _apply_output_policy raises OutputDeniedError.
Withholds ==
    /\ At("output") /\ Top.decision.output = "deny_export"
    /\ Ends("withheld")
    /\ UNCHANGED <<config, active, begun, ran, events>>

\* The output is filtered, the decision recorded; the report of obligations
\* to the server may fail unnoticed.
Returns ==
    /\ At("output") /\ Top.decision.output # "deny_export"
    /\ Records("allow") /\ Ends("returned")
    /\ UNCHANGED <<config, active, begun, ran>>

Next ==
    \/ Invoke
    \/ CheckStaleRevocation \/ CheckRevocation \/ LoadContext
    \/ EvaluatePolicy \/ EvaluateRaises
    \/ AskServer \/ NoAnswer \/ Denied \/ Blocked
    \/ RunTool \/ ToolRaises \/ ToolReturns \/ Withholds \/ Returns

Spec == Init /\ [][Next]_vars

-----------------------------------------------------------------------------
\* A call allowed without the server is one that nothing ruled out for the
\* whole of its evaluation: no kill, no staleness the mode acts on, no
\* suspended agent, no forbidding policy, no outdated policy at high risk,
\* whatever else changed under the evaluator.
LocalAllowIsCurrent ==
    \A i \in DOMAIN stack :
        stack[i].decision.by = "local" /\ stack[i].decision.outcome = "allow"
        => \/ stack[i].held = None
           \/ stack[i].held = "unsynced" /\ config.staleMode = "warn"

\* What get_active_execution_token returns to a tool is the token of the
\* call that runs it, also after a call it made itself returned or raised;
\* outside governed calls it returns nothing.
TokenIsScoped ==
    LET inTool == {i \in DOMAIN stack : stack[i].at = "tool"}
    IN active = IF inTool = {} THEN 0
                ELSE stack[CHOOSE i \in inTool :
                              \A j \in inTool : j <= i].token

\* A call that was denied or blocked has not run its tool.  A call has one
\* decision event at most, and one that says how it ended: who reads an allow in
\* the log knows that the tool ran and its output was returned, who reads a deny
\* that it did not run.  The converse is not the code's: see EveryRunIsRecorded.
TrailIsTrue ==
    /\ \A c \in Calls :
          \/ events[c] = <<>>
          \/ events[c] = <<"allow">> /\ ended[c] = "returned" /\ c \in ran
          \/ events[c] = <<"deny">> /\ ended[c] = "denied"
    /\ \A c \in ran : ended[c] \in {None, "returned", "withheld", "raised"}

\* Token and trail are those of the call they name, however calls nest and end.
CallsAreToldApart == TokenIsScoped /\ TrailIsTrue

\* check_and_invoke: "Always emits audit event."  A call whose tool has run and
\* which is over is in the audit log.
EveryRunIsRecorded ==
    config.client => \A c \in ran : ended[c] # None => events[c] # <<>>
=============================================================================
