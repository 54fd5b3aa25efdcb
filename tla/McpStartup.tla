----------------------------- MODULE McpStartup -----------------------------
(***************************************************************************)
(* The lifespan of the MCP proxy: _proxy_lifespan of mcp-server/           *)
(* kswitch_mcp/proxy.py, the drift check of the tool descriptors and the   *)
(* calls of enforcement_client.py it makes.  The upstream servers are      *)
(* connected one after the other; each step of a connection may raise.     *)
(*                                                                         *)
(* A tool is its name and its descriptor.  What a wrapped tool is          *)
(* registered under is its name, with the upstream before it if there are  *)
(* several; add_tool keeps the tool a name already has.                    *)
(***************************************************************************)
EXTENDS Integers, Sequences, FiniteSets

CONSTANTS
    Upstreams,   \* KSWITCH_PROXY_UPSTREAMS, the sequence of their ids
    Listings,    \* the tool lists an upstream may answer with
    Approved,    \* the <<upstream, tool>> pairs the control plane allows
    Alerting     \* those it lets pass with an alert

VARIABLES
    at,          \* the upstream being connected; one past the last: serving
    pc,          \* where its connection is
    tools,       \* what it listed
    actions,     \* the answer of the drift check, by tool name
    next,        \* the tool to register next
    registered,  \* the server's tools
    open,        \* the upstreams whose session is open, by position
    contexts,    \* upstream_contexts, by position
    known,       \* the upstreams the control plane knows, by id
    raised,      \* the upstreams whose connection, or its end, raised
    unchecked    \* the upstreams whose drift check failed, by position

connVars == <<at, pc, tools, actions, next>>
vars == <<connVars, registered, open, contexts, known, raised, unchecked>>

Positions == DOMAIN Upstreams          \* ids need not be distinct
Ids       == {Upstreams[i] : i \in Positions}
Tools     == UNION {{l[i] : i \in DOMAIN l} : l \in Listings}
Verdicts  == {"allow", "alert", "block"}
ToolNames == {t.name : t \in Tools}
NoActions == [n \in ToolNames |-> "none"]
Upstream  == Upstreams[at]

TypeOK ==
    /\ at \in 1 .. Len(Upstreams) + 1
    /\ pc \in {"connect", "list", "check", "register", "record", "serving", "closed"}
    /\ tools \in Listings \cup {<<>>}
    /\ actions \in [ToolNames -> Verdicts \cup {"none"}]
    /\ next \in Nat
    /\ \A r \in registered : r.from \in Positions /\ r.tool \in Tools
    /\ open \subseteq Positions /\ raised \subseteq Positions
    /\ unchecked \subseteq Positions /\ known \subseteq Ids
    /\ contexts \in Seq(Positions)

Init ==
    /\ at = 1 /\ pc = (IF Upstreams = <<>> THEN "serving" ELSE "connect")
    /\ tools = <<>> /\ actions = NoActions /\ next = 1
    /\ registered = {} /\ open = {} /\ contexts = <<>>
    /\ known = {} /\ raised = {} /\ unchecked = {}

Goto(label) == pc' = label /\ UNCHANGED <<at, tools, next>>

\* On to the next upstream, or to the yield.
NextUpstream ==
    /\ at' = at + 1
    /\ pc' = IF at = Len(Upstreams) THEN "serving" ELSE "connect"
    /\ tools' = <<>> /\ actions' = NoActions /\ next' = 1

\* Any await of the connection may raise: `except Exception`, and a session
\* already open stays so, outside upstream_contexts.
Raises ==
    /\ pc \in {"connect", "list", "register"}
    /\ raised' = raised \cup {at}
    /\ NextUpstream
    /\ UNCHANGED <<registered, open, contexts, known, unchecked>>

\* Neither a command nor a url
Skip ==
    /\ pc = "connect"
    /\ NextUpstream
    /\ UNCHANGED <<registered, open, contexts, known, raised, unchecked>>

Connect ==
    /\ pc = "connect"
    /\ open' = open \cup {at}
    /\ Goto("list")
    /\ UNCHANGED <<actions, registered, contexts, known, raised, unchecked>>

ListTools ==
    /\ pc = "list"
    /\ tools' \in Listings \cup {<<>>}
    /\ pc' = "check"
    /\ UNCHANGED <<at, next, actions, registered, open, contexts, known, raised, unchecked>>

-----------------------------------------------------------------------------
Verdict(t) ==
    IF <<Upstream, t>> \in Approved THEN "allow"
    ELSE IF <<Upstream, t>> \in Alerting THEN "alert" ELSE "block"

\* `actions[name] = action`, entry after entry: the last one with a name counts.
ActionsOf(answered) ==
    [n \in ToolNames |->
        LET entries == {i \in answered : tools[i].name = n}
        IN IF entries = {} THEN "none"
           ELSE Verdict(tools[CHOOSE i \in entries : \A j \in entries : j <= i])]

\* _drift_check_upstream: the control plane answers for the descriptors it
\* was sent, all or some of them,
DriftChecked ==
    /\ pc = "check"
    /\ \E answered \in SUBSET DOMAIN tools : actions' = ActionsOf(answered)
    /\ pc' = "register"
    /\ UNCHANGED <<at, tools, next, registered, open, contexts, known, raised, unchecked>>

\* Mutant: without an answer every tool passes, as for the other checks.
CheckFailsOpen ==
    /\ pc = "check" /\ tools # <<>>
    /\ unchecked' = unchecked \cup {at}
    /\ actions' = [n \in ToolNames |-> "allow"]
    /\ pc' = "register"
    /\ UNCHANGED <<at, tools, next, registered, open, contexts, known, raised>>

\* or there is no usable answer - an error, a timeout, a malformed body or
\* entry - and no tool of this upstream is registered.
DriftCheckFails ==
    /\ pc = "check" /\ tools # <<>>
    /\ unchecked' = unchecked \cup {at}
    /\ contexts' = Append(contexts, at)
    /\ NextUpstream
    /\ UNCHANGED <<registered, open, known, raised>>

RegisteredName(t) ==
    IF Len(Upstreams) > 1 THEN <<Upstream, t.name>> ELSE <<t.name>>

AddTool(name, t) ==
    registered' = registered \cup
        IF \E r \in registered : r.name = name THEN {}
        ELSE {[name |-> name, from |-> at, tool |-> t]}

\* One turn of the loop: a tool without an action, or blocked, is left out.
RegisterTool ==
    /\ pc = "register" /\ next <= Len(tools)
    /\ LET t == tools[next]
       IN \/ actions[t.name] \in {"allow", "alert"} /\ AddTool(RegisteredName(t), t)
          \/ actions[t.name] \in {"none", "block"} /\ UNCHANGED registered
    /\ next' = next + 1
    /\ UNCHANGED <<at, pc, tools, actions, open, contexts, known, raised, unchecked>>

AllRegistered ==
    /\ pc = "register" /\ next > Len(tools)
    /\ Goto("record")
    /\ UNCHANGED <<actions, registered, open, contexts, known, raised, unchecked>>

\* register_mcp, best effort, and the upstream is recorded for the teardown.
RegisterMcp ==
    /\ pc = "record"
    /\ known' \in {known, known \cup {Upstream}}
    /\ contexts' = Append(contexts, at)
    /\ NextUpstream
    /\ UNCHANGED <<registered, open, raised, unchecked>>

\* After the yield: the recorded sessions are closed, the last one first.  One
\* whose closing raises may stay open; this is logged.
Teardown ==
    /\ pc = "serving" /\ contexts # <<>>
    /\ contexts' = SubSeq(contexts, 1, Len(contexts) - 1)
    /\ LET last == contexts[Len(contexts)]
       IN \/ open' = open \ {last} /\ UNCHANGED raised
          \/ UNCHANGED open /\ raised' = raised \cup {last}
    /\ UNCHANGED <<connVars, registered, known, unchecked>>

Closed ==
    /\ pc = "serving" /\ contexts = <<>>
    /\ Goto("closed")
    /\ UNCHANGED <<actions, registered, open, contexts, known, raised, unchecked>>

Next ==
    \/ Raises \/ Skip \/ Connect \/ ListTools \/ DriftChecked \/ DriftCheckFails
    \/ RegisterTool \/ AllRegistered \/ RegisterMcp \/ Teardown \/ Closed

Spec == Init /\ [][Next]_vars

-----------------------------------------------------------------------------
Distinct(l) == \A i, j \in DOMAIN l : l[i].name = l[j].name => i = j

\* What the proxy serves under a name is a descriptor the control plane has
\* let pass, of the upstream that listed it, and no upstream whose check failed
\* has a tool - as long as no upstream lists a name twice: then the answer for
\* the second descriptor would let the first one in.
ServedIsApproved ==
    \A r \in registered :
        /\ r.from \notin unchecked
        /\ (\A l \in Listings : Distinct(l)) =>
             <<Upstreams[r.from], r.tool>> \in Approved \cup Alerting
        /\ \A q \in registered : q.name = r.name => q = r

\* After the teardown only those sessions are still open whose connection
\* raised half-way, or whose closing did, which keeps no other from being
\* closed; until then every session in contexts is open.
SessionsClosed ==
    /\ pc = "closed" => open \subseteq raised
    /\ \A i \in DOMAIN contexts : contexts[i] \in open

\* What _proxy_lifespan leaves served, and open at its end.
ProxyServesSafely == ServedIsApproved /\ SessionsClosed
=============================================================================
