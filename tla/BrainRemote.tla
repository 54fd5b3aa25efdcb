----------------------------- MODULE BrainRemote ----------------------------
(***************************************************************************)
(* RemoteReadService of the brain MCP server: search, whose results are    *)
(* entries of a ledger bound to the subject and session that searched, and *)
(* fetch, which gives the content of an entry to the same subject and      *)
(* session until it expires.  The sidecar that keeps the memories is       *)
(* external; a request waits for it, and others run in between.            *)
(***************************************************************************)
EXTENDS Integers, Sequences, Functions

CONSTANTS
    Principals,    \* pairs of a subject and a session
    Ttls,          \* lifetimes of results, in ticks
    Lag,           \* the client's timeout for the sidecar, in ticks
    MaxRequests,   \* bound: requests made
    MaxVersion,    \* bound: versions of the memory
    MaxTime        \* bound: clock ticks

VARIABLES
    now,
    memory,     \* the sidecar's memory: its version, and is it quarantined
    ledger,     \* the results given, in order
    dropped,    \* those that were removed from the ledger again
    request,    \* the requests, in order
    trail,      \* the states recorded in audit_events, by request
    delivered   \* the contents given out

vars == <<now, memory, ledger, dropped, request, trail, delivered>>

Requests == 1 .. MaxRequests
Results  == 1 .. MaxRequests
Times    == 0 .. MaxTime
Entry    == [owner : Principals, version : 1 .. MaxVersion, expires : Nat]

\* `result` is the one to fetch, `expires` when the results of a search do;
\* `since` is when the sidecar was asked.
Request == [tool : {"search", "fetch"}, by : Principals,
            at : {"waiting", "ok", "denied", "raised"},
            result : {0} \cup Results, expires : Nat, since : Times]

TypeOK ==
    /\ now \in Times
    /\ memory \in [version : 1 .. MaxVersion, quarantined : BOOLEAN]
    /\ Len(ledger) <= MaxRequests /\ Range(ledger) \subseteq Entry
    /\ dropped \subseteq DOMAIN ledger
    /\ Len(request) <= MaxRequests /\ Range(request) \subseteq Request
    /\ trail \in [Requests -> Seq({"complete", "denied"})]
    /\ delivered \subseteq [to : Principals, result : Results,
                            version : 1 .. MaxVersion, time : Times]

Init ==
    /\ now = 0
    /\ memory = [version |-> 1, quarantined |-> FALSE]
    /\ ledger = <<>> /\ dropped = {}
    /\ request = <<>>
    /\ trail = [n \in Requests |-> <<>>]
    /\ delivered = {}

Waiting(n, tool) ==
    n \in DOMAIN request /\ request[n].tool = tool /\ request[n].at = "waiting"

Tick ==
    /\ now < MaxTime
    /\ \A n \in DOMAIN request :
          request[n].at = "waiting" => now - request[n].since < Lag
    /\ now' = now + 1
    /\ UNCHANGED <<memory, ledger, dropped, request, trail, delivered>>

\* The memory is edited, quarantined or released.
MemoryChanges ==
    /\ \/ memory.version < MaxVersion
          /\ memory' = [memory EXCEPT !.version = @ + 1]
       \/ memory' = [memory EXCEPT !.quarantined = ~@]
    /\ UNCHANGED <<now, ledger, dropped, request, trail, delivered>>

-----------------------------------------------------------------------------
(* What a request records and returns.                                     *)

Opens(tool, p, at, result, expires) ==
    /\ Len(request) < MaxRequests
    /\ request' = Append(request,
          [tool |-> tool, by |-> p, at |-> at, result |-> result,
           expires |-> expires, since |-> now])

Concludes(n, at) == request' = [request EXCEPT ![n].at = at]

Records(n, states) == trail' = [trail EXCEPT ![n] = @ \o states]

\* _deny, before the sidecar was asked.
Refuses(tool, p) ==
    /\ Opens(tool, p, "denied", 0, 0)
    /\ Records(Len(request'), <<"denied">>)

\* _validate_request: tool, size, schema, token, audience or scope.
Invalid ==
    /\ \E p \in Principals, tool \in {"search", "fetch"} : Refuses(tool, p)
    /\ UNCHANGED <<now, memory, ledger, dropped, delivered>>

\* The sidecar's answer is one that recall or fetch_memory does not expect:
\* an exception leaves the request, unrecorded.
SidecarRaises(n) ==
    /\ Waiting(n, "search") \/ Waiting(n, "fetch")
    /\ Concludes(n, "raised")
    /\ UNCHANGED <<now, memory, ledger, dropped, trail, delivered>>

\* _deny, after: the sidecar is not available; or the memory to fetch is
\* quarantined, has changed since the search, or is not safe to give.
Denied(n) ==
    /\ Waiting(n, "search") \/ Waiting(n, "fetch")
    /\ Concludes(n, "denied") /\ Records(n, <<"denied">>)
    /\ UNCHANGED <<now, memory, ledger, dropped, delivered>>

-----------------------------------------------------------------------------
(* search.                                                                 *)

\* The expiry of the results counts from here.
Search ==
    /\ \E p \in Principals, ttl \in Ttls :
          Opens("search", p, "waiting", 0, now + ttl)
    /\ UNCHANGED <<now, memory, ledger, dropped, trail, delivered>>

\* The sidecar finds the memory or nothing; what has no id is recorded and
\* left out.
Recalled(n) ==
    /\ Waiting(n, "search") /\ Concludes(n, "ok")
    /\ \/ /\ ~memory.quarantined
          /\ ledger' = Append(ledger, [owner   |-> request[n].by,
                                       version |-> memory.version,
                                       expires |-> request[n].expires])
       \/ UNCHANGED ledger
    /\ \E nameless \in {<<>>, <<"denied">>} :
          Records(n, nameless \o <<"complete">>)
    /\ UNCHANGED <<now, memory, dropped, delivered>>

-----------------------------------------------------------------------------
(* fetch.                                                                  *)

InLedger(k) == k \in DOMAIN ledger \ dropped

\* The id is none the ledger holds; the expired entry is removed from it; or
\* the entry is another's.
FetchDenied ==
    /\ \E p \in Principals, k \in Results :
          /\ Refuses("fetch", p)
          /\ \/ ~InLedger(k) /\ UNCHANGED dropped
             \/ /\ InLedger(k) /\ ledger[k].expires <= now
                /\ dropped' = dropped \cup {k}
             \/ /\ InLedger(k) /\ ledger[k].expires > now
                /\ ledger[k].owner # p /\ UNCHANGED dropped
    /\ UNCHANGED <<now, memory, ledger, delivered>>

\* Mutant: an expired entry is as good as any.
FetchAny ==
    /\ \E p \in Principals, k \in Results :
          /\ InLedger(k) /\ ledger[k].owner = p
          /\ Opens("fetch", p, "waiting", k, 0)
    /\ UNCHANGED <<now, memory, ledger, dropped, trail, delivered>>

Fetch ==
    /\ \E p \in Principals, k \in Results :
          /\ InLedger(k) /\ ledger[k].expires > now /\ ledger[k].owner = p
          /\ Opens("fetch", p, "waiting", k, 0)
    /\ UNCHANGED <<now, memory, ledger, dropped, trail, delivered>>

Fetched(n) ==
    /\ Waiting(n, "fetch")
    /\ ~memory.quarantined
    /\ memory.version = ledger[request[n].result].version
    /\ Concludes(n, "ok") /\ Records(n, <<"complete">>)
    /\ delivered' = delivered \cup
          {[to |-> request[n].by, result |-> request[n].result,
            version |-> memory.version, time |-> now]}
    /\ UNCHANGED <<now, memory, ledger, dropped>>

Next ==
    \/ Tick \/ MemoryChanges \/ Invalid \/ Search \/ FetchDenied \/ Fetch
    \/ \E n \in Requests :
          SidecarRaises(n) \/ Denied(n) \/ Recalled(n) \/ Fetched(n)

Spec == Init /\ [][Next]_vars

-----------------------------------------------------------------------------
\* remote.py, "fetch_requires_same_subject_session": content is given to who
\* searched for it, as it was then, and not after the result has expired but
\* for the time the sidecar takes to answer, whatever runs in between.
ContentIsBound ==
    \A d \in delivered :
        /\ ledger[d.result].owner = d.to
        /\ ledger[d.result].version = d.version
        /\ d.time < ledger[d.result].expires + Lag

\* A request that was answered has one concluding audit event, which says
\* how; one that raised has none.
ReadsAreAudited ==
    \A n \in DOMAIN request :
        CASE request[n].at = "ok"     -> /\ trail[n] # <<>>
                                         /\ trail[n][Len(trail[n])] = "complete"
          [] request[n].at = "denied" -> trail[n] = <<"denied">>
          [] OTHER                    -> trail[n] = <<>>

\* What a remote read gives away, and what it leaves behind.
ReadsAreBound == ContentIsBound /\ ReadsAreAudited
=============================================================================
