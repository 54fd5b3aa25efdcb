----------------------------- MODULE RestClient -----------------------------
(***************************************************************************)
(* The requests of KSwitchClient: the retries of _request, the HTTP client *)
(* that threads share and re-create, and the bearer token of AuthManager   *)
(* with the token cache of the process.  The coroutines of                 *)
(* KSwitchAsyncClient run the same steps, in fewer orders.                 *)
(*                                                                         *)
(* Tokens are numbered as the token endpoint (external) issues them; the   *)
(* API (external) rejects those before `good`.                             *)
(***************************************************************************)
EXTENDS Integers, FiniteSets

CONSTANTS
    Calls,        \* calls of _request by different threads
    Retries,      \* retries: the attempts a call has
    MaxTokens,    \* bound: tokens issued
    MaxClients    \* bound: HTTP clients created

VARIABLES
    m2m,        \* has_m2m_config
    issued,     \* the newest token
    good,       \* the oldest that the API accepts
    token,      \* AuthManager.token, 0 for None
    cache,      \* the valid entry of _token_cache, 0 for none
    http,       \* KSwitchClient._http, 0 for None
    header,     \* the token each HTTP client sends, 0 for none
    closed,     \* the HTTP clients that are closed
    pc,         \* where each call is
    attempt,    \* its attempts before this one
    hand,       \* the token it has read or fetched and not stored
    own,        \* the HTTP client it sends with
    rejected,   \* the token its last 401 was for, -1 for none
    stale,      \* when it was refreshed, another call had it in hand
    answer      \* how the call ended

service == <<m2m, issued, good>>
auth    == <<token, cache>>
clients == <<http, header, closed>>
tried   == <<rejected, stale>>
vars == <<service, auth, clients, pc, attempt, hand, own, tried, answer>>

Numbers == 0 .. MaxTokens
Clients == 1 .. MaxClients

TypeOK ==
    /\ m2m \in BOOLEAN /\ issued \in Numbers /\ good \in Numbers
    /\ token \in Numbers /\ cache \in Numbers
    /\ http \in {0} \cup Clients /\ closed \subseteq Clients
    /\ header \in [Clients -> -1 .. MaxTokens]
    /\ pc \in [Calls -> {"start", "build", "store", "create", "send", "sent",
                         "clear", "forget", "delete", "refresh", "keep", "close",
                         "closing", "reset", "done"}]
    /\ attempt \in [Calls -> 0 .. Retries]
    /\ hand \in [Calls -> Numbers] /\ own \in [Calls -> {0} \cup Clients]
    /\ rejected \in [Calls -> -1 .. MaxTokens] /\ stale \subseteq Calls
    /\ answer \in [Calls -> {"none", "ok", "failed", "raised"}]

Init ==
    /\ m2m \in BOOLEAN /\ issued = 1 /\ good = 1
    /\ token = (IF m2m THEN 0 ELSE 1)
    /\ cache \in (IF m2m THEN {0, 1} ELSE {0})
    /\ http = 0 /\ closed = {} /\ header = [k \in Clients |-> -1]
    /\ pc = [c \in Calls |-> "start"]
    /\ attempt = [c \in Calls |-> 0]
    /\ hand = [c \in Calls |-> 0] /\ own = [c \in Calls |-> 0]
    /\ rejected = [c \in Calls |-> -1] /\ stale = {}
    /\ answer = [c \in Calls |-> "none"]

Goes(c, from, to) == pc[c] = from /\ pc' = [pc EXCEPT ![c] = to]

Takes(c, t) == hand' = [hand EXCEPT ![c] = t]

Ends(c, from, how) ==
    /\ Goes(c, from, "done")
    /\ answer' = [answer EXCEPT ![c] = how]

\* The API no longer accepts the tokens issued so far.
Revoke ==
    /\ good <= issued /\ issued < MaxTokens
    /\ good' = issued + 1
    /\ UNCHANGED <<m2m, issued, auth, clients, pc, attempt, hand, own, tried,
                   answer>>

-----------------------------------------------------------------------------
(* AuthManager.get_token and fetch_m2m_token.                              *)

\* The call reads the token, the one in the cache, or fetches one; without
\* any, or when the fetch fails, it has none.
GetToken(c) ==
    \/ token # 0 /\ Takes(c, token) /\ UNCHANGED <<issued, cache>>
    \/ /\ token = 0 /\ m2m /\ cache # 0
       /\ Takes(c, cache) /\ UNCHANGED <<issued, cache>>
    \/ /\ token = 0 /\ m2m /\ cache = 0 /\ issued < MaxTokens
       /\ issued' = issued + 1 /\ cache' = issued' /\ Takes(c, issued')
    \/ token = 0 /\ cache = 0 /\ Takes(c, 0) /\ UNCHANGED <<issued, cache>>

\* self.token = token
KeepToken(c) == token' = IF hand[c] = 0 THEN token ELSE hand[c]

-----------------------------------------------------------------------------
(* KSwitchClient._client.                                                  *)

Open(k) == k # 0 /\ k \notin closed

Start(c) ==
    /\ IF Open(http)
       THEN Goes(c, "start", "send") /\ own' = [own EXCEPT ![c] = http]
       ELSE Goes(c, "start", "build") /\ UNCHANGED own
    /\ UNCHANGED <<service, auth, clients, attempt, hand, tried, answer>>

\* _build_headers
Build(c) ==
    /\ Goes(c, "build", "store") /\ GetToken(c)
    /\ UNCHANGED <<m2m, good, token, clients, attempt, own, tried, answer>>

Store(c) ==
    /\ Goes(c, "store", "create") /\ KeepToken(c)
    /\ UNCHANGED <<service, cache, clients, attempt, hand, own, tried, answer>>

\* Another call may have created one meanwhile: it is used by who holds it.
Create(c) ==
    /\ Goes(c, "create", "send")
    /\ \E k \in Clients :
          /\ \A j \in Clients : header[j] = -1 <=> j >= k
          /\ header' = [header EXCEPT ![k] = hand[c]]
          /\ http' = k /\ own' = [own EXCEPT ![c] = k]
    /\ Takes(c, 0)
    /\ UNCHANGED <<service, auth, closed, attempt, tried, answer>>

-----------------------------------------------------------------------------
(* KSwitchClient._request.                                                 *)

Last(c) == attempt[c] = Retries - 1

Again(c, from) ==
    /\ Goes(c, from, "start")
    /\ attempt' = [attempt EXCEPT ![c] = @ + 1]

\* A client that another call has closed raises, and that is not retried.
Send(c) ==
    /\ IF Open(own[c]) THEN Goes(c, "send", "sent") /\ UNCHANGED answer
                       ELSE Ends(c, "send", "raised")
    /\ UNCHANGED <<service, auth, clients, attempt, hand, own, tried>>

Sent(c) == header[own[c]]

Succeeds(c) ==
    /\ Ends(c, "sent", "ok") /\ Sent(c) >= good
    /\ UNCHANGED <<service, auth, clients, attempt, hand, own, tried>>

\* 503, 429, ConnectError, ConnectTimeout and ReadTimeout, but for the last
\* attempt.
Retry(c) ==
    /\ pc[c] = "sent" /\ ~Last(c) /\ Again(c, "sent")
    /\ UNCHANGED <<service, auth, clients, hand, own, tried, answer>>

\* Any other error answer, and what the last attempt meets; a transport error
\* of another kind, such as the client closed while it waits.
Fails(c) ==
    /\ \/ Open(own[c]) /\ Ends(c, "sent", "failed")
       \/ Ends(c, "sent", "raised")
    /\ UNCHANGED <<service, auth, clients, attempt, hand, own, tried>>

\* 401
Rejected(c) ==
    /\ pc[c] = "sent" /\ Sent(c) < good /\ ~Last(c)
    /\ Goes(c, "sent", "clear")
    /\ rejected' = [rejected EXCEPT ![c] = Sent(c)]
    /\ UNCHANGED <<service, auth, clients, attempt, hand, own, stale, answer>>

-----------------------------------------------------------------------------
(* AuthManager.refresh_token and KSwitchClient.close.                      *)

Clear(c) ==
    /\ Goes(c, "clear", "forget")
    /\ token' = 0
    /\ UNCHANGED <<service, cache, clients, attempt, hand, own, tried, answer>>

\* Another call has the rejected token in hand, or has stored it again.
Held(c) == rejected[c] \in {token} \cup {hand[d] : d \in Calls \ {c}}

Noted(c) == stale' = IF Held(c) THEN stale \cup {c} ELSE stale \ {c}

\* Mutant: the cached token is not forgotten.
KeepCache(c) ==
    /\ Goes(c, "forget", "refresh") /\ Noted(c)
    /\ UNCHANGED <<service, auth, clients, attempt, hand, own, rejected, answer>>

LookUp(c) ==
    /\ IF cache = 0 THEN Goes(c, "forget", "refresh") /\ Noted(c)
                    ELSE Goes(c, "forget", "delete") /\ UNCHANGED stale
    /\ UNCHANGED <<service, auth, clients, attempt, hand, own, rejected, answer>>

\* `del _token_cache[...]`: a KeyError if another thread was faster.
Delete(c) ==
    /\ IF cache = 0
       THEN Ends(c, "delete", "raised") /\ UNCHANGED <<cache, stale>>
       ELSE /\ Goes(c, "delete", "refresh") /\ UNCHANGED answer
            /\ cache' = 0 /\ Noted(c)
    /\ UNCHANGED <<service, token, clients, attempt, hand, own, rejected>>

Refresh(c) ==
    /\ Goes(c, "refresh", "keep") /\ GetToken(c)
    /\ UNCHANGED <<m2m, good, token, clients, attempt, own, tried, answer>>

\* Without a new token the 401 is the call's answer.
Keep(c) ==
    /\ KeepToken(c) /\ Takes(c, 0)
    /\ IF hand[c] = 0 THEN Ends(c, "keep", "failed")
                      ELSE Goes(c, "keep", "close") /\ UNCHANGED answer
    /\ UNCHANGED <<service, cache, clients, attempt, own, tried>>

CheckOpen(c) ==
    /\ Goes(c, "close", IF Open(http) THEN "closing" ELSE "reset")
    /\ UNCHANGED <<service, auth, clients, attempt, hand, own, tried, answer>>

\* Whatever client it is by now; an AttributeError if it is None.
Close(c) ==
    /\ IF http = 0
       THEN Ends(c, "closing", "raised") /\ UNCHANGED closed
       ELSE /\ Goes(c, "closing", "reset") /\ UNCHANGED answer
            /\ closed' = closed \cup {http}
    /\ UNCHANGED <<service, auth, http, header, attempt, hand, own, tried>>

Reset(c) ==
    /\ http' = 0 /\ Again(c, "reset")
    /\ UNCHANGED <<service, auth, header, closed, hand, own, tried, answer>>

Next ==
    \/ Revoke
    \/ \E c \in Calls :
          \/ Start(c) \/ Build(c) \/ Store(c) \/ Create(c) \/ Send(c)
          \/ Succeeds(c) \/ Retry(c) \/ Fails(c) \/ Rejected(c)
          \/ Clear(c) \/ LookUp(c) \/ Delete(c) \/ Refresh(c) \/ Keep(c)
          \/ CheckOpen(c) \/ Close(c) \/ Reset(c)

Spec == Init /\ [][Next]_vars

-----------------------------------------------------------------------------
\* client.py, "401 token refresh": the token a 401 was for is not sent again
\* by the call, whatever the others do, unless one of them held it while the
\* call refreshed it.
RetryIsNew ==
    \A c \in Calls :
        pc[c] = "sent" /\ Sent(c) = rejected[c] => Sent(c) = 0 \/ c \in stale
=============================================================================
