------------------------------ MODULE McpToken ------------------------------
(***************************************************************************)
(* The HTTP client of the MCP tools, KSwitchAPIClient of mcp-server/       *)
(* kswitch_mcp/client.py: one object and one token cache for all           *)
(* coroutines, an HTTP client created on first use and re-created after    *)
(* close, and a request that is repeated once after a 401.  What runs      *)
(* between two awaits is one action.                                       *)
(*                                                                         *)
(* Tokens are numbered as the token endpoint issues them, 0 is none; the   *)
(* API accepts the newest only.                                            *)
(***************************************************************************)
EXTENDS Integers, FiniteSets

CONSTANTS
    Calls,       \* the coroutines that call request
    Failures,    \* how the token endpoint fails: "document", "raises"
    MaxTokens,   \* bound: tokens issued
    MaxClients   \* bound: HTTP clients created

VARIABLES
    static,      \* KSWITCH_TOKEN is set
    secret,      \* the client credentials are set
    issued,      \* the newest token
    cache,       \* _token_cache["token"], 0 when empty or about to expire
    client,      \* self._client, 0 for None
    header,      \* the token each HTTP client sends
    closed,      \* the HTTP clients that are closed
    pc,          \* where each call is
    own,         \* the HTTP client it holds
    token,       \* the token its request, or the answer to its fetch, carries
    rejected,    \* the token its first request was rejected with, 0: none
    lent,        \* the calls whose refresh raised and found another's token
    answer       \* how it ended

clientVars == <<client, header, closed, own>>
config     == <<static, secret>>
vars == <<config, issued, cache, clientVars, pc, token, rejected, lent, answer>>

Clients  == 1 .. MaxClients
Static   == 0                 \* the configured token is never the newest
Uncreated == -1

TypeOK ==
    /\ static \in BOOLEAN /\ secret \in BOOLEAN
    /\ issued \in 1 .. MaxTokens /\ cache \in 0 .. MaxTokens
    /\ client \in 0 .. MaxClients
    /\ header \in [Clients -> Uncreated .. MaxTokens]
    /\ closed \subseteq Clients
    /\ pc \in [Calls -> {"idle", "create", "created", "send", "refetch", "refetched", "done"}]
    /\ own \in [Calls -> 0 .. MaxClients]
    /\ token \in [Calls -> 0 .. MaxTokens]
    /\ rejected \in [Calls -> Uncreated .. MaxTokens]
    /\ lent \subseteq Calls
    /\ answer \in [Calls -> {"none", "ok", "unauthorized", "raised"}]

Init ==
    /\ static \in BOOLEAN /\ secret \in BOOLEAN
    /\ issued = 1 /\ cache = 0 /\ client = 0
    /\ header = [k \in Clients |-> Uncreated]
    /\ closed = {}
    /\ pc = [c \in Calls |-> "idle"] /\ own = [c \in Calls |-> 0]
    /\ token = [c \in Calls |-> 0] /\ rejected = [c \in Calls |-> Uncreated]
    /\ lent = {}
    /\ answer = [c \in Calls |-> "none"]

Goto(c, label) == pc' = [pc EXCEPT ![c] = label]

-----------------------------------------------------------------------------
\* The API stops accepting the newest token: it expires, or keys rotate.
Expire ==
    /\ issued < MaxTokens
    /\ issued' = issued + 1
    /\ UNCHANGED <<config, cache, clientVars, pc, token, rejected, lent, answer>>

\* The cached token comes within a minute of its expiry.
CacheExpires ==
    /\ cache # 0 /\ cache' = 0
    /\ UNCHANGED <<config, issued, clientVars, pc, token, rejected, lent, answer>>

\* The request goes out with the token its client sends now.
SendWith(c, t) ==
    /\ token' = [token EXCEPT ![c] = t]
    /\ Goto(c, "send")

\* The new AsyncClient replaces whatever client there is.
NewClient(c, t) ==
    \E k \in Clients :
       /\ header[k] = Uncreated /\ \A j \in 1 .. k - 1 : header[j] # Uncreated
       /\ header' = [header EXCEPT ![k] = t]
       /\ client' = k
       /\ own' = [own EXCEPT ![c] = k]
       /\ SendWith(c, t)

\* _get_client, as far as its first await: the open client, or a new one with
\* the configured token or a cached one; else a token is fetched.
GetClient(c) ==
    /\ pc[c] = "idle"
    /\ \/ /\ client # 0 /\ client \notin closed
          /\ own' = [own EXCEPT ![c] = client]
          /\ SendWith(c, header[client])
          /\ UNCHANGED <<client, header>>
       \/ /\ client = 0 /\ (static \/ cache # 0 \/ ~secret)
          /\ NewClient(c, IF static THEN Static ELSE cache)
       \/ /\ client = 0 /\ ~static /\ secret /\ cache = 0
          /\ Goto(c, "create")
          /\ UNCHANGED <<client, header, own, token>>
    /\ UNCHANGED <<config, issued, cache, closed, rejected, lent, answer>>

\* The token endpoint answers _fetch_m2m_token.
EndpointAnswers(c) ==
    /\ pc[c] \in {"create", "refetch"}
    /\ \/ token' = [token EXCEPT ![c] = issued]
       \/ "document" \in Failures /\ token' = [token EXCEPT ![c] = 0]
    /\ Goto(c, IF pc[c] = "create" THEN "created" ELSE "refetched")
    /\ UNCHANGED <<config, issued, cache, clientVars, rejected, lent, answer>>

\* What the answer leaves in the cache; after an exception that is what
\* another coroutine has put there meanwhile.
Fetched(c) ==
    \/ cache' = token[c]
    \/ "raises" \in Failures /\ cache' = cache

\* _get_client goes on, with a new client.
ClientCreated(c) ==
    /\ pc[c] = "created"
    /\ Fetched(c)
    /\ NewClient(c, cache')
    /\ UNCHANGED <<config, issued, closed, rejected, lent, answer>>

Ends(c, how) ==
    /\ answer' = [answer EXCEPT ![c] = how]
    /\ Goto(c, "done")

\* Mutant: the cache is not emptied, so the refresh returns what it holds.
RejectedCached(c) ==
    /\ rejected' = [rejected EXCEPT ![c] = token[c]]
    /\ \/ /\ cache # 0 /\ SendWith(c, cache)
          /\ header' = [header EXCEPT ![own[c]] = cache]
       \/ /\ cache = 0 /\ Goto(c, "refetch") /\ UNCHANGED <<header, token>>
    /\ UNCHANGED <<cache, answer>>

\* A first 401 empties the cache, whoever filled it, and asks for a token;
\* without client credentials there is none, and the 401 is the answer.
Rejected(c) ==
    /\ rejected' = [rejected EXCEPT ![c] = token[c]]
    /\ cache' = 0
    /\ \/ secret /\ Goto(c, "refetch") /\ UNCHANGED answer
       \/ ~secret /\ Ends(c, "unauthorized")
    /\ UNCHANGED <<header, token>>

\* The API answers; a client that was closed under the request raises.
Answered(c) ==
    /\ pc[c] = "send"
    /\ \/ /\ own[c] \notin closed /\ token[c] = issued
          /\ Ends(c, "ok")
          /\ UNCHANGED <<cache, header, token, rejected>>
       \/ /\ own[c] \notin closed /\ token[c] # issued
          /\ \/ rejected[c] = Uncreated /\ Rejected(c)
             \/ /\ rejected[c] # Uncreated /\ Ends(c, "unauthorized")
                /\ UNCHANGED <<cache, header, token, rejected>>
       \/ /\ own[c] \in closed /\ Ends(c, "raised")
          /\ UNCHANGED <<cache, header, token, rejected>>
    /\ UNCHANGED <<config, issued, client, closed, own, lent>>

\* The refresh has a token: its client sends it from now on, for every
\* coroutine that holds it.  Without one there is no second request.
Refetched(c) ==
    /\ pc[c] = "refetched"
    /\ \/ cache' = token[c] /\ UNCHANGED lent
       \/ "raises" \in Failures /\ cache' = cache /\ lent' = lent \cup {c}
    /\ \/ /\ cache' # 0
          /\ header' = [header EXCEPT ![own[c]] = cache']
          /\ SendWith(c, cache')
          /\ UNCHANGED answer
       \/ /\ cache' = 0
          /\ Ends(c, "unauthorized")
          /\ UNCHANGED <<header, token>>
    /\ UNCHANGED <<config, issued, client, closed, own, rejected>>

\* close
Close ==
    /\ client # 0
    /\ closed' = closed \cup {client}
    /\ client' = 0
    /\ UNCHANGED <<config, issued, cache, header, own, pc, token, rejected, lent, answer>>

Next ==
    \/ Expire \/ CacheExpires \/ Close
    \/ \E c \in Calls : \/ GetClient(c) \/ EndpointAnswers(c) \/ ClientCreated(c)
                        \/ Answered(c) \/ Refetched(c)

Spec == Init /\ [][Next]_vars

-----------------------------------------------------------------------------
\* Whatever the other coroutines do to the shared cache and client, a request
\* is not repeated with the token it was rejected with - unless its own refresh
\* raised and another's token was at hand - and one that ends as unauthorized
\* was rejected, for good reason: the token it was repeated with has expired
\* since, or none could be had.
RetryIsNew ==
    \A c \in Calls \ lent :
        /\ pc[c] = "send" /\ rejected[c] # Uncreated => token[c] > rejected[c]
        /\ answer[c] = "unauthorized" => token[c] < issued /\ rejected[c] # Uncreated
=============================================================================
