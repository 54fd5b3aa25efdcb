----------------------------- MODULE McpProofs ------------------------------
(***************************************************************************)
(* What the MCP servers promise, for any number of calls, threads, pullers *)
(* and upstreams, and any bounds: the inductive invariant of each          *)
(* component, and at the end the theorems about a behaviour of any.        *)
(***************************************************************************)
EXTENDS Mcp, FiniteSetTheorems, SequenceTheorems, TLAPS

-----------------------------------------------------------------------------
(* The token client.  A token fetched after a rejection is newer than the  *)
(* rejected one, so what a call sends the second time is.                  *)
TokenBounds == MaxTokens \in Nat \ {0} /\ MaxClients \in Nat

\* Nothing carries a token that was not issued yet; the client in use has been
\* created.
TokensAreIssued ==
    /\ cache <= issued
    /\ \A k \in Token!Clients : header[k] <= issued
    /\ \A c \in Actors : token[c] <= issued /\ rejected[c] <= issued
    /\ client # 0 => header[client] # Token!Uncreated

\* A call fetches a token anew only after a rejection, and while it does, the
\* API accepts a later one than that it was rejected with.
FetchedIsNewer ==
    \A c \in Actors :
        /\ tokenPc[c] \in {"idle", "create", "created"}
             => rejected[c] = Token!Uncreated
        /\ tokenPc[c] = "refetch" => rejected[c] # Token!Uncreated
             /\ rejected[c] < issued
        /\ tokenPc[c] = "refetched" =>
             rejected[c] # Token!Uncreated
                 /\ (token[c] = 0 \/ token[c] > rejected[c])
        /\ answer[c] = "unauthorized" => tokenPc[c] = "done"

TokenInv == Token!TypeOK /\ TokensAreIssued /\ FetchedIsNewer
    /\ Token!RetryIsNew

LEMMA TokenInit == ASSUME TokenBounds, Token!Init PROVE TokenInv
<1> USE DEF TokenBounds, Token!Init, Token!Clients, Token!Uncreated
<1>1. Token!TypeOK
  BY DEF Token!TypeOK
<1>2. TokensAreIssued
  BY DEF TokensAreIssued
<1>3. FetchedIsNewer /\ Token!RetryIsNew
  BY DEF FetchedIsNewer, Token!RetryIsNew
<1> QED
  BY <1>1, <1>2, <1>3 DEF TokenInv

\* NewClient: the new client sends the token it was created with.
LEMMA NewClientSends ==
    ASSUME TokenBounds, Token!TypeOK, NEW c \in Actors, NEW t \in 0 .. issued,
        Token!NewClient(c, t)
    PROVE  /\ header' \in [Token!Clients -> Token!Uncreated .. MaxTokens]
           /\ client' \in Token!Clients /\ own' \in [Actors -> 0 .. MaxClients]
           /\ header'[client'] = t
           /\ \A k \in Token!Clients : header'[k] \in {header[k], t}
           /\ token' = [token EXCEPT ![c] = t]
           /\ tokenPc' = [tokenPc EXCEPT ![c] = "send"]
<1>1. PICK k \in Token!Clients :
        /\ header' = [header EXCEPT ![k] = t] /\ client' = k
        /\ own' = [own EXCEPT ![c] = k] /\ Token!SendWith(c, t)
  BY DEF Token!NewClient
<1> QED
  BY <1>1 DEF TokenBounds, Token!TypeOK, Token!SendWith, Token!Goto,
     Token!Clients, Token!Uncreated

LEMMA TokenStep == ASSUME TokenBounds, TokenInv, [Token!Next]_(Token!vars)
PROVE TokenInv'
<1> USE DEF TokenInv, TokenBounds, Token!clientVars, Token!config
<1> DEFINE Kept == Token!TypeOK' /\ TokensAreIssued' /\ FetchedIsNewer'
          /\ Token!RetryIsNew'
<1>1. CASE Token!Expire \/ Token!CacheExpires \/ Token!Close
            \/ UNCHANGED Token!vars
  <2>1. issued' >= issued /\ issued' \in 1 .. MaxTokens
    BY <1>1 DEF Token!Expire, Token!CacheExpires, Token!Close, Token!vars,
       Token!TypeOK
  <2>2. UNCHANGED <<static, secret, header, own, tokenPc, token, rejected, lent,
              answer>>
    BY <1>1 DEF Token!Expire, Token!CacheExpires, Token!Close, Token!vars
  <2>0. client # 0 => client \in Token!Clients
    BY DEF Token!TypeOK, Token!Clients
  <2>3. cache' \in {0, cache} /\ client' \in {0, client}
              /\ closed' \subseteq Token!Clients
    BY <1>1, <2>0 DEF Token!Expire, Token!CacheExpires, Token!Close,
       Token!vars, Token!TypeOK
  <2>4. Token!TypeOK' /\ TokensAreIssued'
    BY <2>1, <2>2, <2>3 DEF Token!TypeOK, TokensAreIssued, Token!Clients,
       Token!Uncreated
  <2>5. FetchedIsNewer' /\ Token!RetryIsNew'
    BY <2>1, <2>2 DEF Token!TypeOK, FetchedIsNewer, Token!RetryIsNew,
       Token!Uncreated
  <2> QED
    BY <2>4, <2>5
<1>2. ASSUME NEW c \in Actors, Token!GetClient(c) PROVE Kept
  <2>1. CASE client # 0 /\ own' = [own EXCEPT ![c] = client]
             /\ Token!SendWith(c, header[client]) /\ UNCHANGED <<client,
                  header>>
    <3>1. header[client] \in 0 .. issued /\ tokenPc[c] = "idle"
                /\ rejected[c] = Token!Uncreated
      BY <1>2, <2>1 DEF Token!GetClient, Token!TypeOK, TokensAreIssued,
         FetchedIsNewer, Token!Clients, Token!Uncreated
    <3>2. Token!TypeOK' /\ TokensAreIssued'
      BY <1>2, <2>1, <3>1 DEF Token!GetClient, Token!SendWith, Token!Goto,
         Token!TypeOK, TokensAreIssued, Token!Clients, Token!Uncreated
    <3>3. FetchedIsNewer' /\ Token!RetryIsNew'
      BY <1>2, <2>1, <3>1 DEF Token!GetClient, Token!SendWith, Token!Goto,
         Token!TypeOK, FetchedIsNewer, Token!RetryIsNew, Token!Uncreated
    <3> QED
      BY <3>2, <3>3
  <2>2. ASSUME NEW t \in {Token!Static, cache}, Token!NewClient(c, t) PROVE Kept
    <3>1. t \in 0 .. issued /\ tokenPc[c] = "idle"
                /\ rejected[c] = Token!Uncreated
      BY <1>2, <2>2 DEF Token!GetClient, Token!TypeOK, TokensAreIssued,
         FetchedIsNewer, Token!Static
    <3>4. /\ header' \in [Token!Clients -> Token!Uncreated .. MaxTokens]
          /\ client' \in Token!Clients /\ own' \in [Actors -> 0 .. MaxClients]
          /\ header'[client'] = t
          /\ \A k \in Token!Clients : header'[k] \in {header[k], t}
          /\ token' = [token EXCEPT ![c] = t]
          /\ tokenPc' = [tokenPc EXCEPT ![c] = "send"]
      BY <2>2, <3>1, NewClientSends
    <3>5. Token!TypeOK'
      BY <1>2, <3>1, <3>4 DEF Token!GetClient, Token!TypeOK, Token!Clients
    <3>2. Token!TypeOK' /\ TokensAreIssued'
      BY <1>2, <3>1, <3>4, <3>5 DEF Token!GetClient, Token!TypeOK,
         TokensAreIssued, Token!Uncreated
    <3>3. FetchedIsNewer' /\ Token!RetryIsNew'
      BY <1>2, <2>2, <3>1, NewClientSends DEF Token!GetClient, Token!TypeOK,
         FetchedIsNewer, Token!RetryIsNew, Token!Uncreated
    <3> QED
      BY <3>2, <3>3
  <2>3. CASE Token!Goto(c, "create") /\ UNCHANGED <<client, header, own, token>>
    <3>1. Token!TypeOK' /\ TokensAreIssued'
      BY <1>2, <2>3 DEF Token!GetClient, Token!Goto, Token!TypeOK,
         TokensAreIssued
    <3>2. FetchedIsNewer' /\ Token!RetryIsNew'
      BY <1>2, <2>3 DEF Token!GetClient, Token!Goto, Token!TypeOK,
         FetchedIsNewer, Token!RetryIsNew
    <3> QED
      BY <3>1, <3>2
  <2> QED
    BY <1>2, <2>1, <2>2, <2>3 DEF Token!GetClient
<1>3. ASSUME NEW c \in Actors, Token!EndpointAnswers(c) PROVE Kept
  <2>1. PICK t \in {0, issued} : token' = [token EXCEPT ![c] = t]
    BY <1>3 DEF Token!EndpointAnswers
  <2>2. Token!TypeOK' /\ TokensAreIssued'
    BY <1>3, <2>1 DEF Token!EndpointAnswers, Token!Goto, Token!TypeOK,
       TokensAreIssued
  <2>3. FetchedIsNewer' /\ Token!RetryIsNew'
    BY <1>3, <2>1 DEF Token!EndpointAnswers, Token!Goto, Token!TypeOK,
       FetchedIsNewer, Token!RetryIsNew
  <2> QED
    BY <2>2, <2>3
<1>4. ASSUME NEW c \in Actors, Token!ClientCreated(c) PROVE Kept
  <2>1. cache' \in 0 .. issued /\ tokenPc[c] = "created"
              /\ rejected[c] = Token!Uncreated
    BY <1>4 DEF Token!ClientCreated, Token!Fetched, Token!TypeOK,
       TokensAreIssued, FetchedIsNewer
  <2>2. Token!NewClient(c, cache')
    BY <1>4 DEF Token!ClientCreated
  <2>5. /\ header' \in [Token!Clients -> Token!Uncreated .. MaxTokens]
        /\ client' \in Token!Clients /\ own' \in [Actors -> 0 .. MaxClients]
        /\ header'[client'] = cache'
        /\ \A k \in Token!Clients : header'[k] \in {header[k], cache'}
        /\ token' = [token EXCEPT ![c] = cache']
        /\ tokenPc' = [tokenPc EXCEPT ![c] = "send"]
    BY <2>1, <2>2, NewClientSends
  <2>6. Token!TypeOK'
    BY <1>4, <2>1, <2>5 DEF Token!ClientCreated, Token!TypeOK, Token!Clients
  <2>3. Token!TypeOK' /\ TokensAreIssued'
    BY <1>4, <2>1, <2>5, <2>6 DEF Token!ClientCreated, Token!TypeOK,
       TokensAreIssued, Token!Uncreated
  <2>4. FetchedIsNewer' /\ Token!RetryIsNew'
    BY <1>4, <2>1, <2>2, NewClientSends DEF Token!ClientCreated, Token!TypeOK,
       FetchedIsNewer, Token!RetryIsNew, Token!Uncreated
  <2> QED
    BY <2>3, <2>4
<1>5. ASSUME NEW c \in Actors, Token!Answered(c) PROVE Kept
  <2>1. CASE rejected[c] = Token!Uncreated /\ Token!Rejected(c)
              /\ token[c] # issued
    <3>3. /\ token[c] \in Token!Uncreated .. MaxTokens /\ cache' = 0
          /\ rejected' = [rejected EXCEPT ![c] = token[c]]
          /\ tokenPc' \in {[tokenPc EXCEPT ![c] = "refetch"],
               [tokenPc EXCEPT ![c] = "done"]}
          /\ answer' \in {answer, [answer EXCEPT ![c] = "unauthorized"]}
          /\ UNCHANGED <<static, secret, issued, client, header, closed, own,
               token, lent>>
      BY <1>5, <2>1 DEF Token!Answered, Token!Rejected, Token!Ends,
         Token!Goto, Token!TypeOK, Token!Uncreated
    <3>4. Token!TypeOK'
      BY <3>3 DEF Token!TypeOK
    <3>5. TokensAreIssued'
      BY <3>3 DEF Token!TypeOK, TokensAreIssued
    <3>1. Token!TypeOK' /\ TokensAreIssued'
      BY <3>4, <3>5
    <3>2. FetchedIsNewer' /\ Token!RetryIsNew'
      BY <1>5, <2>1 DEF Token!Answered, Token!Rejected, Token!Ends,
         Token!Goto, Token!TypeOK, TokensAreIssued, FetchedIsNewer,
         Token!RetryIsNew, Token!Uncreated
    <3> QED
      BY <3>1, <3>2
  <2>2. CASE \E how \in {"ok", "unauthorized", "raised"} :
                /\ Token!Ends(c, how) /\ UNCHANGED <<cache, header, token,
                     rejected>>
                /\ how = "unauthorized" => rejected[c] # Token!Uncreated
                     /\ token[c] # issued
    <3>1. Token!TypeOK' /\ TokensAreIssued'
      BY <1>5, <2>2 DEF Token!Answered, Token!Ends, Token!Goto, Token!TypeOK,
         TokensAreIssued
    <3>2. FetchedIsNewer' /\ Token!RetryIsNew'
      BY <1>5, <2>2 DEF Token!Answered, Token!Ends, Token!Goto, Token!TypeOK,
         TokensAreIssued, FetchedIsNewer, Token!RetryIsNew
    <3> QED
      BY <3>1, <3>2
  <2> QED
    BY <1>5, <2>1, <2>2 DEF Token!Answered
<1>6. ASSUME NEW c \in Actors, Token!Refetched(c) PROVE Kept
  <2>1. /\ cache' \in 0 .. issued /\ tokenPc[c] = "refetched"
        /\ c \notin lent' => cache' = token[c]
        /\ lent \subseteq lent' /\ lent' \subseteq Actors
    BY <1>6 DEF Token!Refetched, Token!TypeOK, TokensAreIssued
  <2>2. CASE cache' # 0
    <3>1. /\ header' = [header EXCEPT ![own[c]] = cache']
          /\ token' = [token EXCEPT ![c] = cache']
          /\ tokenPc' = [tokenPc EXCEPT ![c] = "send"] /\ UNCHANGED answer
      BY <1>6, <2>2 DEF Token!Refetched, Token!SendWith, Token!Goto
    <3>4. UNCHANGED <<static, secret, issued, client, closed, own, rejected>>
      BY <1>6 DEF Token!Refetched
    <3>9. cache' \in 1 .. MaxTokens /\ cache' <= issued
      BY <2>1, <2>2 DEF Token!TypeOK
    <3>5. header' \in [Token!Clients -> Token!Uncreated .. MaxTokens]
      <4>1. cache' \in Token!Uncreated .. MaxTokens
        BY <3>9 DEF Token!Uncreated
      <4>2. header \in [Token!Clients -> Token!Uncreated .. MaxTokens]
        BY DEF Token!TypeOK
      <4> QED
        BY <4>1, <4>2, <3>1
    <3>6. Token!TypeOK'
      BY <2>1, <3>1, <3>4, <3>5, <3>9 DEF Token!TypeOK
    <3>7. \A k \in Token!Clients : header'[k] \in {header[k], cache'}
      BY <3>1 DEF Token!TypeOK
    <3>8. TokensAreIssued'
      <4>1. client # 0 => client \in Token!Clients
        BY DEF Token!TypeOK, Token!Clients
      <4> QED
        BY <4>1, <3>1, <3>4, <3>7, <3>9 DEF Token!TypeOK, TokensAreIssued,
           Token!Uncreated
    <3>2. Token!TypeOK' /\ TokensAreIssued'
      BY <3>6, <3>8
    <3>3. FetchedIsNewer' /\ Token!RetryIsNew'
      BY <1>6, <2>1, <2>2, <3>1 DEF Token!Refetched, Token!TypeOK,
         FetchedIsNewer, Token!RetryIsNew
    <3> QED
      BY <3>2, <3>3
  <2>3. CASE cache' = 0
    <3>1. Token!TypeOK' /\ TokensAreIssued'
      BY <1>6, <2>1, <2>3 DEF Token!Refetched, Token!Ends, Token!Goto,
         Token!TypeOK, TokensAreIssued
    <3>2. FetchedIsNewer' /\ Token!RetryIsNew'
      BY <1>6, <2>1, <2>3 DEF Token!Refetched, Token!Ends, Token!Goto,
         Token!TypeOK, FetchedIsNewer, Token!RetryIsNew
    <3> QED
      BY <3>1, <3>2
  <2> QED
    BY <2>2, <2>3
<1> QED
  BY <1>1, <1>2, <1>3, <1>4, <1>5, <1>6 DEF Token!Next

-----------------------------------------------------------------------------
(* The policy bundle.  The bundle in force is what the file would give, as *)
(* long as no load is overtaken and no write fails.                        *)
PolicyBounds == MaxAge \in Nat /\ MaxVersion \in Nat /\ MaxDay \in Nat

InForce(b, content, day) ==
    \/ b = Bundle!Accepted(content, day)
    \/ b = content /\ b.waivable /\ Bundle!IsStale(b, day)

\* A load that has read the file since it was last written holds what the file
\* would give.
LoadIsCurrent(p) ==
    ~spoiled /\ bundlePc[p] = "install" /\ p \notin outdated
        => InForce(body[p], disk, today)

\* A pull that has yet to load, or holds what it read of the file as it is,
\* will put it in force; without one it is in force.
DiskIsInForce ==
    /\ ~spoiled /\ ~raced
    /\ \A p \in Actors : bundlePc[p] \in {"idle", "write"} \/ p \in outdated
    => InForce(bundle, disk, today)

OnlyVerified ==
    /\ bundle # Bundle!NoBundle => Bundle!Verified(bundle)
    /\ \A p \in Actors : bundlePc[p] = "install" /\ body[p] # Bundle!NoBundle
                            => Bundle!Verified(body[p])

PolicyInv ==
    /\ Bundle!TypeOK /\ OnlyVerified /\ DiskIsInForce
    /\ \A p \in Actors : LoadIsCurrent(p)

LEMMA PolicyImplies == ASSUME PolicyInv PROVE Bundle!PolicySurvivesRestart
  BY DEF PolicyInv, Bundle!PolicySurvivesRestart, OnlyVerified, DiskIsInForce,
     InForce, Bundle!Quiet

\* What a file or a variable may hold has readable dates, or says that it has
\* none.
LEMMA BundlesHaveDates ==
    ASSUME PolicyBounds, NEW b \in Bundle!Bodies \cup Bundle!Unparsed
    PROVE  b.issued \in Int /\ b.expires \in Int /\ b.waivable \in BOOLEAN
        /\ b.verifies \in BOOLEAN
<1>1. CASE b \in Bundle!Bundles
  BY <1>1 DEF PolicyBounds, Bundle!Bundles, Bundle!Days, Bundle!Unreadable,
     Bundle!Absent
<1>2. CASE b = Bundle!NoBundle
  BY <1>2 DEF Bundle!NoBundle
<1>3. CASE b = Bundle!Empty
  BY <1>3 DEF Bundle!NoBundle, Bundle!Empty
<1>4. CASE b = Bundle!Mixed
  BY <1>4 DEF Bundle!NoBundle, Bundle!Mixed
<1>5. CASE b = Bundle!Foreign
  BY <1>5 DEF Bundle!NoBundle, Bundle!Foreign, Bundle!Unreadable,
     Bundle!Absent
<1> QED
  BY <1>1, <1>2, <1>3, <1>5, <1>4 DEF Bundle!Bodies, Bundle!Unparsed

\* A stale bundle stays so.
LEMMA StaleStaysStale ==
    ASSUME PolicyBounds, NEW b \in Bundle!Bodies \cup Bundle!Unparsed,
           NEW day \in Bundle!Days, Bundle!IsStale(b, day)
    PROVE  Bundle!IsStale(b, day + 1)
  BY BundlesHaveDates DEF Bundle!IsStale, PolicyBounds, Bundle!Days

\* What is in force for a file stays so for a day.
LEMMA InForceTomorrow ==
    ASSUME PolicyBounds, NEW b \in Bundle!Bodies \cup {Bundle!NoBundle},
           NEW content \in Bundle!Bodies \cup Bundle!Unparsed,
           NEW day \in Bundle!Days, InForce(b, content, day)
    PROVE  InForce(b, content, day + 1)
<1>1. CASE b = content /\ b.waivable /\ Bundle!IsStale(b, day)
  BY <1>1, StaleStaysStale DEF InForce
<1>2. CASE b = Bundle!Accepted(content, day)
  <2>1. CASE content \in Bundle!Unparsed \/ ~Bundle!Verified(content)
    BY <1>2, <2>1 DEF InForce, Bundle!Accepted
  <2>2. CASE Bundle!IsStale(content, day)
    BY <1>2, <2>1, <2>2, StaleStaysStale DEF InForce, Bundle!Accepted
  <2>3. CASE content \notin Bundle!Unparsed /\ Bundle!Verified(content)
              /\ ~Bundle!IsStale(content, day)
    <3>1. b = content /\ content.waivable \in BOOLEAN
      BY <1>2, <2>3, BundlesHaveDates DEF Bundle!Accepted
    <3> QED
      BY <2>3, <3>1 DEF InForce, Bundle!Accepted
  <2> QED
    BY <2>1, <2>2, <2>3
<1> QED
  BY <1>1, <1>2 DEF InForce

\* What load accepts of the file is a bundle that verifies, or none, and is in
\* force for it.
LEMMA AcceptedIsInForce ==
    ASSUME Bundle!TypeOK
    PROVE  LET b == Bundle!Accepted(disk, today)
           IN  /\ b \in Bundle!Bodies \cup {Bundle!NoBundle}
               /\ b # Bundle!NoBundle => Bundle!Verified(b)
               /\ InForce(b, disk, today)
<1>1. disk \in Bundle!Bodies \/ disk \in Bundle!Unparsed
  BY DEF Bundle!TypeOK
<1> QED
  BY <1>1 DEF Bundle!Accepted, InForce

LEMMA PolicyInit == ASSUME PolicyBounds, Bundle!Init PROVE PolicyInv
<1>1. Bundle!TypeOK
  <2>1. 0 \in Bundle!Days
    BY DEF Bundle!Days, PolicyBounds
  <2>2. Bundle!NoBundle \in Bundle!Unparsed
    BY DEF Bundle!Unparsed
  <2> QED
    BY <2>1, <2>2 DEF Bundle!Init, Bundle!TypeOK
<1>2. OnlyVerified /\ DiskIsInForce
  BY DEF Bundle!Init, OnlyVerified, DiskIsInForce, InForce, Bundle!Accepted,
     Bundle!Unparsed
<1>3. \A p \in Actors : LoadIsCurrent(p)
  BY DEF Bundle!Init, LoadIsCurrent
<1> QED
  BY <1>1, <1>2, <1>3 DEF PolicyInv

\* The names of the parts of a bundle's file and date; they do not change in a
\* step that leaves these alone.
LEMMA SameFile ==
    ASSUME NEW b, UNCHANGED <<disk, today>>, InForce(b, disk, today)
    PROVE  InForce(b, disk', today')
  OBVIOUS

LEMMA PolicyStep == ASSUME PolicyBounds, PolicyInv,
    [Bundle!Next]_(Bundle!vars) PROVE PolicyInv'
<1> USE DEF PolicyInv
<1> DEFINE Current == \A p \in Actors : LoadIsCurrent(p)
<1> DEFINE Kept == Bundle!TypeOK' /\ OnlyVerified' /\ DiskIsInForce' /\ Current'
<1>1. CASE Bundle!Tick
  <2>1. today \in Bundle!Days /\ today' = today + 1 /\ today' \in Bundle!Days
        /\ UNCHANGED <<published, disk, bundle, bundlePc, body, outdated,
                       raced, spoiled>>
    BY <1>1 DEF PolicyBounds, Bundle!Tick, Bundle!TypeOK, Bundle!Days
  <2>2. Bundle!TypeOK' /\ OnlyVerified'
    BY <2>1 DEF Bundle!TypeOK, OnlyVerified, Bundle!Verified
  <2>3. /\ disk \in Bundle!Bodies \cup Bundle!Unparsed
        /\ bundle \in Bundle!Bodies \cup {Bundle!NoBundle}
        /\ \A p \in Actors : body[p] \in Bundle!Bodies \cup {Bundle!NoBundle}
    BY DEF Bundle!TypeOK
  <2>4. ASSUME NEW b \in Bundle!Bodies \cup {Bundle!NoBundle},
               InForce(b, disk, today)
        PROVE  InForce(b, disk', today')
    BY <2>1, <2>3, <2>4, InForceTomorrow
  <2>5. DiskIsInForce'
    BY <2>1, <2>3, <2>4 DEF DiskIsInForce
  <2>6. Current'
    BY <2>1, <2>3, <2>4 DEF LoadIsCurrent
  <2> QED
    BY <2>2, <2>5, <2>6
<1>2. CASE Bundle!Publish \/ UNCHANGED Bundle!vars
  <2>1. published' \in Bundle!Bundles \cup {Bundle!NoBundle}
    BY <1>2 DEF Bundle!Publish, Bundle!vars, Bundle!TypeOK
  <2>2. UNCHANGED <<today, disk, bundle, bundlePc, body, outdated, raced,
                    spoiled>>
    BY <1>2 DEF Bundle!Publish, Bundle!vars
  <2> QED
    BY <2>1, <2>2 DEF Bundle!TypeOK, OnlyVerified, DiskIsInForce, InForce,
       LoadIsCurrent, Bundle!Accepted, Bundle!IsStale, Bundle!Verified
<1>3. ASSUME NEW p \in Actors, Bundle!Fetch(p) PROVE Kept
  <2>1. /\ bundlePc[p] = "idle" /\ bundlePc' = [bundlePc EXCEPT ![p] = "write"]
        /\ \E b \in Bundle!Bodies : body' = [body EXCEPT ![p] = b]
        /\ UNCHANGED <<today, published, disk, bundle, outdated, raced,
                       spoiled>>
    BY <1>3 DEF Bundle!Fetch, Bundle!Goto, Bundle!TypeOK, Bundle!Bodies
  <2>2. Bundle!TypeOK'
    BY <2>1 DEF Bundle!TypeOK
  <2>3. \A q \in Actors : q # p
           => bundlePc'[q] = bundlePc[q] /\ body'[q] = body[q]
    BY <2>1 DEF Bundle!TypeOK
  <2>4. bundlePc'[p] = "write"
    BY <2>1 DEF Bundle!TypeOK
  <2>5. OnlyVerified'
    BY <2>1, <2>3, <2>4 DEF OnlyVerified, Bundle!Verified
  <2>6. DiskIsInForce'
    BY <2>1, <2>3, SameFile DEF DiskIsInForce
  <2>7. Current'
    BY <2>1, <2>3, <2>4, SameFile DEF LoadIsCurrent
  <2> QED
    BY <2>2, <2>5, <2>6, <2>7
<1>4. ASSUME NEW p \in Actors, Bundle!WriteBegins(p) \/ Bundle!WriteEnds(p)
      PROVE  Kept
  <2>1. /\ bundlePc[p] \in {"write", "finish"}
        /\ \E label \in {"finish", "load"} : bundlePc' = [bundlePc EXCEPT ![p] = label]
        /\ outdated' = {q \in Actors : bundlePc[q] = "install"}
        /\ UNCHANGED <<today, published, bundle, body, raced>>
    BY <1>4 DEF Bundle!WriteBegins, Bundle!WriteEnds, Bundle!Goto,
       Bundle!Overtakes
  <2>2. disk' \in Bundle!Bodies \cup Bundle!Unparsed /\ spoiled' \in BOOLEAN
    BY <1>4 DEF Bundle!WriteBegins, Bundle!WriteEnds, Bundle!TypeOK,
       Bundle!Unparsed
  <2>3. \A q \in Actors : q # p => bundlePc'[q] = bundlePc[q]
    BY <2>1 DEF Bundle!TypeOK
  <2>4. bundlePc'[p] \in {"finish", "load"}
    BY <2>1 DEF Bundle!TypeOK
  <2>5. outdated' = {q \in Actors : bundlePc'[q] = "install"}
    BY <2>1, <2>3, <2>4
  <2>6. Bundle!TypeOK'
    BY <2>1, <2>2, <2>5 DEF Bundle!TypeOK
  <2>7. OnlyVerified'
    BY <2>1, <2>3, <2>4 DEF OnlyVerified, Bundle!Verified
  <2>8. DiskIsInForce'
    BY <2>4, <2>5 DEF DiskIsInForce
  <2>9. Current'
    BY <2>5 DEF LoadIsCurrent
  <2> QED
    BY <2>6, <2>7, <2>8, <2>9
<1>5. ASSUME NEW p \in Actors, Bundle!WriteFails(p) PROVE Kept
  <2>1. /\ bundlePc[p] # "install" /\ spoiled' = TRUE
        /\ disk' \in {disk, Bundle!Mixed}
        /\ bundlePc' = [bundlePc EXCEPT ![p] = "idle"]
        /\ body' = [body EXCEPT ![p] = Bundle!NoBundle]
        /\ UNCHANGED <<today, published, bundle, outdated, raced>>
    BY <1>5 DEF Bundle!WriteFails, Bundle!Goto
  <2>2. \A q \in Actors : bundlePc'[q] = "install"
           => bundlePc[q] = "install" /\ body'[q] = body[q]
    BY <2>1 DEF Bundle!TypeOK
  <2>3. \A q \in Actors : bundlePc[q] = "install" => bundlePc'[q] = "install"
    BY <2>1 DEF Bundle!TypeOK
  <2>4. Bundle!TypeOK'
    BY <2>1, <2>3 DEF Bundle!TypeOK, Bundle!Unparsed
  <2>5. OnlyVerified'
    BY <2>1, <2>2 DEF OnlyVerified, Bundle!Verified
  <2> QED
    BY <2>1, <2>4, <2>5 DEF DiskIsInForce, LoadIsCurrent
<1>6. ASSUME NEW p \in Actors, Bundle!LoadReads(p) PROVE Kept
  <2> DEFINE b == Bundle!Accepted(disk, today)
  <2>1. /\ bundlePc[p] = "load"
        /\ bundlePc' = [bundlePc EXCEPT ![p] = "install"]
        /\ body' = [body EXCEPT ![p] = b]
        /\ UNCHANGED <<today, published, disk, bundle, outdated, raced,
                       spoiled>>
    BY <1>6 DEF Bundle!LoadReads, Bundle!Goto
  <2>2. /\ b \in Bundle!Bodies \cup {Bundle!NoBundle}
        /\ b # Bundle!NoBundle => Bundle!Verified(b)
        /\ InForce(b, disk, today)
    BY AcceptedIsInForce
  <2> HIDE DEF b
  <2>3. /\ bundlePc'[p] = "install" /\ body'[p] = b /\ p \notin outdated
        /\ \A q \in Actors : q # p
              => bundlePc'[q] = bundlePc[q] /\ body'[q] = body[q]
    BY <2>1 DEF Bundle!TypeOK
  <2>4. Bundle!TypeOK'
    BY <2>1, <2>2, <2>3 DEF Bundle!TypeOK
  <2>5. OnlyVerified'
    BY <2>1, <2>2, <2>3 DEF OnlyVerified, Bundle!Verified
  <2>6. DiskIsInForce'
    BY <2>1, <2>3 DEF DiskIsInForce
  <2>7. Current'
    BY <2>1, <2>2, <2>3, SameFile DEF LoadIsCurrent
  <2> QED
    BY <2>4, <2>5, <2>6, <2>7
<1>7. ASSUME NEW p \in Actors, Bundle!LoadInstalls(p) PROVE Kept
  <2>1. /\ bundlePc[p] = "install" /\ bundle' = body[p]
        /\ raced' = (p \in outdated) /\ outdated' = outdated \ {p}
        /\ bundlePc' = [bundlePc EXCEPT ![p] = "idle"]
        /\ body' = [body EXCEPT ![p] = Bundle!NoBundle]
        /\ UNCHANGED <<today, published, disk, spoiled>>
    BY <1>7 DEF Bundle!LoadInstalls, Bundle!Goto
  <2>2. /\ bundlePc'[p] = "idle" /\ p \notin outdated'
        /\ \A q \in Actors : q # p
              => /\ bundlePc'[q] = bundlePc[q] /\ body'[q] = body[q]
                 /\ q \in outdated' <=> q \in outdated
    BY <2>1 DEF Bundle!TypeOK
  <2>3. Bundle!TypeOK'
    BY <2>1, <2>2 DEF Bundle!TypeOK
  <2>4. OnlyVerified'
    BY <2>1, <2>2 DEF OnlyVerified, Bundle!Verified
  <2>5. DiskIsInForce'
    BY <2>1, SameFile DEF DiskIsInForce, LoadIsCurrent
  <2>6. Current'
    BY <2>1, <2>2, SameFile DEF LoadIsCurrent
  <2> QED
    BY <2>3, <2>4, <2>5, <2>6
<1>8. CASE Bundle!Restart
  <2>1. /\ bundle' = Bundle!Accepted(disk, today)
        /\ bundlePc' = [p \in Actors |-> "idle"]
        /\ body' = [p \in Actors |-> Bundle!NoBundle]
        /\ outdated' = {} /\ raced' = FALSE /\ spoiled' = FALSE
        /\ UNCHANGED <<today, published, disk>>
    BY <1>8 DEF Bundle!Restart
  <2>2. /\ bundle' \in Bundle!Bodies \cup {Bundle!NoBundle}
        /\ bundle' # Bundle!NoBundle => Bundle!Verified(bundle')
        /\ InForce(bundle', disk, today)
    BY <2>1, AcceptedIsInForce
  <2>3. Bundle!TypeOK'
    BY <2>1, <2>2 DEF Bundle!TypeOK
  <2>4. OnlyVerified' /\ Current'
    BY <2>1, <2>2 DEF OnlyVerified, LoadIsCurrent, Bundle!Verified
  <2>5. DiskIsInForce'
    BY <2>1, <2>2, SameFile DEF DiskIsInForce
  <2> QED
    BY <2>3, <2>4, <2>5
<1> QED
  BY <1>1, <1>2, <1>3, <1>4, <1>5, <1>6, <1>7, <1>8 DEF Bundle!Next

-----------------------------------------------------------------------------
(* The start of the proxy.  Upstreams are connected in order, and what is  *)
(* registered of one went through its drift check.                         *)
StartupBounds == Listings \subseteq Seq(Startup!Tools)
    /\ Upstreams \in Seq(Startup!Ids)

Connecting == startupPc \in {"connect", "list", "check", "register", "record"}

\* Positions are passed in order: what is said of upstreams is said of those
\* before the one being connected, and of it once its tools are registered.
ConnectsInOrder ==
    /\ Connecting => at \in Startup!Positions
    /\ next >= 1
    /\ \A u \in unchecked : u < at
    /\ \A r \in registered : r.from < at
         \/ (r.from = at /\ startupPc \in {"register", "record"})

\* The drift check's answer, once there is one, is what registration goes by.
CheckedActions ==
    startupPc = "register" /\ (\A l \in Listings : Startup!Distinct(l)) =>
        \A i \in DOMAIN tools : actions[tools[i].name] \in {"none",
            Startup!Verdict(tools[i])}

\* A session that is open is in upstream_contexts, once and in order, unless
\* its connection is under way or has raised.
SessionsAreKept ==
    /\ \A i \in DOMAIN contexts : contexts[i] \in open /\ contexts[i] < at
    /\ \A i, j \in DOMAIN contexts : i < j => contexts[i] < contexts[j]
    /\ \A u \in open : \/ u \in raised
                       \/ \E i \in DOMAIN contexts : contexts[i] = u
                       \/ u = at /\ startupPc \in {"list", "check", "register",
                            "record"}
    /\ startupPc \in {"list", "check", "register", "record"} => at \in open
    /\ startupPc = "closed" => contexts = <<>>

StartupInv ==
    /\ Startup!TypeOK /\ ConnectsInOrder /\ CheckedActions
    /\ Startup!ServedIsApproved /\ SessionsAreKept

LEMMA StartupImplies == ASSUME StartupInv PROVE Startup!ProxyServesSafely
  BY DEF StartupInv, Startup!TypeOK, SessionsAreKept,
     Startup!ProxyServesSafely, Startup!SessionsClosed

LEMMA StartupInit == ASSUME StartupBounds, Startup!Init PROVE StartupInv
<1>1. Startup!TypeOK
  <2>1. Upstreams # <<>> => 1 \in Startup!Positions
    BY DEF StartupBounds, Startup!Positions
  <2> QED
    BY <2>1 DEF StartupBounds, Startup!Init, Startup!TypeOK, Startup!NoActions
<1>2. ConnectsInOrder
  BY DEF StartupBounds, Startup!Init, ConnectsInOrder, Connecting,
     Startup!Positions
<1>3. CheckedActions /\ Startup!ServedIsApproved /\ SessionsAreKept
  BY DEF Startup!Init, CheckedActions, Startup!ServedIsApproved,
     SessionsAreKept
<1> QED
  BY <1>1, <1>2, <1>3 DEF StartupInv

\* NextUpstream: the next position, or the yield.
LEMMA NextIsInOrder ==
    ASSUME StartupBounds, at \in Startup!Positions, Startup!NextUpstream
    PROVE  /\ at' = at + 1 /\ at' \in 1 .. Len(Upstreams) + 1
           /\ startupPc' \in {"connect", "serving"}
                /\ (startupPc' = "connect" => at' \in Startup!Positions)
           /\ tools' = <<>> /\ next' = 1
           /\ actions' \in [Startup!ToolNames -> Startup!Verdicts \cup {"none"}]
<1>1. Startup!Positions = 1 .. Len(Upstreams) /\ Len(Upstreams) \in Nat
  BY DEF StartupBounds, Startup!Positions
<1> QED
  BY <1>1 DEF Startup!NextUpstream, Startup!NoActions

LEMMA StartupTypeStep ==
    ASSUME StartupBounds, Startup!TypeOK, ConnectsInOrder,
        [Startup!Next]_(Startup!vars) PROVE Startup!TypeOK'
<1> USE DEF Startup!TypeOK
<1>1. at \in Startup!Positions => Startup!Upstream \in Startup!Ids
  BY DEF Startup!Upstream, Startup!Ids
<1>2. CASE Startup!Raises \/ Startup!Skip \/ Startup!DriftCheckFails
            \/ Startup!RegisterMcp
  <2>1. at \in Startup!Positions
    BY <1>2 DEF ConnectsInOrder, Connecting, Startup!Raises, Startup!Skip,
       Startup!DriftCheckFails, Startup!RegisterMcp
  <2>2. Startup!NextUpstream /\ UNCHANGED <<registered, open>>
    BY <1>2 DEF Startup!Raises, Startup!Skip, Startup!DriftCheckFails,
       Startup!RegisterMcp
  <2>3. /\ raised' \subseteq Startup!Positions
        /\ unchecked' \subseteq Startup!Positions
        /\ known' \subseteq Startup!Ids
    BY <1>1, <1>2, <2>1 DEF Startup!Raises, Startup!Skip,
       Startup!DriftCheckFails, Startup!RegisterMcp
  <2>4. contexts' \in {contexts, Append(contexts, at)}
    BY <1>2 DEF Startup!Raises, Startup!Skip, Startup!DriftCheckFails,
       Startup!RegisterMcp
  <2>5. contexts' \in Seq(Startup!Positions)
    BY <2>1, <2>4
  <2> QED
    BY <2>1, <2>2, <2>3, <2>5, NextIsInOrder
<1>3. CASE Startup!Connect
  BY <1>3 DEF Startup!Connect, Startup!Goto, ConnectsInOrder, Connecting
<1>4. CASE Startup!ListTools
  BY <1>4 DEF Startup!ListTools
<1>5. CASE Startup!DriftChecked
  <2>1. PICK answered \in SUBSET DOMAIN tools : actions' = Startup!ActionsOf(answered)
    BY <1>5 DEF Startup!DriftChecked
  <2>2. actions' \in [Startup!ToolNames -> Startup!Verdicts \cup {"none"}]
    BY <2>1 DEF Startup!ActionsOf, Startup!Verdict, Startup!Verdicts
  <2> QED
    BY <1>5, <2>2 DEF Startup!DriftChecked
<1>6. CASE Startup!RegisterTool
  <2>1. tools \in Seq(Startup!Tools)
    <3>1. <<>> \in Seq(Startup!Tools)
      OBVIOUS
    <3> QED
      BY <3>1 DEF StartupBounds
  <2>2. next \in DOMAIN tools /\ at \in Startup!Positions
    BY <1>6, <2>1 DEF Startup!RegisterTool, ConnectsInOrder, Connecting
  <2>3. tools[next] \in Startup!Tools
    BY <2>1, <2>2
  <2>4. \A r \in registered' : r \in registered
              \/ (r.from = at /\ r.tool = tools[next])
    <3>1. \A name, t : Startup!AddTool(name, t) =>
             registered' \subseteq registered \cup
                 {[name |-> name, from |-> at, tool |-> t]}
      BY DEF Startup!AddTool
    <3>2. CASE UNCHANGED registered
      BY <3>2
    <3>3. CASE Startup!AddTool(Startup!RegisteredName(tools[next]), tools[next])
      <4> DEFINE new == [name |-> Startup!RegisteredName(tools[next]),
                from |-> at, tool |-> tools[next]]
      <4>1. registered' \subseteq registered \cup {new}
        BY <3>1, <3>3
      <4>2. new.from = at /\ new.tool = tools[next]
        OBVIOUS
      <4> QED
        BY <4>1, <4>2
    <3> QED
      BY <1>6, <3>2, <3>3 DEF Startup!RegisterTool
  <2>5. UNCHANGED <<at, startupPc, tools, actions, open, contexts, known,
              raised, unchecked>>
        /\ next' = next + 1
    BY <1>6 DEF Startup!RegisterTool
  <2> QED
    BY <2>2, <2>3, <2>4, <2>5
<1>7. CASE Startup!AllRegistered \/ Startup!Closed
  BY <1>7 DEF Startup!AllRegistered, Startup!Closed, Startup!Goto
<1>8. CASE Startup!Teardown
  <2>1. contexts' \in Seq(Startup!Positions)
    BY <1>8 DEF Startup!Teardown
  <2>2. contexts[Len(contexts)] \in Startup!Positions
    BY <1>8 DEF Startup!Teardown
  <2> QED
    BY <1>8, <2>1, <2>2 DEF Startup!Teardown, Startup!connVars
<1>9. CASE UNCHANGED Startup!vars
  BY <1>9 DEF Startup!vars, Startup!connVars
<1> QED
  BY <1>2, <1>3, <1>4, <1>5, <1>6, <1>7, <1>8, <1>9 DEF Startup!Next

\* One entry per name: the answer is the verdict on the tool of that name.
LEMMA AnswerIsVerdict ==
    ASSUME StartupBounds, Startup!TypeOK, \A l \in Listings :
        Startup!Distinct(l),
           NEW answered \in SUBSET DOMAIN tools, NEW k \in DOMAIN tools
    PROVE  Startup!ActionsOf(answered)[tools[k].name] \in {"none",
        Startup!Verdict(tools[k])}
<1> DEFINE n == tools[k].name
           entries == {i \in answered : tools[i].name = n}
<1>1. tools \in Listings \cup {<<>>} /\ tools \in Seq(Startup!Tools)
  BY DEF Startup!TypeOK, StartupBounds
<1>2. Startup!Distinct(tools)
  BY <1>1 DEF Startup!Distinct
<1>3. entries \subseteq {k}
  BY <1>2 DEF Startup!Distinct
<1>4. n \in Startup!ToolNames
  BY <1>1 DEF Startup!ToolNames
<1>5. CASE entries = {}
  BY <1>4, <1>5 DEF Startup!ActionsOf
<1>6. CASE entries # {}
  <2>1. entries = {k}
    BY <1>3, <1>6
  <2>2. k \in Int
    BY <1>1
  <2>3. (CHOOSE i \in entries : \A j \in entries : j <= i) = k
    BY <2>1, <2>2
  <2> QED
    BY <1>4, <1>6, <2>3 DEF Startup!ActionsOf
<1> QED
  BY <1>5, <1>6

LEMMA StartupStep == ASSUME StartupBounds, StartupInv,
    [Startup!Next]_(Startup!vars) PROVE StartupInv'
<1> USE DEF StartupInv
<1>1. Startup!TypeOK'
  BY StartupTypeStep
<1>2. Startup!Positions = 1 .. Len(Upstreams) /\ Len(Upstreams) \in Nat
            /\ at \in Nat
      /\ contexts \in Seq(Startup!Positions) /\ open \subseteq Startup!Positions
      /\ unchecked \subseteq Startup!Positions /\ next \in Nat
  BY DEF StartupBounds, Startup!Positions, Startup!TypeOK
<1>3. \A r \in registered : r.from \in Nat
  BY <1>2 DEF Startup!TypeOK
<1>4. CASE Startup!Raises \/ Startup!Skip \/ Startup!DriftCheckFails
            \/ Startup!RegisterMcp
  <2>1. at \in Startup!Positions /\ Startup!NextUpstream
              /\ UNCHANGED <<registered, open>> /\ Connecting
    BY <1>4 DEF Startup!Raises, Startup!Skip, Startup!DriftCheckFails,
       Startup!RegisterMcp, ConnectsInOrder, Connecting
  <2>2. /\ at' = at + 1
        /\ startupPc' \in {"connect", "serving"}
             /\ (startupPc' = "connect" => at' \in Startup!Positions)
        /\ next' = 1 /\ tools' = <<>>
    BY <2>1, NextIsInOrder
  <2>3. unchecked' \subseteq unchecked \cup {at}
              /\ (at \in unchecked' => startupPc = "check" \/ at \in unchecked)
    BY <1>4 DEF Startup!Raises, Startup!Skip, Startup!DriftCheckFails,
       Startup!RegisterMcp
  <2>4. ConnectsInOrder'
    <3>1. \A u \in unchecked' : u < at'
      BY <1>2, <2>2, <2>3 DEF ConnectsInOrder
    <3>2. \A r \in registered' : r.from < at'
      BY <1>2, <1>3, <2>1, <2>2 DEF ConnectsInOrder
    <3> QED
      BY <2>2, <3>1, <3>2 DEF ConnectsInOrder, Connecting, Startup!Positions
  <2>5. CheckedActions'
    BY <2>2 DEF CheckedActions
  <2>6. Startup!ServedIsApproved'
    <3>1. \A r \in registered : r.from \notin unchecked'
      <4> SUFFICES ASSUME NEW r \in registered, r.from \in unchecked'
          PROVE FALSE
        OBVIOUS
      <4>1. r.from \notin unchecked
        BY DEF Startup!ServedIsApproved
      <4>2. r.from = at /\ startupPc = "check"
        BY <2>3, <4>1 DEF ConnectsInOrder
      <4> QED
        BY <1>2, <4>2 DEF ConnectsInOrder
    <3> QED
      BY <2>1, <3>1 DEF Startup!ServedIsApproved
  <2>7. SessionsAreKept'
    <3>1. CASE /\ UNCHANGED contexts
               /\ raised' = raised \cup {at}
                    \/ (startupPc = "connect" /\ raised' = raised)
      <4>1. \A i \in DOMAIN contexts' : contexts'[i] \in open'
                  /\ contexts'[i] < at'
        BY <3>1, <1>2, <2>1, <2>2 DEF SessionsAreKept
      <4>2. \A u \in open' : u \in raised'
                  \/ \E i \in DOMAIN contexts' : contexts'[i] = u
        BY <3>1, <2>1 DEF SessionsAreKept
      <4>3. \A i, j \in DOMAIN contexts' : i < j => contexts'[i] < contexts'[j]
        BY <3>1 DEF SessionsAreKept
      <4> QED
        BY <2>2, <4>1, <4>2, <4>3 DEF SessionsAreKept
    <3>2. CASE contexts' = Append(contexts, at) /\ UNCHANGED raised
                /\ startupPc \in {"check", "record"}
      <4>1. Len(contexts') = Len(contexts) + 1
                  /\ contexts'[Len(contexts) + 1] = at
            /\ \A i \in 1 .. Len(contexts) : contexts'[i] = contexts[i]
        BY <3>2, <1>2
      <4>2. DOMAIN contexts' = 1 .. Len(contexts) + 1
                  /\ DOMAIN contexts = 1 .. Len(contexts)
            /\ Len(contexts) \in Nat
        BY <3>2, <1>2, <2>1
      <4>3. at \in open /\ \A i \in DOMAIN contexts : contexts[i] < at
        BY <3>2 DEF SessionsAreKept
      <4>4. \A i \in DOMAIN contexts' : contexts'[i] \in open'
                  /\ contexts'[i] < at'
        <5>1. \A i \in DOMAIN contexts : contexts[i] \in Nat
          BY <1>2
        <5> QED
          BY <1>2, <2>1, <2>2, <4>1, <4>2, <4>3, <5>1 DEF SessionsAreKept
      <4>5. \A i, j \in DOMAIN contexts' : i < j => contexts'[i] < contexts'[j]
        BY <4>1, <4>2, <4>3 DEF SessionsAreKept
      <4>6. \A u \in open' : u \in raised'
                  \/ \E i \in DOMAIN contexts' : contexts'[i] = u
        <5> SUFFICES ASSUME NEW u \in open, u \notin raised
                     PROVE  \E i \in DOMAIN contexts' : contexts'[i] = u
          BY <2>1, <3>2
        <5>1. CASE u = at
          BY <4>1, <4>2, <5>1
        <5>2. CASE \E i \in DOMAIN contexts : contexts[i] = u
          BY <4>1, <4>2, <5>2
        <5> QED
          BY <5>1, <5>2 DEF SessionsAreKept
      <4> QED
        BY <2>2, <4>4, <4>5, <4>6 DEF SessionsAreKept
    <3>3. CASE Startup!Raises
      BY <3>1, <3>3 DEF Startup!Raises
    <3>4. CASE Startup!Skip
      BY <3>1, <3>4 DEF Startup!Skip
    <3>5. CASE Startup!DriftCheckFails
      BY <3>2, <3>5 DEF Startup!DriftCheckFails
    <3>6. CASE Startup!RegisterMcp
      BY <3>2, <3>6 DEF Startup!RegisterMcp
    <3> QED
      BY <1>4, <3>3, <3>4, <3>5, <3>6
  <2> QED
    BY <1>1, <2>4, <2>5, <2>6, <2>7
<1>5. CASE Startup!Connect
  <2>1. startupPc = "connect" /\ startupPc' = "list" /\ open' = open \cup {at}
        /\ UNCHANGED <<at, tools, next, actions, registered, contexts, known,
             raised, unchecked>>
    BY <1>5 DEF Startup!Connect, Startup!Goto
  <2>2. ConnectsInOrder'
    BY <2>1, <1>2, <1>3 DEF ConnectsInOrder, Connecting
  <2>3. CheckedActions' /\ Startup!ServedIsApproved'
    BY <2>1 DEF CheckedActions, Startup!ServedIsApproved
  <2>4. SessionsAreKept'
    BY <2>1 DEF SessionsAreKept
  <2> QED
    BY <1>1, <2>2, <2>3, <2>4
<1>6. CASE Startup!ListTools
  <2>1. startupPc = "list" /\ startupPc' = "check"
        /\ UNCHANGED <<at, next, actions, registered, open, contexts, known,
             raised, unchecked>>
    BY <1>6 DEF Startup!ListTools
  <2>2. ConnectsInOrder'
    BY <2>1, <1>2, <1>3 DEF ConnectsInOrder, Connecting
  <2>3. CheckedActions' /\ Startup!ServedIsApproved'
    BY <2>1 DEF CheckedActions, Startup!ServedIsApproved
  <2>4. SessionsAreKept'
    BY <2>1 DEF SessionsAreKept
  <2> QED
    BY <1>1, <2>2, <2>3, <2>4
<1>7. CASE Startup!DriftChecked
  <2>1. PICK answered \in SUBSET DOMAIN tools : actions' = Startup!ActionsOf(answered)
    BY <1>7 DEF Startup!DriftChecked
  <2>2. startupPc = "check" /\ startupPc' = "register"
        /\ UNCHANGED <<at, tools, next, registered, open, contexts, known,
             raised, unchecked>>
    BY <1>7 DEF Startup!DriftChecked
  <2>3. CheckedActions'
    <3> SUFFICES ASSUME \A l \in Listings : Startup!Distinct(l),
              NEW i \in DOMAIN tools
                 PROVE  actions'[tools[i].name] \in {"none",
                     Startup!Verdict(tools[i])}
      BY <2>2 DEF CheckedActions, Startup!Verdict, Startup!Upstream
    <3> QED
      BY <2>1, AnswerIsVerdict
  <2>4. ConnectsInOrder'
    BY <2>2, <1>2, <1>3 DEF ConnectsInOrder, Connecting
  <2>5. Startup!ServedIsApproved'
    BY <2>2 DEF Startup!ServedIsApproved
  <2>6. SessionsAreKept'
    BY <2>2 DEF SessionsAreKept
  <2> QED
    BY <1>1, <2>3, <2>4, <2>5, <2>6
<1>8. CASE Startup!RegisterTool
  <2>1. next \in DOMAIN tools /\ at \in Startup!Positions
    <3>1. tools \in Seq(Startup!Tools)
      <4>1. <<>> \in Seq(Startup!Tools)
        OBVIOUS
      <4> QED
        BY <4>1 DEF StartupBounds, Startup!TypeOK
    <3> QED
      BY <1>8, <3>1, <1>2 DEF Startup!RegisterTool, ConnectsInOrder,
         Connecting
  <2>2. UNCHANGED <<at, startupPc, tools, actions, open, contexts, known,
              raised, unchecked>>
        /\ next' = next + 1 /\ startupPc = "register"
    BY <1>8 DEF Startup!RegisterTool
  <2> DEFINE t == tools[next]
             new == [name |-> Startup!RegisteredName(t), from |-> at,
                 tool |-> t]
  <2>3. \/ registered' = registered
        \/ /\ registered' = registered \cup {new}
           /\ \A r \in registered : r.name # Startup!RegisteredName(t)
           /\ actions[t.name] \in {"allow", "alert"}
    <3>1. \/ UNCHANGED registered
          \/ Startup!AddTool(Startup!RegisteredName(t), t)
               /\ actions[t.name] \in {"allow", "alert"}
      BY <1>8 DEF Startup!RegisterTool
    <3>2. Startup!AddTool(Startup!RegisteredName(t), t) =>
             \/ registered' = registered
             \/ /\ registered' = registered \cup {new}
                /\ \A r \in registered : r.name # Startup!RegisteredName(t)
      <4> HIDE DEF t
      <4> QED
        BY DEF Startup!AddTool
    <3> QED
      BY <3>1, <3>2
  <2>4. new.from = at /\ new.tool = t /\ new.name = Startup!RegisteredName(t)
    OBVIOUS
  <2> HIDE DEF new, t
  <2>5. ConnectsInOrder'
    <3>1. \A r \in registered' : r.from < at'
                \/ (r.from = at' /\ startupPc' \in {"register", "record"})
      BY <2>2, <2>3, <2>4 DEF ConnectsInOrder
    <3> QED
      BY <1>2, <2>2, <3>1 DEF ConnectsInOrder, Connecting
  <2>6. Startup!ServedIsApproved'
    <3>1. at \notin unchecked
      BY <1>2 DEF ConnectsInOrder
    <3>2. actions[t.name] \in {"allow", "alert"}
                /\ (\A l \in Listings : Startup!Distinct(l)) =>
             <<Upstreams[at], t>> \in Approved \cup Alerting
      BY <2>1, <2>2 DEF CheckedActions, Startup!Verdict, Startup!Upstream, t
    <3> QED
      BY <2>2, <2>3, <2>4, <3>1, <3>2 DEF Startup!ServedIsApproved
  <2>7. CheckedActions'
    BY <2>2 DEF CheckedActions, Startup!Verdict, Startup!Upstream
  <2>8. SessionsAreKept'
    BY <2>2 DEF SessionsAreKept
  <2> QED
    BY <1>1, <2>5, <2>6, <2>7, <2>8
<1>9. CASE Startup!AllRegistered
  <2>1. startupPc = "register" /\ startupPc' = "record"
        /\ UNCHANGED <<at, tools, next, actions, registered, open, contexts,
             known, raised, unchecked>>
    BY <1>9 DEF Startup!AllRegistered, Startup!Goto
  <2>2. ConnectsInOrder'
    BY <2>1, <1>2 DEF ConnectsInOrder, Connecting
  <2>3. CheckedActions' /\ Startup!ServedIsApproved'
    BY <2>1 DEF CheckedActions, Startup!ServedIsApproved
  <2>4. SessionsAreKept'
    BY <2>1 DEF SessionsAreKept
  <2> QED
    BY <1>1, <2>2, <2>3, <2>4
<1>10. CASE Startup!Closed
  <2>1. startupPc = "serving" /\ startupPc' = "closed" /\ contexts = <<>>
        /\ UNCHANGED <<at, tools, next, actions, registered, open, contexts,
             known, raised, unchecked>>
    BY <1>10 DEF Startup!Closed, Startup!Goto
  <2>2. ConnectsInOrder'
    BY <2>1, <1>2 DEF ConnectsInOrder, Connecting
  <2>3. CheckedActions' /\ Startup!ServedIsApproved'
    BY <2>1 DEF CheckedActions, Startup!ServedIsApproved
  <2>4. SessionsAreKept'
    BY <2>1 DEF SessionsAreKept
  <2> QED
    BY <1>1, <2>2, <2>3, <2>4
<1>11. CASE Startup!Teardown
  <2>1. UNCHANGED <<at, startupPc, tools, actions, next, registered, known,
              unchecked>>
    BY <1>11 DEF Startup!Teardown, Startup!connVars
  <2> DEFINE n == Len(contexts)
  <2>2. /\ n \in Nat \ {0} /\ startupPc = "serving"
        /\ contexts' = SubSeq(contexts, 1, n - 1)
        /\ \/ open' = open \ {contexts[n]} /\ raised' = raised
           \/ open' = open /\ raised' = raised \cup {contexts[n]}
    BY <1>11, <1>2 DEF Startup!Teardown
  <2>3. DOMAIN contexts' = 1 .. n - 1 /\ DOMAIN contexts = 1 .. n
        /\ \A i \in 1 .. n - 1 : contexts'[i] = contexts[i]
    BY <1>2, <2>2
  <2>4. \A i \in 1 .. n : contexts[i] \in Nat
    BY <1>2
  <2> HIDE DEF n
  <2>5. SessionsAreKept'
    <3>1. \A i \in DOMAIN contexts' : contexts'[i] \in open'
                /\ contexts'[i] < at'
      BY <2>1, <2>2, <2>3, <2>4 DEF SessionsAreKept
    <3>2. \A i, j \in DOMAIN contexts' : i < j => contexts'[i] < contexts'[j]
      BY <2>3, <2>2 DEF SessionsAreKept
    <3>3. \A u \in open' : u \in raised'
                \/ \E i \in DOMAIN contexts' : contexts'[i] = u
      <4> SUFFICES ASSUME NEW u \in open, u # contexts[n], u \notin raised
                   PROVE  \E i \in DOMAIN contexts' : contexts'[i] = u
        BY <2>1, <2>2
      <4>1. PICK i \in 1 .. n : contexts[i] = u
        BY <2>2, <2>3 DEF SessionsAreKept
      <4>2. i \in 1 .. n - 1
        BY <2>2, <4>1
      <4> QED
        BY <2>3, <4>1, <4>2
    <3> QED
      BY <2>1, <2>2, <3>1, <3>2, <3>3 DEF SessionsAreKept
  <2>6. ConnectsInOrder' /\ CheckedActions' /\ Startup!ServedIsApproved'
    BY <2>1 DEF ConnectsInOrder, Connecting, CheckedActions,
       Startup!ServedIsApproved, Startup!Verdict, Startup!Upstream
  <2> QED
    BY <1>1, <2>5, <2>6
<1>12. CASE UNCHANGED Startup!vars
  <2>1. UNCHANGED <<at, startupPc, tools, actions, next, registered, open,
              contexts, known, raised, unchecked>>
    BY <1>12 DEF Startup!vars, Startup!connVars
  <2>2. ConnectsInOrder' /\ CheckedActions' /\ Startup!ServedIsApproved'
    BY <2>1 DEF ConnectsInOrder, Connecting, CheckedActions,
       Startup!ServedIsApproved, Startup!Verdict, Startup!Upstream
  <2>3. SessionsAreKept'
    BY <2>1 DEF SessionsAreKept
  <2> QED
    BY <1>1, <2>2, <2>3
<1> QED
  BY <1>4, <1>5, <1>6, <1>7, <1>8, <1>9, <1>10, <1>11, <1>12 DEF Startup!Next

-----------------------------------------------------------------------------
(* The audit log.  Both files together are a run of consecutive entries up *)
(* to the newest, whatever a rewrite has in hand.                          *)
LogBounds == RotationSize \in Nat /\ MaxEntries \in Nat

\* One thread at a time is between lock and unlock.
LockIsHeldOnce == \A t, u \in Actors : logPc[t] # "idle" /\ logPc[u] # "idle"
    => t = u

\* The content of the file, or what a rewrite has in hand while the file is cut.
Rewriting == \E t \in Actors : logPc[t] = "finish"
Lines     == IF Rewriting THEN snapshot ELSE file

\* A rewrite holds the entries of the file as it is, and marks no others.
SnapshotIsFile ==
    /\ Rewriting => file = <<>>
    /\ (\E t \in Actors : logPc[t] = "rewrite") =>
         /\ Len(snapshot) = Len(file)
         /\ \A i \in 1 .. Len(file) : snapshot[i].entry = file[i].entry
    /\ \A i \in 1 .. Len(snapshot) : snapshot[i].synced
         => snapshot[i].entry \in confirmed
    /\ \A i \in 1 .. Len(file) : file[i].synced => file[i].entry \in confirmed

Increasing(lines) == \A i, j \in 1 .. Len(lines) : i < j
    => lines[i].entry < lines[j].entry

\* Both files together are in the order of the appends.
LogInOrder ==
    /\ Increasing(rotated) /\ Increasing(Lines)
    /\ \A i \in 1 .. Len(rotated),
         j \in 1 .. Len(Lines) : rotated[i].entry < Lines[j].entry
    /\ \A i \in 1 .. Len(rotated) : rotated[i].entry <= appended
    /\ \A i \in 1 .. Len(Lines) : Lines[i].entry <= appended

Consecutive(lines, last) ==
    \A i \in 1 .. Len(lines) : lines[i].entry = last - Len(lines) + i

\* Without damage nothing is missing between them, and what is missing before
\* them is older than a whole rotated file.
LogIsConsecutive ==
    ~damaged =>
        /\ Consecutive(Lines, appended)
        /\ Consecutive(rotated, appended - Len(Lines))
        /\ Len(rotated) > RotationSize \/ Len(rotated) + Len(Lines) = appended

LogInv == Log!TypeOK /\ LockIsHeldOnce /\ SnapshotIsFile /\ LogInOrder
    /\ LogIsConsecutive

LEMMA LogInit == ASSUME LogBounds, Log!Init PROVE LogInv
<1>1. Log!TypeOK
  <2>1. <<>> \in Seq(Log!Line) /\ 0 \in 0 .. MaxEntries
    BY DEF LogBounds
  <2> QED
    BY <2>1 DEF Log!Init, Log!TypeOK
<1>2. Lines = <<>> /\ ~Rewriting
  BY DEF Log!Init, Lines, Rewriting
<1>3. LockIsHeldOnce /\ SnapshotIsFile
  BY <1>2 DEF Log!Init, LockIsHeldOnce, SnapshotIsFile
<1>4. LogInOrder /\ LogIsConsecutive
  BY <1>2 DEF Log!Init, LogInOrder, LogIsConsecutive, Increasing, Consecutive
<1> QED
  BY <1>1, <1>3, <1>4 DEF LogInv

LEMMA LogImplies == ASSUME LogBounds, LogInv PROVE Log!LogIsAWindow
<1> USE DEF LogInv
<1>1. /\ file \in Seq(Log!Line) /\ rotated \in Seq(Log!Line)
      /\ snapshot \in Seq(Log!Line)
      /\ appended \in 0 .. MaxEntries /\ appended \in Nat
      /\ RotationSize \in Nat
  BY DEF Log!TypeOK, LogBounds
<1>2. Lines \in Seq(Log!Line)
  BY <1>1 DEF Lines
<1>3. ASSUME ~damaged, NEW e \in Log!Entries, e <= appended, appended - e
            <= RotationSize
      PROVE  e \in Log!Kept
  <2>1. e \in Int /\ e >= 1 /\ Len(Lines) \in Nat /\ Len(rotated) \in Nat
    BY <1>1, <1>2 DEF Log!Entries, LogBounds
  <2>2. CASE appended - e < Len(Lines)
    <3>1. e - appended + Len(Lines) \in 1 .. Len(Lines)
      BY <1>1, <1>3, <2>1, <2>2
    <3>2. Lines[e - appended + Len(Lines)].entry = e
      BY <1>1, <1>3, <2>1, <3>1 DEF LogIsConsecutive, Consecutive
    <3>3. e \in Log!InFile(Lines)
      BY <1>2, <3>1, <3>2 DEF Log!InFile
    <3> QED
      BY <3>3 DEF Log!Kept, Lines
  <2>3. CASE appended - e >= Len(Lines)
    <3> DEFINE k == e - appended + Len(Lines) + Len(rotated)
    <3>1. k \in 1 .. Len(rotated)
      BY <1>1, <1>3, <2>1, <2>3 DEF LogIsConsecutive
    <3>2. rotated[k].entry = e
      BY <1>1, <1>3, <2>1, <3>1 DEF LogIsConsecutive, Consecutive
    <3>3. e \in Log!InFile(rotated)
      BY <1>1, <3>1, <3>2 DEF Log!InFile
    <3> QED
      BY <3>3 DEF Log!Kept
  <2> QED
    BY <1>1, <2>1, <2>2, <2>3
<1>4. Log!InOrder
  <2>1. \A i \in DOMAIN file : file[i].synced => file[i].entry \in confirmed
    BY <1>1 DEF SnapshotIsFile
  <2>2. /\ Increasing(file)
        /\ \A i \in 1 .. Len(rotated),
             j \in 1 .. Len(file) : rotated[i].entry < file[j].entry
    BY <1>1 DEF LogInOrder, Lines, SnapshotIsFile, Increasing
  <2> DEFINE all == rotated \o file
  <2>3. /\ Len(rotated) \in Nat /\ Len(file) \in Nat
        /\ DOMAIN all = 1 .. Len(rotated) + Len(file)
        /\ \A i \in 1 .. Len(rotated) : all[i] = rotated[i]
        /\ \A i \in Len(rotated) + 1 .. Len(rotated) + Len(file) : all[i] = file[i - Len(rotated)]
    BY <1>1
  <2>4. ASSUME NEW i \in DOMAIN all, NEW j \in DOMAIN all, i < j
        PROVE  all[i].entry < all[j].entry
    <3> HIDE DEF all
    <3>1. i \in Nat /\ j \in Nat
      BY <2>3
    <3>2. CASE j <= Len(rotated)
      BY <2>3, <2>4, <3>1, <3>2 DEF LogInOrder, Increasing
    <3>3. CASE i <= Len(rotated) /\ j > Len(rotated)
      <4>1. i \in 1 .. Len(rotated) /\ j - Len(rotated) \in 1 .. Len(file)
            /\ j \in Len(rotated) + 1 .. Len(rotated) + Len(file)
        BY <2>3, <2>4, <3>1, <3>3
      <4> QED
        BY <2>2, <2>3, <4>1
    <3>4. CASE i > Len(rotated)
      <4>1. /\ i - Len(rotated) \in 1 .. Len(file)
            /\ j - Len(rotated) \in 1 .. Len(file)
            /\ i - Len(rotated) < j - Len(rotated)
            /\ i \in Len(rotated) + 1 .. Len(rotated) + Len(file)
            /\ j \in Len(rotated) + 1 .. Len(rotated) + Len(file)
        BY <2>3, <2>4, <3>1, <3>4
      <4> QED
        BY <2>2, <2>3, <4>1 DEF Increasing
    <3> QED
      BY <2>3, <3>1, <3>2, <3>3, <3>4
  <2> QED
    BY <2>1, <2>4 DEF Log!InOrder
<1> QED
  BY <1>3, <1>4 DEF Log!LogIsAWindow, Log!NewestKept

LEMMA MarkedLine ==
    ASSUME NEW line \in Log!Line, NEW ids
    PROVE  LET marked == [line EXCEPT !.synced = @ \/ line.entry \in ids]
           IN  /\ marked \in Log!Line /\ marked.entry = line.entry
               /\ marked.synced => line.synced \/ line.entry \in ids
<1>1. line.entry \in Log!Entries /\ line.synced \in BOOLEAN
  BY DEF Log!Line
<1>2. line = [entry |-> line.entry, synced |-> line.synced]
  BY DEF Log!Line
<1>3. [line EXCEPT !.synced = @ \/ line.entry \in ids]
        = [entry |-> line.entry, synced |-> line.synced \/ line.entry \in ids]
  BY <1>2
<1>4. (line.synced \/ line.entry \in ids) \in BOOLEAN
  OBVIOUS
<1> QED
  BY <1>1, <1>3, <1>4 DEF Log!Line

LEMMA EntryIsNat == ASSUME LogBounds, NEW line \in Log!Line
PROVE line.entry \in Nat
  BY DEF LogBounds, Log!Line, Log!Entries

\* What a write that is cut short leaves is the beginning of its lines.
LEMMA CutShortLines ==
    ASSUME NEW lines \in Seq(Log!Line), Log!CutShort(lines)
    PROVE  /\ file' \in Seq(Log!Line) /\ torn' \in BOOLEAN
           /\ Len(file') <= Len(lines)
           /\ \A i \in 1 .. Len(file') : file'[i] = lines[i]
<1>1. PICK k \in 0 .. Len(lines) : file' = SubSeq(lines, 1, k)
  BY DEF Log!CutShort
<1>2. \A i \in 1 .. k : lines[i] \in Log!Line
  BY <1>1
<1>3. /\ file' \in Seq(Log!Line)
      /\ Len(file') = IF 1 <= k THEN k - 1 + 1 ELSE 0
      /\ \A i \in 1 .. k - 1 + 1 : file'[i] = lines[1 + i - 1]
  BY <1>1, <1>2, SubSeqProperties
<1> QED
  BY <1>1, <1>3 DEF Log!CutShort

LEMMA LogTypeStep ==
    ASSUME LogBounds, Log!TypeOK, LockIsHeldOnce, [Log!Next]_(Log!vars)
    PROVE  Log!TypeOK' /\ LockIsHeldOnce'
<1> USE DEF Log!TypeOK, LockIsHeldOnce, Log!Goto
<1>1. CASE Log!Crash
  <2>1. file' \in Seq(Log!Line) /\ torn' \in BOOLEAN /\ damaged' \in BOOLEAN
    <3>1. CASE Log!CutShort(snapshot) /\ damaged' = TRUE
      BY <3>1, CutShortLines
    <3>2. CASE UNCHANGED <<file, damaged>> /\ torn' \in {torn, TRUE}
      BY <3>2
    <3> QED
      BY <1>1, <3>1, <3>2 DEF Log!Crash
  <2>2. /\ lock' = FALSE /\ logPc' = [t \in Actors |-> "idle"]
        /\ snapshot' = <<>> /\ UNCHANGED <<rotated, appended, confirmed>>
    BY <1>1 DEF Log!Crash
  <2> QED
    BY <2>1, <2>2
<1>2. ASSUME NEW t \in Actors, Log!Rotate(t) PROVE Log!TypeOK'
            /\ LockIsHeldOnce'
  <2>1. file' \in Seq(Log!Line) /\ rotated' \in Seq(Log!Line)
              /\ torn' \in BOOLEAN
    <3>1. <<>> \in Seq(Log!Line)
      OBVIOUS
    <3> QED
      BY <1>2, <3>1 DEF Log!Rotate
  <2>2. /\ logPc' = [logPc EXCEPT ![t] = "write"] /\ lock' = TRUE
        /\ \A u \in Actors : logPc[u] = "idle"
        /\ UNCHANGED <<snapshot, appended, confirmed, damaged>>
    BY <1>2 DEF Log!Rotate, Log!Acquire
  <2> QED
    BY <2>1, <2>2
<1>3. ASSUME NEW t \in Actors, Log!WriteLine(t) PROVE Log!TypeOK'
            /\ LockIsHeldOnce'
  <2>1. appended' \in 0 .. MaxEntries
              /\ [entry |-> appended', synced |-> FALSE] \in Log!Line
    BY <1>3 DEF Log!WriteLine, LogBounds, Log!Line, Log!Entries
  <2>2. /\ file' \in Seq(Log!Line) /\ torn' \in BOOLEAN
        /\ damaged' \in BOOLEAN
    <3>1. CASE torn
      BY <1>3, <3>1 DEF Log!WriteLine
    <3>2. CASE ~torn
      <4>1. file' = Append(file, [entry |-> appended', synced |-> FALSE])
        BY <1>3, <3>2 DEF Log!WriteLine
      <4>2. file' \in Seq(Log!Line)
        BY <2>1, <4>1
      <4> QED
        BY <1>3, <3>2, <4>2 DEF Log!WriteLine
    <3> QED
      BY <3>1, <3>2
  <2>3. logPc' = [logPc EXCEPT ![t] = "idle"] /\ lock' = FALSE
              /\ logPc[t] = "write"
    BY <1>3 DEF Log!WriteLine, Log!Release
  <2> QED
    BY <1>3, <2>1, <2>2, <2>3 DEF Log!WriteLine
<1>4. ASSUME NEW t \in Actors, Log!PendingSync(t) PROVE Log!TypeOK'
            /\ LockIsHeldOnce'
  <2>1. Log!Pending \subseteq Log!Entries
    <3>1. \A i \in DOMAIN file : file[i] \in Log!Line
      OBVIOUS
    <3>2. \A l \in Log!Line : l.entry \in Log!Entries
      BY DEF Log!Line
    <3> QED
      BY <3>1, <3>2 DEF Log!Pending
  <2> QED
    BY <1>4, <2>1 DEF Log!PendingSync
<1>5. ASSUME NEW t \in Actors, Log!MarkRead(t) PROVE Log!TypeOK'
            /\ LockIsHeldOnce'
  <2>1. Log!Marked(file, confirmed) \in Seq(Log!Line)
    <3>1. \A i \in 1 .. Len(file) : file[i] \in Log!Line
      OBVIOUS
    <3>2. \A i \in 1 .. Len(file) :
             [file[i] EXCEPT !.synced = @
                 \/ file[i].entry \in confirmed] \in Log!Line
      BY <3>1, MarkedLine
    <3>3. Log!Marked(file, confirmed) \in [1 .. Len(file) -> Log!Line]
                /\ Len(file) \in Nat
      BY <3>2 DEF Log!Marked
    <3>4. ASSUME NEW S, NEW n \in Nat, NEW seq \in [1 .. n -> S]
          PROVE  seq \in Seq(S)
      OBVIOUS
    <3> QED
      BY <3>3, <3>4
  <2> QED
    BY <1>5, <2>1 DEF Log!MarkRead, Log!Acquire
<1>6. ASSUME NEW t \in Actors, Log!MarkTruncate(t) PROVE Log!TypeOK'
            /\ LockIsHeldOnce'
  <2>1. /\ file' \in Seq(Log!Line) /\ torn' = FALSE /\ logPc[t] = "rewrite"
        /\ logPc' = [logPc EXCEPT ![t] = "finish"]
        /\ UNCHANGED <<rotated, lock, snapshot, appended, confirmed, damaged>>
    <3>1. <<>> \in Seq(Log!Line)
      OBVIOUS
    <3> QED
      BY <1>6, <3>1 DEF Log!MarkTruncate
  <2> QED
    BY <2>1
<1>7. ASSUME NEW t \in Actors, Log!MarkWrite(t) PROVE Log!TypeOK'
            /\ LockIsHeldOnce'
  BY <1>7 DEF Log!MarkWrite, Log!Release
<1>8. ASSUME NEW t \in Actors, Log!AppendFails(t) PROVE Log!TypeOK'
            /\ LockIsHeldOnce'
  BY <1>8 DEF Log!AppendFails, Log!Release
<1>9. ASSUME NEW t \in Actors, Log!MarkRefused(t) PROVE Log!TypeOK'
            /\ LockIsHeldOnce'
  BY <1>9 DEF Log!MarkRefused, Log!Release
<1>10. ASSUME NEW t \in Actors, Log!MarkFails(t) PROVE Log!TypeOK'
            /\ LockIsHeldOnce'
  <2>1. file' \in Seq(Log!Line) /\ torn' \in BOOLEAN
    BY <1>10, CutShortLines DEF Log!MarkFails
  <2> QED
    BY <1>10, <2>1 DEF Log!MarkFails, Log!Release
<1>11. CASE UNCHANGED Log!vars
  BY <1>11 DEF Log!vars
<1> QED
  BY <1>1, <1>2, <1>3, <1>4, <1>5, <1>6, <1>7, <1>8, <1>9, <1>10, <1>11 DEF
     Log!Next

\* The lines of both files decide order and completeness.
LEMMA SameLines ==
    ASSUME UNCHANGED <<rotated, appended, damaged>>, Len(Lines') = Len(Lines),
           \A i \in 1 .. Len(Lines) : Lines'[i].entry = Lines[i].entry,
           LogInOrder, LogIsConsecutive
    PROVE  LogInOrder' /\ LogIsConsecutive'
<1>1. LogInOrder'
  <2>1. Increasing(Lines') /\ Increasing(rotated')
    BY DEF LogInOrder, Increasing
  <2>2. \A i \in 1 .. Len(rotated'),
              j \in 1 .. Len(Lines') : rotated'[i].entry < Lines'[j].entry
    BY DEF LogInOrder
  <2> QED
    BY <2>1, <2>2 DEF LogInOrder, Increasing
<1>2. LogIsConsecutive'
  BY DEF LogIsConsecutive, Consecutive
<1> QED
  BY <1>1, <1>2

\* A write cut short keeps the order, and completeness is no longer claimed.
LEMMA CutShortKeeps ==
    ASSUME LogInv, Rewriting, Log!CutShort(snapshot), damaged', ~Rewriting',
           \A t \in Actors : logPc'[t] # "rewrite",
           snapshot' = <<>>, UNCHANGED <<rotated, appended, confirmed>>
    PROVE  SnapshotIsFile' /\ LogInOrder' /\ LogIsConsecutive'
<1>1. snapshot \in Seq(Log!Line)
  BY DEF LogInv, Log!TypeOK
<1>2. /\ Len(file') \in Nat /\ Len(file') <= Len(snapshot)
      /\ Len(snapshot) \in Nat
      /\ \A i \in 1 .. Len(file') : file'[i] = snapshot[i]
  BY <1>1, CutShortLines
<1>3. \A i \in 1 .. Len(file') : i \in 1 .. Len(snapshot)
  BY <1>2
<1>4. Lines = snapshot /\ Lines' = file'
  BY DEF Lines
<1>5. SnapshotIsFile'
  BY <1>2, <1>3 DEF LogInv, SnapshotIsFile
<1>6. LogInOrder'
  BY <1>2, <1>3, <1>4 DEF LogInv, LogInOrder, Increasing
<1> QED
  BY <1>5, <1>6 DEF LogIsConsecutive

LEMMA LogStep == ASSUME LogBounds, LogInv, [Log!Next]_(Log!vars) PROVE LogInv'
<1> USE DEF LogInv
<1>1. Log!TypeOK' /\ LockIsHeldOnce'
  BY LogTypeStep
<1>2. /\ file \in Seq(Log!Line) /\ rotated \in Seq(Log!Line)
      /\ snapshot \in Seq(Log!Line)
      /\ appended \in Nat /\ RotationSize \in Nat
      /\ logPc \in [Actors -> {"idle", "write", "rewrite", "finish"}]
      /\ lock <=> \E t \in Actors : logPc[t] # "idle"
  BY DEF Log!TypeOK, LogBounds
<1>3. ASSUME NEW t \in Actors, logPc[t] \notin {"idle", "finish"}
      PROVE  ~Rewriting /\ Lines = file
  BY <1>3 DEF Rewriting, Lines, LockIsHeldOnce
<1>4. ~lock => ~Rewriting /\ Lines = file
  BY <1>2 DEF Rewriting, Lines
<1>5. CASE Log!Crash
  <2>1. /\ logPc' = [t \in Actors |-> "idle"] /\ snapshot' = <<>>
        /\ UNCHANGED <<rotated, appended, confirmed>>
    BY <1>5 DEF Log!Crash
  <2>2. ~Rewriting' /\ Lines' = file' /\ \A t \in Actors : logPc'[t] # "rewrite"
    BY <2>1 DEF Rewriting, Lines
  <2>3. CASE Rewriting
    <3>1. Log!CutShort(snapshot) /\ damaged'
      BY <1>5, <2>3 DEF Log!Crash, Rewriting
    <3> QED
      BY <1>1, <2>1, <2>2, <2>3, <3>1, CutShortKeeps
  <2>4. CASE ~Rewriting
    <3>1. UNCHANGED <<file, damaged>> /\ Lines = file
      BY <1>5, <2>4 DEF Log!Crash, Rewriting, Lines
    <3>2. SnapshotIsFile'
      BY <2>1, <2>2, <3>1 DEF SnapshotIsFile
    <3> QED
      BY <1>1, <2>1, <2>2, <3>1, <3>2, SameLines
  <2> QED
    BY <2>3, <2>4
<1>6. ASSUME NEW t \in Actors, Log!Rotate(t) PROVE LogInv'
  <2>1. /\ Lines = file /\ ~Rewriting' /\ Lines' = file'
        /\ \A u \in Actors : logPc'[u] # "rewrite"
        /\ UNCHANGED <<snapshot, appended, confirmed, damaged>>
    BY <1>2, <1>4, <1>6 DEF Log!Rotate, Log!Acquire, Log!Goto, Rewriting,
       Lines
  <2>2. SnapshotIsFile'
    BY <1>6, <2>1 DEF Log!Rotate, SnapshotIsFile
  <2>3. CASE UNCHANGED <<file, rotated>>
    BY <1>1, <2>1, <2>2, <2>3, SameLines
  <2>4. CASE Len(file) > RotationSize /\ rotated' = file /\ file' = <<>>
    <3>1. LogInOrder'
      BY <1>2, <2>1, <2>4 DEF LogInOrder, Increasing
    <3>2. LogIsConsecutive'
      <4>1. Lines' = <<>> /\ rotated' = Lines /\ Len(Lines') = 0
                  /\ Len(Lines) > RotationSize
        BY <2>1, <2>4
      <4>2. appended - 0 = appended
        BY <1>2
      <4> QED
        BY <2>1, <4>1, <4>2 DEF LogIsConsecutive, Consecutive
    <3> QED
      BY <1>1, <2>2, <3>1, <3>2
  <2> QED
    BY <1>6, <2>3, <2>4 DEF Log!Rotate
<1>7. ASSUME NEW t \in Actors, Log!WriteLine(t), torn PROVE LogInv'
  <2>1. /\ Lines = file /\ logPc[t] = "write"
        /\ logPc' = [logPc EXCEPT ![t] = "idle"]
        /\ appended' = appended + 1 /\ file' = file /\ damaged'
        /\ UNCHANGED <<rotated, snapshot, confirmed>>
    BY <1>3, <1>7 DEF Log!WriteLine, Log!Release, Log!Goto
  <2>2. ~Rewriting' /\ Lines' = Lines /\ \A u \in Actors : logPc'[u] # "rewrite"
    BY <1>2, <2>1 DEF Rewriting, Lines, LockIsHeldOnce
  <2>3. SnapshotIsFile'
    BY <2>1, <2>2 DEF SnapshotIsFile
  <2>4. LogInOrder'
    <3>1. /\ \A i \in 1 .. Len(rotated) : rotated[i] \in Log!Line
          /\ \A i \in 1 .. Len(file) : file[i] \in Log!Line
      BY <1>2
    <3>2. /\ \A i \in 1 .. Len(rotated) : rotated[i].entry \in Nat
          /\ \A i \in 1 .. Len(file) : file[i].entry \in Nat
      BY <3>1, EntryIsNat
    <3>3. /\ \A i \in 1 .. Len(rotated) : rotated[i].entry <= appended'
          /\ \A i \in 1 .. Len(file) : file[i].entry <= appended'
      BY <1>2, <2>1, <3>2 DEF LogInOrder
    <3> QED
      BY <2>1, <2>2, <3>3 DEF LogInOrder, Increasing
  <2> QED
    BY <1>1, <2>1, <2>3, <2>4 DEF LogIsConsecutive
<1>8. ASSUME NEW t \in Actors, Log!WriteLine(t), ~torn PROVE LogInv'
  <2> DEFINE new == [entry |-> appended', synced |-> FALSE]
  <2>1. /\ Lines = file /\ logPc[t] = "write"
        /\ logPc' = [logPc EXCEPT ![t] = "idle"]
        /\ appended' = appended + 1 /\ file' = Append(file, new)
        /\ damaged' = damaged
        /\ UNCHANGED <<rotated, snapshot, confirmed>>
    BY <1>3, <1>8 DEF Log!WriteLine, Log!Release, Log!Goto, Log!TypeOK
  <2>2. ~Rewriting' /\ Lines' = file' /\ \A u \in Actors : logPc'[u] # "rewrite"
    BY <1>2, <2>1 DEF Rewriting, Lines, LockIsHeldOnce
  <2>3. new.entry = appended + 1 /\ ~new.synced
    BY <2>1
  <2> HIDE DEF new
  <2>4. /\ Len(file) \in Nat /\ Len(file') = Len(file) + 1
        /\ file'[Len(file) + 1] = new
        /\ \A i \in 1 .. Len(file) : file'[i] = file[i]
    BY <1>2, <2>1
  <2>5. SnapshotIsFile'
    <3>1. \A i \in 1 .. Len(file') : file'[i].synced
                => file'[i].entry \in confirmed'
      BY <2>1, <2>3, <2>4 DEF SnapshotIsFile
    <3> QED
      BY <2>1, <2>2, <3>1 DEF SnapshotIsFile
  <2>6. \A i \in 1 .. Len(file) : file[i].entry \in Nat
    <3>1. \A i \in 1 .. Len(file) : file[i] \in Log!Line
      BY <1>2
    <3> QED
      BY <3>1, EntryIsNat
  <2>7. \A i \in 1 .. Len(rotated) : rotated[i].entry \in Nat
    <3>1. \A i \in 1 .. Len(rotated) : rotated[i] \in Log!Line
      BY <1>2
    <3> QED
      BY <3>1, EntryIsNat
  <2>8. LogInOrder'
    <3>1. Increasing(file')
      <4> SUFFICES ASSUME NEW i \in 1 .. Len(file) + 1,
                NEW j \in 1 .. Len(file) + 1, i < j
                   PROVE  file'[i].entry < file'[j].entry
        BY <2>4 DEF Increasing
      <4>1. i \in 1 .. Len(file) /\ file'[i] = file[i]
        BY <2>4
      <4>2. CASE j \in 1 .. Len(file)
        BY <2>1, <2>4, <4>1, <4>2 DEF LogInOrder, Increasing
      <4>3. CASE j = Len(file) + 1
        BY <1>2, <2>1, <2>3, <2>4, <2>6, <4>1, <4>3 DEF LogInOrder
      <4> QED
        BY <2>4, <4>2, <4>3
    <3>2. \A i \in 1 .. Len(rotated),
                j \in 1 .. Len(file') : rotated[i].entry < file'[j].entry
      BY <1>2, <2>1, <2>3, <2>4, <2>7 DEF LogInOrder
    <3>3. \A i \in 1 .. Len(rotated) : rotated[i].entry <= appended'
      BY <1>2, <2>1, <2>7 DEF LogInOrder
    <3>4. \A i \in 1 .. Len(file') : file'[i].entry <= appended'
      BY <1>2, <2>1, <2>3, <2>4, <2>6 DEF LogInOrder
    <3> QED
      BY <2>1, <2>2, <3>1, <3>2, <3>3, <3>4 DEF LogInOrder
  <2>9. LogIsConsecutive'
    <3> SUFFICES ASSUME ~damaged
                 PROVE  /\ Consecutive(file', appended')
                        /\ Consecutive(rotated, appended' - Len(file'))
                        /\ Len(rotated) > RotationSize
                             \/ Len(rotated) + Len(file') = appended'
      BY <2>1, <2>2 DEF LogIsConsecutive
    <3>1. Consecutive(file', appended')
      BY <1>2, <2>1, <2>3, <2>4 DEF LogIsConsecutive, Consecutive
    <3>2. appended' - Len(file') = appended - Len(file)
      BY <1>2, <2>1, <2>4
    <3>3. Len(rotated) > RotationSize \/ Len(rotated) + Len(file') = appended'
      <4>1. Len(rotated) > RotationSize \/ Len(rotated) + Len(file) = appended
        BY <2>1 DEF LogIsConsecutive
      <4>2. Len(rotated) \in Nat
        BY <1>2
      <4>3. Len(file) \in Nat /\ Len(file') = Len(file) + 1
                  /\ appended' = appended + 1
            /\ appended \in Nat
        BY <1>2, <2>1, <2>4
      <4>4. ASSUME NEW x \in Nat, NEW y \in Nat, NEW z \in Nat, x + y = z
            PROVE  x + (y + 1) = z + 1
        BY <4>4
      <4> QED
        BY <4>1, <4>2, <4>3, <4>4
    <3> QED
      BY <2>1, <3>1, <3>2, <3>3 DEF LogIsConsecutive
  <2> QED
    BY <1>1, <2>5, <2>8, <2>9
<1>9. ASSUME NEW t \in Actors, Log!PendingSync(t) PROVE LogInv'
  <2>1. UNCHANGED <<file, rotated, lock, logPc, snapshot, appended, damaged>>
        /\ confirmed \subseteq confirmed'
    BY <1>9 DEF Log!PendingSync
  <2>2. Lines' = Lines /\ (Rewriting' <=> Rewriting)
    BY <2>1 DEF Lines, Rewriting
  <2>3. SnapshotIsFile'
    BY <2>1, <2>2 DEF SnapshotIsFile
  <2> QED
    BY <1>1, <2>1, <2>2, <2>3, SameLines
<1>10. ASSUME NEW t \in Actors, Log!MarkRead(t) PROVE LogInv'
  <2>1. /\ Lines = file /\ logPc' = [logPc EXCEPT ![t] = "rewrite"]
        /\ snapshot' = Log!Marked(file, confirmed)
        /\ UNCHANGED <<file, rotated, appended, confirmed, damaged>>
        /\ ~Rewriting
    BY <1>4, <1>10 DEF Log!MarkRead, Log!Acquire, Log!Goto
  <2>2. ~Rewriting' /\ Lines' = file
    BY <1>2, <2>1 DEF Rewriting, Lines
  <2>3. /\ Len(snapshot') = Len(file)
        /\ \A i \in 1 .. Len(file) :
              /\ snapshot'[i].entry = file[i].entry
              /\ snapshot'[i].synced => file[i].synced
                   \/ file[i].entry \in confirmed
    <3>1. \A i \in 1 .. Len(file) : file[i] \in Log!Line
      BY <1>2
    <3>2. snapshot' = [i \in 1 .. Len(file) |->
                          [file[i] EXCEPT !.synced = @
                              \/ file[i].entry \in confirmed]]
      BY <1>2, <2>1 DEF Log!Marked
    <3>3. Len(file) \in Nat
      BY <1>2
    <3>4. Len(snapshot') = Len(file)
      BY <3>2, <3>3
    <3>5. ASSUME NEW i \in 1 .. Len(file)
          PROVE  /\ snapshot'[i].entry = file[i].entry
                 /\ snapshot'[i].synced => file[i].synced
                      \/ file[i].entry \in confirmed
      <4> DEFINE marked == [file[i] EXCEPT !.synced = @
                \/ file[i].entry \in confirmed]
      <4>1. snapshot'[i] = marked
        BY <3>2
      <4>2. marked.entry = file[i].entry
                  /\ (marked.synced => file[i].synced
                       \/ file[i].entry \in confirmed)
        BY <3>1, MarkedLine
      <4> HIDE DEF marked
      <4> QED
        BY <4>1, <4>2
    <3> QED
      BY <3>4, <3>5
  <2>4. SnapshotIsFile'
    BY <2>1, <2>2, <2>3 DEF SnapshotIsFile
  <2> QED
    BY <1>1, <2>1, <2>2, <2>4, SameLines
<1>11. ASSUME NEW t \in Actors, Log!MarkTruncate(t) PROVE LogInv'
  <2>1. /\ Lines = file /\ logPc[t] = "rewrite"
        /\ logPc' = [logPc EXCEPT ![t] = "finish"] /\ file' = <<>>
        /\ UNCHANGED <<rotated, snapshot, appended, confirmed, damaged>>
    BY <1>3, <1>11 DEF Log!MarkTruncate, Log!Goto
  <2>2. Rewriting' /\ Lines' = snapshot
              /\ \A u \in Actors : logPc'[u] # "rewrite"
    BY <1>2, <2>1 DEF Rewriting, Lines, LockIsHeldOnce
  <2>3. Len(Lines') = Len(Lines) /\ \A i \in 1 .. Len(Lines) :
              Lines'[i].entry = Lines[i].entry
    BY <2>1, <2>2 DEF SnapshotIsFile
  <2>4. SnapshotIsFile'
    BY <2>1, <2>2 DEF SnapshotIsFile
  <2> QED
    BY <1>1, <2>1, <2>3, <2>4, SameLines
<1>12. ASSUME NEW t \in Actors, Log!MarkWrite(t) PROVE LogInv'
  <2>1. /\ logPc[t] = "finish" /\ logPc' = [logPc EXCEPT ![t] = "idle"]
        /\ file' = snapshot /\ snapshot' = <<>>
        /\ UNCHANGED <<rotated, appended, confirmed, damaged>>
    BY <1>12 DEF Log!MarkWrite, Log!Release, Log!Goto
  <2>2. Lines = snapshot /\ ~Rewriting' /\ Lines' = snapshot
              /\ \A u \in Actors : logPc'[u] # "rewrite"
    BY <1>2, <2>1 DEF Rewriting, Lines, LockIsHeldOnce
  <2>3. SnapshotIsFile'
    BY <2>1, <2>2 DEF SnapshotIsFile
  <2> QED
    BY <1>1, <2>1, <2>2, <2>3, SameLines
<1>13. CASE UNCHANGED Log!vars
  <2>1. Lines' = Lines /\ (Rewriting' <=> Rewriting)
    BY <1>13 DEF Log!vars, Lines, Rewriting
  <2>2. SnapshotIsFile'
    BY <1>13, <2>1 DEF Log!vars, SnapshotIsFile
  <2> QED
    BY <1>1, <1>13, <2>1, <2>2, SameLines DEF Log!vars
<1>14. ASSUME NEW t \in Actors, Log!AppendFails(t) \/ Log!MarkRefused(t)
       PROVE  LogInv'
  <2>1. /\ Lines = file /\ logPc[t] \in {"write", "rewrite"}
        /\ logPc' = [logPc EXCEPT ![t] = "idle"]
        /\ snapshot' \in {snapshot, <<>>}
        /\ UNCHANGED <<file, rotated, appended, confirmed, damaged>>
    BY <1>3, <1>14 DEF Log!AppendFails, Log!MarkRefused, Log!Release, Log!Goto
  <2>2. ~Rewriting' /\ Lines' = Lines /\ \A u \in Actors : logPc'[u] # "rewrite"
    BY <1>2, <2>1 DEF Rewriting, Lines, LockIsHeldOnce
  <2>3. SnapshotIsFile'
    BY <2>1, <2>2 DEF SnapshotIsFile
  <2> QED
    BY <1>1, <2>1, <2>2, <2>3, SameLines
<1>15. ASSUME NEW t \in Actors, Log!MarkFails(t) PROVE LogInv'
  <2>1. /\ logPc[t] = "finish" /\ logPc' = [logPc EXCEPT ![t] = "idle"]
        /\ Log!CutShort(snapshot) /\ damaged' /\ snapshot' = <<>>
        /\ UNCHANGED <<rotated, appended, confirmed>>
    BY <1>15 DEF Log!MarkFails, Log!Release, Log!Goto
  <2>2. Rewriting /\ ~Rewriting' /\ \A u \in Actors : logPc'[u] # "rewrite"
    BY <1>2, <2>1 DEF Rewriting, LockIsHeldOnce
  <2> QED
    BY <1>1, <2>1, <2>2, CutShortKeeps
<1> QED
  BY <1>5, <1>6, <1>7, <1>8, <1>9, <1>10, <1>11, <1>12, <1>13, <1>14,
     <1>15 DEF Log!Next

-----------------------------------------------------------------------------
(* The tool calls.  What is recorded of a call goes with what it returned, *)
(* and what it knows of the control plane has a bounded age.               *)
\* A probe, and an enforcement check, take less than the TTL.
ProxyBounds == ReachabilityTtl \in Nat /\ ProbeLag \in Nat
    /\ ProbeLag < ReachabilityTtl /\ MaxTime \in Nat

\* What is recorded of a call, and where, goes with what it returned.
RecordIsKept(c) ==
    /\ proxyPc[c] # "done" => /\ result[c] = "none" /\ c \notin unwritten
                              /\ \A e \in localLog : e.call # c
    /\ proxyPc[c] \notin {"inspect", "done"} => c \notin ran
    /\ c \in unwritten => result[c] \in {"blocked", "content"}
    /\ result[c] = "blocked" =>
         c \in unwritten \/ \E e \in localLog : e.call = c
             /\ e.decision = "blocked"
    /\ \A e \in localLog : e.call = c =>
         /\ e.decision = "blocked" => result[c] = "blocked"
         /\ e.decision = "blocked" /\ e.layer # "L1_response" => c \notin ran
         /\ \A f \in localLog : f.call = c => f = e

Waiting(c) == proxyPc[c] \in {"probe", "probed", "resume", "access"}

\* How old what the cache and a call say of the control plane can be.
ClockIsKept ==
    /\ lastUp <= clock /\ checked <= clock
    /\ plane # "down" => lastUp = clock
    /\ online => checked - ProbeLag <= lastUp

AgeIsKept(c) ==
    /\ Waiting(c) => since[c] <= clock /\ clock - since[c] <= ProbeLag
    /\ proxyPc[c] = "probed" /\ probed[c] => since[c] <= lastUp
    /\ proxyPc[c] = "resume" => since[c] <= checked
    /\ proxyPc[c] = "access" /\ isOnline[c]
         => since[c] - lastUp < ReachabilityTtl + ProbeLag
    /\ proxyPc[c] \in {"forward", "inspect"} /\ isOnline[c]
         /\ c \notin planeLog =>
         unreached[c] < ReachabilityTtl + 2 * ProbeLag
    /\ result[c] = "content" /\ ~Proxy!Logged(c)
         => unreached[c] < ReachabilityTtl + 2 * ProbeLag

ProxyInv ==
    /\ Proxy!TypeOK /\ ClockIsKept
    /\ \A c \in Actors : RecordIsKept(c) /\ AgeIsKept(c)

LEMMA ProxyInit == ASSUME ProxyBounds, Proxy!Init PROVE ProxyInv
<1>1. Proxy!TypeOK
  <2>1. 0 \in 0 .. MaxTime
              /\ -ReachabilityTtl \in -ReachabilityTtl .. MaxTime
              /\ 0 \in -ReachabilityTtl .. MaxTime
    BY DEF ProxyBounds
  <2>2. Proxy!NoBlame \in Proxy!NoBlame .. MaxTime
    BY DEF ProxyBounds, Proxy!NoBlame
  <2> QED
    BY <2>1, <2>2 DEF Proxy!Init, Proxy!TypeOK, Proxy!PCs
<1>2. ClockIsKept
  BY DEF ProxyBounds, Proxy!Init, ClockIsKept
<1>3. ASSUME NEW c \in Actors PROVE RecordIsKept(c) /\ AgeIsKept(c)
  BY DEF Proxy!Init, RecordIsKept, AgeIsKept, Waiting
<1> QED
  BY <1>1, <1>2, <1>3 DEF ProxyInv

LEMMA ProxyImplies == ASSUME ProxyBounds, ProxyInv PROVE Proxy!BlockedStaysBlocked
    /\ Proxy!LongOutagesLeaveTraces
<1>1. Proxy!LongOutagesLeaveTraces
  <2>1. \A c \in Actors : unreached[c] \in Int
    BY DEF ProxyInv, Proxy!TypeOK
  <2> QED
    BY <2>1 DEF ProxyBounds, ProxyInv, Proxy!LongOutagesLeaveTraces, AgeIsKept
<1>2. ASSUME NEW c \in Actors
      PROVE  /\ \A e \in localLog : e.call = c /\ e.layer # "L1_response"
                                      /\ e.decision = "blocked" => c \notin ran
             /\ result[c] = "blocked" <=>
                  \/ c \in unwritten /\ result[c] \notin {"none", "content"}
                  \/ \E e \in localLog : e.call = c /\ e.decision = "blocked"
             /\ Cardinality({e \in localLog : e.call = c}) <= 1
  <2>1. RecordIsKept(c)
    BY DEF ProxyInv
  <2> DEFINE mine == {e \in localLog : e.call = c}
  <2>2. Cardinality(mine) <= 1
    <3>1. CASE mine = {}
      BY <3>1, FS_EmptySet
    <3>2. CASE mine # {}
      <4>1. PICK e \in mine : TRUE
        BY <3>2
      <4>2. mine = {e}
        BY <2>1, <4>1 DEF RecordIsKept
      <4> QED
        <5> HIDE DEF mine
        <5>1. Cardinality({e}) = 1
          BY FS_Singleton
        <5> QED
          BY <4>2, <5>1
    <3> QED
      BY <3>1, <3>2
  <2> QED
    BY <2>1, <2>2 DEF RecordIsKept
<1> QED
  BY <1>1, <1>2 DEF Proxy!BlockedStaysBlocked, Proxy!Cardinality, Cardinality

-----------------------------------------------------------------------------
LEMMA AppendType ==
    ASSUME Proxy!TypeOK, NEW c \in Actors,
        NEW decision \in {"allowed", "blocked"}, NEW layer \in Proxy!Layers,
           Proxy!AppendEntry(c, decision, layer)
    PROVE  /\ localLog' \subseteq [call : Actors,
                decision : {"allowed", "blocked"}, layer : Proxy!Layers]
           /\ unwritten' \subseteq Actors
  BY DEF Proxy!TypeOK, Proxy!AppendEntry

LEMMA LocalLayersType ==
    ASSUME ProxyBounds, Proxy!TypeOK, NEW c \in Actors, Proxy!RunLocalLayers(c)
    PROVE  /\ proxyPc' \in [Actors -> Proxy!PCs]
           /\ since' \in [Actors -> 0 .. MaxTime]
           /\ result' \in [Actors -> {"none", "blocked", "error", "content",
                "sanitized"}]
           /\ localLog' \subseteq [call : Actors,
                decision : {"allowed", "blocked"}, layer : Proxy!Layers]
           /\ unwritten' \subseteq Actors
<1> DEFINE verdict == Proxy!LocalVerdict(proxyRequest[c])
<1> USE DEF Proxy!TypeOK
<1> HIDE DEF verdict
<1>1. CASE verdict = "pass" /\ Proxy!Goto(c, "access") /\ Proxy!Waits(c)
  BY <1>1 DEF Proxy!Goto, Proxy!Waits, Proxy!logs, Proxy!PCs
<1>2. CASE verdict = "raise" /\ Proxy!Return(c, "error")
            /\ UNCHANGED Proxy!logs /\ Proxy!WaitOver(c)
  BY <1>2 DEF ProxyBounds, Proxy!Return, Proxy!WaitOver, Proxy!logs, Proxy!PCs
<1>3. CASE verdict \in Proxy!Layers /\ Proxy!Block(c, verdict)
            /\ Proxy!WaitOver(c)
  <2>1. Proxy!AppendEntry(c, "blocked", verdict) /\ Proxy!Return(c, "blocked")
    BY <1>3 DEF Proxy!Block
  <2> QED
    BY <1>3, <2>1, AppendType DEF ProxyBounds, Proxy!Return, Proxy!WaitOver,
       Proxy!PCs
<1> QED
  BY <1>1, <1>2, <1>3 DEF Proxy!RunLocalLayers, verdict

LEMMA ProxyTypeStep == ASSUME ProxyBounds, Proxy!TypeOK, ClockIsKept,
    [Proxy!Next]_(Proxy!vars) PROVE Proxy!TypeOK'
<1> USE DEF Proxy!TypeOK
<1>1. CASE Proxy!Tick
  BY <1>1 DEF ProxyBounds, Proxy!Tick, Proxy!reach, Proxy!logs
<1>2. CASE Proxy!PlaneChanges
  BY <1>2 DEF Proxy!PlaneChanges, Proxy!reach, Proxy!logs
<1>3. ASSUME NEW c \in Actors, Proxy!StartCall(c) PROVE Proxy!TypeOK'
  <2>1. UNCHANGED <<clock, plane, lastUp, mode, online, checked, proxyRequest,
              probed, unreached, planeLog, ran>>
    BY <1>3 DEF Proxy!StartCall, Proxy!planeVars, Proxy!reach
  <2>2. CASE Proxy!Goto(c, "probe") /\ Proxy!Waits(c) /\ UNCHANGED isOnline
    BY <2>1, <2>2 DEF Proxy!Goto, Proxy!Waits, Proxy!logs, Proxy!PCs
  <2>3. CASE isOnline' = [isOnline EXCEPT ![c] = online]
              /\ Proxy!RunLocalLayers(c)
    BY <2>1, <2>3, LocalLayersType
  <2> QED
    BY <1>3, <2>2, <2>3 DEF Proxy!StartCall
<1>4. ASSUME NEW c \in Actors, Proxy!ProbeAnswers(c) PROVE Proxy!TypeOK'
  BY <1>4 DEF Proxy!ProbeAnswers, Proxy!Goto, Proxy!planeVars, Proxy!reach,
     Proxy!logs, Proxy!PCs, Proxy!Reachable
<1>5. ASSUME NEW c \in Actors, Proxy!ProbeStores(c) PROVE Proxy!TypeOK'
  BY <1>5 DEF ProxyBounds, Proxy!ProbeStores, Proxy!Goto, Proxy!planeVars,
     Proxy!logs, Proxy!PCs
<1>6. ASSUME NEW c \in Actors, Proxy!Resume(c) PROVE Proxy!TypeOK'
  <2>1. UNCHANGED <<clock, plane, lastUp, mode, online, checked, proxyRequest,
              probed, unreached, planeLog, ran>>
    BY <1>6 DEF Proxy!Resume, Proxy!planeVars, Proxy!reach
  <2> QED
    BY <1>6, <2>1, LocalLayersType DEF Proxy!Resume
<1>7. ASSUME NEW c \in Actors, Proxy!AccessAnswered(c) PROVE Proxy!TypeOK'
  <2>1. UNCHANGED <<clock, plane, lastUp, mode, online, checked, proxyRequest,
              probed, isOnline, unreached, ran>>
        /\ planeLog' = planeLog \cup {c} /\ since' = [since EXCEPT ![c] = 0]
    BY <1>7 DEF Proxy!AccessAnswered, Proxy!planeVars, Proxy!reach,
       Proxy!WaitOver
  <2>2. CASE Proxy!Goto(c, "forward")
    BY <2>1, <2>2 DEF ProxyBounds, Proxy!Goto, Proxy!logs, Proxy!PCs
  <2>3. CASE Proxy!Block(c, "remote")
    <3>1. Proxy!AppendEntry(c, "blocked", "remote")
                /\ Proxy!Return(c, "blocked") /\ "remote" \in Proxy!Layers
      BY <2>3 DEF Proxy!Block, Proxy!Layers
    <3> QED
      BY <2>1, <3>1, AppendType DEF ProxyBounds, Proxy!Return, Proxy!PCs
  <2> QED
    BY <1>7, <2>2, <2>3 DEF Proxy!AccessAnswered
<1>8. ASSUME NEW c \in Actors, Proxy!AccessFailsOpen(c) PROVE Proxy!TypeOK'
  <2>1. clock - lastUp \in Proxy!NoBlame .. MaxTime
    BY DEF ProxyBounds, ClockIsKept, Proxy!NoBlame
  <2> QED
    BY <1>8, <2>1 DEF ProxyBounds, Proxy!AccessFailsOpen, Proxy!Goto,
       Proxy!WaitOver, Proxy!planeVars, Proxy!reach, Proxy!logs, Proxy!PCs
<1>9. ASSUME NEW c \in Actors, Proxy!Forward(c) PROVE Proxy!TypeOK'
  BY <1>9 DEF Proxy!Forward, Proxy!Goto, Proxy!Return, Proxy!planeVars,
     Proxy!reach, Proxy!logs, Proxy!PCs
<1>10. ASSUME NEW c \in Actors, Proxy!InspectReply(c) PROVE Proxy!TypeOK'
  <2>1. UNCHANGED <<clock, plane, lastUp, mode, online, checked, proxyRequest,
              since, probed, isOnline,
                    unreached, planeLog, ran>>
    BY <1>10 DEF Proxy!InspectReply, Proxy!planeVars, Proxy!reach
  <2>2. CASE Proxy!Block(c, "L1_response")
    <3>1. Proxy!AppendEntry(c, "blocked", "L1_response")
                /\ Proxy!Return(c, "blocked") /\ "L1_response" \in Proxy!Layers
      BY <2>2 DEF Proxy!Block, Proxy!Layers
    <3> QED
      BY <2>1, <3>1, AppendType DEF Proxy!Return, Proxy!PCs
  <2>3. CASE (\E what \in {"sanitized", "error"} : Proxy!Return(c, what))
              /\ UNCHANGED Proxy!logs
    BY <2>1, <2>3 DEF Proxy!Return, Proxy!logs, Proxy!PCs
  <2>4. CASE Proxy!Deliver(c)
    <3>1. Proxy!Return(c, "content")
                /\ (UNCHANGED Proxy!logs
                     \/ Proxy!AppendEntry(c, "allowed", "remote"))
                          /\ "remote" \in Proxy!Layers
      BY <2>4 DEF Proxy!Deliver, Proxy!Layers
    <3> QED
      BY <2>1, <3>1, AppendType DEF Proxy!Return, Proxy!PCs, Proxy!logs
  <2> QED
    BY <1>10, <2>2, <2>3, <2>4 DEF Proxy!InspectReply
<1>11. CASE UNCHANGED Proxy!vars
  BY <1>11 DEF Proxy!vars, Proxy!planeVars, Proxy!reach, Proxy!logs
<1> QED
  BY <1>1, <1>2, <1>3, <1>4, <1>5, <1>6, <1>7, <1>8, <1>9, <1>10, <1>11 DEF
     Proxy!Next

-----------------------------------------------------------------------------
(* What one call does to the record of all.                                *)
RecordsAreKept == \A c \in Actors : RecordIsKept(c)

\* It goes on, and may have run upstream.
LEMMA GoesOn ==
    ASSUME Proxy!TypeOK, RecordsAreKept, NEW c \in Actors, NEW label,
        label # "done", proxyPc[c] # "done",
           Proxy!Goto(c, label),
           \/ ran' = ran /\ (proxyPc[c] # "inspect")
           \/ ran' = ran \cup {c} /\ label = "inspect"
    PROVE  RecordsAreKept'
<1>1. proxyPc' = [proxyPc EXCEPT ![c] = label] /\ UNCHANGED <<result, localLog,
            unwritten>> /\ proxyPc \in [Actors -> Proxy!PCs]
  BY DEF Proxy!Goto, Proxy!logs, Proxy!TypeOK
<1>2. ASSUME NEW d \in Actors PROVE RecordIsKept(d)'
  <2>1. RecordIsKept(d)
    BY DEF RecordsAreKept
  <2>2. CASE d = c
    BY <1>1, <2>1, <2>2 DEF RecordIsKept
  <2>3. CASE d # c
    <3>1. proxyPc'[d] = proxyPc[d] /\ (d \in ran' <=> d \in ran)
      BY <1>1, <2>3
    <3> QED
      BY <1>1, <2>1, <3>1 DEF RecordIsKept
  <2> QED
    BY <2>2, <2>3
<1> QED
  BY <1>2 DEF RecordsAreKept

\* It returns, and records nothing.
LEMMA ReturnsSilently ==
    ASSUME Proxy!TypeOK, RecordsAreKept, NEW c \in Actors,
        NEW what \in {"error", "content", "sanitized"},
           proxyPc[c] # "done", Proxy!Return(c, what), UNCHANGED Proxy!logs,
               ran' \in {ran, ran \cup {c}}
    PROVE  RecordsAreKept'
<1>1. /\ proxyPc' = [proxyPc EXCEPT ![c] = "done"]
      /\ result' = [result EXCEPT ![c] = what]
      /\ UNCHANGED <<localLog, unwritten>>
      /\ proxyPc \in [Actors -> Proxy!PCs] /\ DOMAIN result = Actors
  BY DEF Proxy!Return, Proxy!logs, Proxy!TypeOK
<1>2. ASSUME NEW d \in Actors PROVE RecordIsKept(d)'
  <2>1. RecordIsKept(d)
    BY DEF RecordsAreKept
  <2>2. CASE d = c
    <3>1. proxyPc'[d] = "done" /\ result'[d] = what /\ d \notin unwritten
                /\ \A e \in localLog : e.call # d
      BY <1>1, <2>1, <2>2 DEF RecordIsKept
    <3> QED
      BY <1>1, <3>1 DEF RecordIsKept
  <2>3. CASE d # c
    <3>1. proxyPc'[d] = proxyPc[d] /\ result'[d] = result[d]
                /\ (d \in ran' <=> d \in ran)
      BY <1>1, <2>3
    <3> QED
      BY <1>1, <2>1, <3>1 DEF RecordIsKept
  <2> QED
    BY <2>2, <2>3
<1> QED
  BY <1>2 DEF RecordsAreKept

\* It returns, and records that.
LEMMA ReturnsRecorded ==
    ASSUME Proxy!TypeOK, RecordsAreKept, NEW c \in Actors, NEW decision,
        NEW layer, NEW what,
           \/ decision = "blocked" /\ what = "blocked"
           \/ decision = "allowed" /\ what = "content",
           proxyPc[c] # "done", Proxy!AppendEntry(c, decision, layer),
               Proxy!Return(c, what), ran' = ran,
           layer = "L1_response" \/ decision = "allowed"
               \/ proxyPc[c] # "inspect"
    PROVE  RecordsAreKept'
<1> DEFINE new == [call |-> c, decision |-> decision, layer |-> layer]
<1>1. /\ proxyPc' = [proxyPc EXCEPT ![c] = "done"]
      /\ result' = [result EXCEPT ![c] = what]
      /\ proxyPc \in [Actors -> Proxy!PCs] /\ DOMAIN result = Actors
  BY DEF Proxy!Return, Proxy!TypeOK
<1>2. \/ localLog' = localLog \cup {new} /\ unwritten' = unwritten
      \/ localLog' = localLog /\ unwritten' = unwritten \cup {c}
  BY DEF Proxy!AppendEntry
<1>3. new.call = c /\ new.decision = decision /\ new.layer = layer
  OBVIOUS
<1> HIDE DEF new
<1>4. ASSUME NEW d \in Actors PROVE RecordIsKept(d)'
  <2>1. RecordIsKept(d)
    BY DEF RecordsAreKept
  <2>2. CASE d = c
    <3>1. proxyPc'[d] = "done" /\ result'[d] = what /\ d \notin unwritten
                /\ \A e \in localLog : e.call # d
      BY <1>1, <2>1, <2>2 DEF RecordIsKept
    <3>2. decision = "blocked" /\ layer # "L1_response" => d \notin ran
      BY <2>1, <2>2 DEF RecordIsKept
    <3>3. CASE localLog' = localLog \cup {new} /\ unwritten' = unwritten
      BY <1>3, <2>2, <3>1, <3>2, <3>3 DEF RecordIsKept
    <3>4. CASE localLog' = localLog /\ unwritten' = unwritten \cup {c}
      BY <2>2, <3>1, <3>4 DEF RecordIsKept
    <3> QED
      BY <1>2, <3>3, <3>4
  <2>3. CASE d # c
    <3>1. proxyPc'[d] = proxyPc[d] /\ result'[d] = result[d]
                /\ (d \in unwritten' <=> d \in unwritten)
      BY <1>1, <1>2, <2>3
    <3>2. \A e \in localLog' : e.call = d => e \in localLog
      BY <1>2, <1>3, <2>3
    <3>3. localLog \subseteq localLog'
      BY <1>2
    <3> QED
      BY <2>1, <3>1, <3>2, <3>3 DEF RecordIsKept
  <2> QED
    BY <2>2, <2>3
<1> QED
  BY <1>4 DEF RecordsAreKept

LEMMA LocalLayersRecord ==
    ASSUME Proxy!TypeOK, RecordsAreKept, NEW c \in Actors,
        proxyPc[c] \in {"idle", "resume"}, Proxy!RunLocalLayers(c),
           ran' = ran
    PROVE  RecordsAreKept'
<1> DEFINE verdict == Proxy!LocalVerdict(proxyRequest[c])
<1> HIDE DEF verdict
<1>1. CASE Proxy!Goto(c, "access")
  BY <1>1, GoesOn
<1>2. CASE Proxy!Return(c, "error") /\ UNCHANGED Proxy!logs
  BY <1>2, ReturnsSilently
<1>3. CASE Proxy!Block(c, verdict)
  BY <1>3, ReturnsRecorded DEF Proxy!Block
<1> QED
  BY <1>1, <1>2, <1>3 DEF Proxy!RunLocalLayers, verdict

LEMMA RecordStep == ASSUME Proxy!TypeOK, RecordsAreKept,
    [Proxy!Next]_(Proxy!vars) PROVE RecordsAreKept'
<1>1. CASE UNCHANGED <<proxyPc, result, localLog, unwritten, ran>>
  BY <1>1 DEF RecordsAreKept, RecordIsKept
<1>2. CASE Proxy!Tick \/ Proxy!PlaneChanges \/ UNCHANGED Proxy!vars
  BY <1>1, <1>2 DEF Proxy!Tick, Proxy!PlaneChanges, Proxy!vars, Proxy!logs
<1>3. ASSUME NEW c \in Actors, Proxy!StartCall(c) PROVE RecordsAreKept'
  <2>1. proxyPc[c] = "idle" /\ ran' = ran
              /\ (Proxy!Goto(c, "probe") \/ Proxy!RunLocalLayers(c))
    BY <1>3 DEF Proxy!StartCall
  <2> QED
    BY <2>1, GoesOn, LocalLayersRecord
<1>4. ASSUME NEW c \in Actors, Proxy!ProbeAnswers(c) PROVE RecordsAreKept'
  <2>1. proxyPc[c] = "probe" /\ ran' = ran /\ Proxy!Goto(c, "probed")
    BY <1>4 DEF Proxy!ProbeAnswers
  <2> QED
    BY <2>1, GoesOn
<1>5. ASSUME NEW c \in Actors, Proxy!ProbeStores(c) PROVE RecordsAreKept'
  <2>1. proxyPc[c] = "probed" /\ ran' = ran /\ Proxy!Goto(c, "resume")
    BY <1>5 DEF Proxy!ProbeStores
  <2> QED
    BY <2>1, GoesOn
<1>6. ASSUME NEW c \in Actors, Proxy!Resume(c) PROVE RecordsAreKept'
  BY <1>6, LocalLayersRecord DEF Proxy!Resume
<1>7. ASSUME NEW c \in Actors, Proxy!AccessAnswered(c) PROVE RecordsAreKept'
  <2>1. proxyPc[c] = "access" /\ ran' = ran
    BY <1>7 DEF Proxy!AccessAnswered
  <2>2. CASE Proxy!Goto(c, "forward")
    BY <2>1, <2>2, GoesOn
  <2>3. CASE Proxy!Block(c, "remote")
    BY <2>1, <2>3, ReturnsRecorded DEF Proxy!Block
  <2> QED
    BY <1>7, <2>2, <2>3 DEF Proxy!AccessAnswered
<1>8. ASSUME NEW c \in Actors, Proxy!AccessFailsOpen(c) PROVE RecordsAreKept'
  <2>1. proxyPc[c] = "access" /\ ran' = ran /\ Proxy!Goto(c, "forward")
    BY <1>8 DEF Proxy!AccessFailsOpen
  <2> QED
    BY <2>1, GoesOn
<1>9. ASSUME NEW c \in Actors, Proxy!Forward(c) PROVE RecordsAreKept'
  <2>1. proxyPc[c] = "forward"
    BY <1>9 DEF Proxy!Forward
  <2>2. CASE ran' = ran \cup {c} /\ Proxy!Goto(c, "inspect")
    BY <2>1, <2>2, GoesOn
  <2>3. CASE ran' \in {ran, ran \cup {c}} /\ Proxy!Return(c, "error")
              /\ UNCHANGED Proxy!logs
    BY <2>1, <2>3, ReturnsSilently
  <2> QED
    BY <1>9, <2>2, <2>3 DEF Proxy!Forward
<1>10. ASSUME NEW c \in Actors, Proxy!InspectReply(c) PROVE RecordsAreKept'
  <2>1. proxyPc[c] = "inspect" /\ ran' = ran
    BY <1>10 DEF Proxy!InspectReply
  <2>2. CASE Proxy!Block(c, "L1_response")
    BY <2>1, <2>2, ReturnsRecorded DEF Proxy!Block
  <2>3. CASE (Proxy!Return(c, "sanitized") \/ Proxy!Return(c, "content")
              \/ Proxy!Return(c, "error")) /\ UNCHANGED Proxy!logs
    BY <2>1, <2>3, ReturnsSilently
  <2>4. CASE Proxy!Return(c, "content")
              /\ Proxy!AppendEntry(c, "allowed", "remote")
    BY <2>1, <2>4, ReturnsRecorded
  <2> QED
    BY <1>10, <2>2, <2>3, <2>4 DEF Proxy!InspectReply, Proxy!Deliver
<1> QED
  BY <1>2, <1>3, <1>4, <1>5, <1>6, <1>7, <1>8, <1>9, <1>10 DEF Proxy!Next

-----------------------------------------------------------------------------
(* The ages.                                                               *)
LEMMA ClockStep ==
    ASSUME ProxyBounds, Proxy!TypeOK, ClockIsKept, \A c \in Actors :
        AgeIsKept(c), [Proxy!Next]_(Proxy!vars)
    PROVE  ClockIsKept' /\ lastUp <= lastUp' /\ checked <= checked'
<1>1. clock \in Nat /\ lastUp \in Nat /\ checked \in Int /\ ProbeLag \in Nat
  BY DEF Proxy!TypeOK, ProxyBounds
<1>2. CASE UNCHANGED <<clock, plane, lastUp, online, checked>>
  BY <1>1, <1>2 DEF ClockIsKept
<1>3. CASE Proxy!Tick
  BY <1>1, <1>3 DEF ClockIsKept, Proxy!Tick, Proxy!Reachable, Proxy!reach
<1>4. CASE Proxy!PlaneChanges
  BY <1>1, <1>4 DEF ClockIsKept, Proxy!PlaneChanges, Proxy!reach
<1>5. ASSUME NEW c \in Actors, Proxy!ProbeStores(c)
      PROVE  ClockIsKept' /\ lastUp <= lastUp' /\ checked <= checked'
  <2>1. /\ proxyPc[c] = "probed" /\ online' = probed[c] /\ checked' = clock
        /\ UNCHANGED <<clock, plane, lastUp>>
    BY <1>5 DEF Proxy!ProbeStores, Proxy!planeVars
  <2>2. since[c] \in Nat
    BY DEF Proxy!TypeOK
  <2>3. since[c] <= clock /\ clock - since[c] <= ProbeLag
              /\ (probed[c] => since[c] <= lastUp)
    BY <2>1 DEF AgeIsKept, Waiting
  <2> QED
    BY <1>1, <2>1, <2>2, <2>3 DEF ClockIsKept
<1>6. CASE \E c \in Actors : Proxy!StartCall(c) \/ Proxy!ProbeAnswers(c)
            \/ Proxy!Resume(c)
                              \/ Proxy!AccessAnswered(c)
                                   \/ Proxy!AccessFailsOpen(c)
                                        \/ Proxy!Forward(c)
                                             \/ Proxy!InspectReply(c)
  BY <1>2, <1>6 DEF Proxy!StartCall, Proxy!ProbeAnswers, Proxy!Resume,
     Proxy!AccessAnswered, Proxy!AccessFailsOpen, Proxy!Forward,
     Proxy!InspectReply, Proxy!planeVars, Proxy!reach
<1>7. CASE UNCHANGED Proxy!vars
  BY <1>2, <1>7 DEF Proxy!vars, Proxy!planeVars, Proxy!reach
<1> QED
  BY <1>3, <1>4, <1>5, <1>6, <1>7 DEF Proxy!Next

LEMMA AgeKept ==
    ASSUME ProxyBounds, Proxy!TypeOK, Proxy!TypeOK', NEW d \in Actors,
        AgeIsKept(d),
           proxyPc'[d] = proxyPc[d], since'[d] = since[d],
               probed'[d] = probed[d],
           isOnline'[d] = isOnline[d], unreached'[d] = unreached[d],
               result'[d] = result[d],
           Proxy!Logged(d) => Proxy!Logged(d)', planeLog \subseteq planeLog',
           clock <= clock', lastUp <= lastUp', checked <= checked',
           Waiting(d) => clock' - since[d] <= ProbeLag
    PROVE  AgeIsKept(d)'
<1>1. /\ clock \in Int /\ lastUp \in Int /\ checked \in Int
      /\ clock' \in Int /\ lastUp' \in Int /\ checked' \in Int
      /\ since[d] \in Int /\ ReachabilityTtl \in Int /\ ProbeLag \in Int
  BY DEF ProxyBounds, Proxy!TypeOK
<1>2. Waiting(d)' = Waiting(d)
  BY DEF Waiting
<1>3. Waiting(d) => since[d] <= clock'
  BY <1>1 DEF AgeIsKept
<1>4. proxyPc[d] = "probed" /\ probed[d] => since[d] <= lastUp'
  BY <1>1 DEF AgeIsKept
<1>5. proxyPc[d] = "resume" => since[d] <= checked'
  BY <1>1 DEF AgeIsKept
<1>6. proxyPc[d] = "access" /\ isOnline[d]
            => since[d] - lastUp' < ReachabilityTtl + ProbeLag
  BY <1>1 DEF AgeIsKept
<1> QED
  BY <1>2, <1>3, <1>4, <1>5, <1>6 DEF AgeIsKept

LEMMA OtherAges ==
    ASSUME ProxyBounds, Proxy!TypeOK, Proxy!TypeOK', ClockIsKept,
        \A c \in Actors : AgeIsKept(c),
           NEW c \in Actors, NEW d \in Actors, d # c, clock' = clock, lastUp
               <= lastUp', checked <= checked',
           \/ Proxy!StartCall(c) \/ Proxy!ProbeAnswers(c)
                \/ Proxy!ProbeStores(c) \/ Proxy!Resume(c)
           \/ Proxy!AccessAnswered(c) \/ Proxy!AccessFailsOpen(c)
                \/ Proxy!Forward(c) \/ Proxy!InspectReply(c)
    PROVE  AgeIsKept(d)'
<1>1. proxyPc'[d] = proxyPc[d] /\ result'[d] = result[d] /\ since'[d] = since[d]
  BY DEF Proxy!StartCall, Proxy!ProbeAnswers, Proxy!ProbeStores, Proxy!Resume,
     Proxy!AccessAnswered, Proxy!AccessFailsOpen, Proxy!Forward,
     Proxy!InspectReply, Proxy!RunLocalLayers, Proxy!Block, Proxy!Return,
     Proxy!Goto, Proxy!Waits, Proxy!WaitOver, Proxy!Deliver, Proxy!TypeOK
<1>2. probed'[d] = probed[d] /\ isOnline'[d] = isOnline[d]
            /\ unreached'[d] = unreached[d]
  BY DEF Proxy!StartCall, Proxy!ProbeAnswers, Proxy!ProbeStores, Proxy!Resume,
     Proxy!AccessAnswered, Proxy!AccessFailsOpen, Proxy!Forward,
     Proxy!InspectReply, Proxy!TypeOK
<1>3. localLog \subseteq localLog' /\ unwritten \subseteq unwritten'
  BY DEF Proxy!StartCall, Proxy!ProbeAnswers, Proxy!ProbeStores, Proxy!Resume,
     Proxy!AccessAnswered, Proxy!AccessFailsOpen, Proxy!Forward,
     Proxy!InspectReply, Proxy!RunLocalLayers, Proxy!Block, Proxy!Return,
     Proxy!Goto, Proxy!Deliver, Proxy!AppendEntry, Proxy!logs
<1>4. planeLog \subseteq planeLog'
  BY DEF Proxy!StartCall, Proxy!ProbeAnswers, Proxy!ProbeStores, Proxy!Resume,
     Proxy!AccessAnswered, Proxy!AccessFailsOpen, Proxy!Forward,
     Proxy!InspectReply
<1>5. Proxy!Logged(d) => Proxy!Logged(d)'
  BY <1>3, <1>4 DEF Proxy!Logged
<1>6. Waiting(d) => clock' - since[d] <= ProbeLag
  BY DEF AgeIsKept
<1>7. clock <= clock'
  BY DEF Proxy!TypeOK
<1> QED
  BY <1>1, <1>2, <1>4, <1>5, <1>6, <1>7, AgeKept

\* RunLocalLayers, for the call itself: with what it read, and of what age.
LEMMA LocalLayersAge ==
    ASSUME ProxyBounds, Proxy!TypeOK, Proxy!TypeOK', NEW c \in Actors,
        AgeIsKept(c), proxyPc[c] \in {"idle", "resume"},
           result[c] = "none", isOnline' = [isOnline EXCEPT ![c] = online],
               Proxy!RunLocalLayers(c),
           UNCHANGED <<clock, lastUp>>, online
               => clock - lastUp < ReachabilityTtl + ProbeLag
    PROVE  AgeIsKept(c)'
<1> DEFINE verdict == Proxy!LocalVerdict(proxyRequest[c])
<1> HIDE DEF verdict
<1>1. /\ clock \in Nat /\ lastUp \in Nat /\ ReachabilityTtl \in Nat
      /\ ProbeLag \in Nat
      /\ DOMAIN proxyPc = Actors /\ DOMAIN since = Actors
      /\ DOMAIN result = Actors
      /\ isOnline'[c] = online
  BY DEF ProxyBounds, Proxy!TypeOK
<1>2. CASE verdict = "pass" /\ Proxy!Goto(c, "access") /\ Proxy!Waits(c)
  <2>1. proxyPc'[c] = "access" /\ since'[c] = clock /\ UNCHANGED <<result,
              Proxy!logs>>
    BY <1>1, <1>2 DEF Proxy!Goto, Proxy!Waits
  <2> QED
    BY <1>1, <2>1 DEF AgeIsKept, Waiting
<1>3. CASE Proxy!Return(c, "error") \/ Proxy!Return(c, "blocked")
  <2>1. proxyPc'[c] = "done" /\ result'[c] \in {"error", "blocked"}
    BY <1>1, <1>3 DEF Proxy!Return
  <2> QED
    BY <2>1 DEF AgeIsKept, Waiting
<1> QED
  BY <1>2, <1>3 DEF Proxy!RunLocalLayers, verdict, Proxy!Block

LEMMA AgeStep ==
    ASSUME ProxyBounds, Proxy!TypeOK, Proxy!TypeOK', ClockIsKept,
        RecordsAreKept,
           \A c \in Actors : AgeIsKept(c), [Proxy!Next]_(Proxy!vars)
    PROVE  \A c \in Actors : AgeIsKept(c)'
<1>1. lastUp <= lastUp' /\ checked <= checked'
  BY ClockStep
<1>2. /\ clock \in Nat /\ lastUp \in Nat /\ checked \in Int
      /\ ReachabilityTtl \in Nat /\ ProbeLag \in Nat
      /\ DOMAIN proxyPc = Actors /\ DOMAIN since = Actors
      /\ DOMAIN result = Actors /\ DOMAIN probed = Actors
      /\ DOMAIN isOnline = Actors /\ DOMAIN unreached = Actors
      /\ \A c \in Actors : since[c] \in Nat /\ probed[c] \in BOOLEAN
           /\ isOnline[c] \in BOOLEAN
      /\ ProbeLag < ReachabilityTtl
  BY DEF ProxyBounds, Proxy!TypeOK
<1>3. CASE UNCHANGED Proxy!vars \/ Proxy!PlaneChanges \/ Proxy!Tick
  <2>1. UNCHANGED <<proxyPc, since, probed, isOnline, unreached, result,
              Proxy!logs, planeLog>>
    BY <1>3 DEF Proxy!vars, Proxy!planeVars, Proxy!PlaneChanges, Proxy!Tick
  <2>2. clock <= clock' /\ \A c \in Actors : Waiting(c) => clock' - since[c]
              <= ProbeLag
    <3>1. CASE clock' = clock
      BY <1>2, <3>1 DEF AgeIsKept
    <3>2. CASE Proxy!Tick
      BY <1>2, <3>2 DEF Proxy!Tick, Waiting
    <3> QED
      BY <1>3, <3>1, <3>2 DEF Proxy!vars, Proxy!planeVars, Proxy!PlaneChanges
  <2>3. \A c \in Actors : Proxy!Logged(c)' = Proxy!Logged(c)
    BY <2>1 DEF Proxy!Logged, Proxy!logs
  <2> QED
    BY <1>1, <2>1, <2>2, <2>3, AgeKept
<1>4. ASSUME NEW c \in Actors, proxyPc[c] # "done" PROVE result[c] = "none"
  BY <1>4 DEF RecordsAreKept, RecordIsKept
<1>5. ASSUME NEW c \in Actors, Proxy!StartCall(c) PROVE \A d \in Actors :
            AgeIsKept(d)'
  <2>1. proxyPc[c] = "idle" /\ UNCHANGED <<clock, plane, lastUp, mode, online,
              checked>>
    BY <1>5 DEF Proxy!StartCall, Proxy!planeVars, Proxy!reach
  <2>2. CASE Proxy!Goto(c, "probe") /\ Proxy!Waits(c)
    <3>1. proxyPc'[c] = "probe" /\ since'[c] = clock /\ result'[c] = "none"
      BY <1>2, <1>4, <2>1, <2>2 DEF Proxy!Goto, Proxy!Waits
    <3>2. AgeIsKept(c)'
      BY <1>2, <2>1, <3>1 DEF AgeIsKept, Waiting
    <3> QED
      BY <1>1, <1>5, <2>1, <3>2, OtherAges
  <2>3. CASE clock - checked < ReachabilityTtl
              /\ isOnline' = [isOnline EXCEPT ![c] = online]
              /\ Proxy!RunLocalLayers(c)
    <3>1. online => clock - lastUp < ReachabilityTtl + ProbeLag
      BY <1>2, <2>3 DEF ClockIsKept
    <3>2. AgeIsKept(c)'
      BY <1>4, <2>1, <2>3, <3>1, LocalLayersAge
    <3> QED
      BY <1>1, <1>5, <2>1, <3>2, OtherAges
  <2> QED
    BY <1>5, <2>2, <2>3 DEF Proxy!StartCall
<1>6. ASSUME NEW c \in Actors, Proxy!ProbeAnswers(c) PROVE \A d \in Actors :
            AgeIsKept(d)'
  <2>1. /\ proxyPc[c] = "probe" /\ proxyPc'[c] = "probed" /\ result'[c] = "none"
        /\ UNCHANGED <<clock, plane, lastUp, since>>
        /\ probed'[c] \in {FALSE, Proxy!Reachable}
    BY <1>2, <1>4, <1>6 DEF Proxy!ProbeAnswers, Proxy!Goto, Proxy!planeVars
  <2>2. AgeIsKept(c)'
    BY <1>2, <2>1 DEF AgeIsKept, Waiting, Proxy!Reachable, ClockIsKept
  <2> QED
    BY <1>1, <1>6, <2>1, <2>2, OtherAges
<1>7. ASSUME NEW c \in Actors, Proxy!ProbeStores(c) PROVE \A d \in Actors :
            AgeIsKept(d)'
  <2>1. /\ proxyPc[c] = "probed" /\ proxyPc'[c] = "resume"
        /\ result'[c] = "none"
        /\ UNCHANGED <<clock, lastUp, since>> /\ checked' = clock
    BY <1>2, <1>4, <1>7 DEF Proxy!ProbeStores, Proxy!Goto, Proxy!planeVars
  <2>2. AgeIsKept(c)'
    BY <1>2, <2>1 DEF AgeIsKept, Waiting
  <2> QED
    BY <1>1, <1>7, <2>1, <2>2, OtherAges
<1>8. ASSUME NEW c \in Actors, Proxy!Resume(c) PROVE \A d \in Actors :
            AgeIsKept(d)'
  <2>1. proxyPc[c] = "resume" /\ UNCHANGED <<clock, plane, lastUp, mode, online,
              checked>>
        /\ isOnline' = [isOnline EXCEPT ![c] = online]
        /\ Proxy!RunLocalLayers(c)
    BY <1>8 DEF Proxy!Resume, Proxy!planeVars, Proxy!reach
  <2>2. online => clock - lastUp < ReachabilityTtl + ProbeLag
    <3>1. since[c] <= checked /\ clock - since[c] <= ProbeLag
      BY <2>1 DEF AgeIsKept, Waiting
    <3> QED
      BY <1>2, <3>1 DEF ClockIsKept
  <2>3. AgeIsKept(c)'
    BY <1>4, <2>1, <2>2, LocalLayersAge
  <2> QED
    BY <1>1, <1>8, <2>1, <2>3, OtherAges
<1>9. ASSUME NEW c \in Actors, Proxy!AccessAnswered(c) PROVE \A d \in Actors :
            AgeIsKept(d)'
  <2>1. proxyPc[c] = "access" /\ c \in planeLog' /\ clock' = clock
    BY <1>9 DEF Proxy!AccessAnswered, Proxy!planeVars
  <2>2. \/ proxyPc'[c] = "forward" /\ result'[c] = "none"
        \/ proxyPc'[c] = "done" /\ result'[c] = "blocked"
    BY <1>2, <1>4, <1>9, <2>1 DEF Proxy!AccessAnswered, Proxy!Goto,
       Proxy!Block, Proxy!Return
  <2>3. AgeIsKept(c)'
    BY <2>1, <2>2 DEF AgeIsKept, Waiting
  <2> QED
    BY <1>1, <1>9, <2>1, <2>3, OtherAges
<1>10. ASSUME NEW c \in Actors, Proxy!AccessFailsOpen(c) PROVE \A d \in Actors :
             AgeIsKept(d)'
  <2>1. /\ proxyPc[c] = "access" /\ proxyPc'[c] = "forward"
        /\ result'[c] = "none"
        /\ unreached'[c] = clock - lastUp /\ UNCHANGED <<clock, isOnline>>
    BY <1>2, <1>4, <1>10 DEF Proxy!AccessFailsOpen, Proxy!Goto,
       Proxy!planeVars
  <2>2. isOnline[c] => clock - lastUp < ReachabilityTtl + 2 * ProbeLag
    <3>1. clock - since[c] <= ProbeLag
                /\ (isOnline[c]
                     => since[c] - lastUp < ReachabilityTtl + ProbeLag)
      BY <2>1 DEF AgeIsKept, Waiting
    <3> QED
      BY <1>2, <3>1
  <2>3. AgeIsKept(c)'
    BY <2>1, <2>2 DEF AgeIsKept, Waiting
  <2> QED
    BY <1>1, <1>10, <2>1, <2>3, OtherAges
<1>11. ASSUME NEW c \in Actors, Proxy!Forward(c) PROVE \A d \in Actors :
             AgeIsKept(d)'
  <2>1. proxyPc[c] = "forward" /\ UNCHANGED <<clock, isOnline, unreached,
              planeLog>>
    BY <1>11 DEF Proxy!Forward, Proxy!planeVars
  <2>2. \/ proxyPc'[c] = "inspect" /\ result'[c] = "none"
        \/ proxyPc'[c] = "done" /\ result'[c] = "error"
    BY <1>2, <1>4, <1>11, <2>1 DEF Proxy!Forward, Proxy!Goto, Proxy!Return
  <2>3. AgeIsKept(c)'
    BY <2>1, <2>2 DEF AgeIsKept, Waiting
  <2> QED
    BY <1>1, <1>11, <2>1, <2>3, OtherAges
<1>12. ASSUME NEW c \in Actors, Proxy!InspectReply(c) PROVE \A d \in Actors :
             AgeIsKept(d)'
  <2>1. proxyPc[c] = "inspect" /\ UNCHANGED <<clock, isOnline, unreached,
              planeLog>>
    BY <1>12 DEF Proxy!InspectReply, Proxy!planeVars
  <2>2. \/ proxyPc'[c] = "done" /\ result'[c] # "content"
        \/ proxyPc'[c] = "done" /\ Proxy!Deliver(c)
    BY <1>2, <1>12, <2>1 DEF Proxy!InspectReply, Proxy!Block, Proxy!Return,
       Proxy!Deliver
  <2>3. Proxy!Deliver(c) => isOnline[c] \/ Proxy!Logged(c)'
    <3>1. Proxy!Deliver(c) => isOnline[c]
                \/ Proxy!AppendEntry(c, "allowed", "remote")
      BY DEF Proxy!Deliver
    <3>2. Proxy!AppendEntry(c, "allowed", "remote") => Proxy!Logged(c)'
      <4> DEFINE new == [call |-> c, decision |-> "allowed", layer |-> "remote"]
      <4>1. Proxy!AppendEntry(c, "allowed", "remote") => c \in unwritten'
                  \/ new \in localLog'
        BY DEF Proxy!AppendEntry
      <4>2. new.call = c
        OBVIOUS
      <4> HIDE DEF new
      <4> QED
        BY <4>1, <4>2 DEF Proxy!Logged
    <3> QED
      BY <3>1, <3>2
  <2>4. isOnline[c] /\ c \notin planeLog
              => unreached[c] < ReachabilityTtl + 2 * ProbeLag
    BY <2>1 DEF AgeIsKept
  <2>5. c \in planeLog => Proxy!Logged(c)'
    BY <2>1 DEF Proxy!Logged
  <2>6. AgeIsKept(c)'
    BY <2>1, <2>2, <2>3, <2>4, <2>5 DEF AgeIsKept, Waiting
  <2> QED
    BY <1>1, <1>12, <2>1, <2>6, OtherAges
<1> QED
  BY <1>3, <1>5, <1>6, <1>7, <1>8, <1>9, <1>10, <1>11, <1>12 DEF Proxy!Next

LEMMA ProxyStep == ASSUME ProxyBounds, ProxyInv, [Proxy!Next]_(Proxy!vars)
PROVE ProxyInv'
<1>1. Proxy!TypeOK /\ ClockIsKept /\ RecordsAreKept /\ \A c \in Actors :
            AgeIsKept(c)
  BY DEF ProxyInv, RecordsAreKept
<1>2. Proxy!TypeOK'
  BY <1>1, ProxyTypeStep
<1>3. ClockIsKept'
  BY <1>1, ClockStep
<1>4. RecordsAreKept'
  BY <1>1, RecordStep
<1>5. \A c \in Actors : AgeIsKept(c)'
  BY <1>1, <1>2, AgeStep
<1> QED
  BY <1>2, <1>3, <1>4, <1>5 DEF ProxyInv, RecordsAreKept

-----------------------------------------------------------------------------
(* The remote reads.  A request that waits for the sidecar still holds what *)
(* the ledger gave it.                                                     *)
BrainBounds == /\ ResultTtls \subseteq Nat /\ SidecarLag \in Nat
               /\ MaxRequests \in Nat
               /\ MaxVersion \in Nat \ {0} /\ MaxTime \in Nat

Ends == {"waiting", "ok", "denied", "raised"}

Given == [owner : Actors, version : Int, expires : Nat]
Made  == [tool : {"search", "fetch"}, by : Actors, at : Ends,
          result : Nat, expires : Nat, since : Nat]

\* The part of the typing the argument needs.
Shape ==
    /\ now \in Nat
    /\ ledger \in Seq(Given) /\ brainRequest \in Seq(Made)
    /\ Len(brainRequest) <= MaxRequests
    /\ memory \in [version : Int, quarantined : BOOLEAN]
    /\ trail \in [Brain!Requests -> Seq({"complete", "denied"})]

\* A request that waits for the sidecar has not waited longer than Lag, and
\* one that fetches was given an entry of its own that had not expired when
\* it was looked up.
WaitingIsBound ==
    \A n \in DOMAIN brainRequest :
        brainRequest[n].at = "waiting" =>
            /\ brainRequest[n].since <= now /\ now
                 <= brainRequest[n].since + SidecarLag
            /\ trail[n] = <<>>
            /\ brainRequest[n].tool = "fetch" =>
                  /\ brainRequest[n].result \in DOMAIN ledger
                  /\ ledger[brainRequest[n].result].owner = brainRequest[n].by
                  /\ ledger[brainRequest[n].result].expires > brainRequest[n].since

DeliveredFromLedger == \A d \in delivered : d.result \in DOMAIN ledger

\* Nothing is recorded of a request that was not made.
NoTrailYet == \A n \in Brain!Requests \ DOMAIN brainRequest : trail[n] = <<>>

BrainInv ==
    /\ Shape
    /\ WaitingIsBound
    /\ DeliveredFromLedger
    /\ NoTrailYet
    /\ Brain!ReadsAreBound

LEMMA Elements ==
    ASSUME NEW S, NEW s \in Seq(S), NEW e \in S
    PROVE  /\ \A i \in DOMAIN s : s[i] \in S
           /\ \A i \in DOMAIN s : [s EXCEPT ![i] = e] \in Seq(S)
           /\ Append(s, e) \in Seq(S)
           /\ DOMAIN s \subseteq DOMAIN Append(s, e)
           /\ \A i \in DOMAIN s : Append(s, e)[i] = s[i]
OBVIOUS

LEMMA BrainInit == ASSUME BrainBounds, Brain!Init PROVE BrainInv
<1>1. Shape
  BY DEF BrainBounds, Brain!Init, Shape, Brain!Requests
<1>2. DOMAIN brainRequest = {} /\ delivered = {}
  BY DEF Brain!Init
<1>3. NoTrailYet
  BY DEF Brain!Init, NoTrailYet
<1> QED
  BY <1>1, <1>2, <1>3 DEF BrainInv, WaitingIsBound, DeliveredFromLedger,
     Brain!ReadsAreBound, Brain!ContentIsBound, Brain!ReadsAreAudited

\* A request made at the sidecar, or refused before.
LEMMA OpensStep ==
    ASSUME BrainBounds, BrainInv, NEW tool \in {"search", "fetch"},
           NEW p \in Actors, NEW state \in {"waiting", "denied"},
           NEW entry \in Nat, NEW expires \in Nat,
           Brain!Opens(tool, p, state, entry, expires),
           IF state = "denied" THEN Brain!Records(Len(brainRequest'),
               <<"denied">>)
                            ELSE UNCHANGED trail,
           state = "waiting" /\ tool = "fetch" =>
              /\ entry \in DOMAIN ledger
              /\ ledger[entry].owner = p /\ ledger[entry].expires > now,
           UNCHANGED <<now, memory, ledger, delivered>>
    PROVE  BrainInv'
<1> DEFINE new == [tool |-> tool, by |-> p, at |-> state, result |-> entry,
                   expires |-> expires, since |-> now]
<1> DEFINE m == Len(brainRequest) + 1
<1> USE DEF BrainInv
<1>1. brainRequest' = Append(brainRequest, new) /\ m \in Brain!Requests
            /\ now \in Nat
  BY DEF Brain!Opens, Shape, Brain!Requests, BrainBounds
<1>2. new \in Made /\ brainRequest \in Seq(Made)
  BY <1>1 DEF Ends, Made, Shape
<1>3. /\ Len(brainRequest') = m /\ m \notin DOMAIN brainRequest
      /\ DOMAIN brainRequest' = DOMAIN brainRequest \cup {m}
      /\ brainRequest'[m] = new
      /\ \A n \in DOMAIN brainRequest : brainRequest'[n] = brainRequest[n]
  BY <1>2, <1>1
<1>4. /\ \A n \in Brain!Requests : n # m => trail'[n] = trail[n]
      /\ trail'[m] = IF state = "denied" THEN <<"denied">> ELSE <<>>
      /\ trail' \in [Brain!Requests -> Seq({"complete", "denied"})]
  <2>1. trail[m] = <<>>
    BY <1>1, <1>3 DEF NoTrailYet
  <2>2. CASE state = "denied"
    <3>1. trail' = [trail EXCEPT ![m] = <<>> \o <<"denied">>]
      BY <1>3, <2>1, <2>2 DEF Brain!Records, Shape
    <3>2. <<>> \o <<"denied">> = <<"denied">>
      OBVIOUS
    <3> QED
      BY <1>1, <2>2, <3>1, <3>2 DEF Shape
  <2>3. CASE state = "waiting"
    BY <2>1, <2>3 DEF Shape
  <2> QED
    BY <2>2, <2>3
<1>5. DOMAIN brainRequest \subseteq Brain!Requests
  BY <1>2 DEF Shape, Brain!Requests, BrainBounds
<1>6. Shape'
  <2>1. brainRequest' \in Seq(Made)
    BY <1>2, <1>1
  <2>2. Len(brainRequest') <= MaxRequests
    BY <1>1, <1>3 DEF Brain!Requests
  <2> QED
    BY <1>1, <1>4, <2>1, <2>2 DEF Shape
<1>7. WaitingIsBound'
  <2> SUFFICES ASSUME NEW n \in DOMAIN brainRequest',
            brainRequest'[n].at = "waiting"
               PROVE  /\ brainRequest'[n].since <= now /\ now
                           <= brainRequest'[n].since + SidecarLag
                      /\ trail'[n] = <<>>
                      /\ brainRequest'[n].tool = "fetch" =>
                           /\ brainRequest'[n].result \in DOMAIN ledger
                           /\ ledger[brainRequest'[n].result].owner = brainRequest'[n].by
                           /\ ledger[brainRequest'[n].result].expires
                                 > brainRequest'[n].since
    BY DEF WaitingIsBound
  <2>1. CASE n = m
    BY <1>1, <1>3, <1>4, <2>1 DEF BrainBounds
  <2>2. CASE n \in DOMAIN brainRequest
    BY <1>3, <1>4, <1>5, <2>2 DEF WaitingIsBound
  <2> QED
    BY <1>3, <2>1, <2>2
<1>8. DeliveredFromLedger' /\ Brain!ContentIsBound'
  BY DEF DeliveredFromLedger, Brain!ReadsAreBound, Brain!ContentIsBound
<1>9. NoTrailYet'
  BY <1>3, <1>4 DEF NoTrailYet
<1>10. Brain!ReadsAreAudited'
  <2>1. ASSUME NEW n \in DOMAIN brainRequest
        PROVE  brainRequest'[n] = brainRequest[n] /\ trail'[n] = trail[n]
    BY <1>3, <1>4, <1>5
  <2>2. brainRequest'[m].at = state
    BY <1>3
  <2> QED
    BY <1>3, <1>4, <2>1, <2>2 DEF Brain!ReadsAreBound, Brain!ReadsAreAudited
<1> QED
  BY <1>6, <1>7, <1>8, <1>9, <1>10 DEF Brain!ReadsAreBound

\* A request that waited ends: an event is recorded for it, unless it raises,
\* a search may add an entry, and a fetch that succeeds gives content out.
LEMMA ConcludesStep ==
    ASSUME BrainBounds, BrainInv, NEW n \in DOMAIN brainRequest,
           brainRequest[n].at = "waiting",
           NEW state \in {"ok", "denied", "raised"}, Brain!Concludes(n, state),
           NEW states \in Seq({"complete", "denied"}),
           trail' = [trail EXCEPT ![n] = states],
           state = "ok" => states # <<>> /\ states[Len(states)] = "complete",
           state = "denied" => states = <<"denied">>,
           state = "raised" => states = <<>>,
           \/ UNCHANGED ledger
           \/ \E e \in Given : ledger' = Append(ledger, e),
           \A d \in delivered' \ delivered :
              /\ d.result \in DOMAIN ledger
              /\ ledger[d.result].owner = d.to
              /\ ledger[d.result].version = d.version
              /\ d.time < ledger[d.result].expires + SidecarLag,
           UNCHANGED <<now, memory>>
    PROVE  BrainInv'
<1> USE DEF BrainInv
<1>1. brainRequest \in Seq(Made) /\ ledger \in Seq(Given)
            /\ n \in Brain!Requests
  <2>1. brainRequest \in Seq(Made) /\ ledger \in Seq(Given)
    BY DEF Shape
  <2>2. n \in 1 .. Len(brainRequest) /\ Len(brainRequest) \in Nat
              /\ Len(brainRequest) <= MaxRequests
    BY <2>1 DEF Shape
  <2> QED
    BY <2>1, <2>2 DEF Brain!Requests, BrainBounds
<1> DEFINE end == [brainRequest[n] EXCEPT !.at = state]
<1>2. end \in Made /\ end.at = state
  <2>1. brainRequest[n] \in Made
    BY <1>1, Elements
  <2> QED
    BY <2>1 DEF Made, Ends
<1>3. brainRequest' = [brainRequest EXCEPT ![n] = end]
  BY DEF Brain!Concludes
<1> HIDE DEF end
<1>4. /\ brainRequest' \in Seq(Made)
      /\ DOMAIN brainRequest' = DOMAIN brainRequest
      /\ Len(brainRequest') = Len(brainRequest)
      /\ brainRequest'[n].at = state
      /\ \A k \in DOMAIN brainRequest : k # n
           => brainRequest'[k] = brainRequest[k]
  BY <1>1, <1>2, <1>3
<1>5. /\ trail' \in [Brain!Requests -> Seq({"complete", "denied"})]
      /\ trail'[n] = states
      /\ \A k \in Brain!Requests : k # n => trail'[k] = trail[k]
  BY <1>1 DEF Shape
<1>6. /\ ledger' \in Seq(Given)
      /\ DOMAIN ledger \subseteq DOMAIN ledger'
      /\ \A k \in DOMAIN ledger : ledger'[k] = ledger[k]
  <2>1. CASE UNCHANGED ledger
    BY <1>1, <2>1
  <2>2. ASSUME NEW e \in Given, ledger' = Append(ledger, e)
        PROVE  /\ ledger' \in Seq(Given)
               /\ DOMAIN ledger \subseteq DOMAIN ledger'
               /\ \A k \in DOMAIN ledger : ledger'[k] = ledger[k]
    BY <1>1, <2>2, Elements
  <2> QED
    BY <2>1, <2>2
<1>7. DOMAIN brainRequest \subseteq Brain!Requests
  <2>1. DOMAIN brainRequest = 1 .. Len(brainRequest)
              /\ Len(brainRequest) \in Nat
    BY <1>1
  <2> QED
    BY <2>1 DEF Shape, Brain!Requests, BrainBounds
<1>8. Shape'
  BY <1>4, <1>5, <1>6 DEF Shape
<1>9. WaitingIsBound'
  BY <1>4, <1>5, <1>6, <1>7 DEF WaitingIsBound
<1>10. DeliveredFromLedger'
  BY <1>6 DEF DeliveredFromLedger
<1>11. NoTrailYet'
  BY <1>4, <1>5 DEF NoTrailYet
<1>12. Brain!ContentIsBound'
  BY <1>6 DEF Brain!ReadsAreBound, Brain!ContentIsBound, DeliveredFromLedger
<1>13. Brain!ReadsAreAudited'
  BY <1>4, <1>5, <1>7 DEF Brain!ReadsAreBound, Brain!ReadsAreAudited
<1> QED
  BY <1>8, <1>9, <1>10, <1>11, <1>12, <1>13 DEF Brain!ReadsAreBound

LEMMA BrainStep == ASSUME BrainBounds, BrainInv, [Brain!Next]_(Brain!vars)
PROVE BrainInv'
<1>1. /\ brainRequest \in Seq(Made) /\ ledger \in Seq(Given) /\ now \in Nat
      /\ Brain!Results \subseteq Nat
  BY DEF BrainInv, Shape, Brain!Results
<1>2. /\ \A n \in DOMAIN brainRequest : brainRequest[n] \in Made
      /\ \A k \in DOMAIN ledger : ledger[k] \in Given
  BY <1>1, Elements
<1>3. CASE Brain!Invalid
  <2>1. PICK p \in Actors, tool \in {"search", "fetch"} : Brain!Refuses(tool, p)
    BY <1>3 DEF Brain!Invalid
  <2> QED
    BY <1>3, <2>1, OpensStep DEF Brain!Invalid, Brain!Refuses
<1>4. CASE Brain!Search
  <2>1. PICK p \in Actors, ttl \in ResultTtls :
           Brain!Opens("search", p, "waiting", 0, now + ttl)
    BY <1>4 DEF Brain!Search
  <2>2. now + ttl \in Nat
    BY <1>1 DEF BrainBounds
  <2> QED
    BY <1>4, <2>1, <2>2, OpensStep DEF Brain!Search
<1>5. CASE Brain!FetchDenied
  <2>1. PICK p \in Actors : Brain!Refuses("fetch", p)
    BY <1>5 DEF Brain!FetchDenied
  <2> QED
    BY <1>5, <2>1, OpensStep DEF Brain!FetchDenied, Brain!Refuses
<1>6. CASE Brain!Fetch
  <2>1. PICK p \in Actors, k \in Brain!Results :
           /\ Brain!InLedger(k) /\ ledger[k].expires > now
           /\ ledger[k].owner = p
           /\ Brain!Opens("fetch", p, "waiting", k, 0)
    BY <1>6 DEF Brain!Fetch
  <2> QED
    BY <1>1, <1>6, <2>1, OpensStep DEF Brain!Fetch, Brain!InLedger
<1>7. ASSUME NEW n \in Brain!Requests, Brain!SidecarRaises(n) PROVE BrainInv'
  <2>1. n \in DOMAIN brainRequest /\ brainRequest[n].at = "waiting"
    BY <1>7 DEF Brain!SidecarRaises, Brain!Waiting
  <2>2. trail' = [trail EXCEPT ![n] = <<>>]
    BY <1>7, <2>1 DEF Brain!SidecarRaises, BrainInv, WaitingIsBound, Shape
  <2>3. /\ Brain!Concludes(n, "raised") /\ delivered' \ delivered = {}
        /\ UNCHANGED <<now, memory>> /\ UNCHANGED ledger
    BY <1>7 DEF Brain!SidecarRaises
  <2>4. <<>> \in Seq({"complete", "denied"})
    OBVIOUS
  <2> QED
    BY <2>1, <2>2, <2>3, <2>4, ConcludesStep
<1>8. ASSUME NEW n \in Brain!Requests, Brain!Denied(n) PROVE BrainInv'
  <2>1. n \in DOMAIN brainRequest /\ brainRequest[n].at = "waiting"
    BY <1>8 DEF Brain!Denied, Brain!Waiting
  <2>2. trail[n] = <<>> /\ <<>> \o <<"denied">> = <<"denied">>
    BY <2>1 DEF BrainInv, WaitingIsBound
  <2>3. trail' = [trail EXCEPT ![n] = <<"denied">>]
    BY <1>8, <2>2 DEF Brain!Denied, Brain!Records
  <2>4. /\ Brain!Concludes(n, "denied") /\ delivered' \ delivered = {}
        /\ UNCHANGED <<now, memory>> /\ UNCHANGED ledger
    BY <1>8 DEF Brain!Denied
  <2>5. <<"denied">> \in Seq({"complete", "denied"})
    OBVIOUS
  <2> QED
    BY <2>1, <2>3, <2>4, <2>5, ConcludesStep
<1>9. ASSUME NEW n \in Brain!Requests, Brain!Recalled(n) PROVE BrainInv'
  <2>1. n \in DOMAIN brainRequest /\ brainRequest[n].at = "waiting"
    BY <1>9 DEF Brain!Recalled, Brain!Waiting
  <2>2. trail[n] = <<>>
    BY <2>1 DEF BrainInv, WaitingIsBound
  <2>3. PICK nameless \in {<<>>, <<"denied">>} :
           Brain!Records(n, nameless \o <<"complete">>)
    BY <1>9 DEF Brain!Recalled
  <2> DEFINE states == nameless \o <<"complete">>
  <2>4. /\ states \in Seq({"complete", "denied"}) /\ states # <<>>
        /\ states[Len(states)] = "complete" /\ <<>> \o states = states
    <3> DEFINE S == {"complete", "denied"}
    <3>1. <<>> \in Seq(S) /\ <<"denied">> \in Seq(S)
                /\ <<"complete">> \in Seq(S)
      OBVIOUS
    <3> HIDE DEF S
    <3>2. nameless \in Seq(S) /\ <<"complete">> \in Seq(S)
      BY <3>1
    <3>3. Len(<<"complete">>) = 1 /\ <<"complete">>[1] = "complete"
      OBVIOUS
    <3>4. /\ states \in Seq(S) /\ Len(states) = Len(nameless) + 1
          /\ states[Len(states)] = "complete"
      BY <3>2, <3>3, ConcatProperties
    <3>5. states # <<>>
      BY <3>2, <3>4
    <3>6. <<>> \o states = states
      <4> HIDE DEF states
      <4> QED
        BY <3>4, ConcatEmptySeq
    <3> QED
      BY <3>4, <3>5, <3>6 DEF S
  <2>5. trail' = [trail EXCEPT ![n] = states]
    BY <2>2, <2>3, <2>4 DEF Brain!Records
  <2>6. UNCHANGED ledger \/ \E e \in Given : ledger' = Append(ledger, e)
    <3>1. brainRequest[n].by \in Actors /\ brainRequest[n].expires \in Nat
      BY <1>2, <2>1 DEF Made
    <3> QED
      BY <1>9, <3>1 DEF Brain!Recalled, Given, BrainInv, Shape
  <2> HIDE DEF states
  <2> QED
    BY <1>9, <2>1, <2>4, <2>5, <2>6, ConcludesStep DEF Brain!Recalled
<1>10. ASSUME NEW n \in Brain!Requests, Brain!Fetched(n) PROVE BrainInv'
  <2>1. /\ n \in DOMAIN brainRequest /\ brainRequest[n].at = "waiting"
        /\ brainRequest[n].tool = "fetch"
    BY <1>10 DEF Brain!Fetched, Brain!Waiting
  <2>2. trail[n] = <<>> /\ <<>> \o <<"complete">> = <<"complete">>
    BY <2>1 DEF BrainInv, WaitingIsBound
  <2>3. trail' = [trail EXCEPT ![n] = <<"complete">>]
    BY <1>10, <2>2 DEF Brain!Fetched, Brain!Records
  <2>4. PICK k : k = brainRequest[n].result
    OBVIOUS
  <2>5. /\ k \in DOMAIN ledger /\ ledger[k].owner = brainRequest[n].by
        /\ now < ledger[k].expires + SidecarLag
    <3>1. brainRequest[n].since \in Nat
      BY <1>2, <2>1 DEF Made
    <3>2. /\ k \in DOMAIN ledger /\ ledger[k].owner = brainRequest[n].by
          /\ ledger[k].expires > brainRequest[n].since
          /\ now <= brainRequest[n].since + SidecarLag
      BY <2>1, <2>4 DEF BrainInv, WaitingIsBound
    <3>3. ledger[k] \in Given
      BY <1>1, <3>2
    <3>4. ledger[k].expires \in Nat
      BY <3>3 DEF Given
    <3> QED
      BY <1>1, <3>1, <3>2, <3>4 DEF BrainBounds
  <2>6. \A d \in delivered' \ delivered :
           /\ d.result \in DOMAIN ledger
           /\ ledger[d.result].owner = d.to
           /\ ledger[d.result].version = d.version
           /\ d.time < ledger[d.result].expires + SidecarLag
    BY <1>10, <2>5, <2>4 DEF Brain!Fetched
  <2>7. Brain!Concludes(n, "ok") /\ UNCHANGED <<now, memory>>
              /\ UNCHANGED ledger
    BY <1>10 DEF Brain!Fetched
  <2>8. /\ <<"complete">> \in Seq({"complete", "denied"})
        /\ <<"complete">> # <<>>
        /\ <<"complete">>[Len(<<"complete">>)] = "complete"
    OBVIOUS
  <2> QED
    BY <2>1, <2>3, <2>6, <2>7, <2>8, ConcludesStep
<1>11. CASE Brain!Tick
  <2>1. now' = now + 1 /\ UNCHANGED <<ledger, brainRequest, trail, delivered,
              memory>>
    BY <1>11 DEF Brain!Tick
  <2>2. \A n \in DOMAIN brainRequest :
           /\ brainRequest[n].since \in Nat
           /\ brainRequest[n].at = "waiting"
                => now - brainRequest[n].since < SidecarLag
    BY <1>11, <1>2 DEF Brain!Tick, Made
  <2>3. WaitingIsBound'
    BY <1>1, <2>1, <2>2 DEF BrainInv, WaitingIsBound, BrainBounds
  <2>4. Shape' /\ DeliveredFromLedger' /\ NoTrailYet' /\ Brain!ReadsAreBound'
    BY <2>1 DEF BrainInv, Shape, DeliveredFromLedger, NoTrailYet,
       Brain!ReadsAreBound, Brain!ContentIsBound, Brain!ReadsAreAudited
  <2> QED
    BY <2>3, <2>4 DEF BrainInv
<1>12. CASE Brain!MemoryChanges
  <2>1. memory' \in [version : Int, quarantined : BOOLEAN]
    <3>1. memory.version + 1 \in Int /\ (~memory.quarantined) \in BOOLEAN
      BY DEF BrainInv, Shape
    <3> QED
      BY <1>12, <3>1 DEF Brain!MemoryChanges, BrainInv, Shape
  <2> QED
    BY <1>12, <2>1 DEF Brain!MemoryChanges, BrainInv, Shape, WaitingIsBound,
       NoTrailYet, DeliveredFromLedger, Brain!ReadsAreBound,
       Brain!ContentIsBound, Brain!ReadsAreAudited
<1>13. CASE UNCHANGED Brain!vars
  BY <1>13 DEF Brain!vars, BrainInv, Shape, WaitingIsBound, NoTrailYet,
     DeliveredFromLedger, Brain!ReadsAreBound, Brain!ContentIsBound,
     Brain!ReadsAreAudited
<1> QED
  BY <1>3, <1>4, <1>5, <1>6, <1>7, <1>8, <1>9, <1>10, <1>11, <1>12, <1>13 DEF
     Brain!Next

-----------------------------------------------------------------------------
\* A result in the ledger is the answer of a search.
Answered == {n \in DOMAIN brainRequest : brainRequest[n].at = "ok"}

LedgerIsAnswered == Len(ledger) <= Cardinality(Answered)

BrainTypeInv == BrainInv /\ Brain!TypeOK /\ LedgerIsAnswered

LEMMA InRange ==
    ASSUME NEW S, NEW s, Brain!Range(s) \subseteq S
    PROVE \A i \in DOMAIN s : s[i] \in S
BY DEF Brain!Range

LEMMA RangeGrows ==
    ASSUME NEW T, NEW S, NEW s \in Seq(T), NEW e \in S,
        Brain!Range(s) \subseteq S
    PROVE  /\ Brain!Range(Append(s, e)) \subseteq S
           /\ \A i \in DOMAIN s : Brain!Range([s EXCEPT ![i] = e]) \subseteq S
           /\ \A i \in DOMAIN s : Len([s EXCEPT ![i] = e]) = Len(s)
<1>1. \A i \in DOMAIN s : s[i] \in S
  BY DEF Brain!Range
<1>2. Brain!Range(Append(s, e)) \subseteq S
  <2>1. \A i \in DOMAIN Append(s, e) : Append(s, e)[i] \in S
    BY <1>1
  <2> QED
    BY <2>1 DEF Brain!Range
<1>3. \A i \in DOMAIN s : Brain!Range([s EXCEPT ![i] = e]) \subseteq S
  BY <1>1 DEF Brain!Range
<1> QED
  BY <1>1, <1>2, <1>3

LEMMA BrainTypeInit == ASSUME BrainBounds, Brain!Init PROVE BrainTypeInv
<1>1. Brain!TypeOK
  BY DEF BrainBounds, Brain!Init, Brain!TypeOK, Brain!Times, Brain!Range
<1>2. LedgerIsAnswered
  <2>1. Answered = {} /\ Len(ledger) = 0
    BY DEF Brain!Init, Answered
  <2> QED
    BY <2>1, FS_EmptySet DEF LedgerIsAnswered
<1> QED
  BY <1>1, <1>2, BrainInit DEF BrainTypeInv

\* The requests answered only become more, and are finitely many.
LEMMA AnsweredGrows ==
    ASSUME BrainBounds, BrainTypeInv, Answered \subseteq Answered',
        Len(ledger') = Len(ledger),
           brainRequest' \in Seq(Made)
    PROVE  LedgerIsAnswered'
<1>1. Len(brainRequest') \in Nat /\ Answered' \subseteq 1 .. Len(brainRequest')
  BY DEF Answered
<1>2. IsFiniteSet(Answered')
  <2>1. IsFiniteSet(1 .. Len(brainRequest'))
    BY <1>1, FS_Interval
  <2> QED
    BY <1>1, <2>1, FS_Subset
<1>3. Cardinality(Answered) <= Cardinality(Answered') /\ IsFiniteSet(Answered)
  BY <1>2, FS_Subset
<1>4. Cardinality(Answered) \in Nat /\ Cardinality(Answered') \in Nat
            /\ Len(ledger) \in Nat
  BY <1>2, <1>3, FS_CardinalityType DEF BrainTypeInv, BrainInv, Shape
<1> QED
  BY <1>3, <1>4 DEF BrainTypeInv, LedgerIsAnswered

\* What opens or concludes a request.
LEMMA OpensType ==
    ASSUME BrainBounds, BrainTypeInv, NEW tool \in {"search", "fetch"},
        NEW p \in Actors,
           NEW state \in {"waiting", "denied"}, NEW entry \in {0} \cup
               Brain!Results, NEW expires \in Nat,
           Brain!Opens(tool, p, state, entry, expires),
               Len(ledger') = Len(ledger)
    PROVE  /\ Len(brainRequest') <= MaxRequests
           /\ Brain!Range(brainRequest') \subseteq Brain!Request
           /\ LedgerIsAnswered'
<1> DEFINE new == [tool |-> tool, by |-> p, at |-> state, result |-> entry,
                   expires |-> expires, since |-> now]
<1>1. /\ brainRequest' = Append(brainRequest, new)
      /\ brainRequest \in Seq(Made) /\ Len(brainRequest) < MaxRequests
      /\ Brain!Range(brainRequest) \subseteq Brain!Request
      /\ MaxRequests \in Nat
  BY DEF Brain!Opens, BrainTypeInv, BrainInv, Shape, Brain!TypeOK, BrainBounds
<1>2. new \in Brain!Request /\ new \in Made
  <2>1. now \in Brain!Times /\ now \in Nat /\ entry \in Nat
    BY DEF BrainTypeInv, BrainInv, Shape, Brain!TypeOK, Brain!Results
  <2> QED
    BY <2>1 DEF Brain!Request, Made, Ends
<1> HIDE DEF new
<1>3. brainRequest' \in Seq(Made) /\ Len(brainRequest') <= MaxRequests
  BY <1>1, <1>2
<1>4. Brain!Range(brainRequest') \subseteq Brain!Request
  BY <1>1, <1>2, RangeGrows
<1>5. Answered \subseteq Answered'
  BY <1>1, <1>2, Elements DEF Answered
<1> QED
  BY <1>3, <1>4, <1>5, AnsweredGrows

LEMMA ConcludesType ==
    ASSUME BrainBounds, BrainTypeInv, NEW n \in DOMAIN brainRequest,
        brainRequest[n].at = "waiting",
           NEW state \in {"ok", "denied", "raised"}, Brain!Concludes(n, state)
    PROVE  /\ Len(brainRequest') <= MaxRequests
           /\ Brain!Range(brainRequest') \subseteq Brain!Request
           /\ brainRequest' \in Seq(Made)
           /\ Answered' = Answered \cup (IF state = "ok" THEN {n} ELSE {})
                /\ n \notin Answered
<1> DEFINE old == brainRequest[n]
           new == [old EXCEPT !.at = state]
<1>1. /\ brainRequest \in Seq(Made)
      /\ Brain!Range(brainRequest) \subseteq Brain!Request
      /\ Len(brainRequest) <= MaxRequests
      /\ brainRequest' = [brainRequest EXCEPT ![n] = new]
  BY DEF Brain!Concludes, BrainTypeInv, BrainInv, Shape, Brain!TypeOK
<1>2. old \in Made /\ old \in Brain!Request
  BY <1>1, InRange
<1>3. new \in Made /\ new \in Brain!Request /\ new.at = state
  BY <1>2 DEF Made, Ends, Brain!Request
<1> HIDE DEF new
<1>4. brainRequest' \in Seq(Made) /\ Len(brainRequest') = Len(brainRequest)
  BY <1>1, <1>3
<1>5. Brain!Range(brainRequest') \subseteq Brain!Request
  BY <1>1, <1>3, RangeGrows
<1>6. DOMAIN brainRequest' = DOMAIN brainRequest /\ brainRequest'[n] = new
      /\ \A m \in DOMAIN brainRequest : m # n
           => brainRequest'[m] = brainRequest[m]
  BY <1>1
<1>7. Answered' = Answered \cup (IF state = "ok" THEN {n} ELSE {})
            /\ n \notin Answered
  BY <1>3, <1>6 DEF Answered
<1> QED
  BY <1>1, <1>4, <1>5, <1>7

LEMMA BrainTypeStep == ASSUME BrainBounds, BrainTypeInv,
    [Brain!Next]_(Brain!vars) PROVE BrainTypeInv'
<1>1. BrainInv'
  BY BrainStep DEF BrainTypeInv
<1>2. Brain!TypeOK /\ BrainInv /\ BrainBounds
  BY DEF BrainTypeInv
<1>3. trail' \in [Brain!Requests -> Seq({"complete", "denied"})]
  BY <1>1 DEF BrainInv, Shape
<1>4. ASSUME NEW tool \in {"search", "fetch"}, NEW p \in Actors,
             NEW state \in {"waiting", "denied"}, NEW entry \in {0} \cup
                 Brain!Results, NEW expires \in Nat,
             Brain!Opens(tool, p, state, entry, expires),
             UNCHANGED <<now, memory, ledger, delivered>>,
                 dropped' \subseteq DOMAIN ledger
      PROVE  BrainTypeInv'
  BY <1>1, <1>2, <1>3, <1>4, OpensType DEF BrainTypeInv, Brain!TypeOK
<1>5. ASSUME NEW n \in Brain!Requests, NEW tool \in {"search", "fetch"},
            Brain!Waiting(n, tool),
             NEW state \in {"ok", "denied", "raised"},
                 Brain!Concludes(n, state),
             UNCHANGED <<now, memory, ledger, dropped>>,
             delivered' \subseteq [to : Actors, result : Brain!Results,
                                   version : 1 .. MaxVersion, time :
                                       Brain!Times]
      PROVE  BrainTypeInv'
  <2>1. /\ Len(brainRequest') <= MaxRequests
        /\ Brain!Range(brainRequest') \subseteq Brain!Request
        /\ brainRequest' \in Seq(Made) /\ Answered \subseteq Answered'
    BY <1>5, ConcludesType DEF Brain!Waiting
  <2>2. LedgerIsAnswered'
    BY <1>5, <2>1, AnsweredGrows
  <2> QED
    BY <1>1, <1>2, <1>3, <1>5, <2>1, <2>2 DEF BrainTypeInv, Brain!TypeOK
<1>6. CASE Brain!Tick \/ Brain!MemoryChanges \/ UNCHANGED Brain!vars
  <2>1. UNCHANGED <<ledger, dropped, brainRequest, trail, delivered>>
    BY <1>6 DEF Brain!Tick, Brain!MemoryChanges, Brain!vars
  <2>2. now' \in Brain!Times
    BY <1>2, <1>6 DEF Brain!Tick, Brain!MemoryChanges, Brain!vars,
       Brain!TypeOK, Brain!Times, BrainBounds
  <2>3. memory' \in [version : 1 .. MaxVersion, quarantined : BOOLEAN]
    <3>1. memory.version < MaxVersion => memory.version + 1 \in 1 .. MaxVersion
      BY <1>2 DEF Brain!TypeOK, BrainBounds
    <3> QED
      BY <1>2, <1>6, <3>1 DEF Brain!Tick, Brain!MemoryChanges, Brain!vars,
         Brain!TypeOK
  <2>4. LedgerIsAnswered'
    BY <2>1 DEF BrainTypeInv, LedgerIsAnswered, Answered
  <2> QED
    BY <1>1, <1>2, <2>1, <2>2, <2>3, <2>4 DEF BrainTypeInv, Brain!TypeOK
<1>7. CASE Brain!Invalid
  <2>1. PICK p \in Actors, tool \in {"search", "fetch"} : Brain!Refuses(tool, p)
    BY <1>7 DEF Brain!Invalid
  <2> QED
    BY <1>2, <1>4, <1>7, <2>1 DEF Brain!Invalid, Brain!Refuses, Brain!TypeOK
<1>8. CASE Brain!Search
  <2>1. PICK p \in Actors, ttl \in ResultTtls :
              Brain!Opens("search", p, "waiting", 0, now + ttl)
    BY <1>8 DEF Brain!Search
  <2>2. now + ttl \in Nat
    BY <1>2, <2>1 DEF BrainInv, Shape, BrainBounds
  <2> QED
    BY <1>2, <1>4, <1>8, <2>1, <2>2 DEF Brain!Search, Brain!TypeOK
<1>9. CASE Brain!FetchDenied
  <2>1. PICK p \in Actors, k \in Brain!Results :
           /\ Brain!Refuses("fetch", p)
           /\ \/ ~Brain!InLedger(k) /\ UNCHANGED dropped
              \/ /\ Brain!InLedger(k) /\ ledger[k].expires <= now
                 /\ dropped' = dropped \cup {k}
              \/ /\ Brain!InLedger(k) /\ ledger[k].expires > now
                 /\ ledger[k].owner # p /\ UNCHANGED dropped
    BY <1>9 DEF Brain!FetchDenied
  <2>2. dropped' \subseteq DOMAIN ledger
    BY <1>2, <2>1 DEF Brain!InLedger, Brain!TypeOK
  <2> QED
    BY <1>4, <1>9, <2>1, <2>2 DEF Brain!FetchDenied, Brain!Refuses
<1>10. CASE Brain!Fetch
  <2>1. PICK p \in Actors, k \in Brain!Results :
           Brain!InLedger(k) /\ Brain!Opens("fetch", p, "waiting", k, 0)
    BY <1>10 DEF Brain!Fetch
  <2> QED
    BY <1>2, <1>4, <1>10, <2>1 DEF Brain!Fetch, Brain!TypeOK
<1>11. ASSUME NEW n \in Brain!Requests, Brain!SidecarRaises(n)
       PROVE BrainTypeInv'
  BY <1>2, <1>5, <1>11 DEF Brain!SidecarRaises, Brain!TypeOK
<1>12. ASSUME NEW n \in Brain!Requests, Brain!Denied(n) PROVE BrainTypeInv'
  BY <1>2, <1>5, <1>12 DEF Brain!Denied, Brain!TypeOK
<1>13. ASSUME NEW n \in Brain!Requests, Brain!Fetched(n) PROVE BrainTypeInv'
  <2>1. brainRequest[n] \in Brain!Request /\ n \in DOMAIN brainRequest
    BY <1>2, <1>13, InRange DEF Brain!Fetched, Brain!Waiting, Brain!TypeOK,
       BrainInv, Shape
  <2>2. brainRequest[n].result \in Brain!Results
    <3>1. brainRequest[n].result \in DOMAIN ledger
      BY <1>2, <1>13 DEF Brain!Fetched, Brain!Waiting, BrainInv,
         WaitingIsBound
    <3> QED
      BY <1>2, <3>1 DEF BrainInv, Shape, Brain!TypeOK, Brain!Results,
         BrainBounds
  <2>3. memory.version \in 1 .. MaxVersion /\ now \in Brain!Times
              /\ brainRequest[n].by \in Actors
    BY <1>2, <2>1 DEF Brain!TypeOK, Brain!Request
  <2>4. delivered' \subseteq [to : Actors, result : Brain!Results,
                              version : 1 .. MaxVersion, time : Brain!Times]
    BY <1>2, <1>13, <2>2, <2>3 DEF Brain!Fetched, Brain!TypeOK
  <2> QED
    BY <1>5, <1>13, <2>4 DEF Brain!Fetched
<1>14. ASSUME NEW n \in Brain!Requests, Brain!Recalled(n) PROVE BrainTypeInv'
  <2> DEFINE entry == [owner |-> brainRequest[n].by, version |-> memory.version,
                       expires |-> brainRequest[n].expires]
  <2>1. /\ n \in DOMAIN brainRequest /\ brainRequest[n].at = "waiting"
        /\ Brain!Concludes(n, "ok")
        /\ UNCHANGED <<now, memory, dropped, delivered>>
        /\ ledger' = Append(ledger, entry) \/ ledger' = ledger
    BY <1>14 DEF Brain!Recalled, Brain!Waiting
  <2>2. brainRequest[n] \in Brain!Request
    BY <1>2, <2>1, InRange DEF Brain!TypeOK, BrainInv, Shape
  <2>3. entry \in Brain!Entry /\ ledger \in Seq(Given)
              /\ Brain!Range(ledger) \subseteq Brain!Entry
    BY <1>2, <2>2 DEF Brain!TypeOK, Brain!Request, Brain!Entry, BrainInv,
       Shape
  <2> HIDE DEF entry
  <2>4. /\ Len(brainRequest') <= MaxRequests
        /\ Brain!Range(brainRequest') \subseteq Brain!Request
        /\ brainRequest' \in Seq(Made) /\ Answered' = Answered \cup {n}
        /\ n \notin Answered
    BY <2>1, ConcludesType DEF BrainTypeInv
  <2>5. /\ Len(brainRequest) \in Nat
        /\ Answered \subseteq 1 .. Len(brainRequest)
        /\ Len(brainRequest') \in Nat
        /\ Answered' \subseteq 1 .. Len(brainRequest')
    BY <1>2, <2>4 DEF Answered, BrainInv, Shape
  <2>6. IsFiniteSet(Answered) /\ IsFiniteSet(Answered')
    <3>1. IsFiniteSet(1 .. Len(brainRequest))
                /\ IsFiniteSet(1 .. Len(brainRequest'))
      BY <2>5, FS_Interval
    <3> QED
      BY <2>5, <3>1, FS_Subset
  <2>7. Cardinality(Answered') = Cardinality(Answered) + 1
              /\ Cardinality(Answered) \in Nat
    BY <2>4, <2>6, FS_AddElement, FS_CardinalityType
  <2>8. Len(ledger') <= Len(ledger) + 1 /\ Len(ledger) \in Nat
              /\ Len(ledger') \in Nat
    BY <2>1, <2>3
  <2>9. LedgerIsAnswered'
    BY <2>7, <2>8 DEF BrainTypeInv, LedgerIsAnswered
  <2>10. Cardinality(Answered') <= MaxRequests
    <3>1. Cardinality(1 .. Len(brainRequest')) = Len(brainRequest')
                /\ IsFiniteSet(1 .. Len(brainRequest'))
      <4> DEFINE k == Len(brainRequest')
      <4>1. k \in Nat
        BY <2>5
      <4> HIDE DEF k
      <4>2. IsFiniteSet(1 .. k) /\ Cardinality(1 .. k) = k
        BY <4>1, FS_Interval
      <4> QED
        BY <4>2 DEF k
    <3>2. Cardinality(Answered') <= Cardinality(1 .. Len(brainRequest'))
      BY <2>5, <3>1, FS_Subset
    <3> QED
      BY <2>4, <2>5, <2>7, <3>1, <3>2 DEF BrainBounds
  <2>11. Len(ledger') <= MaxRequests
    BY <1>2, <2>7, <2>8, <2>9, <2>10 DEF LedgerIsAnswered, BrainBounds
  <2>12. Brain!Range(ledger') \subseteq Brain!Entry
               /\ DOMAIN ledger \subseteq DOMAIN ledger'
    <3>1. Brain!Range(Append(ledger, entry)) \subseteq Brain!Entry
      BY <2>3, RangeGrows
    <3>2. DOMAIN ledger \subseteq DOMAIN Append(ledger, entry)
      BY <2>3
    <3> QED
      BY <2>1, <2>3, <3>1, <3>2
  <2> QED
    BY <1>1, <1>2, <1>3, <2>1, <2>4, <2>9, <2>11, <2>12 DEF BrainTypeInv,
       Brain!TypeOK
<1> QED
  BY <1>6, <1>7, <1>8, <1>9, <1>10, <1>11, <1>12, <1>13, <1>14 DEF Brain!Next,
     BrainTypeInv

-----------------------------------------------------------------------------
(* A behaviour is one of any component: its invariant is of that one.      *)
McpInv ==
    /\ part = "proxy" => ProxyInv
    /\ part = "log" => LogInv
    /\ part = "startup" => StartupInv
    /\ part = "bundle" => PolicyInv
    /\ part = "token" => TokenInv
    /\ part = "brain" => BrainTypeInv

LEMMA McpBounds ==
    ProxyBounds /\ LogBounds /\ StartupBounds /\ PolicyBounds /\ TokenBounds
        /\ BrainBounds
  BY McpAssumption DEF ProxyBounds, LogBounds, StartupBounds, PolicyBounds,
     TokenBounds, BrainBounds

LEMMA McpInit == ASSUME Init PROVE McpInv
<1>1. CASE part = "proxy"
  <2>1. Proxy!Init
    BY <1>1 DEF Init
  <2> QED
    BY <1>1, <2>1, McpBounds, ProxyInit DEF McpInv
<1>2. CASE part = "log"
  <2>1. Log!Init
    BY <1>2 DEF Init
  <2> QED
    BY <1>2, <2>1, McpBounds, LogInit DEF McpInv
<1>3. CASE part = "startup"
  <2>1. Startup!Init
    BY <1>3 DEF Init
  <2> QED
    BY <1>3, <2>1, McpBounds, StartupInit DEF McpInv
<1>4. CASE part = "bundle"
  <2>1. Bundle!Init
    BY <1>4 DEF Init
  <2> QED
    BY <1>4, <2>1, McpBounds, PolicyInit DEF McpInv
<1>5. CASE part = "token"
  <2>1. Token!Init
    BY <1>5 DEF Init
  <2> QED
    BY <1>5, <2>1, McpBounds, TokenInit DEF McpInv
<1>6. CASE part = "brain"
  <2>1. Brain!Init
    BY <1>6 DEF Init
  <2> QED
    BY <1>6, <2>1, McpBounds, BrainTypeInit DEF McpInv
<1> QED
  BY <1>1, <1>2, <1>3, <1>4, <1>5, <1>6 DEF Init

LEMMA McpStep == ASSUME McpInv, [Next]_vars PROVE McpInv'
<1>1. CASE part = "proxy"
  <2>1. part' = part /\ [Proxy!Next]_(Proxy!vars)
    BY <1>1 DEF Next, vars, proxyVars, Proxy!vars, Proxy!planeVars,
       Proxy!reach, Proxy!logs
  <2>2. ProxyInv
    BY <1>1 DEF McpInv
  <2>3. ProxyInv'
    BY <2>1, <2>2, McpBounds, ProxyStep
  <2> QED
    BY <1>1, <2>1, <2>3 DEF McpInv
<1>2. CASE part = "log"
  <2>1. part' = part /\ [Log!Next]_(Log!vars)
    BY <1>2 DEF Next, vars, logVars, Log!vars
  <2>2. LogInv
    BY <1>2 DEF McpInv
  <2>3. LogInv'
    BY <2>1, <2>2, McpBounds, LogStep
  <2> QED
    BY <1>2, <2>1, <2>3 DEF McpInv
<1>3. CASE part = "startup"
  <2>1. part' = part /\ [Startup!Next]_(Startup!vars)
    BY <1>3 DEF Next, vars, startupVars, Startup!vars, Startup!connVars
  <2>2. StartupInv
    BY <1>3 DEF McpInv
  <2>3. StartupInv'
    BY <2>1, <2>2, McpBounds, StartupStep
  <2> QED
    BY <1>3, <2>1, <2>3 DEF McpInv
<1>4. CASE part = "bundle"
  <2>1. part' = part /\ [Bundle!Next]_(Bundle!vars)
    BY <1>4 DEF Next, vars, bundleVars, Bundle!vars
  <2>2. PolicyInv
    BY <1>4 DEF McpInv
  <2>3. PolicyInv'
    BY <2>1, <2>2, McpBounds, PolicyStep
  <2> QED
    BY <1>4, <2>1, <2>3 DEF McpInv
<1>5. CASE part = "token"
  <2>1. part' = part /\ [Token!Next]_(Token!vars)
    BY <1>5 DEF Next, vars, tokenVars, Token!vars, Token!config,
       Token!clientVars
  <2>2. TokenInv
    BY <1>5 DEF McpInv
  <2>3. TokenInv'
    BY <2>1, <2>2, McpBounds, TokenStep
  <2> QED
    BY <1>5, <2>1, <2>3 DEF McpInv
<1>6. CASE part = "brain"
  <2>1. part' = part /\ [Brain!Next]_(Brain!vars)
    BY <1>6 DEF Next, vars, brainVars, Brain!vars
  <2>2. BrainTypeInv
    BY <1>6 DEF McpInv
  <2>3. BrainTypeInv'
    BY <2>1, <2>2, McpBounds, BrainTypeStep
  <2> QED
    BY <1>6, <2>1, <2>3 DEF McpInv
<1>7. CASE part \notin {"proxy", "log", "startup", "bundle", "token", "brain"}
  BY <1>7 DEF Next, vars, McpInv
<1> QED
  BY <1>1, <1>2, <1>3, <1>4, <1>5, <1>6, <1>7

LEMMA McpInvariance == Spec => []McpInv
<1>1. Init => McpInv
  BY McpInit
<1>2. McpInv /\ [Next]_vars => McpInv'
  BY McpStep
<1> QED
  BY <1>1, <1>2, PTL DEF Spec

\* Each component keeps its types: _proxy_lifespan, tool_fn, LocalAuditLog,
\* PolicyCache, KSwitchAPIClient and RemoteReadService.
THEOREM McpTyping == Spec => []TypeOK
<1>1. McpInv => TypeOK
  BY DEF McpInv, TypeOK, ProxyInv, LogInv, StartupInv, PolicyInv, TokenInv,
     BrainTypeInv
<1> QED
  BY <1>1, McpInvariance, PTL

\* tool_fn: whichever layers decide and fail, a call blocked before the
\* upstream call has not run there, and its one local entry says so.
THEOREM BlockedCallsDoNotRun == Spec => []BlockedStaysBlocked
<1>1. McpInv => BlockedStaysBlocked
  BY McpBounds, ProxyImplies DEF McpInv, BlockedStaysBlocked
<1> QED
  BY <1>1, McpInvariance, PTL

\* tool_fn with ReachabilityCache: if probes and checks take less than the TTL,
\* a reply whose check failed open when the health endpoint had been out of
\* reach for the TTL and twice that time has its entry or was checked after all.
THEOREM LongOutagesAreLogged == Spec => []LongOutagesLeaveTraces
<1>1. McpInv => LongOutagesLeaveTraces
  BY McpBounds, ProxyImplies DEF McpInv, LongOutagesLeaveTraces
<1> QED
  BY <1>1, McpInvariance, PTL

\* LocalAuditLog: the newest entries are there, in order, whichever threads
\* append, rotate and rewrite and whichever file operations fail, until a
\* rewrite is cut short or an entry is written behind a torn line; the order
\* and the marks stay right even then.
THEOREM AuditLogIsAWindow == Spec => []LogIsAWindow
<1>1. McpInv => LogIsAWindow
  BY LogImplies, McpBounds DEF McpInv, LogIsAWindow
<1> QED
  BY <1>1, McpInvariance, PTL

\* _proxy_lifespan: the tools served are those the drift check let pass, and no
\* session is left open but one whose connection, or its end, raised.
THEOREM ServedToolsAreApproved == Spec => []ProxyServesSafely
<1>1. McpInv => ProxyServesSafely
  BY StartupImplies DEF McpInv, ProxyServesSafely
<1> QED
  BY <1>1, McpInvariance, PTL

\* PolicyCache.pull: the bundle in force verifies.  With no pull under way it is
\* what a restart loads, but for one that has become stale, unless a write has
\* failed or the load that installed last was overtaken by another pull's write.
THEOREM PolicyInForceIsOnDisk == Spec => []PolicySurvivesRestart
<1>1. McpInv => PolicySurvivesRestart
  BY PolicyImplies DEF McpInv, PolicySurvivesRestart
<1> QED
  BY <1>1, McpInvariance, PTL

\* KSwitchAPIClient.request: the second attempt does not send the token the
\* first was rejected with, but for what another call's failed refresh lends.
THEOREM RetriesUseNewTokens == Spec => []RetryIsNew
<1>1. McpInv => RetryIsNew
  BY DEF McpInv, RetryIsNew, TokenInv
<1> QED
  BY <1>1, McpInvariance, PTL

\* RemoteReadService: content is given to the subject and session that found
\* it, unchanged and in time, and each answered request is recorded as it
\* ended, however many run between each other's questions to the sidecar.
THEOREM RemoteReadsAreBound == Spec => []ReadsAreBound
<1>1. McpInv => ReadsAreBound
  BY DEF McpInv, ReadsAreBound, BrainTypeInv, BrainInv
<1> QED
  BY <1>1, McpInvariance, PTL
=============================================================================
