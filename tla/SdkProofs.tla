----------------------------- MODULE SdkProofs ------------------------------
(***************************************************************************)
(* What the SDKs promise, for any number of threads and calls and any      *)
(* bounds: the inductive invariants of governed calls, execution tokens    *)
(* and the REST client, and at the end the theorems about a behaviour of   *)
(* any component.                                                          *)
(***************************************************************************)
EXTENDS SdkCacheProofs

-----------------------------------------------------------------------------
(* Governed calls.  The stack of calls, the chain of their tokens and the  *)
(* decisions on record go together.                                        *)
CallBounds ==
    /\ MaxCalls \in Nat
    /\ Packs \subseteq [tier : {"low", "medium"} \cup Call!High, active :
         BOOLEAN, sensitive : BOOLEAN]
    /\ Bundles \subseteq [fresh : BOOLEAN,
         enforce : {"permit", "forbid", "raises"}]

\* Calls begin in the order of their numbers, and all but the innermost are
\* in their tools.
Nested ==
    /\ stack \in Seq(Call!Frame)
    /\ \A i \in 1 .. Len(stack) :
          i <= stack[i].call /\ stack[i].call <= begun
              /\ ended[stack[i].call] = Call!None
    /\ \A i, j \in 1 .. Len(stack) : i < j => stack[i].call < stack[j].call
    /\ \A i \in 1 .. Len(stack) - 1 : stack[i].at = "tool"

\* How many calls are in their tools, and the token the innermost of the first
\* n was issued
Depth    == IF Call!At("tool") \/ stack = <<>> THEN Len(stack)
    ELSE Len(stack) - 1
TokenOf(n) == IF n = 0 THEN 0 ELSE stack[n].token

\* The tokens form a chain along the stack.
Chained ==
    /\ active = TokenOf(Depth)
    /\ \A i \in 1 .. Len(stack) : stack[i].at = "tool"
         => stack[i].previous = TokenOf(i - 1)
    /\ ~config.client => \A i \in 1 .. Len(stack) : stack[i].token = 0

\* The decision events of a call that ended this way, if they were written
Says(how) == CASE how = "returned" -> <<"allow">>
               [] how = "denied"   -> <<"deny">>
               [] OTHER            -> <<>>

\* What has not run is not on record as run, nor the other way round.
Accounted ==
    /\ \A c \in Call!Calls : events[c] \in {<<>>, Says(ended[c])}
    /\ \A c \in Call!Calls : ended[c] = "returned" => c \in ran
    /\ \A c \in ran : ended[c] \in {Call!None, "returned", "withheld", "raised"}
    /\ \A c \in Call!Calls : c > begun => ended[c] = Call!None /\ c \notin ran
    /\ \A i \in 1 .. Len(stack) :
          stack[i].at \in {"tool", "output"} <=> stack[i].call \in ran

\* What an evaluation has got past.
Passed(f) ==
    /\ f.held = "unsynced" /\ f.at \in {"revocation", "context", "policy"}
         => config.staleMode = "warn"
    /\ f.at \in {"context", "policy"} => f.held # "revoked"
    /\ f.at = "policy" => f.held # "inactive"
    /\ f.at = "policy" /\ f.held = "outdated" => f.tier \in Call!High
    /\ f.decision.by = "local" /\ f.decision.outcome = "allow" =>
          f.held = Call!None \/ (f.held = "unsynced"
              /\ config.staleMode = "warn")

CallInv == /\ Call!TypeOK /\ Nested /\ Chained /\ Accounted
           /\ \A i \in 1 .. Len(stack) : Passed(stack[i])

-----------------------------------------------------------------------------
\* What the operators on the stack do.
LEMMA FrontFacts ==
    ASSUME NEW S, NEW s \in Seq(S), s # <<>>
    PROVE  /\ Len(s) \in Nat \ {0} /\ Call!Front(s) \in Seq(S)
           /\ Len(Call!Front(s)) = Len(s) - 1
           /\ \A i \in 1 .. Len(s) - 1 : Call!Front(s)[i] = s[i]
<1>1. Len(s) \in Nat \ {0} /\ \A i \in 1 .. Len(s) : s[i] \in S
  OBVIOUS
<1> DEFINE n == Len(s) - 1
<1>2. n \in Int /\ 1 \in Int /\ \A i \in 1 .. n : s[i] \in S
  BY <1>1
<1>3. /\ SubSeq(s, 1, n) \in Seq(S) /\ Len(SubSeq(s, 1, n)) = IF 1
           <= n THEN n - 1 + 1 ELSE 0
      /\ \A i \in 1 .. n - 1 + 1 : SubSeq(s, 1, n)[i] = s[1 + i - 1]
  BY <1>2, SubSeqProperties
<1>4. Call!Front(s) = SubSeq(s, 1, n)
  BY DEF Call!Front
<1> HIDE DEF n
<1>5. n \in Nat /\ n - 1 + 1 = n
  BY <1>1 DEF n
<1>6. Len(Call!Front(s)) = n /\ Call!Front(s) \in Seq(S)
  BY <1>3, <1>4, <1>5
<1>7. \A i \in 1 .. n : Call!Front(s)[i] = s[i]
  BY <1>3, <1>4, <1>5
<1> QED
  BY <1>1, <1>6, <1>7 DEF n

LEMMA LastIndex ==
    ASSUME NEW n \in Nat \ {0}
    PROVE  /\ n - 1 \in Nat /\ n - 1 < n /\ n - 1 # n
           /\ n - 1 = 0 \/ n - 1 \in 1 .. n - 1
           /\ n - 1 = 0 \/ n - 1 \in 1 .. n
  OBVIOUS

LEMMA ReplacedLast ==
    ASSUME NEW S, NEW s \in Seq(S), s # <<>>, NEW e \in S
    PROVE  /\ Call!Front(s) \o <<e>> \in Seq(S)
           /\ Len(Call!Front(s) \o <<e>>) = Len(s)
           /\ (Call!Front(s) \o <<e>>)[Len(s)] = e
           /\ \A i \in 1 .. Len(s) - 1 : (Call!Front(s) \o <<e>>)[i] = s[i]
<1>1. /\ Call!Front(s) \in Seq(S) /\ Len(Call!Front(s)) = Len(s) - 1
      /\ Len(s) \in Nat \ {0}
      /\ \A i \in 1 .. Len(s) - 1 : Call!Front(s)[i] = s[i]
  BY FrontFacts
<1>2. <<e>> \in Seq(S) /\ Len(<<e>>) = 1 /\ <<e>>[1] = e
  OBVIOUS
<1> DEFINE front == Call!Front(s)
           one == <<e>>
<1>3. /\ front \in Seq(S) /\ Len(front) = Len(s) - 1 /\ one \in Seq(S)
      /\ Len(one) = 1 /\ one[1] = e
      /\ \A i \in 1 .. Len(s) - 1 : front[i] = s[i]
  BY <1>1, <1>2
<1> HIDE DEF front, one
<1>4. /\ front \o one \in Seq(S) /\ Len(front \o one) = Len(s)
      /\ (front \o one)[Len(s)] = e
      /\ \A i \in 1 .. Len(s) - 1 : (front \o one)[i] = s[i]
  <2>1. /\ front \o one \in Seq(S) /\ Len(front \o one) = Len(front) + Len(one)
        /\ \A i \in 1 .. Len(front) + Len(one) :
              (front \o one)[i] = IF i <= Len(front) THEN front[i]
                  ELSE one[i - Len(front)]
    BY <1>3, ConcatProperties
  <2>2. Len(front \o one) = Len(s) /\ Len(s) \in 1 .. Len(front) + Len(one)
    BY <1>1, <1>3, <2>1
  <2>3. (front \o one)[Len(s)] = e
    BY <1>1, <1>3, <2>1, <2>2
  <2>4. \A i \in 1 .. Len(s) - 1 : (front \o one)[i] = s[i]
    BY <1>1, <1>3, <2>1
  <2> QED
    BY <2>1, <2>2, <2>3, <2>4
<1> QED
  BY <1>4 DEF front, one

\* The innermost frame.
LEMMA TopFacts ==
    ASSUME CallBounds, CallInv, stack # <<>>
    PROVE  /\ Len(stack) \in Nat \ {0} /\ Call!Top = stack[Len(stack)]
           /\ Call!Top \in Call!Frame
           /\ Call!Top.call \in Call!Calls /\ Call!Top.call <= begun
           /\ ended[Call!Top.call] = Call!None
           /\ events[Call!Top.call] = <<>> /\ begun \in Nat
           /\ Call!Top.call \in Nat
           /\ \A i \in 1 .. Len(stack) - 1 : stack[i].call # Call!Top.call
           /\ Call!Top.at \in {"tool", "output"} <=> Call!Top.call \in ran
           /\ Passed(Call!Top)
<1>1. stack \in Seq(Call!Frame) /\ Len(stack) \in Nat \ {0}
  BY DEF CallInv, Nested
<1>2. Len(stack) \in 1 .. Len(stack) /\ Call!Top = stack[Len(stack)]
            /\ Call!Top \in Call!Frame
  BY <1>1 DEF Call!Top
<1>3. Call!Top.call \in Call!Calls
  BY <1>2 DEF Call!Frame
<1>4. Call!Top.call <= begun /\ ended[Call!Top.call] = Call!None
  BY <1>2 DEF CallInv, Nested
<1>5. events[Call!Top.call] = <<>>
  <2>1. events[Call!Top.call] \in {<<>>, Says(Call!None)}
    BY <1>3, <1>4 DEF CallInv, Accounted
  <2> QED
    BY <2>1 DEF Says, Call!None
<1>6. \A i \in 1 .. Len(stack) - 1 : stack[i].call # Call!Top.call
  <2> SUFFICES ASSUME NEW i \in 1 .. Len(stack) - 1
      PROVE stack[i].call # Call!Top.call
    OBVIOUS
  <2>1. i \in 1 .. Len(stack) /\ i < Len(stack)
    BY <1>1
  <2>2. stack[i].call < stack[Len(stack)].call
    BY <1>2, <2>1 DEF CallInv, Nested
  <2>3. stack[i] \in Call!Frame
    BY <1>1, <2>1
  <2>4. stack[i].call \in Nat /\ Call!Top.call \in Nat
    BY <1>3, <2>3, CallBounds DEF Call!Frame, Call!Calls
  <2> QED
    BY <1>2, <2>2, <2>4
<1>7. Call!Top.at \in {"tool", "output"} <=> Call!Top.call \in ran
  BY <1>2 DEF CallInv, Accounted
<1>8. Passed(Call!Top)
  BY <1>2 DEF CallInv
<1>9. begun \in Nat /\ Call!Top.call \in Nat
  BY <1>3 DEF CallInv, Call!TypeOK, CallBounds, Call!Calls
<1> QED
  BY <1>1, <1>2, <1>3, <1>4, <1>5, <1>6, <1>7, <1>8, <1>9

LEMMA CallImplies ==
    ASSUME CallBounds, CallInv PROVE Call!LocalAllowIsCurrent
        /\ Call!CallsAreToldApart
<1>1. stack \in Seq(Call!Frame) /\ DOMAIN stack = 1 .. Len(stack)
            /\ Len(stack) \in Nat
  BY DEF CallInv, Nested
<1>2. Call!LocalAllowIsCurrent
  BY <1>1 DEF CallInv, Passed, Call!LocalAllowIsCurrent
<1>3. Call!TokenIsScoped
  <2> DEFINE inTool == {i \in DOMAIN stack : stack[i].at = "tool"}
  <2>1. Depth \in 0 .. Len(stack) /\ inTool = 1 .. Depth
    <3>1. CASE stack = <<>>
      BY <3>1 DEF Depth
    <3>2. CASE stack # <<>>
      <4>1. Len(stack) # 0 /\ Call!Top = stack[Len(stack)]
        BY <1>1, <3>2 DEF Call!Top
      <4>2. \A i \in 1 .. Len(stack) - 1 : stack[i].at = "tool"
        BY DEF CallInv, Nested
      <4>3. CASE Call!Top.at = "tool"
        <5>1. Depth = Len(stack)
          BY <3>2, <4>3 DEF Depth, Call!At
        <5>2. \A i \in 1 .. Len(stack) : stack[i].at = "tool"
          BY <1>1, <4>1, <4>2, <4>3
        <5> QED
          BY <1>1, <5>1, <5>2
      <4>4. CASE Call!Top.at # "tool"
        <5>1. Depth = Len(stack) - 1
          BY <3>2, <4>4 DEF Depth, Call!At
        <5>2. \A i \in 1 .. Len(stack) : stack[i].at = "tool" <=> i < Len(stack)
          BY <1>1, <4>1, <4>2, <4>4
        <5> QED
          BY <1>1, <4>1, <5>1, <5>2
      <4> QED
        BY <4>3, <4>4
    <3> QED
      BY <3>1, <3>2
  <2>2. active = TokenOf(Depth)
    BY DEF CallInv, Chained
  <2>3. active = IF inTool = {} THEN 0
                 ELSE stack[CHOOSE i \in inTool : \A j \in inTool : j
                     <= i].token
    <3>1. CASE Depth = 0
      <4>1. inTool = {}
        BY <2>1, <3>1
      <4> QED
        BY <2>2, <3>1, <4>1 DEF TokenOf
    <3>2. CASE Depth # 0
      <4> HIDE DEF inTool
      <4>1. Depth \in inTool /\ \A j \in inTool : j <= Depth
        BY <1>1, <2>1, <3>2
      <4>2. \A i \in inTool : (\A j \in inTool : j <= i) => i = Depth
        BY <1>1, <2>1, <4>1
      <4>3. (CHOOSE i \in inTool : \A j \in inTool : j <= i) = Depth
        BY <4>1, <4>2
      <4> QED
        BY <2>2, <3>2, <4>1, <4>3 DEF TokenOf
    <3> QED
      BY <3>1, <3>2
  <2> QED
    BY <2>3 DEF Call!TokenIsScoped
<1>4. Call!TrailIsTrue
  <2>1. ASSUME NEW c \in Call!Calls
        PROVE  \/ events[c] = <<>>
               \/ /\ events[c] = <<"allow">> /\ ended[c] = "returned"
                  /\ c \in ran
               \/ events[c] = <<"deny">> /\ ended[c] = "denied"
    <3>1. /\ events[c] \in {<<>>, Says(ended[c])}
          /\ ended[c] = "returned" => c \in ran
      BY DEF CallInv, Accounted
    <3> QED
      BY <3>1 DEF Says
  <2>2. \A c \in ran : ended[c] \in {Call!None, "returned", "withheld",
              "raised"}
    BY DEF CallInv, Accounted
  <2> QED
    BY <2>1, <2>2 DEF Call!TrailIsTrue
<1> QED
  BY <1>2, <1>3, <1>4 DEF Call!CallsAreToldApart

LEMMA CallInit == ASSUME CallBounds, Call!Init PROVE CallInv
<1>1. stack = <<>> /\ Len(stack) = 0 /\ stack \in Seq(Call!Frame)
            /\ DOMAIN stack = {}
  BY DEF Call!Init
<1>2. Call!TypeOK
  <2>1. <<>> \in Seq({"allow", "deny"})
    OBVIOUS
  <2>2. events \in [Call!Calls -> Seq({"allow", "deny"})]
    BY <2>1 DEF Call!Init
  <2> QED
    BY <1>1, <2>2 DEF Call!Init, Call!TypeOK, CallBounds, Call!Calls,
       Call!Config, Call!None
<1>3. Nested
  BY <1>1 DEF Nested
<1>4. Chained
  BY <1>1 DEF Chained, Depth, TokenOf, Call!Init
<1>5. Accounted
  <2>1. Call!None # "returned"
    BY DEF Call!None
  <2> QED
    BY <1>1, <2>1 DEF Accounted, Call!Init
<1> QED
  BY <1>1, <1>2, <1>3, <1>4, <1>5 DEF CallInv

-----------------------------------------------------------------------------
\* The innermost call goes on.
LEMMA GoesOn ==
    ASSUME CallBounds, CallInv, stack # <<>>, NEW f \in Call!Frame,
        f.call = Call!Top.call,
           Call!Becomes(f), UNCHANGED <<config, begun, ended, events>>,
           ran' = ran \/ (ran' = ran \cup {Call!Top.call} /\ f.at = "tool"),
           f.at \in {"tool", "output"} <=> Call!Top.call \in ran',
           Passed(f), ~config.client => f.token = 0,
           f.at = "tool" => f.previous = TokenOf(Len(stack) - 1)
               /\ active' = f.token,
           f.at # "tool" => active' = TokenOf(Len(stack) - 1),
           active' \in Call!Calls \cup {0}
    PROVE  CallInv'
<1>1. stack \in Seq(Call!Frame) /\ Len(stack) \in Nat \ {0}
  BY DEF CallInv, Nested
<1>2. /\ stack' \in Seq(Call!Frame) /\ Len(stack') = Len(stack)
      /\ stack'[Len(stack)] = f
      /\ \A i \in 1 .. Len(stack) - 1 : stack'[i] = stack[i]
  <2>1. stack' = Call!Front(stack) \o <<f>>
    BY DEF Call!Becomes
  <2>2. /\ Call!Front(stack) \o <<f>> \in Seq(Call!Frame)
        /\ Len(Call!Front(stack) \o <<f>>) = Len(stack)
        /\ (Call!Front(stack) \o <<f>>)[Len(stack)] = f
        /\ \A i \in 1 .. Len(stack) - 1 :
             (Call!Front(stack) \o <<f>>)[i] = stack[i]
    BY <1>1, ReplacedLast
  <2> QED
    BY <2>1, <2>2
<1>3. \A i \in 1 .. Len(stack) : i = Len(stack) \/ i \in 1 .. Len(stack) - 1
  BY <1>1
<1>4. stack' # <<>> /\ Call!Top' = f /\ DOMAIN stack' = 1 .. Len(stack)
  BY <1>1, <1>2 DEF Call!Top
<1>5. \A i \in 1 .. Len(stack) : stack'[i].call = stack[i].call
  BY <1>2, <1>3, TopFacts
<1>6. Call!TypeOK'
  <2>1. \A i \in DOMAIN stack' : stack'[i] \in Call!Frame
    BY <1>2, <1>4
  <2>2. ran' \subseteq Call!Calls
    BY TopFacts DEF CallInv, Call!TypeOK
  <2> QED
    BY <1>2, <2>1, <2>2 DEF CallInv, Call!TypeOK
<1>7. Nested'
  <2>1. \A i \in 1 .. Len(stack') :
          i <= stack'[i].call /\ stack'[i].call <= begun'
              /\ ended'[stack'[i].call] = Call!None
    BY <1>2, <1>5 DEF CallInv, Nested
  <2>2. \A i, j \in 1 .. Len(stack') : i < j => stack'[i].call < stack'[j].call
    BY <1>2, <1>5 DEF CallInv, Nested
  <2>3. \A i \in 1 .. Len(stack') - 1 : stack'[i].at = "tool"
    BY <1>2 DEF CallInv, Nested
  <2> QED
    BY <1>2, <2>1, <2>2, <2>3 DEF Nested
<1>8. Chained'
  <2>1. \A n \in 0 .. Len(stack) - 1 : TokenOf(n)' = TokenOf(n)
    BY <1>1, <1>2 DEF TokenOf
  <2>2. active' = TokenOf(Depth)'
    <3>1. CASE f.at = "tool"
      BY <1>1, <1>2, <1>4, <3>1 DEF Depth, Call!At, TokenOf
    <3>2. CASE f.at # "tool"
      <4>1. Depth' = Len(stack) - 1
        BY <1>2, <1>4, <3>2 DEF Depth, Call!At
      <4>2. Len(stack) - 1 = 0 \/ Len(stack) - 1 \in 1 .. Len(stack) - 1
        BY <1>1, LastIndex
      <4> QED
        BY <1>2, <3>2, <4>1, <4>2 DEF TokenOf
    <3> QED
      BY <3>1, <3>2
  <2>3. ASSUME NEW i \in 1 .. Len(stack), stack'[i].at = "tool"
        PROVE stack'[i].previous = TokenOf(i - 1)'
    <3>1. i - 1 \in 0 .. Len(stack) - 1
      BY <1>1
    <3>2. CASE i = Len(stack)
      BY <1>2, <2>1, <2>3, <3>1, <3>2
    <3>3. CASE i \in 1 .. Len(stack) - 1
      BY <1>2, <2>1, <2>3, <3>1, <3>3 DEF CallInv, Chained
    <3> QED
      BY <1>3, <3>2, <3>3
  <2>4. ~config'.client => \A i \in 1 .. Len(stack) : stack'[i].token = 0
    BY <1>2, <1>3 DEF CallInv, Chained
  <2> QED
    BY <1>2, <2>2, <2>3, <2>4 DEF Chained
<1>9. Accounted'
  <2>1. \A c \in Call!Calls : /\ events'[c] \in {<<>>, Says(ended'[c])}
                              /\ ended'[c] = "returned" => c \in ran'
    BY DEF CallInv, Accounted
  <2>2. \A c \in ran' : ended'[c] \in {Call!None, "returned", "withheld",
              "raised"}
    BY TopFacts DEF CallInv, Accounted
  <2>3. \A c \in Call!Calls : c > begun' => ended'[c] = Call!None
              /\ c \notin ran'
    <3>1. Call!Top.call <= begun /\ Call!Top.call \in Nat /\ begun \in Nat
      BY TopFacts
    <3>2. ~(Call!Top.call > begun)
      BY <3>1
    <3> QED
      BY <3>2 DEF CallInv, Accounted
  <2>4. ASSUME NEW i \in 1 .. Len(stack)
        PROVE  stack'[i].at \in {"tool", "output"} <=> stack'[i].call \in ran'
    <3>1. CASE i = Len(stack)
      BY <1>2, <3>1
    <3>2. CASE i \in 1 .. Len(stack) - 1
      <4>1. stack[i].at \in {"tool", "output"} <=> stack[i].call \in ran
        BY <1>1, <3>2 DEF CallInv, Accounted
      <4>2. stack[i].call # Call!Top.call
        BY <3>2, TopFacts
      <4> QED
        BY <1>2, <3>2, <4>1, <4>2
    <3> QED
      BY <1>3, <3>1, <3>2
  <2> QED
    BY <1>2, <2>1, <2>2, <2>3, <2>4 DEF Accounted
<1>10. \A i \in 1 .. Len(stack') : Passed(stack[i])'
  BY <1>2, <1>3 DEF CallInv, Passed
<1> QED
  BY <1>6, <1>7, <1>8, <1>9, <1>10 DEF CallInv

\* The innermost call ends.
LEMMA CallEnds ==
    ASSUME CallBounds, CallInv, stack # <<>>,
           NEW how \in {"returned", "denied", "blocked", "withheld", "raised"},
           Call!Ends(how), UNCHANGED <<config, begun, ran>>,
           \/ UNCHANGED events
           \/ events' = [events EXCEPT ![Call!Top.call] = Says(how)],
           Call!Top.call \in ran => how \in {"returned", "withheld", "raised"},
           how = "returned" => Call!Top.call \in ran,
           active' = TokenOf(Len(stack) - 1)
    PROVE  CallInv'
<1>1. stack \in Seq(Call!Frame) /\ Len(stack) \in Nat \ {0}
  BY DEF CallInv, Nested
<1>2. /\ stack' \in Seq(Call!Frame) /\ Len(stack') = Len(stack) - 1
      /\ \A i \in 1 .. Len(stack) - 1 : stack'[i] = stack[i]
           /\ i \in 1 .. Len(stack)
  BY <1>1, FrontFacts DEF Call!Ends
<1>3. DOMAIN stack' = 1 .. Len(stack) - 1
  BY <1>2
<1>4. /\ ended \in [Call!Calls -> {Call!None, "returned", "denied", "blocked",
           "withheld", "raised"}]
      /\ events \in [Call!Calls -> Seq({"allow", "deny"})]
      /\ Call!Top.call \in Call!Calls
  BY TopFacts DEF CallInv, Call!TypeOK
<1>5. /\ ended'[Call!Top.call] = how
      /\ events'[Call!Top.call] \in {<<>>, Says(how)}
      /\ \A c \in Call!Calls : c # Call!Top.call => ended'[c] = ended[c]
           /\ events'[c] = events[c]
  BY <1>4, TopFacts DEF Call!Ends
<1>6. \A i \in 1 .. Len(stack) - 1 : stack[i].call \in Call!Calls
            /\ stack[i].call # Call!Top.call /\ stack[i] \in Call!Frame
  <2>1. \A i \in 1 .. Len(stack) - 1 : stack[i] \in Call!Frame
    BY <1>1, <1>2
  <2> QED
    BY <2>1, TopFacts DEF Call!Frame
<1>7. Call!TypeOK'
  <2>1. <<>> \in Seq({"allow", "deny"})
              /\ <<"allow">> \in Seq({"allow", "deny"})
              /\ <<"deny">> \in Seq({"allow", "deny"})
    OBVIOUS
  <2>2. Says(how) \in Seq({"allow", "deny"})
    BY <2>1 DEF Says
  <2>3. events' \in [Call!Calls -> Seq({"allow", "deny"})]
    BY <1>4, <2>2
  <2>4. ended' \in [Call!Calls -> {Call!None, "returned", "denied", "blocked",
              "withheld", "raised"}]
    BY <1>4 DEF Call!Ends
  <2>5. Len(stack') <= MaxCalls
              /\ \A i \in DOMAIN stack' : stack'[i] \in Call!Frame
    BY <1>1, <1>2, <1>3, <1>6 DEF CallInv, Call!TypeOK, CallBounds
  <2>6. active' \in Call!Calls \cup {0}
    <3>1. CASE Len(stack) - 1 = 0
      BY <3>1 DEF TokenOf
    <3>2. CASE Len(stack) - 1 # 0
      <4>1. Len(stack) - 1 \in 1 .. Len(stack) - 1 /\ Len(stack) - 1 # 0
        BY <1>1, <3>2, LastIndex
      <4>2. stack[Len(stack) - 1].token \in Call!Calls \cup {0}
        BY <1>6, <4>1 DEF Call!Frame
      <4> QED
        BY <4>1, <4>2 DEF TokenOf
    <3> QED
      BY <3>1, <3>2
  <2> QED
    BY <2>3, <2>4, <2>5, <2>6 DEF CallInv, Call!TypeOK
<1>8. Nested'
  <2>1. \A i \in 1 .. Len(stack) - 1 :
          i <= stack'[i].call /\ stack'[i].call <= begun'
              /\ ended'[stack'[i].call] = Call!None
    <3> SUFFICES ASSUME NEW i \in 1 .. Len(stack) - 1
                 PROVE  /\ i <= stack[i].call /\ stack[i].call <= begun
                        /\ ended'[stack[i].call] = Call!None
      BY <1>2, <1>4, <1>5
    <3>1. i \in 1 .. Len(stack) /\ ended'[stack[i].call] = ended[stack[i].call]
      BY <1>2, <1>5, <1>6
    <3> QED
      BY <3>1 DEF CallInv, Nested
  <2>2. \A i, j \in 1 .. Len(stack) - 1 : i < j
              => stack'[i].call < stack'[j].call
    BY <1>2 DEF CallInv, Nested
  <2>3. \A i \in 1 .. Len(stack) - 1 : stack'[i].at = "tool"
    BY <1>2 DEF CallInv, Nested
  <2>4. \A i \in 1 .. Len(stack') - 1 : i \in 1 .. Len(stack) - 1
    BY <1>1, <1>2
  <2> QED
    BY <1>2, <2>1, <2>2, <2>3, <2>4 DEF Nested
<1>9. Chained'
  <2>1. \A n \in 0 .. Len(stack) - 1 : TokenOf(n)' = TokenOf(n)
    BY <1>1, <1>2 DEF TokenOf
  <2>2. Depth' = Len(stack) - 1
    <3>1. CASE stack' = <<>>
      BY <1>2, <3>1 DEF Depth
    <3>2. CASE stack' # <<>>
      <4>1. Len(stack) - 1 \in 1 .. Len(stack) - 1
        BY <1>1, <1>2, <3>2
      <4>2. Call!Top'.at = "tool"
        BY <1>2, <4>1 DEF Call!Top, CallInv, Nested
      <4> QED
        BY <1>2, <3>2, <4>2 DEF Depth, Call!At
    <3> QED
      BY <3>1, <3>2
  <2>3. active' = TokenOf(Depth)'
    <3>1. PICK n \in 0 .. Len(stack) - 1 : n = Len(stack) - 1
      BY <1>1
    <3>2. TokenOf(n)' = TokenOf(n)
      BY <2>1
    <3> QED
      BY <2>2, <3>1, <3>2 DEF TokenOf
  <2>4. ASSUME NEW i \in 1 .. Len(stack) - 1, stack'[i].at = "tool"
        PROVE  stack'[i].previous = TokenOf(i - 1)'
    <3>1. i - 1 \in 0 .. Len(stack) - 1
      BY <1>1
    <3> QED
      BY <1>2, <2>1, <2>4, <3>1 DEF CallInv, Chained
  <2>5. ~config'.client => \A i \in 1 .. Len(stack) - 1 : stack'[i].token = 0
    BY <1>2 DEF CallInv, Chained
  <2> QED
    BY <1>2, <2>3, <2>4, <2>5 DEF Chained
<1>10. Accounted'
  <2>1. \A c \in Call!Calls : /\ events'[c] \in {<<>>, Says(ended'[c])}
                              /\ ended'[c] = "returned" => c \in ran'
    BY <1>5 DEF CallInv, Accounted
  <2>2. \A c \in ran' : ended'[c] \in {Call!None, "returned", "withheld",
              "raised"}
    BY <1>5 DEF CallInv, Accounted, Call!TypeOK
  <2>3. \A c \in Call!Calls : c > begun' => ended'[c] = Call!None
              /\ c \notin ran'
    <3>1. Call!Top.call <= begun /\ Call!Top.call \in Nat /\ begun \in Nat
      BY TopFacts
    <3>2. ~(Call!Top.call > begun)
      BY <3>1
    <3> QED
      BY <1>5, <3>2 DEF CallInv, Accounted
  <2>4. \A i \in 1 .. Len(stack) - 1 : stack'[i].at \in {"tool", "output"}
              <=> stack'[i].call \in ran'
    BY <1>2 DEF CallInv, Accounted
  <2> QED
    BY <1>2, <2>1, <2>2, <2>3, <2>4 DEF Accounted
<1>11. \A i \in 1 .. Len(stack') : Passed(stack[i])'
  BY <1>2 DEF CallInv, Passed, Call!Ends
<1> QED
  BY <1>7, <1>8, <1>9, <1>10, <1>11 DEF CallInv

\* The active token where the innermost call is not in its tool.
LEMMA Outside ==
    ASSUME CallBounds, CallInv, stack # <<>>, Call!Top.at # "tool"
    PROVE  active = TokenOf(Len(stack) - 1)
  BY DEF CallInv, Chained, Depth, Call!At

\* The token that a tool's end leaves active.
LEMMA AfterTool ==
    ASSUME CallBounds, CallInv, stack # <<>>, Call!Top.at = "tool", Call!Reset
    PROVE  active' = TokenOf(Len(stack) - 1)
<1>1. Len(stack) \in Nat \ {0} /\ Len(stack) \in 1 .. Len(stack)
            /\ Call!Top = stack[Len(stack)]
  BY TopFacts
<1>2. Call!Top.previous = TokenOf(Len(stack) - 1)
  BY <1>1 DEF CallInv, Chained
<1>3. CASE config.client
  BY <1>2, <1>3 DEF Call!Reset
<1>4. CASE ~config.client
  <2>1. \A i \in 1 .. Len(stack) : stack[i].token = 0
    BY <1>4 DEF CallInv, Chained
  <2>2. Len(stack) - 1 = 0 \/ Len(stack) - 1 \in 1 .. Len(stack)
    BY <1>1, LastIndex
  <2>3. active = TokenOf(Len(stack))
    BY DEF CallInv, Chained, Depth, Call!At
  <2> QED
    BY <1>1, <1>4, <2>1, <2>2, <2>3 DEF Call!Reset, TokenOf
<1> QED
  BY <1>3, <1>4

LEMMA InvokeStep == ASSUME CallBounds, CallInv, Call!Invoke PROVE CallInv'
<1>1. /\ stack \in Seq(Call!Frame) /\ Len(stack) \in Nat /\ begun \in Nat
      /\ begun < MaxCalls
      /\ begun' = begun + 1 /\ UNCHANGED <<config, active, ran, ended, events>>
      /\ stack = <<>> \/ Call!At("tool")
  BY DEF CallInv, Nested, Call!TypeOK, CallBounds, Call!Invoke, Call!trail
<1>2. PICK tier \in {"medium", "high"}, fact \in Call!Facts \cup {Call!None} :
          stack' = Append(stack, [call |-> begun', at |-> "staleness",
              tier |-> tier, held |-> fact,
                                  sensitive |-> FALSE,
                                      decision |-> Call!Undecided,
                                  token |-> 0, previous |-> 0])
  BY DEF Call!Invoke
<1> DEFINE f == [call |-> begun', at |-> "staleness", tier |-> tier,
          held |-> fact,
                 sensitive |-> FALSE, decision |-> Call!Undecided, token |-> 0,
                     previous |-> 0]
<1>3. begun + 1 \in Call!Calls
  BY <1>1 DEF Call!Calls, CallBounds
<1>4. f \in Call!Frame
  <2>1. Call!Undecided \in Call!Decision
    BY DEF Call!Undecided, Call!Decision, Call!Outcomes, Call!Outputs
  <2> QED
    BY <1>1, <1>3, <2>1 DEF Call!Frame, Call!High, Call!Evaluating
<1>5. f.call = begun + 1 /\ f.at = "staleness" /\ f.token = 0
            /\ f.decision.by = "nobody"
  BY <1>1 DEF Call!Undecided
<1>6. stack' = Append(stack, f)
  BY <1>2
<1> HIDE DEF f
<1>7. /\ stack' \in Seq(Call!Frame) /\ Len(stack') = Len(stack) + 1
      /\ stack'[Len(stack) + 1] = f
      /\ \A i \in 1 .. Len(stack) : stack'[i] = stack[i]
  BY <1>1, <1>4, <1>6
<1>8. \A i \in 1 .. Len(stack) + 1 : i = Len(stack) + 1 \/ i \in 1 .. Len(stack)
  BY <1>1
<1>9. \A i \in 1 .. Len(stack) : stack[i].call \in Nat /\ stack[i].call
            <= begun /\ stack[i].call \in Call!Calls
  <2>1. \A i \in 1 .. Len(stack) : stack[i] \in Call!Frame
    BY <1>1
  <2> QED
    BY <2>1 DEF CallInv, Nested, Call!Frame, Call!Calls, CallBounds
<1>10. Len(stack) <= begun
  <2>1. CASE Len(stack) = 0
    BY <1>1, <2>1
  <2>2. CASE Len(stack) # 0
    <3>1. Len(stack) \in 1 .. Len(stack)
      BY <1>1, <2>2
    <3>2. Len(stack) <= stack[Len(stack)].call
      BY <3>1 DEF CallInv, Nested
    <3> QED
      BY <1>1, <1>9, <3>1, <3>2
  <2> QED
    BY <2>1, <2>2
<1>11. stack' # <<>> /\ Call!Top' = f
  BY <1>1, <1>7 DEF Call!Top
<1>12. Call!TypeOK'
  <2>1. \A i \in DOMAIN stack' : stack'[i] \in Call!Frame
    BY <1>7
  <2>2. Len(stack') <= MaxCalls /\ begun' \in 0 .. MaxCalls
    BY <1>1, <1>7, <1>10 DEF CallBounds
  <2> QED
    BY <1>1, <2>1, <2>2 DEF CallInv, Call!TypeOK
<1>13. ended[begun + 1] = Call!None /\ begun + 1 \notin ran
  <2>1. begun + 1 > begun
    BY <1>1
  <2> QED
    BY <1>3, <2>1 DEF CallInv, Accounted
<1>14. Nested'
  <2>1. ASSUME NEW i \in 1 .. Len(stack) + 1
        PROVE  i <= stack'[i].call /\ stack'[i].call <= begun'
            /\ ended'[stack'[i].call] = Call!None
    <3>1. CASE i = Len(stack) + 1
      BY <1>1, <1>5, <1>7, <1>10, <1>13, <3>1
    <3>2. CASE i \in 1 .. Len(stack)
      BY <1>1, <1>7, <1>9, <3>2 DEF CallInv, Nested
    <3> QED
      BY <1>8, <3>1, <3>2
  <2>2. ASSUME NEW i \in 1 .. Len(stack) + 1, NEW j \in 1 .. Len(stack) + 1,
              i < j
        PROVE  stack'[i].call < stack'[j].call
    <3>1. i \in 1 .. Len(stack)
      BY <1>1, <2>2
    <3>2. CASE j = Len(stack) + 1
      BY <1>1, <1>5, <1>7, <1>9, <3>1, <3>2
    <3>3. CASE j \in 1 .. Len(stack)
      BY <1>7, <2>2, <3>1, <3>3 DEF CallInv, Nested
    <3> QED
      BY <1>8, <3>2, <3>3
  <2>3. ASSUME NEW i \in 1 .. Len(stack) PROVE stack'[i].at = "tool"
    <3>1. stack # <<>> /\ Call!Top.at = "tool" /\ Call!Top = stack[Len(stack)]
      BY <1>1 DEF Call!At, Call!Top
    <3>2. CASE i = Len(stack)
      BY <1>7, <3>1, <3>2
    <3>3. CASE i # Len(stack)
      <4>1. i \in 1 .. Len(stack) - 1
        BY <1>1, <3>3
      <4> QED
        BY <1>7, <4>1 DEF CallInv, Nested
    <3> QED
      BY <3>2, <3>3
  <2>4. Len(stack') - 1 = Len(stack)
    BY <1>1, <1>7
  <2> QED
    BY <1>7, <2>1, <2>2, <2>3, <2>4 DEF Nested
<1>15. Chained'
  <2>1. \A n \in 0 .. Len(stack) : TokenOf(n)' = TokenOf(n)
    BY <1>1, <1>7 DEF TokenOf
  <2>2. Depth' = Len(stack)
    BY <1>1, <1>5, <1>7, <1>11 DEF Depth, Call!At
  <2>3. Depth = Len(stack)
    BY <1>1 DEF Depth
  <2>4. active' = TokenOf(Depth)'
    <3>1. active = TokenOf(Len(stack))
      BY <2>3 DEF CallInv, Chained
    <3>2. Len(stack) = 0 \/ Len(stack) \in 1 .. Len(stack)
      BY <1>1
    <3> QED
      BY <1>1, <1>7, <2>2, <3>1, <3>2 DEF TokenOf
  <2>5. ASSUME NEW i \in 1 .. Len(stack) + 1, stack'[i].at = "tool"
        PROVE  stack'[i].previous = TokenOf(i - 1)'
    <3>1. i \in 1 .. Len(stack)
      BY <1>5, <1>7, <1>8, <2>5
    <3>2. i - 1 \in 0 .. Len(stack)
      BY <1>1
    <3> QED
      BY <1>7, <2>1, <2>5, <3>1, <3>2 DEF CallInv, Chained
  <2>6. ~config'.client => \A i \in 1 .. Len(stack) + 1 : stack'[i].token = 0
    BY <1>1, <1>5, <1>7, <1>8 DEF CallInv, Chained
  <2> QED
    BY <1>7, <2>4, <2>5, <2>6 DEF Chained
<1>16. Accounted'
  <2>1. \A c \in Call!Calls : /\ events'[c] \in {<<>>, Says(ended'[c])}
                              /\ ended'[c] = "returned" => c \in ran'
    BY <1>1 DEF CallInv, Accounted
  <2>2. \A c \in ran' : ended'[c] \in {Call!None, "returned", "withheld",
              "raised"}
    BY <1>1 DEF CallInv, Accounted
  <2>3. \A c \in Call!Calls : c > begun' => ended'[c] = Call!None
              /\ c \notin ran'
    <3>1. \A c \in Call!Calls : c > begun + 1 => c > begun
      BY <1>1, CallBounds DEF Call!Calls
    <3> QED
      BY <1>1, <3>1 DEF CallInv, Accounted
  <2>4. ASSUME NEW i \in 1 .. Len(stack) + 1
        PROVE  stack'[i].at \in {"tool", "output"} <=> stack'[i].call \in ran'
    <3>1. CASE i = Len(stack) + 1
      BY <1>1, <1>5, <1>7, <1>13, <3>1
    <3>2. CASE i \in 1 .. Len(stack)
      BY <1>1, <1>7, <3>2 DEF CallInv, Accounted
    <3> QED
      BY <1>8, <3>1, <3>2
  <2> QED
    BY <1>7, <2>1, <2>2, <2>3, <2>4 DEF Accounted
<1>17. \A i \in 1 .. Len(stack') : Passed(stack[i])'
  <2>1. Passed(f)
    BY <1>5 DEF Passed
  <2> QED
    BY <1>1, <1>7, <1>8, <2>1 DEF CallInv, Passed
<1> QED
  BY <1>12, <1>14, <1>15, <1>16, <1>17 DEF CallInv

-----------------------------------------------------------------------------
\* The decision is taken: by the local PDP only for what its facts allow.
LEMMA DecidesStep ==
    ASSUME CallBounds, CallInv, stack # <<>>,
        Call!Top.at \notin {"tool", "output"},
           NEW d \in Call!Decision, Call!Decides(d), UNCHANGED <<config, active,
               begun, Call!trail>>,
           d.by = "local" /\ d.outcome = "allow" =>
              Call!Top.held = Call!None
                  \/ (Call!Top.held = "unsynced" /\ config.staleMode = "warn")
    PROVE  CallInv'
<1> DEFINE f == [Call!Top EXCEPT !.at = "decided", !.decision = d]
<1>1. Call!Top \in Call!Frame
  BY TopFacts
<1>2. /\ f \in Call!Frame /\ f.call = Call!Top.call /\ f.at = "decided"
      /\ f.decision = d
      /\ f.held = Call!Top.held /\ f.token = Call!Top.token
  BY <1>1 DEF Call!Frame
<1>3. Call!Becomes(f)
  BY DEF Call!Decides
<1>4. ~config.client => Call!Top.token = 0
  <2>1. Len(stack) \in 1 .. Len(stack) /\ Call!Top = stack[Len(stack)]
    BY TopFacts
  <2> QED
    BY <2>1 DEF CallInv, Chained
<1> HIDE DEF f
<1>5. Passed(f)
  BY <1>2 DEF Passed
<1>6. active' = TokenOf(Len(stack) - 1) /\ active' \in Call!Calls \cup {0}
  BY Outside DEF CallInv, Call!TypeOK
<1>7. Call!Top.call \notin ran'
  BY TopFacts DEF Call!trail
<1> QED
  BY <1>2, <1>3, <1>4, <1>5, <1>6, <1>7, GoesOn DEF Call!trail

\* The evaluation gets past a step.
LEMMA PassesStep ==
    ASSUME CallBounds, CallInv, stack # <<>>,
        Call!Top.at \notin {"tool", "output"},
           NEW f \in Call!Frame, f.call = Call!Top.call,
               f.at \in {"revocation", "context", "policy"},
           f.held = Call!Top.held, f.token = Call!Top.token,
               f.decision = Call!Top.decision,
           Call!Becomes(f), UNCHANGED <<config, active, begun, Call!trail>>,
           f.held = "unsynced" => config.staleMode = "warn",
           f.at \in {"context", "policy"} => f.held # "revoked",
           f.at = "policy" => f.held # "inactive",
           f.at = "policy" /\ f.held = "outdated" => f.tier \in Call!High
    PROVE  CallInv'
<1>1. ~config.client => Call!Top.token = 0
  <2>1. Len(stack) \in 1 .. Len(stack) /\ Call!Top = stack[Len(stack)]
    BY TopFacts
  <2> QED
    BY <2>1 DEF CallInv, Chained
<1>2. Passed(f)
  BY TopFacts DEF Passed
<1>3. active' = TokenOf(Len(stack) - 1) /\ active' \in Call!Calls \cup {0}
  BY Outside DEF CallInv, Call!TypeOK
<1>4. Call!Top.call \notin ran'
  BY TopFacts DEF Call!trail
<1> QED
  BY <1>1, <1>2, <1>3, <1>4, GoesOn DEF Call!trail

LEMMA LocalDecisions ==
    /\ \A o \in Call!Outcomes : /\ Call!Locally(o) \in Call!Decision
                                /\ Call!Locally(o).by = "local"
                                /\ Call!Locally(o).outcome = o
    /\ Call!Undecided \in Call!Decision /\ Call!Undecided.by = "nobody"
    /\ [Call!Locally("allow") EXCEPT !.output = "mask_fields"] \in Call!Decision
    /\ [Call!Locally("allow") EXCEPT !.output = "allow_raw"] \in Call!Decision
  BY DEF Call!Locally, Call!Undecided, Call!Decision, Call!Outcomes,
     Call!Outputs

LEMMA EvaluateStep ==
    ASSUME CallBounds, CallInv,
           Call!CheckStaleRevocation \/ Call!CheckRevocation
               \/ Call!LoadContext \/ Call!EvaluatePolicy
    PROVE  CallInv'
<1>1. ASSUME Call!CheckStaleRevocation PROVE CallInv'
  <2>1. stack # <<>> /\ Call!Top.at = "staleness" /\ UNCHANGED <<config, active,
              begun, Call!trail>>
    BY <1>1 DEF Call!CheckStaleRevocation, Call!At
  <2>2. PICK unsynced \in Call!Readings("unsynced", Call!Top.held) :
             IF unsynced /\ config.staleMode # "warn"
             THEN Call!Decides(Call!Locally(config.staleMode))
                 ELSE Call!Moves("revocation")
    BY <1>1 DEF Call!CheckStaleRevocation
  <2>3. CASE unsynced /\ config.staleMode # "warn"
    <3>1. config.staleMode \in {"deny", "conditional"}
      BY <2>3 DEF CallInv, Call!TypeOK, Call!Config
    <3>2. Call!Locally(config.staleMode) \in Call!Decision
                /\ Call!Locally(config.staleMode).outcome # "allow"
      BY <3>1, LocalDecisions DEF Call!Outcomes
    <3> QED
      BY <2>1, <2>2, <2>3, <3>2, DecidesStep
  <2>4. CASE ~(unsynced /\ config.staleMode # "warn")
    <3> DEFINE f == [Call!Top EXCEPT !.at = "revocation"]
    <3>1. /\ f \in Call!Frame /\ f.call = Call!Top.call
          /\ f.at = "revocation" /\ f.held = Call!Top.held
          /\ f.token = Call!Top.token /\ f.decision = Call!Top.decision
      BY <2>1, TopFacts DEF Call!Frame, Call!Evaluating
    <3>2. Call!Becomes(f)
      BY <2>2, <2>4 DEF Call!Moves
    <3>3. f.held = "unsynced" => config.staleMode = "warn"
      <4>1. Call!Top.held = "unsynced" => unsynced
        BY <2>2 DEF Call!Readings
      <4> QED
        BY <2>4, <3>1, <4>1
    <3> HIDE DEF f
    <3> QED
      BY <2>1, <3>1, <3>2, <3>3, PassesStep
  <2> QED
    BY <2>3, <2>4
<1>2. ASSUME Call!CheckRevocation PROVE CallInv'
  <2>1. stack # <<>> /\ Call!Top.at = "revocation" /\ UNCHANGED <<config,
              active, begun, Call!trail>>
    BY <1>2 DEF Call!CheckRevocation, Call!At
  <2>2. PICK revoked \in Call!Readings("revoked", Call!Top.held) :
             IF revoked THEN Call!Decides(Call!Locally("deny"))
                 ELSE Call!Moves("context")
    BY <1>2 DEF Call!CheckRevocation
  <2>3. CASE revoked
    <3>1. Call!Locally("deny") \in Call!Decision
                /\ Call!Locally("deny").outcome # "allow"
      BY LocalDecisions DEF Call!Outcomes
    <3> QED
      BY <2>1, <2>2, <2>3, <3>1, DecidesStep
  <2>4. CASE ~revoked
    <3> DEFINE f == [Call!Top EXCEPT !.at = "context"]
    <3>1. /\ f \in Call!Frame /\ f.call = Call!Top.call /\ f.at = "context"
          /\ f.held = Call!Top.held
          /\ f.token = Call!Top.token /\ f.decision = Call!Top.decision
      BY <2>1, TopFacts DEF Call!Frame, Call!Evaluating
    <3>2. Call!Becomes(f)
      BY <2>2, <2>4 DEF Call!Moves
    <3>3. f.held # "revoked" /\ (f.held = "unsynced"
                => config.staleMode = "warn")
      <4>1. Call!Top.held # "revoked"
        BY <2>2, <2>4 DEF Call!Readings
      <4>2. Passed(Call!Top)
        BY <2>1, TopFacts
      <4> QED
        BY <2>1, <3>1, <4>1, <4>2 DEF Passed
    <3> HIDE DEF f
    <3> QED
      BY <2>1, <3>1, <3>2, <3>3, PassesStep
  <2> QED
    BY <2>3, <2>4
<1>3. ASSUME Call!LoadContext PROVE CallInv'
  <2>1. stack # <<>> /\ Call!Top.at = "context" /\ UNCHANGED <<config, active,
              begun, Call!trail>>
    BY <1>3 DEF Call!LoadContext, Call!At
  <2>2. PICK p \in Call!PackReadings(Call!Top.held) :
          \/ Call!Decides(Call!Locally("deny"))
               \/ Call!Decides(Call!Locally("conditional"))
          \/ p.active /\ Call!Adopts(p)
    BY <1>3 DEF Call!LoadContext
  <2>3. CASE Call!Decides(Call!Locally("deny"))
              \/ Call!Decides(Call!Locally("conditional"))
    <3>1. /\ Call!Locally("deny") \in Call!Decision
          /\ Call!Locally("deny").outcome # "allow"
          /\ Call!Locally("conditional") \in Call!Decision
          /\ Call!Locally("conditional").outcome # "allow"
      BY LocalDecisions DEF Call!Outcomes
    <3> QED
      BY <2>1, <2>3, <3>1, DecidesStep
  <2>4. CASE p.active /\ Call!Adopts(p)
    <3> DEFINE f == [Call!Top EXCEPT !.at = "policy", !.tier = p.tier,
              !.sensitive = p.sensitive]
    <3>1. p # Call!NoPack /\ p \in Packs
      BY <2>4 DEF Call!NoPack, Call!PackReadings
    <3>2. p.tier \in {"low", "medium"} \cup Call!High /\ p.sensitive \in BOOLEAN
      BY <3>1 DEF CallBounds
    <3>3. /\ f \in Call!Frame /\ f.call = Call!Top.call /\ f.at = "policy"
          /\ f.held = Call!Top.held
          /\ f.token = Call!Top.token /\ f.decision = Call!Top.decision
          /\ f.tier = p.tier
      BY <2>1, <3>2, TopFacts DEF Call!Frame, Call!Evaluating
    <3>4. Call!Becomes(f)
      BY <2>4 DEF Call!Adopts
    <3>5. /\ f.held # "revoked" /\ (f.held = "unsynced"
               => config.staleMode = "warn")
          /\ f.held # "inactive"
               /\ (f.held = "outdated" => f.tier \in Call!High)
      <4>1. Call!Top.held # "inactive"
                  /\ (Call!Top.held = "outdated" => p.tier \in Call!High)
        BY <2>4 DEF Call!PackReadings
      <4>2. Passed(Call!Top)
        BY <2>1, TopFacts
      <4> QED
        BY <2>1, <3>3, <4>1, <4>2 DEF Passed
    <3> HIDE DEF f
    <3> QED
      BY <2>1, <3>3, <3>4, <3>5, PassesStep
  <2> QED
    BY <2>2, <2>3, <2>4
<1>4. ASSUME Call!EvaluatePolicy PROVE CallInv'
  <2>1. stack # <<>> /\ Call!Top.at = "policy" /\ UNCHANGED <<config, active,
              begun, Call!trail>>
    BY <1>4 DEF Call!EvaluatePolicy, Call!At
  <2>2. PICK b \in Call!BundleReadings(Call!Top.held) :
          \/ Call!Decides(Call!Locally("deny"))
               \/ Call!Decides(Call!Locally("conditional"))
          \/ /\ ~Call!Escalates(b) /\ b.enforce # "forbid"
             /\ \/ Call!Decides([Call!Locally("allow") EXCEPT !.output = "mask_fields"])
                \/ Call!Decides([Call!Locally("allow") EXCEPT !.output = "allow_raw"])
    BY <1>4 DEF Call!EvaluatePolicy
  <2>3. CASE Call!Decides(Call!Locally("deny"))
              \/ Call!Decides(Call!Locally("conditional"))
    <3>1. /\ Call!Locally("deny") \in Call!Decision
          /\ Call!Locally("deny").outcome # "allow"
          /\ Call!Locally("conditional") \in Call!Decision
          /\ Call!Locally("conditional").outcome # "allow"
      BY LocalDecisions DEF Call!Outcomes
    <3> QED
      BY <2>1, <2>3, <3>1, DecidesStep
  <2>4. CASE /\ ~Call!Escalates(b) /\ b.enforce # "forbid"
             /\ \/ Call!Decides([Call!Locally("allow") EXCEPT !.output = "mask_fields"])
                \/ Call!Decides([Call!Locally("allow") EXCEPT !.output = "allow_raw"])
    <3>1. Passed(Call!Top) /\ Call!Top.held \in Call!Facts \cup {Call!None}
      BY <2>1, TopFacts DEF Call!Frame
    <3>2. Call!Top.held # "forbidden"
      BY <2>4 DEF Call!BundleReadings
    <3>3. Call!Top.held # "outdated"
      BY <2>1, <2>4, <3>1 DEF Call!BundleReadings, Passed, Call!Escalates
    <3>4. Call!Top.held = Call!None
                \/ (Call!Top.held = "unsynced" /\ config.staleMode = "warn")
      BY <2>1, <3>1, <3>2, <3>3 DEF Passed, Call!Facts
    <3> QED
      BY <2>1, <2>4, <3>4, LocalDecisions, DecidesStep
  <2> QED
    BY <2>2, <2>3, <2>4
<1> QED
  BY <1>1, <1>2, <1>3, <1>4

LEMMA EndingStep ==
    ASSUME CallBounds, CallInv,
           \/ Call!EvaluateRaises \/ Call!AskServer \/ Call!NoAnswer
                \/ Call!Denied \/ Call!Blocked
           \/ Call!ToolRaises \/ Call!Withholds \/ Call!Returns
    PROVE  CallInv'
<1>1. Says("denied") = <<"deny">> /\ Says("returned") = <<"allow">>
  BY DEF Says
\* without an event
<1>2. ASSUME stack # <<>>, NEW how \in {"blocked", "withheld", "raised"},
            Call!Ends(how),
             UNCHANGED <<config, begun, ran, events>>,
             how = "blocked" => Call!Top.call \notin ran,
                 active' = TokenOf(Len(stack) - 1)
      PROVE  CallInv'
  <2>1. Call!Top.call \in ran => how \in {"returned", "withheld", "raised"}
    BY <1>2
  <2> QED
    BY <1>2, <2>1, CallEnds
\* with one
<1>3. ASSUME stack # <<>>, NEW how \in {"returned", "denied"}, Call!Ends(how),
             \/ how = "returned" /\ Call!Records("allow")
                  /\ Call!Top.call \in ran
             \/ how = "denied" /\ Call!Records("deny")
                  /\ Call!Top.call \notin ran,
             UNCHANGED <<config, begun, ran>>, active' = TokenOf(Len(stack) - 1)
      PROVE  CallInv'
  <2>1. events \in [Call!Calls -> Seq({"allow", "deny"})]
              /\ Call!Top.call \in Call!Calls /\ events[Call!Top.call] = <<>>
    BY <1>3, TopFacts DEF CallInv, Call!TypeOK
  <2>2. Append(<<>>, "allow") = <<"allow">> /\ Append(<<>>, "deny") = <<"deny">>
    OBVIOUS
  <2>3. \/ UNCHANGED events
        \/ events' = [events EXCEPT ![Call!Top.call] = Says(how)]
    BY <1>1, <1>3, <2>1, <2>2 DEF Call!Records
  <2> QED
    BY <1>3, <2>3, CallEnds
<1>4. ASSUME Call!EvaluateRaises PROVE CallInv'
  <2>1. /\ stack # <<>> /\ Call!Top.at \in Call!Evaluating
        /\ UNCHANGED <<config, active, begun, ran, events>>
        /\ \/ Call!Decides(Call!Undecided) /\ UNCHANGED ended
           \/ Call!Ends("raised")
    BY <1>4 DEF Call!EvaluateRaises
  <2>2. Call!Top.at \notin {"tool", "output"}
              /\ active' = TokenOf(Len(stack) - 1)
    BY <2>1, Outside DEF Call!Evaluating
  <2> QED
    BY <1>2, <2>1, <2>2, LocalDecisions, DecidesStep DEF Call!trail
<1>5. ASSUME Call!AskServer PROVE CallInv'
  <2>1. stack # <<>> /\ Call!Top.at = "decided" /\ UNCHANGED <<config, active,
              begun, Call!trail>>
    BY <1>5 DEF Call!AskServer, Call!Unsettled, Call!At
  <2>2. PICK o \in {"allow", "deny"}, b \in BOOLEAN, out \in Call!Outputs :
          Call!Decides([by |-> "server", outcome |-> o, blocking |-> b,
              output |-> out])
    BY <1>5 DEF Call!AskServer
  <2> DEFINE d == [by |-> "server", outcome |-> o, blocking |-> b,
            output |-> out]
  <2>3. d \in Call!Decision /\ d.by = "server" /\ Call!Decides(d)
    BY <2>2 DEF Call!Decision, Call!Outcomes
  <2> HIDE DEF d
  <2> QED
    BY <2>1, <2>3, DecidesStep
<1>6. ASSUME Call!NoAnswer \/ Call!Withholds PROVE CallInv'
  <2>1. /\ stack # <<>> /\ Call!Top.at # "tool" /\ UNCHANGED <<config, active,
             begun, ran, events>>
        /\ Call!Ends("raised") \/ Call!Ends("withheld")
    BY <1>6 DEF Call!NoAnswer, Call!Withholds, Call!Unsettled, Call!At
  <2> QED
    BY <1>2, <2>1, Outside
<1>7. ASSUME Call!Blocked PROVE CallInv'
  <2>1. /\ stack # <<>> /\ Call!Top.at = "decided" /\ UNCHANGED <<config,
             active, begun, ran, events>>
        /\ Call!Ends("blocked")
    BY <1>7 DEF Call!Blocked, Call!Allowed, Call!At
  <2> QED
    BY <1>2, <2>1, Outside, TopFacts
<1>8. ASSUME Call!Denied PROVE CallInv'
  <2>1. /\ stack # <<>> /\ Call!Top.at = "decided" /\ UNCHANGED <<config,
             active, begun, ran>>
        /\ Call!Records("deny") /\ Call!Ends("denied")
    BY <1>8 DEF Call!Denied, Call!At
  <2> QED
    BY <1>3, <2>1, Outside, TopFacts
<1>9. ASSUME Call!Returns PROVE CallInv'
  <2>1. /\ stack # <<>> /\ Call!Top.at = "output" /\ UNCHANGED <<config, active,
             begun, ran>>
        /\ Call!Records("allow") /\ Call!Ends("returned")
    BY <1>9 DEF Call!Returns, Call!At
  <2> QED
    BY <1>3, <2>1, Outside, TopFacts
<1>10. ASSUME Call!ToolRaises PROVE CallInv'
  <2>1. /\ stack # <<>> /\ Call!Top.at = "tool" /\ UNCHANGED <<config, begun,
             ran, events>>
        /\ Call!Reset /\ Call!Ends("raised")
    BY <1>10 DEF Call!ToolRaises, Call!At
  <2>2. active' = TokenOf(Len(stack) - 1)
    BY <2>1, AfterTool
  <2> QED
    BY <1>2, <2>1, <2>2
<1> QED
  BY <1>4, <1>5, <1>6, <1>7, <1>8, <1>9, <1>10

LEMMA RunStep == ASSUME CallBounds, CallInv, Call!RunTool PROVE CallInv'
<1>1. /\ stack # <<>> /\ Call!Top.at = "decided" /\ UNCHANGED <<config, begun,
           ended, events>>
      /\ ran' = ran \cup {Call!Top.call}
  BY DEF Call!RunTool, Call!Allowed, Call!At
<1>2. PICK token \in {0} \cup (IF config.client THEN {Call!Top.call} ELSE {}) :
          /\ Call!Becomes([Call!Top EXCEPT !.at = "tool", !.token = token,
               !.previous = active])
          /\ active' = IF config.client THEN token ELSE active
  BY DEF Call!RunTool
<1> DEFINE f == [Call!Top EXCEPT !.at = "tool", !.token = token,
          !.previous = active]
<1>3. token \in Call!Calls \cup {0} /\ active \in Call!Calls \cup {0}
  BY <1>1, <1>2, TopFacts DEF CallInv, Call!TypeOK
<1>4. /\ f \in Call!Frame /\ f.call = Call!Top.call /\ f.at = "tool"
      /\ f.token = token
      /\ f.previous = active /\ f.held = Call!Top.held
      /\ f.decision = Call!Top.decision
  BY <1>1, <1>3, TopFacts DEF Call!Frame
<1>5. Call!Becomes(f)
  BY <1>2
<1> HIDE DEF f
<1>6. active = TokenOf(Len(stack) - 1)
  BY <1>1, Outside
<1>7. ~config.client => token = 0 /\ active = 0
  <2> SUFFICES ASSUME ~config.client PROVE token = 0 /\ active = 0
    OBVIOUS
  <2>1. Len(stack) \in Nat \ {0}
              /\ \A i \in 1 .. Len(stack) : stack[i].token = 0
    BY <1>1, TopFacts DEF CallInv, Chained
  <2>2. Len(stack) - 1 = 0 \/ (Len(stack) - 1 \in 1 .. Len(stack))
    BY <2>1, LastIndex
  <2> QED
    BY <1>2, <1>6, <2>1, <2>2 DEF TokenOf
<1>8. active' = token /\ active' \in Call!Calls \cup {0}
  BY <1>2, <1>3, <1>7
<1>9. Passed(f)
  BY <1>1, <1>4, TopFacts DEF Passed
<1>10. Call!Top.call \in ran'
  BY <1>1
<1> QED
  BY <1>1, <1>4, <1>5, <1>6, <1>7, <1>8, <1>9, <1>10, GoesOn

LEMMA ReturnStep == ASSUME CallBounds, CallInv, Call!ToolReturns PROVE CallInv'
<1>1. /\ stack # <<>> /\ Call!Top.at = "tool" /\ UNCHANGED <<config, begun,
           Call!trail>>
      /\ Call!Reset /\ Call!Moves("output")
  BY DEF Call!ToolReturns, Call!At
<1> DEFINE f == [Call!Top EXCEPT !.at = "output"]
<1>2. /\ f \in Call!Frame /\ f.call = Call!Top.call /\ f.at = "output"
      /\ f.token = Call!Top.token
      /\ f.held = Call!Top.held /\ f.decision = Call!Top.decision
  BY <1>1, TopFacts DEF Call!Frame
<1>3. Call!Becomes(f)
  BY <1>1 DEF Call!Moves
<1> HIDE DEF f
<1>4. Passed(f)
  BY <1>1, <1>2, TopFacts DEF Passed
<1>5. ~config.client => f.token = 0
  <2>1. Len(stack) \in 1 .. Len(stack) /\ Call!Top = stack[Len(stack)]
    BY <1>1, TopFacts
  <2> QED
    BY <1>2, <2>1 DEF CallInv, Chained
<1>6. active' = TokenOf(Len(stack) - 1)
  BY <1>1, AfterTool
<1>7. active' \in Call!Calls \cup {0}
  BY <1>1, TopFacts DEF Call!Reset, Call!Frame, CallInv, Call!TypeOK
<1>8. Call!Top.call \in ran'
  BY <1>1, TopFacts DEF Call!trail
<1> QED
  BY <1>1, <1>2, <1>3, <1>4, <1>5, <1>6, <1>7, <1>8, GoesOn DEF Call!trail

LEMMA CallStays == ASSUME CallInv, UNCHANGED Call!vars PROVE CallInv'
<1>1. /\ config' = config /\ stack' = stack /\ active' = active
      /\ begun' = begun
      /\ ran' = ran /\ ended' = ended /\ events' = events
  BY DEF Call!vars, Call!trail
<1>2. Call!TypeOK'
  BY <1>1 DEF CallInv, Call!TypeOK
<1>3. Nested'
  BY <1>1 DEF CallInv, Nested
<1>4. Chained'
  BY <1>1 DEF CallInv, Chained, Depth, TokenOf, Call!At, Call!Top
<1>5. Accounted'
  BY <1>1 DEF CallInv, Accounted
<1>6. (\A i \in 1 .. Len(stack) : Passed(stack[i]))'
  BY <1>1 DEF CallInv, Passed
<1> QED
  BY <1>2, <1>3, <1>4, <1>5, <1>6 DEF CallInv

LEMMA CallStep == ASSUME CallBounds, CallInv, [Call!Next]_(Call!vars)
PROVE CallInv'
  BY InvokeStep, EvaluateStep, EndingStep, RunStep, ReturnStep, CallStays DEF
     Call!Next

-----------------------------------------------------------------------------
(* Execution tokens.  A single-use token is accepted once, if a thread waits *)
(* for the replay lock no longer than the grace.                           *)
TokenBounds ==
    /\ TokenTtls \subseteq Nat /\ Grace \in Nat \ {0} /\ ReplayLag \in Nat
    /\ ReplayLag <= Grace
    /\ MaxIssued \in Nat /\ MaxKeys \in Nat \ {0} /\ MaxTicks \in Nat

TokenSteps == {"idle", "keyed", "checked", "save", "write", "valid"}

IssuedToken == [key : Int, exp : Nat, single : BOOLEAN]

\* The part of the typing the argument needs.
Shape ==
    /\ now \in Nat
    /\ tokens \in Seq(IssuedToken)
    /\ Len(tokens) <= MaxIssued
    /\ signing \in Int
    /\ tokenStep \in [Actors -> TokenSteps]
    /\ tokenToken \in [Actors -> {Token!None} \cup Token!Tokens]
    /\ at \in [Actors -> Nat]
    /\ used \in [Token!Tokens -> Int] /\ saved \in [Token!Tokens -> Int]
    /\ unsaved \in BOOLEAN
    /\ accepted \in [Token!Tokens -> 0 .. 2] /\ forgotten \in BOOLEAN
    /\ \A t \in Actors : tokenStep[t] # "idle"
         => tokenToken[t] \in DOMAIN tokens

\* A thread that compared the expiry did so on a valid token and not long ago.
ComparedInTime ==
    \A t \in Actors : tokenStep[t] = "checked" =>
        /\ at[t] <= tokens[tokenToken[t]].exp
        /\ at[t] <= now /\ now <= at[t] + ReplayLag

\* One thread at a time holds the replay lock, and the file lacks its use.
OneSaves ==
    /\ \A t \in Actors : tokenStep[t] \in {"save", "write"} => unsaved
    /\ \A t, u \in Actors : tokenStep[t] \in {"save", "write"}
                             /\ tokenStep[u] \in {"save", "write"} => t = u

\* The thread has found no earlier use of its token.
PassedBy(t, k) == tokenStep[t] \in {"save", "write", "valid"}
    /\ tokenToken[t] = k

Consumed(k) == accepted[k] # 0 \/ \E t \in Actors : PassedBy(t, k)

SingleUse(k) == k \in DOMAIN tokens /\ tokens[k].single

\* At most one validation of a single-use token passes.
PassesOnce ==
    \A k \in Token!Tokens : SingleUse(k) =>
        /\ accepted[k] <= 1
        /\ \A t \in Actors : PassedBy(t, k) =>
              accepted[k] = 0 /\ \A u \in Actors : PassedBy(u, k) => u = t

\* The use of k is in the store, or no thread can find k valid any more.
Spent(k, store) ==
    \/ store[k] = Token!Deadline(k)
    \/ now > Token!Deadline(k)
    \/ now = Token!Deadline(k) /\ \A t \in Actors :
                                    tokenStep[t] = "checked"
                                        => tokenToken[t] # k

UseIsKnown ==
    \A k \in Token!Tokens : SingleUse(k) /\ Consumed(k) => Spent(k, used)

UseIsSaved ==
    ~unsaved => \A k \in Token!Tokens : SingleUse(k) /\ Consumed(k)
        => Spent(k, saved)

NotBeforeIssue == \A k \in Token!Tokens \ DOMAIN tokens : accepted[k] = 0

UsedOnce ==
    /\ ComparedInTime /\ OneSaves
    /\ PassesOnce /\ UseIsKnown /\ UseIsSaved /\ NotBeforeIssue

TokenInv == Shape /\ (~forgotten => UsedOnce)

LEMMA TokenInit == ASSUME TokenBounds, Token!Init PROVE TokenInv
<1>1. Shape
  <2>1. Token!Unused \in [Token!Tokens -> Int]
    BY DEF Token!Unused, Token!None
  <2>2. <<>> \in Seq(IssuedToken) /\ Len(<<>>) = 0 /\ 0 <= MaxIssued
    BY DEF TokenBounds
  <2>3. tokenStep \in [Actors -> TokenSteps]
              /\ \A t \in Actors : tokenStep[t] = "idle"
    BY DEF Token!Init, TokenSteps
  <2>4. tokenToken \in [Actors -> {Token!None} \cup Token!Tokens]
              /\ at \in [Actors -> Nat]
    BY DEF Token!Init
  <2>5. accepted \in [Token!Tokens -> 0 .. 2]
    BY DEF Token!Init
  <2>6. /\ now = 0 /\ signing = 1
        /\ unsaved = FALSE /\ forgotten = FALSE
        /\ used = Token!Unused /\ saved = Token!Unused /\ tokens = <<>>
    BY DEF Token!Init
  <2>7. tokens \in Seq(IssuedToken) /\ Len(tokens) <= MaxIssued
    BY <2>2, <2>6
  <2>8. now \in Nat /\ signing \in Int
    BY <2>6
  <2>9. unsaved \in BOOLEAN /\ forgotten \in BOOLEAN
    BY <2>6, Zenon
  <2>10. used \in [Token!Tokens -> Int] /\ saved \in [Token!Tokens -> Int]
    BY <2>1, <2>6
  <2> QED
    BY <2>3, <2>4, <2>5, <2>7, <2>10, <2>8, <2>9, Zenon DEF Shape
<1>2. \A t \in Actors : tokenStep[t] = "idle"
  BY DEF Token!Init
<1>3. \A k \in Token!Tokens : accepted[k] = 0
  BY DEF Token!Init
<1> QED
  BY <1>1, <1>2, <1>3 DEF TokenInv, UsedOnce, ComparedInTime, OneSaves,
     PassesOnce, UseIsKnown, UseIsSaved, NotBeforeIssue, PassedBy, Consumed

LEMMA Indices ==
    ASSUME TokenBounds, Shape
    PROVE  DOMAIN tokens = 1 .. Len(tokens)
        /\ DOMAIN tokens \subseteq Token!Tokens
<1>1. tokens \in Seq(IssuedToken) /\ Len(tokens) <= MaxIssued
            /\ MaxIssued \in Nat
  BY DEF TokenBounds, Shape
<1>2. DOMAIN tokens = 1 .. Len(tokens) /\ Len(tokens) \in Nat
  BY <1>1
<1> QED
  BY <1>1, <1>2 DEF Token!Tokens

LEMMA TokenShapeStep == ASSUME TokenBounds, Shape,
    [Token!Next]_(Token!vars) PROVE Shape'
<1> USE DEF Shape, Token!Goes
<1>1. DOMAIN tokens = 1 .. Len(tokens) /\ DOMAIN tokens \subseteq Token!Tokens
  BY Indices
<1>2. Token!Unused \in [Token!Tokens -> Int]
            /\ Token!Evicted \in [Token!Tokens -> Int]
  BY DEF Token!Unused, Token!Evicted, Token!None
<1>3. CASE Token!Issue
  <2>1. PICK ttl \in TokenTtls, single \in BOOLEAN :
           tokens' = Append(tokens, [key |-> signing, exp |-> now + ttl,
                                     single |-> single])
    BY <1>3 DEF Token!Issue
  <2> DEFINE new == [key |-> signing, exp |-> now + ttl, single |-> single]
  <2>2. new \in IssuedToken
    BY DEF TokenBounds, IssuedToken
  <2> HIDE DEF new
  <2>3. /\ tokens' \in Seq(IssuedToken) /\ Len(tokens') <= MaxIssued
        /\ DOMAIN tokens \subseteq DOMAIN tokens'
    BY <1>3, <2>1, <2>2 DEF Token!Issue, new, TokenBounds
  <2> QED
    BY <1>3, <2>3 DEF Token!Issue, Token!jwks, Token!validation, Token!replay,
       Token!ghost
<1>4. ASSUME NEW t \in Actors, Token!CheckExpiry(t) PROVE Shape'
  BY <1>1, <1>4 DEF Token!CheckExpiry, Token!Leave, Token!Compared,
     Token!issuer, Token!jwks, Token!replay, Token!ghost, TokenSteps
<1>5. ASSUME NEW t \in Actors, Token!CheckReplay(t) PROVE Shape'
  <2> DEFINE k == tokenToken[t]
  <2>1. k \in DOMAIN tokens /\ k \in Token!Tokens
    BY <1>1, <1>5 DEF Token!CheckReplay
  <2>2. Token!Deadline(k) \in Int
    <3>1. tokens[k] \in IssuedToken
      BY <2>1
    <3> QED
      BY <3>1 DEF Token!Deadline, IssuedToken, TokenBounds
  <2>3. used' \in [Token!Tokens -> Int]
    BY <1>5, <1>2, <2>1, <2>2 DEF Token!CheckReplay
  <2>4. tokenStep' \in [Actors -> TokenSteps] /\ at' \in [Actors -> Nat]
    BY <1>5 DEF Token!CheckReplay, Token!Leave, Token!Compared, TokenSteps
  <2>5. /\ tokenToken' \in [Actors -> {Token!None} \cup Token!Tokens]
        /\ \A u \in Actors : tokenStep'[u] # "idle"
             => tokenToken'[u] \in DOMAIN tokens
    BY <1>5 DEF Token!CheckReplay, Token!Leave
  <2> QED
    BY <1>5, <2>3, <2>4, <2>5 DEF Token!CheckReplay, Token!issuer, Token!ghost
<1>6. ASSUME NEW t \in Actors, Token!NoReplayCheck(t) PROVE Shape'
  BY <1>1, <1>6 DEF Token!NoReplayCheck, Token!Leave, Token!Compared,
     Token!issuer, Token!jwks, Token!replay, Token!ghost, TokenSteps
<1>7. ASSUME NEW t \in Actors, Token!EmptyFile(t) PROVE Shape'
  BY <1>7, <1>2 DEF Token!EmptyFile, Token!issuer, Token!jwks, Token!ghost,
     TokenSteps
<1>8. ASSUME NEW t \in Actors, Token!WriteFile(t) PROVE Shape'
  BY <1>1, <1>8 DEF Token!WriteFile, Token!Leave, Token!Compared,
     Token!issuer, Token!jwks, Token!replay, Token!ghost, TokenSteps
<1>9. ASSUME NEW t \in Actors, Token!Accept(t) PROVE Shape'
  <2>1. tokenToken[t] \in Token!Tokens
    BY <1>1, <1>9 DEF Token!Accept, Token!Leave
  <2>2. accepted[tokenToken[t]] \in 0 .. 2 /\ accepted[tokenToken[t]] < 2
    BY <1>9, <2>1 DEF Token!Accept
  <2>3. accepted[tokenToken[t]] + 1 \in 0 .. 2
    BY <2>2
  <2>4. accepted' \in [Token!Tokens -> 0 .. 2]
    BY <1>9, <2>1, <2>3 DEF Token!Accept
  <2> QED
    BY <1>9, <2>4 DEF Token!Accept, Token!Leave, Token!issuer, Token!jwks,
       Token!replay, TokenSteps
<1>10. ASSUME NEW t \in Actors, NEW k \in Token!Tokens, Token!FindKey(t, k)
       PROVE Shape'
  BY <1>1, <1>10 DEF Token!FindKey, Token!issuer, Token!replay, Token!ghost,
     TokenSteps
<1>11. CASE Token!Restart
  <2>1. used' \in [Token!Tokens -> Int]
    BY <1>11 DEF Token!Restart, Token!None
  <2>2. /\ tokenStep' = [t \in Actors |-> "idle"]
        /\ tokenToken' = [t \in Actors |-> Token!None]
        /\ at' = [t \in Actors |-> 0]
        /\ unsaved' = FALSE /\ forgotten' \in BOOLEAN
        /\ UNCHANGED <<now, signing, tokens, saved, accepted>>
    BY <1>11 DEF Token!Restart, Token!issuer
  <2> QED
    BY <2>1, <2>2 DEF TokenSteps
<1>12. CASE Token!Tick
  BY <1>12 DEF Token!Tick, Token!issuer, Token!validation, Token!replay,
     Token!ghost
<1>13. CASE Token!Rotate
  BY <1>13 DEF Token!Rotate, Token!validation, Token!replay, Token!ghost
<1>14. CASE UNCHANGED Token!vars
  BY <1>14 DEF Token!vars, Token!issuer, Token!validation, Token!replay,
     Token!ghost
<1> QED
  BY <1>3, <1>4, <1>5, <1>6, <1>7, <1>8, <1>9, <1>10, <1>11, <1>12, <1>13,
     <1>14 DEF Token!Next

-----------------------------------------------------------------------------
(* The steps of a validation, while no restart has lost a use.             *)

LEMMA Lifetimes ==
    ASSUME TokenBounds, Shape, NEW k \in DOMAIN tokens
    PROVE  /\ k \in Token!Tokens /\ tokens[k].exp \in Nat
           /\ Token!Deadline(k) \in Nat /\ Token!Deadline(k) > tokens[k].exp
           /\ Token!Deadline(k) = tokens[k].exp + Grace
<1>1. k \in Token!Tokens /\ k \in 1 .. Len(tokens)
            /\ tokens \in Seq(IssuedToken)
  BY Indices DEF Shape
<1>2. tokens[k] \in IssuedToken
  BY <1>1
<1>3. tokens[k].exp \in Nat
  BY <1>2 DEF IssuedToken
<1> QED
  BY <1>1, <1>3 DEF Token!Deadline, TokenBounds

\* A step that neither passes a token nor touches the store.
LEMMA QuietStep ==
    ASSUME TokenBounds, Shape, UsedOnce,
           \A t \in Actors, k \in Token!Tokens :
              SingleUse(k) /\ PassedBy(t, k)' => PassedBy(t, k),
           \A t \in Actors : tokenStep'[t] \in {"save", "write"}
                               => tokenStep'[t] = tokenStep[t],
           \A t \in Actors : tokenStep'[t] = "checked" =>
              \/ /\ tokenStep[t] = "checked"
                 /\ at'[t] = at[t] /\ tokenToken'[t] = tokenToken[t]
              \/ /\ at'[t] = now /\ now <= tokens[tokenToken[t]].exp
                 /\ tokenToken'[t] = tokenToken[t] /\ tokenStep[t] # "idle",
           UNCHANGED <<now, tokens, Token!replay, accepted>>
    PROVE  UsedOnce'
<1> USE DEF UsedOnce
<1>1. ComparedInTime'
  <2> SUFFICES ASSUME NEW t \in Actors, tokenStep'[t] = "checked"
               PROVE  /\ at'[t] <= tokens[tokenToken'[t]].exp
                      /\ at'[t] <= now /\ now <= at'[t] + ReplayLag
    BY DEF ComparedInTime
  <2>1. CASE tokenStep[t] = "checked" /\ at'[t] = at[t]
              /\ tokenToken'[t] = tokenToken[t]
    BY <2>1 DEF ComparedInTime
  <2>2. CASE at'[t] = now /\ now <= tokens[tokenToken[t]].exp
              /\ tokenToken'[t] = tokenToken[t]
    BY <2>2 DEF Shape, TokenBounds
  <2> QED
    BY <2>1, <2>2
<1>2. OneSaves'
  BY DEF OneSaves, Token!replay
<1>3. PassesOnce'
  BY DEF PassesOnce, SingleUse
<1>4. ASSUME NEW k \in Token!Tokens, SingleUse(k)', Consumed(k)'
      PROVE  SingleUse(k) /\ Consumed(k)
          /\ Token!Deadline(k)' = Token!Deadline(k)
  BY <1>4 DEF SingleUse, Consumed, Token!Deadline
<1>5. ASSUME NEW k \in Token!Tokens, SingleUse(k), NEW store, Spent(k, store)
      PROVE  \/ store[k] = Token!Deadline(k) \/ now > Token!Deadline(k)
             \/ now = Token!Deadline(k) /\ \A t \in Actors :
                                             tokenStep'[t] = "checked"
                                                 => tokenToken'[t] # k
  <2>1. CASE store[k] = Token!Deadline(k) \/ now > Token!Deadline(k)
    BY <2>1
  <2>2. CASE now = Token!Deadline(k) /\ \A t \in Actors :
                                           tokenStep[t] = "checked"
                                               => tokenToken[t] # k
    <3>1. k \in DOMAIN tokens
      BY <1>5 DEF SingleUse
    <3>2. ~(now <= tokens[k].exp)
      BY <2>2, <3>1, Lifetimes
    <3> QED
      BY <2>2, <3>2
  <2> QED
    BY <1>5, <2>1, <2>2 DEF Spent
<1>6. UseIsKnown'
  BY <1>4, <1>5 DEF UseIsKnown, Spent, Token!replay
<1>7. UseIsSaved'
  BY <1>4, <1>5 DEF UseIsSaved, Spent, Token!replay
<1>8. NotBeforeIssue'
  BY DEF NotBeforeIssue
<1> QED
  BY <1>1, <1>2, <1>3, <1>6, <1>7, <1>8

\* CheckReplay: a token of which no use is in the store has passed nowhere.
LEMMA ReplayStep ==
    ASSUME TokenBounds, Shape, UsedOnce, NEW t \in Actors, Token!CheckReplay(t)
    PROVE  UsedOnce'
<1> USE DEF UsedOnce
<1>1. PICK k : k = tokenToken[t]
  OBVIOUS
<1>2. /\ tokenStep[t] = "checked" /\ k \in DOMAIN tokens /\ k \in Token!Tokens
      /\ SingleUse(k)
      /\ \A u \in Actors : tokenStep[u] \notin {"save", "write"}
      /\ UNCHANGED <<now, tokens, saved, accepted>>
  BY <1>1, Lifetimes DEF Token!CheckReplay, Shape, SingleUse, Token!Locked,
     Token!issuer, Token!ghost
<1>3. /\ now \in Nat /\ at[t] <= now /\ now <= at[t] + ReplayLag
      /\ at[t] \in Nat
      /\ at[t] <= tokens[k].exp
  BY <1>2, <1>1 DEF ComparedInTime, Shape
<1>4. now <= Token!Deadline(k)
  BY <1>2, <1>3, Lifetimes DEF TokenBounds
<1>5. /\ \A u \in Actors : u # t => tokenStep'[u] = tokenStep[u]
           /\ tokenToken'[u] = tokenToken[u]
                                    /\ at'[u] = at[u]
      /\ tokenStep'[t] \in {"idle", "save"}
  BY <1>2 DEF Token!CheckReplay, Token!Leave, Token!Goes, Token!Compared,
     Shape
<1>6. ComparedInTime'
  BY <1>2, <1>5 DEF ComparedInTime
<1>7. \A j \in Token!Tokens : SingleUse(j)' = SingleUse(j)
            /\ Token!Deadline(j)' = Token!Deadline(j)
  BY <1>2 DEF SingleUse, Token!Deadline
<1> DEFINE Gone(j) == \/ now > Token!Deadline(j)
                      \/ now = Token!Deadline(j) /\ \A u \in Actors :
                                                  tokenStep'[u] = "checked"
                                                      => tokenToken'[u] # j
<1>8. \A j \in Token!Tokens : \A store : Spent(j, store)
            => store[j] = Token!Deadline(j) \/ Gone(j)
  BY <1>5 DEF Spent
<1>9. NotBeforeIssue'
  BY <1>2 DEF NotBeforeIssue
<1>10. ASSUME NEW j \in Token!Tokens, SingleUse(j), Spent(j, used)
      PROVE  Token!Evicted[j] = Token!Deadline(j) \/ Gone(j)
  <2>1. now \in Nat /\ Token!Deadline(j) \in Nat
    BY <1>3, <1>10, Lifetimes DEF SingleUse
  <2>2. used[j] = Token!Deadline(j) \/ Gone(j)
    BY <1>8, <1>10
  <2>3. ASSUME used[j] = Token!Deadline(j), ~(now > Token!Deadline(j))
        PROVE  Token!Evicted[j] = Token!Deadline(j)
    BY <2>1, <2>3 DEF Token!Evicted
  <2> QED
    BY <2>2, <2>3
<1>11. \A j \in Token!Tokens : Spent(j, used)'
             <=> used'[j] = Token!Deadline(j) \/ Gone(j)
  BY <1>2, <1>7 DEF Spent
<1>12. \A j \in Token!Tokens : Spent(j, saved)'
             <=> saved[j] = Token!Deadline(j) \/ Gone(j)
  BY <1>2, <1>7 DEF Spent
<1>13. CASE Token!Evicted[k] # Token!None
  <2>1. tokenStep'[t] = "idle" /\ used' = Token!Evicted /\ unsaved' = unsaved
    BY <1>2, <1>1, <1>13 DEF Token!CheckReplay, Token!Leave, Token!Goes, Shape
  <2>2. \A u \in Actors, j \in Token!Tokens : PassedBy(u, j)' => PassedBy(u, j)
    BY <1>5, <2>1 DEF PassedBy
  <2>3. OneSaves'
    BY <1>2, <1>5, <2>1 DEF OneSaves
  <2>4. PassesOnce'
    BY <1>2, <1>7, <2>2 DEF PassesOnce
  <2>5. \A j \in Token!Tokens : Consumed(j)' => Consumed(j)
    BY <1>2, <2>2 DEF Consumed
  <2>6. UseIsKnown'
    BY <1>7, <1>10, <1>11, <2>1, <2>5 DEF UseIsKnown
  <2>7. UseIsSaved'
    BY <1>7, <1>8, <1>12, <2>1, <2>5 DEF UseIsSaved
  <2> QED
    BY <1>6, <1>9, <2>3, <2>4, <2>6, <2>7
<1>14. CASE Token!Evicted[k] = Token!None
  <2>1. /\ tokenStep'[t] = "save" /\ tokenToken'[t] = k /\ unsaved' = TRUE
        /\ used' = [Token!Evicted EXCEPT ![k] = Token!Deadline(k)]
    BY <1>2, <1>1, <1>14 DEF Token!CheckReplay, Token!Goes, Shape
  <2>2. ~Consumed(k)
    <3> SUFFICES ASSUME Consumed(k) PROVE FALSE
      OBVIOUS
    <3>1. Spent(k, used)
      BY <1>2 DEF UseIsKnown
    <3>2. Token!Deadline(k) \in Nat
      BY <1>2, Lifetimes
    <3>3. used[k] = Token!Deadline(k)
      BY <1>2, <1>1, <1>3, <1>4, <3>1, <3>2 DEF Spent
    <3>4. Token!Evicted[k] = Token!Deadline(k)
      BY <1>2, <1>3, <1>4, <3>2, <3>3 DEF Token!Evicted
    <3> QED
      BY <1>14, <3>2, <3>4 DEF Token!None
  <2>3. \A u \in Actors, j \in Token!Tokens :
           PassedBy(u, j)' => PassedBy(u, j) \/ (u = t /\ j = k)
    BY <1>5, <2>1 DEF PassedBy
  <2>4. OneSaves'
    BY <1>2, <1>5, <2>1 DEF OneSaves
  <2>5. PassesOnce'
    <3>1. accepted[k] = 0 /\ \A u \in Actors : PassedBy(u, k)' => u = t
      BY <1>2, <2>2, <2>3 DEF Consumed
    <3>2. ASSUME NEW j \in Token!Tokens, SingleUse(j), j # k
          PROVE  /\ accepted[j] <= 1
                 /\ \A v \in Actors : PassedBy(v, j)' =>
                       /\ accepted[j] = 0
                       /\ \A u \in Actors : PassedBy(u, j)' => u = v
      BY <2>3, <3>2 DEF PassesOnce
    <3>3. accepted[k] <= 1
      BY <3>1
    <3> QED
      BY <1>2, <1>7, <3>1, <3>2, <3>3 DEF PassesOnce
  <2>6. UseIsKnown'
    <3>1. \A j \in Token!Tokens : j # k => used'[j] = Token!Evicted[j]
                /\ (Consumed(j)' => Consumed(j))
      BY <1>2, <2>1, <2>3 DEF Consumed, Token!Evicted
    <3>2. used'[k] = Token!Deadline(k)
      BY <1>2, <2>1 DEF Token!Evicted
    <3> QED
      BY <1>7, <1>10, <1>11, <3>1, <3>2 DEF UseIsKnown
  <2>7. UseIsSaved'
    BY <2>1 DEF UseIsSaved
  <2> QED
    BY <1>6, <1>9, <2>4, <2>5, <2>6, <2>7
<1> QED
  BY <1>13, <1>14

LEMMA AcceptStep ==
    ASSUME TokenBounds, Shape, UsedOnce, NEW t \in Actors, Token!Accept(t)
    PROVE  UsedOnce'
<1> USE DEF UsedOnce
<1>1. PICK k : k = tokenToken[t]
  OBVIOUS
<1>2. /\ tokenStep[t] = "valid" /\ k \in DOMAIN tokens /\ k \in Token!Tokens
      /\ tokenStep' = [tokenStep EXCEPT ![t] = "idle"]
      /\ \A u \in Actors : u # t => tokenToken'[u] = tokenToken[u]
      /\ accepted' = [accepted EXCEPT ![k] = @ + 1]
      /\ UNCHANGED <<now, tokens, at, used, saved, unsaved>>
  BY <1>1, Lifetimes DEF Token!Accept, Token!Leave, Token!Goes, Shape,
     Token!issuer, Token!replay
<1>3. /\ tokenStep'[t] = "idle"
      /\ \A u \in Actors : u # t => tokenStep'[u] = tokenStep[u]
      /\ PassedBy(t, k) /\ ~\E j \in Token!Tokens : PassedBy(t, j)'
      /\ \A u \in Actors, j \in Token!Tokens : PassedBy(u, j)' => u # t
           /\ PassedBy(u, j)
  BY <1>2, <1>1 DEF PassedBy, Shape
<1>4. \A j \in Token!Tokens : SingleUse(j)' = SingleUse(j)
            /\ Token!Deadline(j)' = Token!Deadline(j)
  BY <1>2 DEF SingleUse, Token!Deadline
<1>5. \A j \in Token!Tokens : Consumed(j)' => Consumed(j)
  BY <1>2, <1>3 DEF Consumed, Shape
<1>6. \A j \in Token!Tokens : \A store : Spent(j, store) =>
         \/ store[j] = Token!Deadline(j)
         \/ now > Token!Deadline(j)
         \/ now = Token!Deadline(j) /\ \A u \in Actors :
                                         tokenStep'[u] = "checked"
                                             => tokenToken'[u] # j
  BY <1>2, <1>3 DEF Spent
<1>7. ComparedInTime' /\ OneSaves'
  BY <1>2, <1>3 DEF ComparedInTime, OneSaves
<1>8. PassesOnce'
  <2>1. ASSUME SingleUse(k)
        PROVE  accepted'[k] = 1 /\ \A u \in Actors : ~PassedBy(u, k)'
    BY <1>2, <1>3, <2>1 DEF PassesOnce, Shape
  <2>2. ASSUME NEW j \in Token!Tokens, SingleUse(j), j # k
        PROVE  /\ accepted'[j] = accepted[j]
               /\ \A v \in Actors : PassedBy(v, j)' => PassedBy(v, j)
    BY <1>2, <1>3, <2>2 DEF Shape
  <2> QED
    BY <1>2, <1>4, <2>1, <2>2 DEF PassesOnce
<1>9. UseIsKnown'
  BY <1>2, <1>4, <1>5, <1>6 DEF UseIsKnown, Spent
<1>10. UseIsSaved'
  BY <1>2, <1>4, <1>5, <1>6 DEF UseIsSaved, Spent
<1>11. NotBeforeIssue'
  BY <1>2 DEF NotBeforeIssue, Shape
<1> QED
  BY <1>7, <1>8, <1>9, <1>10, <1>11

\* _save_replay_cache.
LEMMA SaveStep ==
    ASSUME TokenBounds, Shape, UsedOnce, NEW t \in Actors, Token!EmptyFile(t)
        \/ Token!WriteFile(t)
    PROVE  UsedOnce'
<1> USE DEF UsedOnce
<1>1. /\ tokenStep[t] \in {"save", "write"}
      /\ tokenStep'[t] \in {"write", "valid"}
      /\ \A u \in Actors : u # t => tokenStep'[u] = tokenStep[u]
      /\ unsaved
      /\ \A u \in Actors : u # t => tokenStep[u] \notin {"save", "write"}
      /\ UNCHANGED <<now, tokens, tokenToken, at, used, accepted>>
  BY DEF Token!EmptyFile, Token!WriteFile, Token!Goes, OneSaves, Shape,
     Token!issuer, Token!ghost
<1>2. \A u \in Actors, j \in Token!Tokens : PassedBy(u, j)' = PassedBy(u, j)
  BY <1>1 DEF PassedBy
<1>3. \A j \in Token!Tokens : /\ SingleUse(j)' = SingleUse(j)
                              /\ Token!Deadline(j)' = Token!Deadline(j)
                              /\ Consumed(j)' = Consumed(j)
  BY <1>1, <1>2 DEF SingleUse, Token!Deadline, Consumed
<1>4. \A u \in Actors : tokenStep'[u] = "checked" <=> tokenStep[u] = "checked"
  BY <1>1
<1>5. \/ unsaved' = TRUE
      \/ unsaved' = FALSE /\ saved' = used /\ tokenStep'[t] = "valid"
  BY <1>1 DEF Token!EmptyFile, Token!WriteFile, Token!Goes, Shape
<1>6. ComparedInTime' /\ NotBeforeIssue'
  BY <1>1, <1>4 DEF ComparedInTime, NotBeforeIssue
<1>7. OneSaves'
  BY <1>1, <1>5 DEF OneSaves
<1>8. PassesOnce'
  BY <1>1, <1>2, <1>3 DEF PassesOnce
<1>9. UseIsKnown'
  BY <1>1, <1>3, <1>4 DEF UseIsKnown, Spent
<1>10. UseIsSaved'
  BY <1>1, <1>3, <1>4, <1>5 DEF UseIsSaved, UseIsKnown, Spent
<1> QED
  BY <1>6, <1>7, <1>8, <1>9, <1>10

\* The service starts again, and the file held the store.
LEMMA RestartStep ==
    ASSUME TokenBounds, Shape, UsedOnce, Token!Restart, ~forgotten'
    PROVE UsedOnce'
<1> USE DEF UsedOnce
<1>1. /\ ~unsaved /\ \A t \in Actors : tokenStep'[t] = "idle"
      /\ used' = [k \in Token!Tokens |-> IF saved[k] > now THEN saved[k]
           ELSE Token!None]
      /\ UNCHANGED <<now, tokens, saved, accepted>>
  BY DEF Token!Restart, Token!issuer
<1>2. \A t \in Actors, k \in Token!Tokens : ~PassedBy(t, k)'
  BY <1>1 DEF PassedBy
<1>3. \A k \in Token!Tokens : /\ SingleUse(k)' = SingleUse(k)
                              /\ Token!Deadline(k)' = Token!Deadline(k)
                              /\ Consumed(k)' => Consumed(k)
  BY <1>1, <1>2 DEF SingleUse, Token!Deadline, Consumed
<1>4. ComparedInTime' /\ OneSaves' /\ NotBeforeIssue'
  BY <1>1 DEF ComparedInTime, OneSaves, NotBeforeIssue
<1>5. PassesOnce'
  BY <1>1, <1>2, <1>3 DEF PassesOnce
<1>6. ASSUME NEW k \in Token!Tokens, SingleUse(k), Consumed(k)
      PROVE  Spent(k, saved)' /\ Spent(k, used)'
  <2>1. Spent(k, saved)
    BY <1>1, <1>6 DEF UseIsSaved
  <2>2. now \in Nat /\ Token!Deadline(k) \in Nat
    BY <1>6, Lifetimes DEF SingleUse, Shape
  <2>3. Spent(k, saved)'
    BY <1>1, <1>3, <2>1 DEF Spent
  <2>4. CASE saved[k] = Token!Deadline(k) /\ Token!Deadline(k) > now
    BY <1>1, <1>3, <2>4 DEF Spent
  <2>5. CASE now >= Token!Deadline(k)
    BY <1>1, <1>3, <2>2, <2>5 DEF Spent
  <2> QED
    BY <2>1, <2>2, <2>3, <2>4, <2>5 DEF Spent
<1>7. UseIsKnown' /\ UseIsSaved'
  BY <1>3, <1>6 DEF UseIsKnown, UseIsSaved
<1> QED
  BY <1>4, <1>5, <1>7

LEMMA IssueStep ==
    ASSUME TokenBounds, Shape, UsedOnce, Token!Issue PROVE UsedOnce'
<1> USE DEF UsedOnce
<1>1. PICK new : tokens' = Append(tokens, new)
  BY DEF Token!Issue
<1>2. /\ DOMAIN tokens \subseteq DOMAIN tokens'
      /\ \A k \in DOMAIN tokens : tokens'[k] = tokens[k]
  BY <1>1 DEF Shape
<1>3. UNCHANGED <<now, Token!validation, Token!replay, accepted>>
  BY DEF Token!Issue, Token!ghost
<1>4. ASSUME NEW k \in Token!Tokens, k \notin DOMAIN tokens
      PROVE  accepted[k] = 0 /\ \A t \in Actors : ~PassedBy(t, k)
  BY <1>4 DEF NotBeforeIssue, PassedBy, Shape
<1>5. \A t \in Actors, k \in Token!Tokens : PassedBy(t, k)' = PassedBy(t, k)
  BY <1>3 DEF PassedBy, Token!validation
<1>6. ASSUME NEW k \in Token!Tokens, SingleUse(k)', Consumed(k)'
      PROVE  SingleUse(k) /\ Consumed(k)
          /\ Token!Deadline(k)' = Token!Deadline(k)
  BY <1>2, <1>3, <1>4, <1>5, <1>6 DEF SingleUse, Consumed, Token!Deadline
<1>7. ComparedInTime'
  BY <1>2, <1>3 DEF ComparedInTime, Token!validation, Shape
<1>8. OneSaves' /\ NotBeforeIssue'
  BY <1>2, <1>3 DEF OneSaves, NotBeforeIssue, Token!validation, Token!replay
<1>9. PassesOnce'
  <2>1. ASSUME NEW k \in Token!Tokens, SingleUse(k)', k \in DOMAIN tokens
        PROVE  SingleUse(k)
    BY <1>2, <2>1 DEF SingleUse
  <2> QED
    BY <1>3, <1>4, <1>5, <2>1 DEF PassesOnce
<1>10. UseIsKnown' /\ UseIsSaved'
  BY <1>3, <1>6 DEF UseIsKnown, UseIsSaved, Spent, Token!validation,
     Token!replay
<1> QED
  BY <1>7, <1>8, <1>9, <1>10

LEMMA TickStep == ASSUME TokenBounds, Shape, UsedOnce, Token!Tick
PROVE UsedOnce'
<1> USE DEF UsedOnce
<1>1. /\ now' = now + 1 /\ now \in Nat
      /\ UNCHANGED <<tokens, tokenStep, tokenToken, at, used, saved, unsaved,
           accepted>>
      /\ \A t \in Actors : tokenStep[t] = "checked" => now - at[t] < ReplayLag
  BY DEF Token!Tick, Shape, Token!issuer, Token!validation, Token!replay,
     Token!ghost
<1>2. ComparedInTime'
  <2>1. \A t \in Actors : at[t] \in Nat
    BY DEF Shape
  <2> QED
    BY <1>1, <2>1 DEF ComparedInTime, TokenBounds
<1>3. OneSaves' /\ NotBeforeIssue' /\ PassesOnce'
  BY <1>1 DEF OneSaves, NotBeforeIssue, PassesOnce, PassedBy, SingleUse
<1>4. \A k \in Token!Tokens : /\ SingleUse(k)' = SingleUse(k)
                              /\ Token!Deadline(k)' = Token!Deadline(k)
                              /\ Consumed(k)' = Consumed(k)
  BY <1>1 DEF SingleUse, Token!Deadline, Consumed, PassedBy
<1>5. ASSUME NEW k \in Token!Tokens, SingleUse(k), NEW store, Spent(k, store)
      PROVE  store[k] = Token!Deadline(k) \/ now + 1 > Token!Deadline(k)
  <2>1. Token!Deadline(k) \in Nat
    BY <1>5, Lifetimes DEF SingleUse
  <2> QED
    BY <1>1, <1>5, <2>1 DEF Spent
<1>6. UseIsKnown' /\ UseIsSaved'
  BY <1>1, <1>4, <1>5 DEF UseIsKnown, UseIsSaved, Spent
<1> QED
  BY <1>2, <1>3, <1>6

LEMMA TokenStep == ASSUME TokenBounds, TokenInv, [Token!Next]_(Token!vars)
PROVE TokenInv'
<1>1. Shape /\ Shape'
  BY TokenShapeStep DEF TokenInv
<1> SUFFICES ASSUME ~forgotten' PROVE UsedOnce'
  BY <1>1 DEF TokenInv
<1>2. CASE Token!Restart
  <2>1. UsedOnce
    BY <1>2 DEF TokenInv, Token!Restart
  <2> QED
    BY <1>1, <1>2, <2>1, RestartStep
<1>3. CASE Token!Tick
  BY <1>1, <1>3, TickStep DEF TokenInv, Token!Tick, Token!ghost
<1>4. CASE Token!Issue
  BY <1>1, <1>4, IssueStep DEF TokenInv, Token!Issue, Token!ghost
<1>5. ASSUME NEW t \in Actors, Token!CheckReplay(t) PROVE UsedOnce'
  BY <1>1, <1>5, ReplayStep DEF TokenInv, Token!CheckReplay, Token!ghost
<1>6. ASSUME NEW t \in Actors, Token!EmptyFile(t) \/ Token!WriteFile(t)
      PROVE UsedOnce'
  BY <1>1, <1>6, SaveStep DEF TokenInv, Token!EmptyFile, Token!WriteFile,
     Token!ghost
<1>7. ASSUME NEW t \in Actors, Token!Accept(t) PROVE UsedOnce'
  BY <1>1, <1>7, AcceptStep DEF TokenInv, Token!Accept
<1>8. ASSUME NEW t \in Actors, Token!CheckExpiry(t) PROVE UsedOnce'
  <2>1. /\ UsedOnce /\ tokenStep[t] = "keyed"
        /\ UNCHANGED <<now, tokens, Token!replay, accepted>>
        /\ \A u \in Actors : u # t => /\ tokenStep'[u] = tokenStep[u]
                                      /\ tokenToken'[u] = tokenToken[u]
                                      /\ at'[u] = at[u]
        /\ \/ tokenStep'[t] = "idle"
           \/ /\ tokenStep'[t] = "checked" /\ at'[t] = now
              /\ ~(tokens[tokenToken[t]].exp < now)
              /\ tokenToken'[t] = tokenToken[t]
    BY <1>1, <1>8 DEF TokenInv, Token!CheckExpiry, Token!Leave, Token!Goes,
       Token!Compared, Token!issuer, Token!ghost, Shape
  <2>2. ~(tokens[tokenToken[t]].exp < now) => now <= tokens[tokenToken[t]].exp
    BY <1>1, <2>1, Lifetimes DEF Shape
  <2>3. \A u \in Actors, k \in Token!Tokens : PassedBy(u, k)' => PassedBy(u, k)
    BY <2>1 DEF PassedBy
  <2> QED
    BY <1>1, <2>1, <2>2, <2>3, QuietStep
<1>9. ASSUME NEW t \in Actors, Token!NoReplayCheck(t) PROVE UsedOnce'
  <2>1. /\ UsedOnce /\ tokenStep[t] = "checked" /\ ~tokens[tokenToken[t]].single
        /\ UNCHANGED <<now, tokens, tokenToken, Token!replay, accepted>>
        /\ \A u \in Actors : u # t => tokenStep'[u] = tokenStep[u]
             /\ at'[u] = at[u]
        /\ tokenStep'[t] = "valid"
    BY <1>1, <1>9 DEF TokenInv, Token!NoReplayCheck, Token!Goes,
       Token!Compared, Token!issuer, Token!ghost, Shape
  <2>2. \A u \in Actors, k \in Token!Tokens :
           SingleUse(k) /\ PassedBy(u, k)' => PassedBy(u, k)
    BY <2>1 DEF PassedBy, SingleUse
  <2> QED
    BY <1>1, <2>1, <2>2, QuietStep
<1>10. ASSUME NEW t \in Actors, NEW k \in Token!Tokens, Token!FindKey(t, k)
       PROVE UsedOnce'
  <2>1. /\ UsedOnce /\ tokenStep[t] = "idle"
        /\ UNCHANGED <<now, tokens, at, Token!replay, accepted>>
        /\ \A u \in Actors : u # t => tokenStep'[u] = tokenStep[u]
             /\ tokenToken'[u] = tokenToken[u]
        /\ tokenStep'[t] \in {"idle", "keyed"}
    BY <1>1, <1>10 DEF TokenInv, Token!FindKey, Token!Goes, Token!issuer,
       Token!ghost, Shape
  <2>2. \A u \in Actors, j \in Token!Tokens : PassedBy(u, j)' => PassedBy(u, j)
    BY <2>1 DEF PassedBy
  <2> QED
    BY <1>1, <2>1, <2>2, QuietStep
<1>11. CASE Token!Rotate \/ UNCHANGED Token!vars
  <2>1. UsedOnce /\ UNCHANGED <<now, tokens, Token!validation, Token!replay,
              accepted>>
    BY <1>11 DEF TokenInv, Token!Rotate, Token!vars, Token!issuer, Token!ghost
  <2>2. \A t \in Actors : tokenStep'[t] = tokenStep[t]
              /\ tokenToken'[t] = tokenToken[t]
                           /\ at'[t] = at[t]
    BY <2>1 DEF Token!validation
  <2>3. \A u \in Actors, k \in Token!Tokens : PassedBy(u, k)' => PassedBy(u, k)
    BY <2>2 DEF PassedBy
  <2> QED
    BY <1>1, <2>1, <2>2, <2>3, QuietStep
<1> QED
  BY <1>2, <1>3, <1>4, <1>5, <1>6, <1>7, <1>8, <1>9, <1>10, <1>11 DEF
     Token!Next

TokenTypeInv == Token!TypeOK /\ TokenInv

LEMMA TokenTypeInit == ASSUME TokenBounds, Token!Init PROVE TokenTypeInv
<1>1. TokenInv
  BY TokenInit
<1>2. now \in Token!Times /\ 0 \in Token!Times /\ signing \in Token!Keys
  BY DEF Token!Init, TokenBounds, Token!Times, Token!Keys
<1>3. published \subseteq Token!Keys /\ keys \subseteq Token!Keys
            /\ cached \subseteq Token!Keys
  BY <1>2 DEF Token!Init
<1>4. used \in Token!Store /\ saved \in Token!Store
  BY DEF Token!Init, Token!Unused, Token!Store
<1>5. \A k \in DOMAIN tokens : tokens[k] \in Token!Token
  BY DEF Token!Init
<1>6. at \in [Actors -> Token!Times]
  BY <1>2 DEF Token!Init
<1> QED
  BY <1>1, <1>2, <1>3, <1>4, <1>5, <1>6
     DEF TokenTypeInv, TokenInv, Shape, TokenSteps, Token!TypeOK

LEMMA TokenTypeStep == ASSUME TokenBounds, Token!TypeOK, Shape, Shape',
    [Token!Next]_(Token!vars) PROVE Token!TypeOK'
<1> USE DEF Token!Goes
<1>1. DOMAIN tokens = 1 .. Len(tokens) /\ DOMAIN tokens \subseteq Token!Tokens
  BY Indices
<1>2. Token!Unused \in Token!Store /\ Token!Evicted \in Token!Store
            /\ 0 \in Token!Times
  BY DEF Token!Unused, Token!Evicted, Token!Store, Token!Times, TokenBounds,
     Token!TypeOK
<1>3. now' \in Token!Times
  BY DEF Token!TypeOK, Token!Next, Token!vars, Token!Tick, Token!Issue,
     Token!Rotate, Token!Restart, Token!FindKey, Token!CheckExpiry,
     Token!CheckReplay, Token!NoReplayCheck, Token!EmptyFile, Token!WriteFile,
     Token!Accept, Token!Times, TokenBounds
<1>4. signing' \in Token!Keys /\ published' \subseteq Token!Keys
  <2>1. CASE Token!Rotate
    <3>1. signing' \in Token!Keys
      BY <2>1 DEF Token!Rotate, Token!Keys, Token!TypeOK, TokenBounds
    <3> QED
      BY <2>1, <3>1 DEF Token!Rotate, Token!TypeOK
  <2>2. CASE ~Token!Rotate
    BY <2>2 DEF Token!TypeOK, Token!Next, Token!vars, Token!Tick, Token!Issue,
       Token!Restart, Token!FindKey, Token!CheckExpiry, Token!CheckReplay,
       Token!NoReplayCheck, Token!EmptyFile, Token!WriteFile, Token!Accept,
       Token!issuer
  <2> QED
    BY <2>1, <2>2
<1>5. \A k \in DOMAIN tokens' : tokens'[k] \in Token!Token
  <2>1. CASE Token!Issue
    <3>1. PICK ttl \in TokenTtls, single \in BOOLEAN :
             tokens' = Append(tokens, [key |-> signing, exp |-> now + ttl,
                                       single |-> single])
      BY <2>1 DEF Token!Issue
    <3> DEFINE new == [key |-> signing, exp |-> now + ttl, single |-> single]
    <3>2. new \in Token!Token
      BY DEF TokenBounds, Token!Token, Token!TypeOK, Token!Times
    <3> HIDE DEF new
    <3>3. tokens \in Seq(IssuedToken) /\ tokens' = Append(tokens, new)
      BY <3>1 DEF new, Shape
    <3> QED
      BY <3>2, <3>3 DEF Token!TypeOK
  <2>2. CASE ~Token!Issue
    <3>1. tokens' = tokens
      BY <2>2 DEF Token!Next, Token!vars, Token!Tick, Token!Rotate,
         Token!Restart, Token!FindKey, Token!CheckExpiry, Token!CheckReplay,
         Token!NoReplayCheck, Token!EmptyFile, Token!WriteFile, Token!Accept,
         Token!issuer
    <3> QED
      BY <3>1 DEF Token!TypeOK
  <2> QED
    BY <2>1, <2>2
<1>6. keys' \subseteq Token!Keys /\ cached' \subseteq Token!Keys
  BY DEF Token!TypeOK, Token!Next, Token!vars, Token!Tick, Token!Issue,
     Token!Rotate, Token!Restart, Token!FindKey, Token!CheckExpiry,
     Token!CheckReplay, Token!NoReplayCheck, Token!EmptyFile, Token!WriteFile,
     Token!Accept, Token!Refresh, Token!jwks
<1>7. at' \in [Actors -> Token!Times]
  <2>1. CASE Token!Restart
    BY <1>2, <2>1 DEF Token!Restart
  <2>2. ASSUME NEW t \in Actors, NEW i \in Token!Times, Token!Compared(t, i)
        PROVE  at' \in [Actors -> Token!Times]
    BY <2>2 DEF Token!Compared, Token!TypeOK
  <2>3. CASE at' = at
    BY <2>3 DEF Token!TypeOK
  <2>4. ASSUME NEW t \in Actors, Token!CheckExpiry(t)
        PROVE at' \in [Actors -> Token!Times]
    BY <2>2, <2>3, <2>4 DEF Token!CheckExpiry, Token!TypeOK
  <2>5. ASSUME NEW t \in Actors, Token!CheckReplay(t) \/ Token!NoReplayCheck(t)
        PROVE  at' \in [Actors -> Token!Times]
    BY <1>2, <2>2, <2>5 DEF Token!CheckReplay, Token!NoReplayCheck
  <2> QED
    BY <2>1, <2>3, <2>4, <2>5 DEF Token!Next, Token!vars, Token!Tick,
       Token!Issue, Token!Rotate, Token!FindKey, Token!EmptyFile,
       Token!WriteFile, Token!Accept, Token!validation
<1>8. used' \in Token!Store
  <2>1. CASE Token!Restart
    BY <2>1 DEF Token!Restart, Token!Store, Token!TypeOK
  <2>2. ASSUME NEW t \in Actors, Token!CheckReplay(t)
        PROVE used' \in Token!Store
    <3> DEFINE k == tokenToken[t]
    <3>1. k \in DOMAIN tokens /\ k \in Token!Tokens
      BY <1>1, <2>2 DEF Token!CheckReplay, Shape
    <3>2. Token!Deadline(k) \in Nat
      <4>1. tokens[k] \in Token!Token
        BY <3>1 DEF Token!TypeOK
      <4> QED
        BY <4>1 DEF Token!Deadline, Token!Token, TokenBounds
    <3> QED
      BY <1>2, <2>2, <3>1, <3>2 DEF Token!CheckReplay, Token!Store
  <2>3. CASE used' = used
    BY <2>3 DEF Token!TypeOK
  <2> QED
    BY <2>1, <2>2, <2>3 DEF Token!Next, Token!vars, Token!Tick, Token!Issue,
       Token!Rotate, Token!FindKey, Token!CheckExpiry, Token!NoReplayCheck,
       Token!EmptyFile, Token!WriteFile, Token!Accept, Token!replay
<1>9. saved' \in Token!Store
  BY <1>2 DEF Token!TypeOK, Token!Next, Token!vars, Token!Tick, Token!Issue,
     Token!Rotate, Token!Restart, Token!FindKey, Token!CheckExpiry,
     Token!CheckReplay, Token!NoReplayCheck, Token!EmptyFile, Token!WriteFile,
     Token!Accept, Token!replay
<1> QED
  BY <1>3, <1>4, <1>5, <1>6, <1>7, <1>8, <1>9 DEF Token!TypeOK, Shape,
     TokenSteps

LEMMA TokenTypeInvStep == ASSUME TokenBounds, TokenTypeInv,
    [Token!Next]_(Token!vars) PROVE TokenTypeInv'
<1>1. TokenInv'
  BY TokenStep DEF TokenTypeInv
<1> QED
  BY <1>1, TokenTypeStep DEF TokenTypeInv, TokenInv

LEMMA TokenImplies == ASSUME TokenBounds, TokenTypeInv
PROVE Token!SingleUseHolds
<1> SUFFICES ASSUME ~forgotten, NEW k \in DOMAIN tokens, tokens[k].single
             PROVE  accepted[k] <= 1
  BY DEF Token!SingleUseHolds
<1>1. k \in Token!Tokens
  BY Lifetimes DEF TokenTypeInv, TokenInv
<1> QED
  BY <1>1 DEF TokenTypeInv, TokenInv, UsedOnce, PassesOnce, SingleUse

-----------------------------------------------------------------------------
(* The REST client.  A token a call was rejected with is gone when it sends *)
(* the next one.                                                           *)
RestBounds == Retries \in Nat \ {0} /\ MaxTokens \in Nat \ {0}
    /\ MaxClients \in Nat

Refreshing == {"clear", "forget", "delete", "refresh", "keep", "close",
    "closing", "reset"}

\* Nothing carries a token that was not issued yet; the clients in use exist.
CarriedIsIssued ==
    /\ restToken <= issued /\ cache <= issued
    /\ \A k \in Rest!Clients : header[k] <= issued
    /\ http # 0 => header[http] >= 0
    /\ \A c \in Actors :
          /\ hand[c] <= issued /\ rejected[c] <= issued
          /\ restPc[c] \notin {"store", "create", "keep"} => hand[c] = 0
          /\ restPc[c] \in {"send", "sent"} => own[c] # 0 /\ header[own[c]] >= 0
          /\ attempt[c] < Retries
          /\ restPc[c] \in Refreshing => attempt[c] < Retries - 1

\* Once a call has refreshed a token that no other call held, nobody has it,
Extinct(c) ==
    /\ rejected[c] \notin {restToken, cache}
    /\ \A d \in Actors : hand[d] # rejected[c]

\* and once it has dropped the HTTP client, nobody creates one that sends it.
RejectedIsGone ==
    \A c \in Actors : rejected[c] > 0 /\ c \notin stale =>
        /\ restPc[c] \notin {"clear", "forget", "delete", "done"} => Extinct(c)
        /\ restPc[c] \in {"start", "build", "store", "create", "send",
             "sent"} /\ http # 0 =>
             header[http] # rejected[c]
        /\ restPc[c] \in {"send", "sent"} => header[own[c]] # rejected[c]

RestInv == Rest!TypeOK /\ CarriedIsIssued /\ RejectedIsGone

LEMMA RestImplies == ASSUME RestInv PROVE Rest!RetryIsNew
<1> SUFFICES ASSUME NEW c \in Actors, restPc[c] = "sent",
          Rest!Sent(c) = rejected[c]
             PROVE  Rest!Sent(c) = 0 \/ c \in stale
  BY DEF Rest!RetryIsNew
<1>1. rejected[c] >= 0 /\ rejected[c] \in Int
  BY DEF RestInv, Rest!TypeOK, CarriedIsIssued, Rest!Sent
<1> QED
  BY <1>1 DEF RestInv, RejectedIsGone, Rest!Sent

LEMMA RestInit == ASSUME RestBounds, Rest!Init PROVE RestInv
<1>1. Rest!TypeOK
  BY DEF RestBounds, Rest!Init, Rest!TypeOK, Rest!Numbers
<1>2. CarriedIsIssued
  BY DEF RestBounds, Rest!Init, CarriedIsIssued, Refreshing
<1>3. RejectedIsGone
  BY DEF Rest!Init, RejectedIsGone
<1> QED
  BY <1>1, <1>2, <1>3 DEF RestInv

-----------------------------------------------------------------------------
\* The numbers the provers are told of.
LEMMA RestNumbers ==
    ASSUME RestBounds, Rest!TypeOK
    PROVE  /\ issued \in Nat /\ good \in Nat /\ restToken \in Nat
           /\ cache \in Nat
           /\ Retries \in Nat \ {0} /\ MaxTokens \in Nat
           /\ \A c \in Actors : attempt[c] \in Nat /\ hand[c] \in Nat
                /\ rejected[c] \in Int
           /\ \A k \in Rest!Clients : header[k] \in Int
           /\ http # 0 => http \in Rest!Clients
           /\ \A c \in Actors : own[c] # 0 => own[c] \in Rest!Clients
  BY DEF RestBounds, Rest!TypeOK, Rest!Numbers

\* GetToken: it is known, or it is newer than all that are.
LEMMA TokenIsKnown ==
    ASSUME RestBounds, Rest!TypeOK, CarriedIsIssued, NEW c \in Actors,
        Rest!GetToken(c)
    PROVE  \E t \in Rest!Numbers :
             /\ hand' = [hand EXCEPT ![c] = t] /\ t <= issued'
             /\ issued <= issued' /\ issued' \in Rest!Numbers
             /\ cache' \in {cache, t} /\ t \in {0, restToken, cache, issued + 1}
<1>0. /\ restToken \in Rest!Numbers /\ cache \in Rest!Numbers
      /\ issued \in Rest!Numbers /\ 0 \in Rest!Numbers
      /\ restToken <= issued /\ cache <= issued /\ issued <= issued /\ 0
           <= issued
  <2>1. 0 \in Rest!Numbers
    BY DEF Rest!Numbers, RestBounds
  <2>2. issued <= issued /\ 0 <= issued
    BY RestNumbers
  <2> QED
    BY <2>1, <2>2 DEF Rest!TypeOK, CarriedIsIssued
<1> DEFINE Known(t) ==
             /\ hand' = [hand EXCEPT ![c] = t] /\ t <= issued'
             /\ issued <= issued' /\ issued' \in Rest!Numbers
             /\ cache' \in {cache, t} /\ t \in {0, restToken, cache, issued + 1}
<1>1. CASE restToken # 0 /\ Rest!Takes(c, restToken) /\ UNCHANGED <<issued,
            cache>>
  <2>1. Known(restToken)
    BY <1>0, <1>1 DEF Rest!Takes
  <2> QED
    BY <1>0, <2>1
<1>2. CASE restToken = 0 /\ cache # 0 /\ Rest!Takes(c, cache)
            /\ UNCHANGED <<issued, cache>>
  <2>1. Known(cache)
    BY <1>0, <1>2 DEF Rest!Takes
  <2> QED
    BY <1>0, <2>1
<1>3. CASE issued < MaxTokens /\ issued' = issued + 1 /\ cache' = issued'
            /\ Rest!Takes(c, issued')
  <2>1. issued' \in Rest!Numbers /\ issued <= issued' /\ issued' <= issued'
    BY <1>3, RestNumbers DEF Rest!Numbers
  <2>2. Known(issued')
    BY <1>3, <2>1 DEF Rest!Takes
  <2> QED
    BY <2>1, <2>2
<1>4. CASE Rest!Takes(c, 0) /\ UNCHANGED <<issued, cache>>
  <2>1. Known(0)
    BY <1>0, <1>4 DEF Rest!Takes
  <2> QED
    BY <1>0, <2>1
<1> QED
  BY <1>1, <1>2, <1>3, <1>4 DEF Rest!GetToken

\* The steps that only move a call on, and leave what it carries.
LEMMA MovesOn ==
    ASSUME RestBounds, RestInv, NEW c \in Actors, NEW label,
           label \in {"start", "build", "send", "sent", "clear", "forget",
               "delete", "refresh",
                      "close", "closing", "reset", "done"},
           restPc' = [restPc EXCEPT ![c] = label],
               restPc[c] \notin {"store", "create", "keep"},
           answer' \in [Actors -> {"none", "ok", "failed", "raised"}],
           closed' \subseteq Rest!Clients, good' \in Rest!Numbers,
           UNCHANGED <<m2m, issued, header, hand, rejected>>,
           restToken' \in {restToken, 0}, cache' \in {cache, 0},
               http' \in {http, 0},
           attempt' \in [Actors -> 0 .. Retries], \A d \in Actors : d # c
               => attempt'[d] = attempt[d],
           attempt'[c] < Retries, label \in Refreshing
               => attempt'[c] < Retries - 1,
           own' \in [Actors -> {0} \cup Rest!Clients], \A d \in Actors : d # c
               => own'[d] = own[d],
           label \in {"send", "sent"} => own'[c] # 0 /\ header[own'[c]] >= 0,
           stale' \subseteq Actors, \A d \in Actors : d # c
               => (d \in stale' <=> d \in stale),
           rejected[c] > 0 /\ c \notin stale' =>
              /\ label \notin {"clear", "forget", "delete", "done"}
                   => Extinct(c)'
              /\ label \in {"start", "build", "send", "sent"} =>
                   (http' # 0 => header[http'] # rejected[c])
              /\ label \in {"send", "sent"} => header[own'[c]] # rejected[c]
    PROVE  RestInv'
<1> USE DEF RestInv
<1>1. Rest!TypeOK'
  <2>1. 0 \in Rest!Numbers
    BY DEF Rest!Numbers, RestBounds
  <2>2. restToken' \in Rest!Numbers /\ cache' \in Rest!Numbers
              /\ http' \in {0} \cup Rest!Clients
    BY <2>1 DEF Rest!TypeOK
  <2>3. restPc' \in [Actors -> {"start", "build", "store", "create", "send",
              "sent",
                         "clear", "forget", "delete", "refresh", "keep",
                             "close",
                         "closing", "reset", "done"}]
    BY DEF Rest!TypeOK
  <2>4. /\ m2m' \in BOOLEAN /\ issued' \in Rest!Numbers
        /\ header' \in [Rest!Clients -> -1 .. MaxTokens]
        /\ hand' \in [Actors -> Rest!Numbers]
        /\ rejected' \in [Actors -> -1 .. MaxTokens]
    BY DEF Rest!TypeOK
  <2> QED
    BY <2>2, <2>3, <2>4 DEF Rest!TypeOK
<1>2. restPc'[c] = label /\ \A d \in Actors : d # c => restPc'[d] = restPc[d]
  BY DEF Rest!TypeOK
<1>3. hand[c] = 0
  BY DEF CarriedIsIssued
<1>4. CarriedIsIssued'
  <2>1. restToken' <= issued' /\ cache' <= issued'
    BY RestNumbers DEF CarriedIsIssued
  <2>2. http' # 0 => header'[http'] >= 0
    BY DEF CarriedIsIssued
  <2>3. ASSUME NEW d \in Actors
        PROVE  /\ hand'[d] <= issued' /\ rejected'[d] <= issued'
               /\ restPc'[d] \notin {"store", "create", "keep"} => hand'[d] = 0
               /\ restPc'[d] \in {"send", "sent"} => own'[d] # 0
                    /\ header'[own'[d]] >= 0
               /\ attempt'[d] < Retries
               /\ restPc'[d] \in Refreshing => attempt'[d] < Retries - 1
    <3>1. CASE d = c
      BY <1>2, <1>3, <3>1 DEF CarriedIsIssued
    <3>2. CASE d # c
      BY <1>2, <3>2 DEF CarriedIsIssued
    <3> QED
      BY <3>1, <3>2
  <2>4. \A k \in Rest!Clients : header'[k] <= issued'
    BY DEF CarriedIsIssued
  <2> QED
    BY <2>1, <2>2, <2>3, <2>4 DEF CarriedIsIssued
<1>5. RejectedIsGone'
  <2> SUFFICES ASSUME NEW d \in Actors, rejected[d] > 0, d \notin stale'
               PROVE  /\ restPc'[d] \notin {"clear", "forget", "delete",
                           "done"} => Extinct(d)'
                      /\ restPc'[d] \in {"start", "build", "store", "create",
                           "send", "sent"} /\ http' # 0 =>
                           header[http'] # rejected[d]
                      /\ restPc'[d] \in {"send", "sent"}
                           => header[own'[d]] # rejected[d]
    BY DEF RejectedIsGone
  <2>1. CASE d = c
    BY <1>2, <2>1
  <2>2. CASE d # c
    <3>1. Extinct(d) => Extinct(d)'
      BY RestNumbers DEF Extinct
    <3> QED
      BY <1>2, <2>2, <3>1 DEF RejectedIsGone
  <2> QED
    BY <2>1, <2>2
<1> QED
  BY <1>1, <1>4, <1>5

LEMMA RestStep == ASSUME RestBounds, RestInv, [Rest!Next]_(Rest!vars)
PROVE RestInv'
<1> USE DEF RestInv
<1>0. /\ restPc \in [Actors -> {"start", "build", "store", "create", "send",
           "sent",
                         "clear", "forget", "delete", "refresh", "keep",
                             "close",
                         "closing", "reset", "done"}]
      /\ answer \in [Actors -> {"none", "ok", "failed", "raised"}]
      /\ closed \subseteq Rest!Clients
      /\ good \in Rest!Numbers /\ attempt \in [Actors -> 0 .. Retries]
      /\ own \in [Actors -> {0} \cup Rest!Clients] /\ stale \subseteq Actors
      /\ rejected \in [Actors -> -1 .. MaxTokens]
  BY DEF Rest!TypeOK
<1>1. CASE Rest!Revoke \/ UNCHANGED Rest!vars
  <2>1. good' \in Rest!Numbers
    BY <1>1, RestNumbers DEF Rest!Revoke, Rest!vars, Rest!service,
       Rest!Numbers, Rest!TypeOK
  <2>2. UNCHANGED <<m2m, issued, restToken, cache, http, header, closed, restPc,
              attempt, hand, own,
                    rejected, stale, answer>>
    BY <1>1 DEF Rest!Revoke, Rest!vars, Rest!service, Rest!auth, Rest!clients,
       Rest!tried
  <2>3. Rest!TypeOK'
    BY <2>1, <2>2 DEF Rest!TypeOK
  <2>4. CarriedIsIssued'
    BY <2>2 DEF CarriedIsIssued
  <2>5. RejectedIsGone'
    BY <2>2 DEF RejectedIsGone, Extinct
  <2> QED
    BY <2>3, <2>4, <2>5
<1>2. ASSUME NEW c \in Actors, Rest!Start(c) PROVE RestInv'
  <2>1. /\ restPc[c] = "start" /\ UNCHANGED <<Rest!service, Rest!auth,
             Rest!clients, attempt, hand, Rest!tried, answer>>
        /\ \/ Rest!Open(http) /\ restPc' = [restPc EXCEPT ![c] = "send"]
                /\ own' = [own EXCEPT ![c] = http]
           \/ restPc' = [restPc EXCEPT ![c] = "build"] /\ UNCHANGED own
    BY <1>2 DEF Rest!Start, Rest!Goes
  <2>2. Extinct(c) => Extinct(c)'
    BY <2>1 DEF Extinct, Rest!auth, Rest!tried
  <2>3. CASE Rest!Open(http) /\ restPc' = [restPc EXCEPT ![c] = "send"]
              /\ own' = [own EXCEPT ![c] = http]
    <3>1. http # 0 /\ http \in Rest!Clients /\ own'[c] = http
      BY <1>0, <2>3, RestNumbers DEF Rest!Open
    <3>2. header[http] >= 0 /\ attempt[c] < Retries
      BY <3>1 DEF CarriedIsIssued
    <3>3. rejected[c] > 0 /\ c \notin stale => Extinct(c)
                /\ header[http] # rejected[c]
      BY <2>1, <3>1 DEF RejectedIsGone
    <3>4. own' \in [Actors -> {0} \cup Rest!Clients]
      BY <1>0, <2>3, <3>1
    <3> QED
      BY <1>0, <2>1, <2>2, <2>3, <3>1, <3>2, <3>3, <3>4, MovesOn
         DEF Rest!service, Rest!auth, Rest!clients, Rest!tried, Refreshing
  <2>4. CASE restPc' = [restPc EXCEPT ![c] = "build"] /\ UNCHANGED own
    <3>1. attempt[c] < Retries
      BY DEF CarriedIsIssued
    <3>2. rejected[c] > 0 /\ c \notin stale => Extinct(c)
                /\ (http # 0 => header[http] # rejected[c])
      BY <2>1 DEF RejectedIsGone
    <3> QED
      BY <1>0, <2>1, <2>2, <2>4, <3>1, <3>2, MovesOn DEF Rest!service,
         Rest!auth, Rest!clients, Rest!tried, Refreshing
  <2> QED
    BY <2>1, <2>3, <2>4
<1>3. ASSUME NEW c \in Actors, Rest!Send(c) PROVE RestInv'
  <2>1. /\ restPc[c] = "send" /\ UNCHANGED <<Rest!service, Rest!auth,
             Rest!clients, attempt, hand, own, Rest!tried>>
        /\ \/ restPc' = [restPc EXCEPT ![c] = "sent"] /\ UNCHANGED answer
           \/ restPc' = [restPc EXCEPT ![c] = "done"]
                /\ answer' = [answer EXCEPT ![c] = "raised"]
    BY <1>3 DEF Rest!Send, Rest!Goes, Rest!Ends
  <2>2. Extinct(c) => Extinct(c)'
    BY <2>1 DEF Extinct, Rest!auth, Rest!tried
  <2>3. attempt[c] < Retries /\ own[c] # 0 /\ header[own[c]] >= 0
    BY <2>1 DEF CarriedIsIssued
  <2>4. rejected[c] > 0 /\ c \notin stale =>
          /\ Extinct(c) /\ (http # 0 => header[http] # rejected[c])
               /\ header[own[c]] # rejected[c]
    BY <2>1 DEF RejectedIsGone
  <2>5. CASE restPc' = [restPc EXCEPT ![c] = "sent"] /\ UNCHANGED answer
    BY <1>0, <2>1, <2>2, <2>3, <2>4, <2>5, MovesOn DEF Rest!service,
       Rest!auth, Rest!clients, Rest!tried, Refreshing
  <2>6. CASE restPc' = [restPc EXCEPT ![c] = "done"]
              /\ answer' = [answer EXCEPT ![c] = "raised"]
    BY <1>0, <2>1, <2>3, <2>6, MovesOn DEF Rest!service, Rest!auth,
       Rest!clients, Rest!tried, Refreshing
  <2> QED
    BY <2>1, <2>5, <2>6
<1>4. ASSUME NEW c \in Actors, Rest!Succeeds(c) \/ Rest!Fails(c) PROVE RestInv'
  <2>1. /\ restPc[c] = "sent" /\ UNCHANGED <<Rest!service, Rest!auth,
             Rest!clients, attempt, hand, own, Rest!tried>>
        /\ restPc' = [restPc EXCEPT ![c] = "done"]
        /\ \E how \in {"ok", "failed",
             "raised"} : answer' = [answer EXCEPT ![c] = how]
    BY <1>4 DEF Rest!Succeeds, Rest!Fails, Rest!Ends, Rest!Goes
  <2>2. attempt[c] < Retries
    BY DEF CarriedIsIssued
  <2> QED
    BY <1>0, <2>1, <2>2, MovesOn DEF Rest!service, Rest!auth, Rest!clients,
       Rest!tried, Refreshing
<1>5. ASSUME NEW c \in Actors, Rest!Retry(c) PROVE RestInv'
  <2>1. /\ restPc[c] = "sent" /\ UNCHANGED <<Rest!service, Rest!auth,
             Rest!clients, hand, own, Rest!tried, answer>>
        /\ restPc' = [restPc EXCEPT ![c] = "start"]
        /\ attempt' = [attempt EXCEPT ![c] = @ + 1]
        /\ attempt[c] # Retries - 1
    BY <1>5 DEF Rest!Retry, Rest!Again, Rest!Goes, Rest!Last
  <2>2. attempt[c] + 1 < Retries
    BY <2>1, RestNumbers DEF CarriedIsIssued
  <2>3. attempt' \in [Actors -> 0 .. Retries] /\ attempt'[c] = attempt[c] + 1
    BY <1>0, <2>1, <2>2, RestNumbers
  <2>4. Extinct(c) => Extinct(c)'
    BY <2>1 DEF Extinct, Rest!auth, Rest!tried
  <2>5. rejected[c] > 0 /\ c \notin stale => Extinct(c)
              /\ (http # 0 => header[http] # rejected[c])
    BY <2>1 DEF RejectedIsGone
  <2> QED
    BY <1>0, <2>1, <2>2, <2>3, <2>4, <2>5, MovesOn DEF Rest!service,
       Rest!auth, Rest!clients, Rest!tried, Refreshing
<1>6. ASSUME NEW c \in Actors, Rest!Rejected(c) PROVE RestInv'
  <2>1. /\ restPc[c] = "sent" /\ restPc' = [restPc EXCEPT ![c] = "clear"]
        /\ rejected' = [rejected EXCEPT ![c] = header[own[c]]]
        /\ attempt[c] # Retries - 1
        /\ UNCHANGED <<m2m, issued, good, restToken, cache, http, header,
             closed, attempt, hand, own,
                       stale, answer>>
    BY <1>6 DEF Rest!Rejected, Rest!Goes, Rest!Sent, Rest!Last, Rest!service,
       Rest!auth, Rest!clients
  <2>2. own[c] \in Rest!Clients /\ header[own[c]] \in -1 .. MaxTokens
    BY <2>1, RestNumbers DEF Rest!TypeOK, CarriedIsIssued
  <2>3. Rest!TypeOK'
    BY <2>1, <2>2 DEF Rest!TypeOK
  <2>4. /\ restPc'[c] = "clear" /\ rejected'[c] = header[own[c]]
        /\ \A d \in Actors : d # c => restPc'[d] = restPc[d]
             /\ rejected'[d] = rejected[d]
    BY <1>0, <2>1
  <2>5. CarriedIsIssued'
    <3>1. ASSUME NEW d \in Actors
          PROVE  /\ hand[d] <= issued /\ rejected'[d] <= issued
                 /\ restPc'[d] \notin {"store", "create", "keep"} => hand[d] = 0
                 /\ restPc'[d] \in {"send", "sent"} => own[d] # 0
                      /\ header[own[d]] >= 0
                 /\ attempt[d] < Retries
                 /\ restPc'[d] \in Refreshing => attempt[d] < Retries - 1
      <4>1. CASE d = c
        BY <2>1, <2>2, <2>4, <4>1, RestNumbers DEF CarriedIsIssued
      <4>2. CASE d # c
        BY <2>4, <4>2 DEF CarriedIsIssued
      <4> QED
        BY <4>1, <4>2
    <3> QED
      BY <2>1, <3>1 DEF CarriedIsIssued
  <2>6. RejectedIsGone'
    BY <2>1, <2>4 DEF RejectedIsGone, Extinct
  <2> QED
    BY <2>3, <2>5, <2>6
<1>7. ASSUME NEW c \in Actors, Rest!Clear(c) PROVE RestInv'
  <2>1. /\ restPc[c] = "clear" /\ restPc' = [restPc EXCEPT ![c] = "forget"]
        /\ restToken' = 0
        /\ UNCHANGED <<Rest!service, cache, Rest!clients, attempt, hand, own,
             Rest!tried, answer>>
    BY <1>7 DEF Rest!Clear, Rest!Goes
  <2>2. attempt[c] < Retries - 1 /\ attempt[c] < Retries
    BY <2>1 DEF CarriedIsIssued, Refreshing
  <2> QED
    BY <1>0, <2>1, <2>2, MovesOn DEF Rest!service, Rest!clients, Rest!tried
<1>8. ASSUME NEW c \in Actors, cache' = 0, UNCHANGED <<Rest!service, restToken,
            Rest!clients, attempt, hand, own, rejected, answer>>,
             restPc[c] \in {"forget", "delete"},
                 restPc' = [restPc EXCEPT ![c] = "refresh"], Rest!Noted(c)
      PROVE  RestInv'
  <2>1. attempt[c] < Retries - 1 /\ attempt[c] < Retries /\ hand[c] = 0
    BY <1>8 DEF CarriedIsIssued, Refreshing
  <2>2. /\ stale' \subseteq Actors
        /\ \A d \in Actors : d # c => (d \in stale' <=> d \in stale)
        /\ c \in stale' <=> Rest!Held(c)
    BY <1>0, <1>8 DEF Rest!Noted
  <2>3. rejected[c] > 0 /\ ~Rest!Held(c) => Extinct(c)'
    BY <1>8, <2>1 DEF Rest!Held, Extinct
  <2> QED
    BY <1>0, <1>8, <2>1, <2>2, <2>3, MovesOn DEF Rest!service, Rest!clients
<1>9. ASSUME NEW c \in Actors, Rest!LookUp(c) PROVE RestInv'
  <2>1. /\ restPc[c] = "forget"
        /\ UNCHANGED <<Rest!service, Rest!auth, Rest!clients, attempt, hand,
             own, rejected, answer>>
        /\ \/ cache = 0 /\ restPc' = [restPc EXCEPT ![c] = "refresh"]
                /\ Rest!Noted(c)
           \/ restPc' = [restPc EXCEPT ![c] = "delete"] /\ UNCHANGED stale
    BY <1>9 DEF Rest!LookUp, Rest!Goes
  <2>2. attempt[c] < Retries - 1 /\ attempt[c] < Retries
    BY <2>1 DEF CarriedIsIssued, Refreshing
  <2>3. CASE cache = 0 /\ restPc' = [restPc EXCEPT ![c] = "refresh"]
              /\ Rest!Noted(c)
    BY <1>8, <2>1, <2>3 DEF Rest!auth
  <2>4. CASE restPc' = [restPc EXCEPT ![c] = "delete"] /\ UNCHANGED stale
    BY <1>0, <2>1, <2>2, <2>4, MovesOn DEF Rest!service, Rest!auth,
       Rest!clients
  <2> QED
    BY <2>1, <2>3, <2>4
<1>10. ASSUME NEW c \in Actors, Rest!Delete(c) PROVE RestInv'
  <2>1. /\ restPc[c] = "delete" /\ UNCHANGED <<Rest!service, restToken,
             Rest!clients, attempt, hand, own, rejected>>
        /\ \/ /\ restPc' = [restPc EXCEPT ![c] = "done"]
              /\ answer' = [answer EXCEPT ![c] = "raised"]
              /\ UNCHANGED <<cache, stale>>
           \/ /\ restPc' = [restPc EXCEPT ![c] = "refresh"] /\ UNCHANGED answer
              /\ cache' = 0 /\ Rest!Noted(c)
    BY <1>10 DEF Rest!Delete, Rest!Goes, Rest!Ends
  <2>2. attempt[c] < Retries
    BY DEF CarriedIsIssued
  <2>3. CASE /\ restPc' = [restPc EXCEPT ![c] = "done"]
              /\ answer' = [answer EXCEPT ![c] = "raised"]
             /\ UNCHANGED <<cache, stale>>
    BY <1>0, <2>1, <2>2, <2>3, MovesOn DEF Rest!service, Rest!clients,
       Refreshing
  <2>4. CASE /\ restPc' = [restPc EXCEPT ![c] = "refresh"] /\ UNCHANGED answer
             /\ cache' = 0 /\ Rest!Noted(c)
    BY <1>8, <2>1, <2>4
  <2> QED
    BY <2>1, <2>3, <2>4
<1>11. ASSUME NEW c \in Actors, Rest!CheckOpen(c) PROVE RestInv'
  <2>1. /\ restPc[c] = "close" /\ UNCHANGED <<Rest!service, Rest!auth,
             Rest!clients, attempt, hand, own, Rest!tried, answer>>
        /\ \E label \in {"closing",
             "reset"} : restPc' = [restPc EXCEPT ![c] = label]
    BY <1>11 DEF Rest!CheckOpen, Rest!Goes
  <2>2. attempt[c] < Retries - 1 /\ attempt[c] < Retries
    BY <2>1 DEF CarriedIsIssued, Refreshing
  <2>3. Extinct(c) => Extinct(c)'
    BY <2>1 DEF Extinct, Rest!auth, Rest!tried
  <2>4. rejected[c] > 0 /\ c \notin stale => Extinct(c)
    BY <2>1 DEF RejectedIsGone
  <2> QED
    BY <1>0, <2>1, <2>2, <2>3, <2>4, MovesOn DEF Rest!service, Rest!auth,
       Rest!clients, Rest!tried
<1>12. ASSUME NEW c \in Actors, Rest!Close(c) PROVE RestInv'
  <2>1. /\ restPc[c] = "closing" /\ UNCHANGED <<Rest!service, Rest!auth, http,
             header, attempt, hand, own, Rest!tried>>
        /\ \/ restPc' = [restPc EXCEPT ![c] = "done"]
                /\ answer' = [answer EXCEPT ![c] = "raised"] /\ UNCHANGED closed
           \/ restPc' = [restPc EXCEPT ![c] = "reset"] /\ UNCHANGED answer
                /\ http # 0 /\ closed' = closed \cup {http}
    BY <1>12 DEF Rest!Close, Rest!Goes, Rest!Ends
  <2>2. attempt[c] < Retries - 1 /\ attempt[c] < Retries
    BY <2>1 DEF CarriedIsIssued, Refreshing
  <2>3. Extinct(c) => Extinct(c)'
    BY <2>1 DEF Extinct, Rest!auth, Rest!tried
  <2>4. rejected[c] > 0 /\ c \notin stale => Extinct(c)
    BY <2>1 DEF RejectedIsGone
  <2>5. closed' \subseteq Rest!Clients
    BY <1>0, <2>1, RestNumbers
  <2>6. CASE restPc' = [restPc EXCEPT ![c] = "done"]
              /\ answer' = [answer EXCEPT ![c] = "raised"]
    BY <1>0, <2>1, <2>2, <2>5, <2>6, MovesOn DEF Rest!service, Rest!auth,
       Rest!tried, Refreshing
  <2>7. CASE restPc' = [restPc EXCEPT ![c] = "reset"] /\ UNCHANGED answer
    BY <1>0, <2>1, <2>2, <2>3, <2>4, <2>5, <2>7, MovesOn DEF Rest!service,
       Rest!auth, Rest!tried
  <2> QED
    BY <2>1, <2>6, <2>7
<1>13. ASSUME NEW c \in Actors, Rest!Reset(c) PROVE RestInv'
  <2>1. /\ restPc[c] = "reset" /\ restPc' = [restPc EXCEPT ![c] = "start"]
        /\ http' = 0
        /\ attempt' = [attempt EXCEPT ![c] = @ + 1]
        /\ UNCHANGED <<Rest!service, Rest!auth, header, closed, hand, own,
             Rest!tried, answer>>
    BY <1>13 DEF Rest!Reset, Rest!Again, Rest!Goes
  <2>2. attempt[c] + 1 < Retries
    BY <2>1, RestNumbers DEF CarriedIsIssued, Refreshing
  <2>3. attempt' \in [Actors -> 0 .. Retries] /\ attempt'[c] = attempt[c] + 1
    BY <1>0, <2>1, <2>2, RestNumbers
  <2>4. Extinct(c) => Extinct(c)'
    BY <2>1 DEF Extinct, Rest!auth, Rest!tried
  <2>5. rejected[c] > 0 /\ c \notin stale => Extinct(c)
    BY <2>1 DEF RejectedIsGone
  <2> QED
    BY <1>0, <2>1, <2>2, <2>3, <2>4, <2>5, MovesOn DEF Rest!service,
       Rest!auth, Rest!tried, Refreshing
<1>14. ASSUME NEW c \in Actors, Rest!Build(c) \/ Rest!Refresh(c) PROVE RestInv'
  <2>1. /\ Rest!GetToken(c) /\ UNCHANGED <<m2m, good, restToken, http, header,
             closed, attempt, own, rejected, stale, answer>>
        /\ \/ restPc[c] = "build" /\ restPc' = [restPc EXCEPT ![c] = "store"]
           \/ restPc[c] = "refresh" /\ restPc' = [restPc EXCEPT ![c] = "keep"]
    BY <1>14 DEF Rest!Build, Rest!Refresh, Rest!Goes, Rest!clients, Rest!tried
  <2>2. PICK t \in Rest!Numbers :
             /\ hand' = [hand EXCEPT ![c] = t] /\ t <= issued'
             /\ issued <= issued' /\ issued' \in Rest!Numbers
             /\ cache' \in {cache, t} /\ t \in {0, restToken, cache, issued + 1}
    BY <2>1, TokenIsKnown
  <2>3. cache' \in Rest!Numbers
    BY <2>2 DEF Rest!TypeOK
  <2>4. Rest!TypeOK'
    BY <2>1, <2>2, <2>3 DEF Rest!TypeOK
  <2>5. issued' \in Nat /\ t \in Nat
    BY <2>2 DEF Rest!Numbers, RestBounds
  <2>6. /\ hand'[c] = t /\ \A d \in Actors : d # c => hand'[d] = hand[d]
        /\ \A d \in Actors : d # c => restPc'[d] = restPc[d]
    BY <1>0, <2>1, <2>2 DEF Rest!TypeOK
  <2>7. CarriedIsIssued'
    <3>1. restToken' <= issued' /\ cache' <= issued'
      BY <2>1, <2>2, <2>5, RestNumbers DEF CarriedIsIssued
    <3>2. \A k \in Rest!Clients : header'[k] <= issued'
      BY <2>1, <2>2, <2>5, RestNumbers DEF CarriedIsIssued
    <3>3. http' # 0 => header'[http'] >= 0
      BY <2>1 DEF CarriedIsIssued
    <3>4. ASSUME NEW d \in Actors
          PROVE  /\ hand'[d] <= issued' /\ rejected[d] <= issued'
                 /\ restPc'[d] \notin {"store", "create", "keep"}
                      => hand'[d] = 0
                 /\ restPc'[d] \in {"send", "sent"} => own[d] # 0
                      /\ header[own[d]] >= 0
                 /\ attempt[d] < Retries
                 /\ restPc'[d] \in Refreshing => attempt[d] < Retries - 1
      <4>1. rejected[d] <= issued' /\ attempt[d] < Retries
        BY <2>2, <2>5, RestNumbers DEF CarriedIsIssued
      <4>2. CASE d = c
        BY <1>0, <2>1, <2>2, <2>6, <4>1, <4>2 DEF CarriedIsIssued, Refreshing
      <4>3. CASE d # c
        <5>1. hand[d] <= issued'
          BY <2>2, <2>5, RestNumbers DEF CarriedIsIssued
        <5> QED
          BY <2>6, <4>1, <4>3, <5>1 DEF CarriedIsIssued
      <4> QED
        BY <4>2, <4>3
    <3> QED
      BY <2>1, <3>1, <3>2, <3>3, <3>4 DEF CarriedIsIssued
  <2>8. \A d \in Actors : rejected[d] > 0 /\ Extinct(d) => Extinct(d)'
    <3> SUFFICES ASSUME NEW d \in Actors, rejected[d] > 0, Extinct(d)
        PROVE Extinct(d)'
      OBVIOUS
    <3>1. rejected[d] # issued + 1
      BY RestNumbers DEF CarriedIsIssued
    <3>2. t # rejected[d]
      BY <2>2, <3>1, RestNumbers DEF Extinct
    <3> QED
      BY <2>1, <2>2, <2>6, <3>2 DEF Extinct
  <2>9. RejectedIsGone'
    <3> SUFFICES ASSUME NEW d \in Actors, rejected[d] > 0, d \notin stale
                 PROVE  /\ restPc'[d] \notin {"clear", "forget", "delete",
                             "done"} => Extinct(d)'
                        /\ restPc'[d] \in {"start", "build", "store", "create",
                             "send", "sent"} /\ http # 0 =>
                             header[http] # rejected[d]
                        /\ restPc'[d] \in {"send", "sent"}
                             => header[own[d]] # rejected[d]
      BY <2>1 DEF RejectedIsGone
    <3>1. CASE d = c
      BY <1>0, <2>1, <2>8, <3>1 DEF RejectedIsGone
    <3>2. CASE d # c
      BY <2>6, <2>8, <3>2 DEF RejectedIsGone
    <3> QED
      BY <3>1, <3>2
  <2> QED
    BY <2>4, <2>7, <2>9
<1>15. ASSUME NEW c \in Actors, Rest!Store(c) \/ Rest!Keep(c) PROVE RestInv'
  <2>1. /\ restPc[c] \in {"store", "keep"}
        /\ restToken' \in {restToken, hand[c]}
        /\ hand' \in {hand, [hand EXCEPT ![c] = 0]}
        /\ UNCHANGED <<m2m, issued, good, cache, http, header, closed, attempt,
             own, rejected, stale>>
        /\ \/ restPc[c] = "store"
                /\ restPc' = [restPc EXCEPT ![c] = "create"]
                /\ UNCHANGED <<answer, hand>>
           \/ restPc[c] = "keep" /\ restPc' = [restPc EXCEPT ![c] = "close"]
                /\ UNCHANGED answer /\ hand' = [hand EXCEPT ![c] = 0]
           \/ /\ restPc[c] = "keep"
              /\ restPc' = [restPc EXCEPT ![c] = "done"]
              /\ hand' = [hand EXCEPT ![c] = 0]
              /\ answer' = [answer EXCEPT ![c] = "failed"]
    BY <1>15 DEF Rest!Store, Rest!Keep, Rest!KeepToken, Rest!Takes, Rest!Goes,
       Rest!Ends, Rest!service, Rest!clients, Rest!tried
  <2>2. Rest!TypeOK'
    BY <2>1 DEF Rest!TypeOK, Rest!Numbers, RestBounds
  <2>3. /\ \A d \in Actors : hand'[d] \in {hand[d], 0}
        /\ \A d \in Actors : d # c => restPc'[d] = restPc[d]
             /\ hand'[d] = hand[d]
    BY <1>0, <2>1 DEF Rest!TypeOK
  <2>4. CarriedIsIssued'
    <3>1. restToken' <= issued'
      BY <2>1 DEF CarriedIsIssued
    <3>2. ASSUME NEW d \in Actors
          PROVE  /\ hand'[d] <= issued /\ rejected[d] <= issued
                 /\ restPc'[d] \notin {"store", "create", "keep"}
                      => hand'[d] = 0
                 /\ restPc'[d] \in {"send", "sent"} => own[d] # 0
                      /\ header[own[d]] >= 0
                 /\ attempt[d] < Retries
                 /\ restPc'[d] \in Refreshing => attempt[d] < Retries - 1
      <4>1. hand'[d] <= issued
        BY <2>3, RestNumbers DEF CarriedIsIssued
      <4>2. CASE d = c
        <5>1. hand \in [Actors -> Rest!Numbers]
          BY DEF Rest!TypeOK
        <5> QED
          BY <1>0, <2>1, <4>1, <4>2, <5>1 DEF CarriedIsIssued, Refreshing
      <4>3. CASE d # c
        BY <2>3, <4>1, <4>3 DEF CarriedIsIssued
      <4> QED
        BY <4>2, <4>3
    <3> QED
      BY <2>1, <3>1, <3>2 DEF CarriedIsIssued
  <2>5. \A d \in Actors : rejected[d] > 0 /\ Extinct(d) => Extinct(d)'
    BY <2>1, <2>3, RestNumbers DEF Extinct
  <2>6. RejectedIsGone'
    <3> SUFFICES ASSUME NEW d \in Actors, rejected[d] > 0, d \notin stale
                 PROVE  /\ restPc'[d] \notin {"clear", "forget", "delete",
                             "done"} => Extinct(d)'
                        /\ restPc'[d] \in {"start", "build", "store", "create",
                             "send", "sent"} /\ http # 0 =>
                             header[http] # rejected[d]
                        /\ restPc'[d] \in {"send", "sent"}
                             => header[own[d]] # rejected[d]
      BY <2>1 DEF RejectedIsGone
    <3>1. CASE d = c
      BY <1>0, <2>1, <2>5, <3>1 DEF RejectedIsGone
    <3>2. CASE d # c
      BY <2>3, <2>5, <3>2 DEF RejectedIsGone
    <3> QED
      BY <3>1, <3>2
  <2> QED
    BY <2>2, <2>4, <2>6
<1>16. ASSUME NEW c \in Actors, Rest!Create(c) PROVE RestInv'
  <2>1. PICK k \in Rest!Clients :
           /\ header' = [header EXCEPT ![k] = hand[c]] /\ http' = k
           /\ own' = [own EXCEPT ![c] = k]
    BY <1>16 DEF Rest!Create
  <2>2. /\ restPc[c] = "create" /\ restPc' = [restPc EXCEPT ![c] = "send"]
        /\ hand' = [hand EXCEPT ![c] = 0]
        /\ UNCHANGED <<m2m, issued, good, restToken, cache, closed, attempt,
             rejected, stale, answer>>
    BY <1>16 DEF Rest!Create, Rest!Goes, Rest!Takes, Rest!service, Rest!auth,
       Rest!tried
  <2>3. hand[c] \in -1 .. MaxTokens /\ hand[c] \in Nat /\ hand[c] <= issued
    BY RestNumbers DEF Rest!TypeOK, Rest!Numbers, CarriedIsIssued, RestBounds
  <2>4. Rest!TypeOK'
    BY <2>1, <2>2, <2>3 DEF Rest!TypeOK, Rest!Numbers, RestBounds
  <2>5. /\ \A d \in Actors : hand'[d] \in {hand[d], 0}
        /\ \A d \in Actors : d # c => restPc'[d] = restPc[d]
             /\ hand'[d] = hand[d] /\ own'[d] = own[d]
        /\ restPc'[c] = "send" /\ own'[c] = k /\ hand'[c] = 0
    BY <1>0, <2>1, <2>2 DEF Rest!TypeOK
  <2>6. header'[k] = hand[c]
              /\ \A j \in Rest!Clients : header'[j] \in {header[j], hand[c]}
    BY <2>1 DEF Rest!TypeOK
  <2>7. k # 0
    BY DEF Rest!Clients
  <2>8. CarriedIsIssued'
    <3>1. \A j \in Rest!Clients : header'[j] <= issued
      BY <2>3, <2>6 DEF CarriedIsIssued
    <3>2. ASSUME NEW d \in Actors
          PROVE  /\ hand'[d] <= issued /\ rejected[d] <= issued
                 /\ restPc'[d] \notin {"store", "create", "keep"}
                      => hand'[d] = 0
                 /\ restPc'[d] \in {"send", "sent"} => own'[d] # 0
                      /\ header'[own'[d]] >= 0
                 /\ attempt[d] < Retries
                 /\ restPc'[d] \in Refreshing => attempt[d] < Retries - 1
      <4>1. hand'[d] <= issued
        BY <2>5, RestNumbers DEF CarriedIsIssued
      <4>2. CASE d = c
        BY <2>3, <2>5, <2>6, <2>7, <4>1, <4>2 DEF CarriedIsIssued, Refreshing
      <4>3. CASE d # c
        BY <2>3, <2>5, <2>6, <4>1, <4>3, RestNumbers DEF CarriedIsIssued
      <4> QED
        BY <4>2, <4>3
    <3>3. http' # 0 => header'[http'] >= 0
      BY <2>1, <2>3, <2>6
    <3> QED
      BY <2>2, <3>1, <3>2, <3>3 DEF CarriedIsIssued
  <2>9. \A d \in Actors : rejected[d] > 0 /\ Extinct(d) => Extinct(d)'
    BY <2>2, <2>5, RestNumbers DEF Extinct
  <2>10. RejectedIsGone'
    <3> SUFFICES ASSUME NEW d \in Actors, rejected[d] > 0, d \notin stale
                 PROVE  /\ restPc'[d] \notin {"clear", "forget", "delete",
                             "done"} => Extinct(d)'
                        /\ restPc'[d] \in {"start", "build", "store", "create",
                             "send", "sent"} /\ http' # 0 =>
                             header'[http'] # rejected[d]
                        /\ restPc'[d] \in {"send", "sent"}
                             => header'[own'[d]] # rejected[d]
      BY <2>2 DEF RejectedIsGone
    <3>1. CASE restPc[d] \in {"clear", "forget", "delete", "done"}
      <4>1. d # c
        BY <2>2, <3>1
      <4> QED
        BY <2>5, <3>1, <4>1
    <3>2. CASE restPc[d] \notin {"clear", "forget", "delete", "done"}
      <4>1. Extinct(d) /\ hand[c] # rejected[d]
        BY <3>2 DEF RejectedIsGone, Extinct
      <4>2. header'[http'] # rejected[d]
        BY <2>1, <2>6, <4>1
      <4>3. restPc'[d] \in {"send", "sent"} => header'[own'[d]] # rejected[d]
        <5>1. CASE d = c
          BY <2>5, <2>6, <4>1, <5>1
        <5>2. CASE d # c
          BY <2>5, <2>6, <4>1, <5>2, RestNumbers DEF RejectedIsGone,
             CarriedIsIssued
        <5> QED
          BY <5>1, <5>2
      <4> QED
        BY <2>9, <4>1, <4>2, <4>3
    <3> QED
      BY <3>1, <3>2
  <2> QED
    BY <2>4, <2>8, <2>10
<1> QED
  BY <1>1, <1>2, <1>3, <1>4, <1>5, <1>6, <1>7, <1>9, <1>10, <1>11, <1>12,
     <1>13, <1>14, <1>15, <1>16 DEF Rest!Next

-----------------------------------------------------------------------------
(* A behaviour is one of any component: its invariant is of that one.      *)
SdkInv ==
    /\ part = "emit" => EmitInv
    /\ part = "call" => CallInv
    /\ part = "bundle" => BundleInv
    /\ part = "pack" => PackInv
    /\ part = "token" => TokenTypeInv
    /\ part = "rest" => RestInv
    /\ part = "go" => GoInv

LEMMA SdkBounds ==
    EmitBounds /\ CallBounds /\ BundleBounds /\ PackBounds /\ TokenBounds
        /\ RestBounds /\ GoBounds
<1>1. EmitBounds
  BY SdkAssumption DEF EmitBounds
<1>2. CallBounds
  BY SdkAssumption DEF CallBounds
<1>3. BundleBounds
  BY SdkAssumption DEF BundleBounds
<1>4. PackBounds
  BY SdkAssumption DEF PackBounds
<1>5. TokenBounds
  BY SdkAssumption DEF TokenBounds
<1>6. RestBounds
  BY SdkAssumption DEF RestBounds
<1>7. GoBounds
  BY SdkAssumption DEF GoBounds, GoCache!Goroutines
<1> QED
  BY <1>1, <1>2, <1>3, <1>4, <1>5, <1>6, <1>7

LEMMA SdkInit == ASSUME Init PROVE SdkInv
<1>1. CASE part = "emit"
  <2>1. Emitter!Init
    BY <1>1 DEF Init
  <2> QED
    BY <1>1, <2>1, SdkBounds, EmitInit DEF SdkInv
<1>2. CASE part = "call"
  <2>1. Call!Init
    BY <1>2 DEF Init
  <2> QED
    BY <1>2, <2>1, SdkBounds, CallInit DEF SdkInv
<1>3. CASE part = "bundle"
  <2>1. Bundle!Init
    BY <1>3 DEF Init
  <2> QED
    BY <1>3, <2>1, SdkBounds, BundleInit DEF SdkInv
<1>4. CASE part = "pack"
  <2>1. Context!Init
    BY <1>4 DEF Init
  <2> QED
    BY <1>4, <2>1, SdkBounds, PackInit DEF SdkInv
<1>5. CASE part = "token"
  <2>1. Token!Init
    BY <1>5 DEF Init
  <2> QED
    BY <1>5, <2>1, SdkBounds, TokenTypeInit DEF SdkInv
<1>6. CASE part = "rest"
  <2>1. Rest!Init
    BY <1>6 DEF Init
  <2> QED
    BY <1>6, <2>1, SdkBounds, RestInit DEF SdkInv
<1>7. CASE part = "go"
  <2>1. GoCache!Init
    BY <1>7 DEF Init
  <2> QED
    BY <1>7, <2>1, SdkBounds, GoInit DEF SdkInv
<1> QED
  BY <1>1, <1>2, <1>3, <1>4, <1>5, <1>6, <1>7 DEF Init

LEMMA SdkStep == ASSUME SdkInv, [Next]_vars PROVE SdkInv'
<1>1. CASE part = "emit"
  <2>1. part' = part /\ [Emitter!Next]_(Emitter!vars)
    BY <1>1 DEF Next, vars, emitVars, Emitter!vars
  <2>2. EmitInv
    BY <1>1 DEF SdkInv
  <2>3. EmitInv'
    BY <2>1, <2>2, SdkBounds, EmitStep
  <2> QED
    BY <1>1, <2>1, <2>3 DEF SdkInv
<1>2. CASE part = "call"
  <2>1. part' = part /\ [Call!Next]_(Call!vars)
    BY <1>2 DEF Next, vars, callVars, Call!vars, Call!trail
  <2>2. CallInv
    BY <1>2 DEF SdkInv
  <2>3. CallInv'
    BY <2>1, <2>2, SdkBounds, CallStep
  <2> QED
    BY <1>2, <2>1, <2>3 DEF SdkInv
<1>3. CASE part = "bundle"
  <2>1. part' = part /\ [Bundle!Next]_(Bundle!vars)
    BY <1>3 DEF Next, vars, bundleVars, Bundle!vars
  <2>2. BundleInv
    BY <1>3 DEF SdkInv
  <2>3. BundleInv'
    BY <2>1, <2>2, SdkBounds, BundleStep
  <2> QED
    BY <1>3, <2>1, <2>3 DEF SdkInv
<1>4. CASE part = "pack"
  <2>1. part' = part /\ [Context!Next]_(Context!vars)
    BY <1>4 DEF Next, vars, packVars, Context!vars, Context!server,
       Context!cache, Context!caller, Context!worker, Context!ghost
  <2>2. PackInv
    BY <1>4 DEF SdkInv
  <2>3. PackInv'
    BY <2>1, <2>2, SdkBounds, PackStep
  <2> QED
    BY <1>4, <2>1, <2>3 DEF SdkInv
<1>5. CASE part = "token"
  <2>1. part' = part /\ [Token!Next]_(Token!vars)
    BY <1>5 DEF Next, vars, tokenVars, Token!vars, Token!issuer, Token!jwks,
       Token!validation, Token!replay, Token!ghost
  <2>2. TokenTypeInv
    BY <1>5 DEF SdkInv
  <2>3. TokenTypeInv'
    BY <2>1, <2>2, SdkBounds, TokenTypeInvStep
  <2> QED
    BY <1>5, <2>1, <2>3 DEF SdkInv
<1>6. CASE part = "rest"
  <2>1. part' = part /\ [Rest!Next]_(Rest!vars)
    BY <1>6 DEF Next, vars, restVars, Rest!vars, Rest!service, Rest!auth,
       Rest!clients, Rest!tried
  <2>2. RestInv
    BY <1>6 DEF SdkInv
  <2>3. RestInv'
    BY <2>1, <2>2, SdkBounds, RestStep
  <2> QED
    BY <1>6, <2>1, <2>3 DEF SdkInv
<1>7. CASE part = "go"
  <2>1. part' = part /\ [GoCache!Next]_(GoCache!vars)
    BY <1>7 DEF Next, vars, goVars, GoCache!vars, GoCache!callVars,
       GoCache!ghost
  <2>2. GoInv
    BY <1>7 DEF SdkInv
  <2>3. GoInv'
    BY <2>1, <2>2, SdkBounds, GoStep
  <2> QED
    BY <1>7, <2>1, <2>3 DEF SdkInv
<1>8. CASE part \notin {"emit", "call", "bundle", "pack", "token", "rest", "go"}
  BY <1>8 DEF Next, vars, SdkInv
<1> QED
  BY <1>1, <1>2, <1>3, <1>4, <1>5, <1>6, <1>7, <1>8

LEMMA SdkInvariance == Spec => []SdkInv
<1>1. Init => SdkInv
  BY SdkInit
<1>2. SdkInv /\ [Next]_vars => SdkInv'
  BY SdkStep
<1> QED
  BY <1>1, <1>2, PTL DEF Spec

\* Each component keeps its types: AuditEmitter, governed calls, the two caches
\* of the local PDP, the token validator, KSwitchClient and the Go cache.
THEOREM SdkTyping == Spec => []TypeOK
<1>1. SdkInv => TypeOK
  BY DEF SdkInv, TypeOK, EmitInv, CallInv, BundleInv, PackInv, TokenTypeInv,
     RestInv, GoInv
<1> QED
  BY <1>1, SdkInvariance, PTL

\* AuditEmitter: for any number of threads that rotate and append, no file holds
\* more than its limit and an event of each, unless a rename was refused.
THEOREM AuditFilesAreBounded == Spec => []FilesAreBounded
<1>1. SdkInv => FilesAreBounded
  BY EmitImplies, SdkBounds DEF SdkInv, FilesAreBounded
<1> QED
  BY <1>1, SdkInvariance, PTL

\* evaluate: no fact that held from the first read of an evaluation to its end -
\* the agent killed, the sync stale in a mode that acts on it, the pack of a
\* suspended agent, a policy that forbids, a pack of high risk with a stale
\* bundle - leaves a local allow, for any packs, bundles and nested calls.
THEOREM LocalAllowsAreCurrent == Spec => []LocalAllowIsCurrent
<1>1. SdkInv => LocalAllowIsCurrent
  BY CallImplies, SdkBounds DEF SdkInv, LocalAllowIsCurrent
<1> QED
  BY <1>1, SdkInvariance, PTL

\* check_and_invoke: an event, where there is one, is the only one of its call and
\* says how it ended; what was denied or blocked has not run; and a tool finds
\* the token of its own call, for any nesting of calls that return or raise.
THEOREM CallsStayApart == Spec => []CallsAreToldApart
<1>1. SdkInv => CallsAreToldApart
  BY CallImplies, SdkBounds DEF SdkInv, CallsAreToldApart
<1> QED
  BY <1>1, SdkInvariance, PTL

\* LocalBundleCache and ContextPackCache: whatever threads load, store, fail and
\* start again, the bundle stored last is in force, and a pack the server has
\* invalidated is gone from file and memory once the worker has acted, but for
\* what a load under way may keep for the TTL.
THEOREM StoredIsInForceInTime == Spec => []CachesAreCurrent
<1>1. SdkInv => CachesAreCurrent
  BY PackImplies, SdkBounds DEF SdkInv, CachesAreCurrent, BundleInv
<1> QED
  BY <1>1, SdkInvariance, PTL

\* KSwitchTokenValidator, check 10: if a thread waits no longer for the replay
\* lock than the grace for which a use outlives its token, a single-use token
\* is found valid once, whatever threads, tokens, keys, lifetimes and restarts
\* there are, but for a restart while the file does not hold the store.
THEOREM SingleUseIsSingle == Spec => []SingleUseHolds
<1>1. SdkInv => SingleUseHolds
  BY TokenImplies, SdkBounds DEF SdkInv, SingleUseHolds
<1> QED
  BY <1>1, SdkInvariance, PTL

\* KSwitchClient._request: whichever calls share a client, refresh, fail and
\* close it, none sends again the token it got a 401 for.
THEOREM RetriesAreNew == Spec => []RetryIsNew
<1>1. SdkInv => RetryIsNew
  BY RestImplies DEF SdkInv, RetryIsNew
<1> QED
  BY <1>1, SdkInvariance, PTL

\* LocalRevocationCache and RevocationSyncWorker of the Go SDK: for any
\* goroutines, agents and server versions, the flag is that of the version
\* recorded unless the host has set it, an agent denied is one this version
\* kills or the host has revoked, and one it kills is denied unless its entry
\* was cleared or deleted as expired, or the version has the blanket kill on.
THEOREM GoCacheAgrees == Spec => []GoCacheFollowsVersion
<1>1. SdkInv => GoCacheFollowsVersion
  BY GoImplies DEF SdkInv, GoCacheFollowsVersion
<1> QED
  BY <1>1, SdkInvariance, PTL
=============================================================================
