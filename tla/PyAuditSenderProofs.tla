------------------------ MODULE PyAuditSenderProofs -------------------------
(***************************************************************************)
(* The Python audit sender, for any number of runtimes, events, queue and  *)
(* batch sizes and retries: typing, one sender in charge, no event lost    *)
(* unaccounted, and a stop that drains.                                    *)
(***************************************************************************)
EXTENDS PyAuditSender, TLAPS

\* Facts about the set of a sequence's elements.
LEMMA SetOfEmpty == SetOf(<<>>) = {}
BY DEF SetOf

LEMMA SetOfAppend ==
    ASSUME NEW S, NEW q \in Seq(S), NEW e \in S
    PROVE  SetOf(Append(q, e)) = SetOf(q) \cup {e}
<1>1. Len(q) \in Nat /\ DOMAIN q = 1 .. Len(q)
  OBVIOUS
<1>2. DOMAIN Append(q, e) = 1 .. Len(q) + 1
  OBVIOUS
<1>3. \A i \in 1 .. Len(q) : Append(q, e)[i] = q[i]
  OBVIOUS
<1>4. Append(q, e)[Len(q) + 1] = e
  OBVIOUS
<1> QED
  BY <1>1, <1>2, <1>3, <1>4 DEF SetOf

Distinct(q) == \A i, j \in DOMAIN q : q[i] = q[j] => i = j

LEMMA SetOfTail ==
    ASSUME NEW S, NEW q \in Seq(S), q # <<>>, Distinct(q)
    PROVE  /\ Head(q) \in SetOf(q) /\ Head(q) \in S
           /\ SetOf(Tail(q)) = SetOf(q) \ {Head(q)}
           /\ Distinct(Tail(q)) /\ Tail(q) \in Seq(S)
<1>1. /\ Len(q) \in Nat \ {0} /\ DOMAIN q = 1 .. Len(q) /\ Head(q) = q[1]
  OBVIOUS
<1>2. /\ Tail(q) \in Seq(S) /\ DOMAIN Tail(q) = 1 .. Len(q) - 1
      /\ \A i \in 1 .. Len(q) - 1 : Tail(q)[i] = q[i + 1]
  BY <1>1
<1>3. Head(q) \in SetOf(q) /\ Head(q) \in S
  BY <1>1 DEF SetOf
<1>4. Distinct(Tail(q))
  BY <1>1, <1>2 DEF Distinct
<1>5. SetOf(Tail(q)) \subseteq SetOf(q) \ {Head(q)}
  BY <1>1, <1>2 DEF SetOf, Distinct
<1>6. ASSUME NEW x \in SetOf(q), x # Head(q) PROVE x \in SetOf(Tail(q))
  <2>1. PICK i \in DOMAIN q : x = q[i]
    BY DEF SetOf
  <2>2. i - 1 \in 1 .. Len(q) - 1 /\ Tail(q)[i - 1] = x
    BY <1>1, <1>2, <1>6, <2>1
  <2> QED
    BY <1>2, <2>2 DEF SetOf
<1> QED
  BY <1>2, <1>3, <1>4, <1>5, <1>6

-----------------------------------------------------------------------------
(* Typing.                                                                 *)

\* A thread that may take an event has room for it in its batch.
RoomLeft ==
    \A s \in Senders :
        thread[s] \in {"none", "test", "get"} => Len(batch[s]) < BatchSize

Typed == TypeOK /\ RoomLeft

LEMMA TypedInit == Init => Typed
<1> SUFFICES ASSUME Init PROVE Typed
  OBVIOUS
<1> USE PySenderAssumption
<1>1. TypeOK
  BY DEF Init, TypeOK, ThreadPCs, None
<1>2. RoomLeft
  BY DEF Init, RoomLeft
<1> QED
  BY <1>1, <1>2 DEF Typed

LEMMA HostTyped ==
    ASSUME Typed, NEW rt \in Runtimes,
           StartSender(rt) \/ Attach(rt) \/ StopSender(rt) \/ Joined(rt)
    PROVE  Typed'
<1> USE PySenderAssumption DEF Typed
<1>1. CASE StartSender(rt)
  <2>1. /\ current' \in 0 .. MaxSenders
        /\ mine' \in [Runtimes -> 0 .. MaxSenders]
    <3>1. PICK n \in 0 .. MaxSenders : /\ mine' = [mine EXCEPT ![rt] = n]
                                       /\ current' = n
      BY <1>1 DEF StartSender, TypeOK, Senders
    <3> QED
      BY <3>1 DEF TypeOK
  <2>2. /\ running' \in [Senders -> BOOLEAN]
        /\ pc' \in [Runtimes -> {"idle", "attach", "join"}]
    BY <1>1 DEF StartSender, TypeOK
  <2>3. thread' \in [Senders -> ThreadPCs]
    BY <1>1 DEF StartSender, TypeOK, ThreadPCs
  <2>4. /\ UNCHANGED <<attached, lock, queue, batch, tries, owed, emitted>>
        /\ UNCHANGED <<received, sent, failed, dropped>>
    BY <1>1 DEF StartSender, countVars
  <2>5. TypeOK'
    BY <2>1, <2>2, <2>3, <2>4 DEF TypeOK
  <2>6. \A s \in Senders : thread'[s] = thread[s] \/ thread[s] = "none"
    BY <1>1 DEF StartSender, TypeOK
  <2>7. RoomLeft'
    BY <2>4, <2>6 DEF RoomLeft
  <2> QED
    BY <2>5, <2>7
<1>2. CASE Attach(rt)
  BY <1>2 DEF Attach, threadVars, countVars, TypeOK, RoomLeft
<1>3. CASE StopSender(rt)
  <2>1. CASE current # None
    <3>1. current \in Senders
      BY <2>1 DEF TypeOK, Senders, None
    <3>2. SetOf(queue[current]) \subseteq Events
      BY <3>1 DEF TypeOK, SetOf
    <3>3. owed' \in [Senders -> SUBSET Events]
      BY <1>3, <2>1, <3>1, <3>2 DEF StopSender, TypeOK
    <3>4. /\ running' \in [Senders -> BOOLEAN]
          /\ pc' \in [Runtimes -> {"idle", "attach", "join"}]
          /\ lock' \in Runtimes
      BY <1>3, <2>1 DEF StopSender, TypeOK
    <3>5. UNCHANGED <<current, attached, mine, threadVars, emitted, countVars>>
      BY <1>3, <2>1 DEF StopSender
    <3> QED
      BY <3>3, <3>4, <3>5 DEF TypeOK, RoomLeft, threadVars, countVars
  <2>2. CASE current = None
    <3>1. mine' \in [Runtimes -> 0 .. MaxSenders]
      BY <1>3, <2>2 DEF StopSender, TypeOK, None
    <3>2. UNCHANGED <<current, attached, running, owed, lock, pc, threadVars,
                      emitted, countVars>>
      BY <1>3, <2>2 DEF StopSender
    <3> QED
      BY <3>1, <3>2 DEF TypeOK, RoomLeft, threadVars, countVars
  <2> QED
    BY <2>1, <2>2
<1>4. CASE Joined(rt)
  <2>1. /\ mine' \in [Runtimes -> 0 .. MaxSenders] /\ current' \in 0 .. MaxSenders
        /\ lock' = Nobody
        /\ pc' \in [Runtimes -> {"idle", "attach", "join"}]
    BY <1>4 DEF Joined, TypeOK, None
  <2>2. UNCHANGED <<attached, running, threadVars, owed, emitted, countVars>>
    BY <1>4 DEF Joined
  <2> QED
    BY <2>1, <2>2 DEF TypeOK, RoomLeft, threadVars, countVars
<1> QED
  BY <1>1, <1>2, <1>3, <1>4

LEMMA EmitTyped == ASSUME Typed, Emit PROVE Typed'
<1> USE PySenderAssumption DEF Typed
<1>1. /\ attached \in Senders /\ emitted + 1 \in Events
      /\ emitted' = emitted + 1 /\ emitted' \in 0 .. MaxEvents
  BY DEF Emit, TypeOK, Senders, Events, None
<1>2. UNCHANGED <<hostVars, running, thread, batch, tries, owed, received, sent, failed>>
  BY DEF Emit
<1>3. /\ queue' \in [Senders -> Seq(Events)]
      /\ \A s \in Senders : Len(queue'[s]) <= QueueMax
      /\ dropped' \subseteq Events
  <2>1. CASE /\ Len(queue[attached]) < QueueMax
             /\ queue' = [queue EXCEPT ![attached] = Append(@, emitted')]
             /\ UNCHANGED dropped
    <3>1. /\ Append(queue[attached], emitted') \in Seq(Events)
          /\ Len(Append(queue[attached], emitted')) <= QueueMax
      BY <1>1, <2>1 DEF TypeOK
    <3> QED
      BY <1>1, <2>1, <3>1 DEF TypeOK
  <2>2. CASE dropped' = dropped \cup {emitted'} /\ UNCHANGED queue
    BY <1>1, <2>2 DEF TypeOK
  <2> QED
    BY <2>1, <2>2 DEF Emit
<1> QED
  BY <1>1, <1>2, <1>3 DEF TypeOK, RoomLeft, hostVars

LEMMA ThreadTyped ==
    ASSUME Typed, NEW s \in Senders, ThreadStep(s) PROVE Typed'
<1> USE PySenderAssumption DEF Typed, GoThread
<1>1. CASE Test(s) \/ Flush(s)
  <2>1. thread' \in [Senders -> ThreadPCs]
    BY <1>1 DEF Test, Flush, TypeOK, ThreadPCs
  <2>2. UNCHANGED <<idleVars, queue, batch, tries, received, sent, failed>>
    BY <1>1 DEF Test, Flush
  <2>3. RoomLeft'
    BY <1>1, <2>2 DEF Test, Flush, TypeOK, RoomLeft
  <2> QED
    BY <2>1, <2>2, <2>3 DEF TypeOK, idleVars, hostVars
<1>2. CASE Get(s)
  <2>1. /\ thread[s] = "get" /\ thread' = [thread EXCEPT ![s] = "flush"]
        /\ UNCHANGED <<idleVars, tries, received, sent, failed>>
    BY <1>2 DEF Get
  <2>2. /\ batch' \in [Senders -> Seq(Events)] /\ queue' \in [Senders -> Seq(Events)]
        /\ \A r \in Senders : Len(queue'[r]) <= QueueMax /\ Len(batch'[r]) <= BatchSize
        /\ \A r \in Senders : r # s => batch'[r] = batch[r]
    <3>1. CASE queue[s] = <<>> /\ UNCHANGED <<batch, queue>>
      BY <3>1 DEF TypeOK
    <3>2. CASE /\ queue[s] # <<>>
               /\ batch' = [batch EXCEPT ![s] = Append(@, Head(queue[s]))]
               /\ queue' = [queue EXCEPT ![s] = Tail(@)]
      <4>1. /\ queue[s] \in Seq(Events) /\ Len(queue[s]) <= QueueMax
            /\ batch[s] \in Seq(Events) /\ Len(batch[s]) < BatchSize
        BY <2>1 DEF TypeOK, RoomLeft
      <4>2. Head(queue[s]) \in Events /\ Tail(queue[s]) \in Seq(Events)
            /\ Len(Tail(queue[s])) <= QueueMax
        BY <3>2, <4>1
      <4>3. /\ Append(batch[s], Head(queue[s])) \in Seq(Events)
            /\ Len(Append(batch[s], Head(queue[s]))) <= BatchSize
        BY <4>1, <4>2
      <4> QED
        BY <3>2, <4>2, <4>3 DEF TypeOK
    <3> QED
      BY <1>2, <3>1, <3>2 DEF Get
  <2>3. thread' \in [Senders -> ThreadPCs]
    BY <2>1 DEF TypeOK, ThreadPCs
  <2>4. RoomLeft'
    BY <2>1, <2>2 DEF TypeOK, RoomLeft
  <2> QED
    BY <2>1, <2>2, <2>3, <2>4 DEF TypeOK, idleVars, hostVars
<1>3. ASSUME BatchDone(s), thread[s] \in {"send", "last"}
      PROVE  /\ thread' \in [Senders -> ThreadPCs]
             /\ batch' \in [Senders -> Seq(Events)]
             /\ \A r \in Senders : Len(batch'[r]) <= BatchSize
             /\ tries' \in [Senders -> 0 .. MaxRetries]
             /\ UNCHANGED queue => RoomLeft'
  <2>1. thread' \in [Senders -> ThreadPCs]
    BY <1>3 DEF BatchDone, TypeOK, ThreadPCs
  <2>2. /\ batch' \in [Senders -> Seq(Events)]
        /\ batch'[s] = <<>> /\ \A r \in Senders : r # s => batch'[r] = batch[r]
    BY <1>3 DEF BatchDone, TypeOK
  <2>3. tries' \in [Senders -> 0 .. MaxRetries]
    BY <1>3 DEF BatchDone, TypeOK
  <2>4. \A r \in Senders : Len(batch'[r]) <= BatchSize
    <3>1. Len(<<>>) <= BatchSize
      OBVIOUS
    <3> QED
      BY <2>2, <3>1 DEF TypeOK
  <2>5. RoomLeft'
    BY <1>3, <2>2 DEF BatchDone, TypeOK, RoomLeft
  <2> QED
    BY <2>1, <2>2, <2>3, <2>4, <2>5
<1>4. SetOf(batch[s]) \subseteq Events
  BY DEF TypeOK, SetOf
<1>5. CASE Sent(s)
  <2>1. /\ BatchDone(s) /\ thread[s] \in {"send", "last"}
        /\ received' \subseteq Events /\ sent' \subseteq Events
        /\ UNCHANGED <<idleVars, queue, failed>>
    BY <1>4, <1>5 DEF Sent, TypeOK
  <2> QED
    BY <1>3, <2>1 DEF TypeOK, idleVars, hostVars
<1>6. CASE SendFails(s)
  <2>1. /\ thread[s] \in {"send", "last"}
        /\ received' \subseteq Events /\ failed' \subseteq Events
        /\ UNCHANGED <<idleVars, queue, sent>>
    BY <1>4, <1>6 DEF SendFails, TypeOK
  <2>2. CASE BatchDone(s)
    BY <1>3, <2>1, <2>2 DEF TypeOK, idleVars, hostVars
  <2>3. CASE /\ tries[s] < MaxRetries
             /\ tries' = [tries EXCEPT ![s] = @ + 1]
             /\ UNCHANGED <<thread, batch, failed>>
    <3>1. tries' \in [Senders -> 0 .. MaxRetries]
      BY <2>3 DEF TypeOK
    <3> QED
      BY <2>1, <2>3, <3>1 DEF TypeOK, RoomLeft, idleVars, hostVars
  <2> QED
    BY <1>6, <2>2, <2>3 DEF SendFails
<1> QED
  BY <1>1, <1>2, <1>5, <1>6 DEF ThreadStep

LEMMA TypedStep == ASSUME Typed, [Next]_vars PROVE Typed'
<1>1. CASE UNCHANGED vars
  BY <1>1 DEF vars, hostVars, threadVars, countVars, Typed, TypeOK, RoomLeft
<1> QED
  BY <1>1, HostTyped, EmitTyped, ThreadTyped DEF Next

-----------------------------------------------------------------------------
(* One sender in charge.                                                   *)

\* Who holds _sender_lock is joining the sender it has stopped; with the lock
\* free the current sender runs.  A thread sends its last batch only after
\* its sender was stopped.
LockHeldOverJoin ==
    /\ \A rt \in Runtimes : pc[rt] = "join" => lock = rt
    /\ current # None => (running[current] <=> lock = Nobody)

LastWhenStopped == \A s \in Senders : thread[s] = "last" => ~running[s]

Charge == LockHeldOverJoin /\ LastWhenStopped /\ OneInCharge

LEMMA ChargeInit == Init => Charge
BY DEF Init, Charge, LockHeldOverJoin, LastWhenStopped, OneInCharge

LEMMA ChargeStep == ASSUME Typed, Charge, [Next]_vars PROVE Charge'
<1> USE PySenderAssumption DEF Charge
<1>1. /\ running \in [Senders -> BOOLEAN] /\ thread \in [Senders -> ThreadPCs]
      /\ pc \in [Runtimes -> {"idle", "attach", "join"}]
      /\ current # None => current \in Senders
  BY DEF Typed, TypeOK, Senders, None
<1>2. ASSUME NEW rt \in Runtimes, StartSender(rt) PROVE Charge'
  <2>1. /\ pc[rt] = "idle" /\ lock = Nobody /\ lock' = Nobody
        /\ pc' = [pc EXCEPT ![rt] = "attach"]
    BY <1>2 DEF StartSender
  <2>2. CASE Alive(current) /\ UNCHANGED <<current, running, thread>>
    BY <1>1, <2>1, <2>2 DEF LockHeldOverJoin, LastWhenStopped, OneInCharge, Alive
  <2>3. ASSUME ~Alive(current), NEW s \in Senders, thread[s] = "none",
               current' = s, running' = [running EXCEPT ![s] = TRUE],
               thread' = [thread EXCEPT ![s] = "test"]
        PROVE  Charge'
    <3>1. \A u \in Senders : ~running[u]
      BY <2>3 DEF OneInCharge
    <3>2. s # None
      BY DEF Senders, None
    <3> QED
      BY <1>1, <2>1, <2>3, <3>1, <3>2
         DEF LockHeldOverJoin, LastWhenStopped, OneInCharge, Alive
  <2> QED
    BY <1>2, <2>2, <2>3 DEF StartSender
<1>3. ASSUME NEW rt \in Runtimes, StopSender(rt) PROVE Charge'
  <2>1. pc[rt] = "idle" /\ lock = Nobody /\ UNCHANGED <<current, thread>>
    BY <1>3 DEF StopSender, threadVars
  <2>2. CASE /\ current # None /\ lock' = rt
             /\ running' = [running EXCEPT ![current] = FALSE]
             /\ pc' = [pc EXCEPT ![rt] = "join"]
    BY <1>1, <2>1, <2>2 DEF LockHeldOverJoin, LastWhenStopped, OneInCharge, Alive
  <2>3. CASE current = None /\ UNCHANGED <<running, lock, pc>>
    BY <1>1, <2>1, <2>3 DEF LockHeldOverJoin, LastWhenStopped, OneInCharge, Alive
  <2> QED
    BY <1>3, <2>2, <2>3 DEF StopSender
<1>4. ASSUME NEW rt \in Runtimes, Joined(rt) PROVE Charge'
  <2>1. /\ pc[rt] = "join" /\ current' = None /\ lock' = Nobody
        /\ pc' = [pc EXCEPT ![rt] = "idle"] /\ UNCHANGED <<running, thread>>
    BY <1>4 DEF Joined, threadVars
  <2>2. lock = rt /\ rt # Nobody
    BY <2>1 DEF LockHeldOverJoin
  <2>3. \A s \in Senders : ~running[s]
    BY <1>1, <2>2 DEF LockHeldOverJoin, OneInCharge, Alive
  <2> QED
    BY <1>1, <2>1, <2>2, <2>3 DEF LockHeldOverJoin, LastWhenStopped, OneInCharge
<1>5. ASSUME NEW s \in Senders, ThreadStep(s) PROVE Charge'
  <2>1. UNCHANGED <<current, lock, pc, running>>
    BY <1>5 DEF ThreadStep, Test, Get, Flush, Sent, SendFails, idleVars, hostVars
  <2>2. \A u \in Senders : u # s => thread'[u] = thread[u]
    BY <1>1, <1>5 DEF ThreadStep, Test, Get, Flush, Sent, SendFails, BatchDone,
       GoThread
  <2>3. /\ thread'[s] = "last" => thread[s] = "last" \/ ~running[s]
        /\ thread'[s] \in {"none", "dead"} => thread[s] = "last" \/ ~running[s]
    BY <1>1, <1>5 DEF ThreadStep, Test, Get, Flush, Sent, SendFails, BatchDone,
       GoThread
  <2> QED
    BY <2>1, <2>2, <2>3 DEF LockHeldOverJoin, LastWhenStopped, OneInCharge, Alive
<1>6. CASE Emit \/ UNCHANGED vars \/ \E rt \in Runtimes : Attach(rt)
  <2>1. UNCHANGED <<current, lock, running, thread>>
    BY <1>6 DEF Emit, Attach, vars, hostVars, threadVars
  <2>2. \A rt \in Runtimes : pc'[rt] = "join" => pc[rt] = "join"
    BY <1>1, <1>6 DEF Emit, Attach, vars, hostVars
  <2> QED
    BY <2>1, <2>2 DEF LockHeldOverJoin, LastWhenStopped, OneInCharge, Alive
<1> QED
  BY <1>2, <1>3, <1>4, <1>5, <1>6 DEF Next

-----------------------------------------------------------------------------
(* No event is lost unaccounted.                                           *)

Q(s) == SetOf(queue[s])
B(s) == SetOf(batch[s])

\* An event is in one place of one sender at most, and once.
InOnePlace ==
    \A s \in Senders :
        /\ Distinct(queue[s])
        /\ (Q(s) \cup B(s)) \cap (sent \cup failed) = {}
        /\ \A u \in Senders :
              /\ Q(s) \cap B(u) = {}
              /\ s # u => Q(s) \cap Q(u) = {} /\ B(s) \cap B(u) = {}

\* Events forwarded are where they may be, and nothing else is.
Complete ==
    /\ \A e \in Forwarded : \/ e \in sent \cup failed
                            \/ \E s \in Senders : e \in Q(s) \cup B(s)
    /\ sent \cup failed \subseteq Forwarded
    /\ \A s \in Senders : Q(s) \cup B(s) \subseteq Forwarded

\* What was queued at the stop is taken before the last batch is sent.
Drained ==
    \A s \in Senders :
        /\ owed[s] \subseteq 1 .. emitted
        /\ thread[s] \in {"last", "dead"} => owed[s] \cap Q(s) = {}

Accounts ==
    /\ InOnePlace
    /\ Complete
    /\ Drained
    /\ dropped \subseteq 1 .. emitted
    /\ sent \subseteq received

LEMMA AccountsInit == Init => Accounts
<1> SUFFICES ASSUME Init PROVE Accounts
  OBVIOUS
<1>1. /\ emitted = 0 /\ sent = {} /\ failed = {} /\ received = {} /\ dropped = {}
      /\ \A s \in Senders : Q(s) = {} /\ B(s) = {} /\ owed[s] = {}
      /\ \A s \in Senders : queue[s] = <<>>
  BY SetOfEmpty DEF Init, Q, B
<1>2. 1 .. 0 = {} /\ DOMAIN <<>> = {}
  OBVIOUS
<1> QED
  BY <1>1, <1>2 DEF Accounts, InOnePlace, Complete, Drained, Distinct, Forwarded

\* The forwarded events and where they are; a host step leaves them alone.
LEMMA HostAccounts ==
    ASSUME Typed, Charge, Accounts, NEW rt \in Runtimes,
           StartSender(rt) \/ Attach(rt) \/ StopSender(rt) \/ Joined(rt)
    PROVE  Accounts'
<1> USE DEF Accounts
<1>1. UNCHANGED <<queue, batch, emitted, received, sent, failed, dropped>>
  BY DEF StartSender, Attach, StopSender, Joined, threadVars, countVars
<1>2. \A s \in Senders : Q(s)' = Q(s) /\ B(s)' = B(s)
  BY <1>1 DEF Q, B
<1>3. InOnePlace' /\ Complete'
  BY <1>1, <1>2 DEF InOnePlace, Complete, Forwarded
<1>4. ASSUME NEW s \in Senders
      PROVE  \/ owed'[s] = owed[s]
             \/ owed'[s] = Q(s) /\ thread'[s] \notin {"last", "dead"}
  <2>1. CASE StopSender(rt) /\ s = current /\ current # None
    <3>1. running[s] /\ thread'[s] = thread[s]
      BY <2>1 DEF StopSender, Charge, LockHeldOverJoin, threadVars
    <3>2. thread[s] \notin {"last", "dead"}
      BY <3>1 DEF Charge, LastWhenStopped, OneInCharge, Alive
    <3>3. owed'[s] = Q(s)
      BY <2>1 DEF StopSender, Q, Typed, TypeOK
    <3> QED
      BY <3>1, <3>2, <3>3
  <2>2. CASE ~(StopSender(rt) /\ s = current /\ current # None)
    BY <2>2 DEF StartSender, Attach, StopSender, Joined, Typed, TypeOK
  <2> QED
    BY <2>1, <2>2
<1>5. \A s \in Senders : thread'[s] \in {"last", "dead"} => thread[s] \in {"last", "dead"}
  BY DEF StartSender, Attach, StopSender, Joined, threadVars, Typed, TypeOK
<1>6. Drained'
  BY <1>1, <1>2, <1>4, <1>5 DEF Drained, Complete, Forwarded
<1> QED
  BY <1>1, <1>3, <1>6

LEMMA EmitAccounts == ASSUME Typed, Accounts, Emit PROVE Accounts'
<1> USE DEF Accounts
<1>1. PICK e, a : e = emitted + 1 /\ a = attached
  OBVIOUS
<1>2. /\ e \in Events /\ emitted' = e /\ a \in Senders
      /\ 1 .. e = (1 .. emitted) \cup {e} /\ e \notin 1 .. emitted
      /\ UNCHANGED <<thread, batch, owed, received, sent, failed>>
  <2>1. emitted \in Nat /\ emitted < MaxEvents /\ emitted' = emitted + 1
    BY PySenderAssumption DEF Emit, Typed, TypeOK
  <2>2. e \in Events /\ 1 .. e = (1 .. emitted) \cup {e} /\ e \notin 1 .. emitted
    BY <1>1, <2>1, PySenderAssumption DEF Events
  <2>3. a \in Senders
    BY <1>1 DEF Emit, Typed, TypeOK, Senders, None
  <2> QED
    BY <1>1, <2>1, <2>2, <2>3 DEF Emit
<1>3. /\ e \notin Forwarded /\ e \notin sent \cup failed
      /\ \A s \in Senders : e \notin Q(s) \cup B(s) /\ e \notin owed[s]
  BY <1>2 DEF Forwarded, Complete, Drained
<1>4. \A s \in Senders : B(s)' = B(s)
  BY <1>2 DEF B
<1>5. CASE /\ queue' = [queue EXCEPT ![attached] = Append(@, emitted')]
           /\ UNCHANGED dropped
  <2>1. /\ queue[a] \in Seq(Events) /\ queue'[a] = Append(queue[a], e)
        /\ \A s \in Senders : s # a => queue'[s] = queue[s]
    BY <1>2, <1>5, <1>1 DEF Typed, TypeOK
  <2>2. /\ Q(a)' = Q(a) \cup {e}
        /\ \A s \in Senders : s # a => Q(s)' = Q(s)
    BY <1>2, <2>1, SetOfAppend DEF Q
  <2>3. Distinct(queue'[a])
    <3>1. /\ Distinct(queue[a]) /\ \A i \in DOMAIN queue[a] : queue[a][i] # e
      BY <1>2, <1>3 DEF InOnePlace, Q, SetOf
    <3> QED
      BY <1>2, <2>1, <3>1 DEF Distinct
  <2>4. Forwarded' = Forwarded \cup {e}
    BY <1>2, <1>5 DEF Forwarded
  <2>5. InOnePlace'
    <3>1. \A s \in Senders : Distinct(queue'[s])
      BY <2>3, <2>1 DEF InOnePlace
    <3>2. \A s \in Senders : (Q(s)' \cup B(s)') \cap (sent' \cup failed') = {}
      BY <1>2, <1>3, <1>4, <2>2 DEF InOnePlace
    <3>3. \A s, u \in Senders : Q(s)' \cap B(u)' = {}
      BY <1>2, <1>3, <1>4, <2>2 DEF InOnePlace
    <3>4. \A s, u \in Senders : s # u => Q(s)' \cap Q(u)' = {} /\ B(s)' \cap B(u)' = {}
      BY <1>2, <1>3, <1>4, <2>2 DEF InOnePlace
    <3> QED
      BY <3>1, <3>2, <3>3, <3>4 DEF InOnePlace
  <2>6. Complete'
    BY <1>2, <1>4, <2>2, <2>4 DEF Complete
  <2>7. Drained'
    BY <1>2, <1>3, <2>2 DEF Drained
  <2> QED
    BY <1>2, <1>5, <2>5, <2>6, <2>7
<1>6. CASE dropped' = dropped \cup {emitted'} /\ UNCHANGED queue
  <2>1. \A s \in Senders : Q(s)' = Q(s)
    BY <1>6 DEF Q
  <2>2. Forwarded' = Forwarded
    BY <1>2, <1>6 DEF Forwarded
  <2>3. InOnePlace' /\ Complete'
    BY <1>2, <1>4, <1>6, <2>1, <2>2 DEF InOnePlace, Complete
  <2>4. Drained'
    BY <1>2, <2>1 DEF Drained
  <2> QED
    BY <1>2, <1>6, <2>3, <2>4
<1> QED
  BY <1>5, <1>6 DEF Emit

\* A batch has been sent or given up.
LEMMA BatchAccounts ==
    ASSUME Typed, Accounts, NEW s \in Senders, BatchDone(s),
           sent' \cup failed' = sent \cup failed \cup B(s),
           sent' \subseteq received',
           UNCHANGED <<queue, owed, emitted, dropped>>,
           thread[s] \in {"send", "last"}
    PROVE  Accounts'
<1> USE DEF Accounts
<1>1. /\ B(s)' = {} /\ \A u \in Senders : u # s => B(u)' = B(u)
      /\ \A u \in Senders : Q(u)' = Q(u)
  BY SetOfEmpty DEF BatchDone, B, Q, Typed, TypeOK
<1>2. Forwarded' = Forwarded
  BY DEF Forwarded
<1>3. InOnePlace'
  BY <1>1 DEF InOnePlace
<1>4. Complete'
  BY <1>1, <1>2 DEF Complete
<1>5. \A u \in Senders : thread'[u] \in {"last", "dead"} => thread[u] \in {"last", "dead"}
  BY DEF BatchDone, GoThread, Typed, TypeOK
<1>6. Drained'
  BY <1>1, <1>5 DEF Drained
<1> QED
  BY <1>3, <1>4, <1>6

LEMMA GetAccounts ==
    ASSUME Typed, Accounts, NEW s \in Senders, Get(s) PROVE Accounts'
<1> USE DEF Accounts
<1>1. /\ UNCHANGED <<owed, emitted, dropped, received, sent, failed>>
      /\ Forwarded' = Forwarded
      /\ \A u \in Senders : thread'[u] \in {"last", "dead"}
                            => thread[u] \in {"last", "dead"}
  BY DEF Get, GoThread, idleVars, Forwarded, Typed, TypeOK
<1>2. CASE UNCHANGED <<batch, queue>>
  <2>1. \A u \in Senders : Q(u)' = Q(u) /\ B(u)' = B(u)
    BY <1>2 DEF Q, B
  <2> QED
    BY <1>1, <1>2, <2>1 DEF InOnePlace, Complete, Drained
<1>3. CASE /\ queue[s] # <<>>
           /\ batch' = [batch EXCEPT ![s] = Append(@, Head(queue[s]))]
           /\ queue' = [queue EXCEPT ![s] = Tail(@)]
  <2>1. PICK h : h = Head(queue[s])
    OBVIOUS
  <2>2. /\ queue[s] \in Seq(Events) /\ batch[s] \in Seq(Events)
        /\ Distinct(queue[s])
        /\ queue'[s] = Tail(queue[s]) /\ batch'[s] = Append(batch[s], h)
        /\ \A u \in Senders : u # s => queue'[u] = queue[u] /\ batch'[u] = batch[u]
    BY <1>3, <2>1 DEF Typed, TypeOK, InOnePlace
  <2>3. /\ h \in Q(s) /\ h \in Events /\ Q(s)' = Q(s) \ {h} /\ Distinct(queue'[s])
    BY <1>3, <2>1, <2>2, SetOfTail DEF Q
  <2>4. B(s)' = B(s) \cup {h}
    BY <2>2, <2>3, SetOfAppend DEF B
  <2>5. \A u \in Senders : u # s => Q(u)' = Q(u) /\ B(u)' = B(u)
    BY <2>2 DEF Q, B
  <2>6. InOnePlace'
    <3>1. \A u \in Senders : Distinct(queue'[u])
      BY <2>2, <2>3 DEF InOnePlace
    <3>2. \A u \in Senders : (Q(u)' \cup B(u)') \cap (sent' \cup failed') = {}
      BY <1>1, <2>3, <2>4, <2>5 DEF InOnePlace
    <3>3. \A u, v \in Senders : Q(u)' \cap B(v)' = {}
      BY <2>3, <2>4, <2>5 DEF InOnePlace
    <3>4. \A u, v \in Senders :
             u # v => Q(u)' \cap Q(v)' = {} /\ B(u)' \cap B(v)' = {}
      BY <2>3, <2>4, <2>5 DEF InOnePlace
    <3> QED
      BY <3>1, <3>2, <3>3, <3>4 DEF InOnePlace
  <2>7. Complete'
    BY <1>1, <2>3, <2>4, <2>5 DEF Complete
  <2>8. Drained'
    BY <1>1, <2>3, <2>5 DEF Drained
  <2> QED
    BY <1>1, <2>6, <2>7, <2>8
<1> QED
  BY <1>2, <1>3 DEF Get

LEMMA ThreadAccounts ==
    ASSUME Typed, Accounts, NEW s \in Senders, ThreadStep(s) PROVE Accounts'
<1> USE DEF Accounts
<1>1. CASE Test(s) \/ Flush(s)
  <2>1. UNCHANGED <<owed, emitted, dropped, queue, batch, received, sent, failed>>
    BY <1>1 DEF Test, Flush, idleVars
  <2>2. \A u \in Senders : Q(u)' = Q(u) /\ B(u)' = B(u)
    BY <2>1 DEF Q, B
  <2>3. InOnePlace' /\ Complete'
    BY <2>1, <2>2 DEF InOnePlace, Complete, Forwarded
  <2>4. \A u \in Senders : thread'[u] \in {"last", "dead"} =>
                              thread[u] \in {"last", "dead"} \/ queue[u] = <<>>
    BY <1>1 DEF Test, Flush, GoThread, Typed, TypeOK
  <2>5. Drained'
    BY <2>1, <2>2, <2>4, SetOfEmpty DEF Drained, Q
  <2> QED
    BY <2>1, <2>3, <2>5
<1>2. CASE Get(s)
  BY <1>2, GetAccounts
<1>3. CASE Sent(s)
  BY <1>3, BatchAccounts DEF Sent, idleVars, B
<1>4. CASE SendFails(s)
  <2>1. /\ UNCHANGED <<queue, owed, emitted, dropped, sent>>
        /\ sent' \subseteq received' /\ thread[s] \in {"send", "last"}
    BY <1>4 DEF SendFails, idleVars
  <2>2. CASE failed' = failed \cup SetOf(batch[s]) /\ BatchDone(s)
    BY <2>1, <2>2, BatchAccounts DEF B
  <2>3. CASE UNCHANGED <<thread, batch, failed>>
    <3>1. \A u \in Senders : Q(u)' = Q(u) /\ B(u)' = B(u)
      BY <2>1, <2>3 DEF Q, B
    <3> QED
      BY <2>1, <2>3, <3>1 DEF InOnePlace, Complete, Drained, Forwarded
  <2> QED
    BY <1>4, <2>2, <2>3 DEF SendFails
<1> QED
  BY <1>1, <1>2, <1>3, <1>4 DEF ThreadStep

LEMMA AccountsStep ==
    ASSUME Typed, Charge, Accounts, [Next]_vars PROVE Accounts'
<1>1. CASE UNCHANGED vars
  <2>1. \A u \in Senders : Q(u)' = Q(u) /\ B(u)' = B(u)
    BY <1>1 DEF vars, threadVars, Q, B
  <2> QED
    BY <1>1, <2>1 DEF vars, threadVars, countVars, Accounts, InOnePlace, Complete,
       Drained, Forwarded
<1> QED
  BY <1>1, HostAccounts, EmitAccounts, ThreadAccounts DEF Next

-----------------------------------------------------------------------------
SenderInv == Typed /\ Charge /\ Accounts

LEMMA SenderInvariant == Spec => []SenderInv
<1>1. Init => SenderInv
  BY TypedInit, ChargeInit, AccountsInit DEF SenderInv
<1>2. SenderInv /\ [Next]_vars => SenderInv'
  BY TypedStep, ChargeStep, AccountsStep DEF SenderInv
<1> QED
  BY <1>1, <1>2, PTL DEF Spec

\* The sender, its queue and its thread keep within their bounds, whatever
\* runtimes start and stop it.
THEOREM SenderTyped == Spec => []TypeOK
<1>1. SenderInv => TypeOK
  BY DEF SenderInv, Typed
<1> QED
  BY <1>1, SenderInvariant, PTL

\* start_audit_sender and stop_audit_sender: two senders never both run, and
\* the one that runs is the module's current one and has a live thread.
THEOREM OneSenderInCharge == Spec => []OneInCharge
<1>1. SenderInv => OneInCharge
  BY DEF SenderInv, Charge
<1> QED
  BY <1>1, SenderInvariant, PTL

\* stop: a thread that has ended has taken what was queued at its stop.
THEOREM StopAlwaysDrains == Spec => []StopDrains
<1>1. SenderInv => StopDrains
  BY DEF SenderInv, Accounts, Drained, StopDrains, Q
<1> QED
  BY <1>1, SenderInvariant, PTL

\* enqueue, _run and _backoff_send: an event handed to a sender is queued, in
\* the hands of a thread, sent, or counted as dropped or failed, and never
\* twice in memory, whatever stops outrun threads that still send.
THEOREM EventsAreAccounted == Spec => []EveryEventAccounted
<1>1. SenderInv => EveryEventAccounted
  <2> SUFFICES ASSUME SenderInv PROVE EveryEventAccounted
    OBVIOUS
  <2> USE DEF SenderInv, Accounts
  <2>1. \A e : e \in Queued <=> \E s \in Senders : e \in Q(s)
    BY DEF Queued, Q
  <2>2. \A e : e \in InHand <=> \E s \in Senders : e \in B(s)
    BY DEF InHand, B
  <2>3. Forwarded = Queued \cup InHand \cup sent \cup failed
    BY <2>1, <2>2 DEF Complete
  <2>4. Queued \cap InHand = {} /\ (Queued \cup InHand) \cap (sent \cup failed) = {}
    BY <2>1, <2>2 DEF InOnePlace
  <2> QED
    BY <2>3, <2>4 DEF EveryEventAccounted
<1> QED
  BY <1>1, SenderInvariant, PTL
=============================================================================
