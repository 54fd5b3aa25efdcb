------------------------ MODULE GoAuditSenderProofs -------------------------
(***************************************************************************)
(* The Go audit sender, for any callers, queue and batch sizes and         *)
(* retries: typing and no event lost unaccounted, however often it is      *)
(* started; order and a clean stop for a sender that is started once.      *)
(***************************************************************************)
EXTENDS GoAuditSender, TLAPS

\* Facts about the set of a sequence's elements.
LEMMA SetOfEmpty == SetOf(<<>>) = {}
BY DEF SetOf

LEMMA SetOfAppend ==
    ASSUME NEW S, NEW q \in Seq(S), NEW e \in S
    PROVE  /\ SetOf(Append(q, e)) = SetOf(q) \cup {e}
           /\ Append(q, e) \in Seq(S)
           /\ Len(Append(q, e)) = Len(q) + 1
<1>1. Len(q) \in Nat /\ DOMAIN q = 1 .. Len(q)
  OBVIOUS
<1>2. /\ DOMAIN Append(q, e) = 1 .. Len(q) + 1
      /\ Append(q, e) \in Seq(S) /\ Len(Append(q, e)) = Len(q) + 1
  OBVIOUS
<1>3. \A i \in 1 .. Len(q) : Append(q, e)[i] = q[i]
  OBVIOUS
<1>4. Append(q, e)[Len(q) + 1] = e
  OBVIOUS
<1> QED
  BY <1>1, <1>2, <1>3, <1>4 DEF SetOf

LEMMA SetOfTail ==
    ASSUME NEW S, NEW q \in Seq(S), q # <<>>
    PROVE  /\ Head(q) \in S /\ Tail(q) \in Seq(S)
           /\ Len(Tail(q)) = Len(q) - 1 /\ Len(q) \in Nat \ {0}
           /\ SetOf(q) = {Head(q)} \cup SetOf(Tail(q))
<1>1. /\ Len(q) \in Nat \ {0} /\ DOMAIN q = 1 .. Len(q) /\ Head(q) = q[1]
      /\ Head(q) \in S
  OBVIOUS
<1>2. /\ Tail(q) \in Seq(S) /\ DOMAIN Tail(q) = 1 .. Len(q) - 1
      /\ Len(Tail(q)) = Len(q) - 1
      /\ \A i \in 1 .. Len(q) - 1 : Tail(q)[i] = q[i + 1]
  BY <1>1
<1>3. {Head(q)} \cup SetOf(Tail(q)) \subseteq SetOf(q)
  <2>1. ASSUME NEW i \in 1 .. Len(q) - 1 PROVE Tail(q)[i] \in SetOf(q)
    <3>1. i + 1 \in DOMAIN q /\ Tail(q)[i] = q[i + 1]
      BY <1>1, <1>2
    <3> QED
      BY <3>1 DEF SetOf
  <2> QED
    BY <1>1, <1>2, <2>1 DEF SetOf
<1>4. ASSUME NEW x \in SetOf(q), x # Head(q) PROVE x \in SetOf(Tail(q))
  <2>1. PICK i \in DOMAIN q : x = q[i]
    BY DEF SetOf
  <2>2. i - 1 \in 1 .. Len(q) - 1 /\ Tail(q)[i - 1] = x
    BY <1>1, <1>2, <1>4, <2>1
  <2> QED
    BY <1>2, <2>2 DEF SetOf
<1> QED
  BY <1>1, <1>2, <1>3, <1>4

LEMMA SetOfConcat ==
    ASSUME NEW S, NEW p \in Seq(S), NEW q \in Seq(S)
    PROVE  /\ SetOf(p \o q) = SetOf(p) \cup SetOf(q)
           /\ p \o q \in Seq(S)
           /\ Len(p) \in Nat /\ Len(q) \in Nat
           /\ DOMAIN p = 1 .. Len(p) /\ DOMAIN q = 1 .. Len(q)
           /\ DOMAIN (p \o q) = 1 .. Len(p) + Len(q)
           /\ \A i \in DOMAIN p : (p \o q)[i] = p[i]
           /\ \A i \in DOMAIN q : (p \o q)[Len(p) + i] = q[i]
<1>1. /\ Len(p) \in Nat /\ DOMAIN p = 1 .. Len(p)
      /\ Len(q) \in Nat /\ DOMAIN q = 1 .. Len(q)
      /\ p \o q \in Seq(S)
  OBVIOUS
<1>2. DOMAIN (p \o q) = 1 .. Len(p) + Len(q)
  OBVIOUS
<1>3. ASSUME NEW i \in DOMAIN p PROVE (p \o q)[i] = p[i] /\ i \in DOMAIN (p \o q)
  BY <1>1
<1>4. ASSUME NEW i \in DOMAIN q
      PROVE  /\ (p \o q)[Len(p) + i] = q[i]
             /\ Len(p) + i \in DOMAIN (p \o q)
  BY <1>1
<1>5. SetOf(p) \cup SetOf(q) \subseteq SetOf(p \o q)
  BY <1>3, <1>4 DEF SetOf
<1>6. ASSUME NEW i \in DOMAIN (p \o q)
      PROVE  (p \o q)[i] \in SetOf(p) \cup SetOf(q)
  <2>1. CASE i <= Len(p)
    BY <1>1, <1>2, <1>3, <2>1 DEF SetOf
  <2>2. CASE i > Len(p)
    <3>1. i - Len(p) \in DOMAIN q /\ Len(p) + (i - Len(p)) = i
      BY <1>1, <1>2, <2>2
    <3>2. (p \o q)[i] = q[i - Len(p)]
      BY <1>4, <3>1
    <3> QED
      BY <3>1, <3>2 DEF SetOf
  <2> QED
    BY <1>1, <1>2, <2>1, <2>2
<1>7. SetOf(p \o q) \subseteq SetOf(p) \cup SetOf(q)
  BY <1>6 DEF SetOf
<1> QED
  BY <1>1, <1>2, <1>3, <1>4, <1>5, <1>7

LEMMA SetOfBounds ==
    ASSUME NEW S, NEW q \in Seq(S) PROVE SetOf(q) \subseteq S
BY DEF SetOf

-----------------------------------------------------------------------------
(* Typing.                                                                 *)

\* Only Shutdown asks for a flush and waits for its answer.
ClosersAsk ==
    \A c \in Callers : pc[c] \in {"ask", "offer", "await"} => c \in Closers

Typed == TypeOK /\ ClosersAsk

\* What the batch of a flush goroutine is in a typed state.
LEMMA BatchTyped ==
    ASSUME TypeOK, NEW r \in 1 .. MaxStarts
    PROVE  /\ run[r] \in Goroutine /\ run[r].batch \in Seq(Events)
           /\ Len(run[r].batch) \in Nat /\ Len(run[r].batch) <= BatchSize
           /\ run[r].tries \in Nat /\ run[r].tries <= MaxRetries
<1>1. run[r] \in Goroutine
  BY DEF TypeOK
<1> QED
  BY <1>1 DEF TypeOK, Goroutine

\* A step of one goroutine that keeps its types keeps those of all.
LEMMA RunTyped ==
    ASSUME TypeOK, NEW r \in 1 .. MaxStarts, NEW g \in Goroutine,
           Len(g.batch) <= BatchSize, g.tries <= MaxRetries,
           run' = [run EXCEPT ![r] = g]
    PROVE  /\ run' \in [1 .. MaxStarts -> Goroutine]
           /\ \A q \in 1 .. MaxStarts : /\ Len(run'[q].batch) <= BatchSize
                                        /\ run'[q].tries <= MaxRetries
           /\ run'[r] = g
           /\ \A q \in 1 .. MaxStarts \ {r} : run'[q] = run[q]
BY DEF TypeOK

LEMMA TypedInit == Init => Typed
<1> SUFFICES ASSUME Init PROVE Typed
  OBVIOUS
<1> USE GoSenderAssumption DEF Init
<1>1. NotStarted \in Goroutine
  BY DEF NotStarted, Goroutine, Starts, Reasons
<1>2. /\ run \in [1 .. MaxStarts -> Goroutine]
      /\ \A r \in 1 .. MaxStarts : /\ Len(run[r].batch) <= BatchSize
                                   /\ run[r].tries <= MaxRetries
  BY <1>1 DEF NotStarted
<1>3. /\ field \in [{"stop", "done", "flush"} -> Starts]
      /\ flushCh \in [Starts -> Closers \cup {Empty, Trigger}]
      /\ pc \in [Callers -> CallerPCs] /\ chan \in [Callers -> Starts]
  BY DEF Starts, CallerPCs
<1>4. /\ queue \in Seq(Events) /\ Len(queue) <= QueueMax
      /\ received \in Seq(Events)
  OBVIOUS
<1>5. /\ mu \in Callers \cup {Nobody} /\ running \in BOOLEAN
      /\ stopClosed \subseteq Starts /\ doneClosed \subseteq Starts
      /\ answer \in [Closers -> {"none", "pending", "nil", "error", "cancelled"}]
      /\ enqueued \in 0 .. MaxEvents /\ panicked \in BOOLEAN
      /\ sent \subseteq Events /\ failed \subseteq Events
      /\ dropped \subseteq Events
  <2>1. enqueued \in 0 .. MaxEvents
    OBVIOUS
  <2>2. mu \in Callers \cup {Nobody} /\ running \in BOOLEAN /\ panicked \in BOOLEAN
    OBVIOUS
  <2>3. answer \in [Closers -> {"none", "pending", "nil", "error", "cancelled"}]
    OBVIOUS
  <2>4. /\ stopClosed \subseteq Starts /\ doneClosed \subseteq Starts
        /\ sent \subseteq Events /\ failed \subseteq Events
        /\ dropped \subseteq Events
    OBVIOUS
  <2> QED
    BY <2>1, <2>2, <2>3, <2>4
<1>6. ClosersAsk
  BY DEF ClosersAsk
<1> HIDE DEF Init
<1>7. TypeOK
  BY <1>2, <1>3, <1>4, <1>5 DEF TypeOK
<1> QED
  BY <1>6, <1>7 DEF Typed

\* The calls of the host: Enqueue, Start, Stop and Shutdown.
LEMMA CallTyped ==
    ASSUME Typed, NEW c \in Callers,
           Enqueue(c) \/ Start(c) \/ Stop(c) \/ Shutdown(c)
    PROVE  Typed'
<1> USE GoSenderAssumption DEF Typed
<1>1. CASE Enqueue(c)
  <2>1. enqueued' \in 1 .. MaxEvents /\ enqueued' \in Events
    BY <1>1 DEF Enqueue, TypeOK, Events
  <2>2. /\ queue' \in Seq(Events) /\ Len(queue') <= QueueMax
        /\ pc' \in [Callers -> CallerPCs] /\ dropped' \subseteq Events
    <3>1. CASE Len(queue) < QueueMax /\ queue' = Append(queue, enqueued')
      <4>1. queue' \in Seq(Events) /\ Len(queue') = Len(queue) + 1
        BY <2>1, <3>1, SetOfAppend DEF TypeOK
      <4>2. Len(queue) \in Nat
        BY DEF TypeOK
      <4>3. Len(queue') <= QueueMax
        BY <3>1, <4>1, <4>2
      <4>4. CASE pc' = [pc EXCEPT ![c] = "trigger"] /\ dropped' = dropped
        BY <4>1, <4>3, <4>4 DEF TypeOK, CallerPCs
      <4>5. CASE pc' = pc /\ dropped' = dropped \cup {enqueued'}
        BY <2>1, <4>1, <4>3, <4>5 DEF TypeOK
      <4> QED
        BY <1>1, <4>4, <4>5 DEF Enqueue, Goto
    <3>2. CASE UNCHANGED <<queue, pc>>
      BY <1>1, <2>1, <3>2 DEF Enqueue, TypeOK
    <3> QED
      BY <1>1, <3>1, <3>2 DEF Enqueue
  <2>3. UNCHANGED <<mu, running, field, stopClosed, doneClosed, flushCh, run,
                    chan, answer, received, sent, failed, panicked>>
    BY <1>1 DEF Enqueue, objectVars, outcomes
  <2>4. TypeOK'
    BY <2>1, <2>2, <2>3 DEF TypeOK
  <2>5. ClosersAsk'
    BY <1>1 DEF Enqueue, Goto, TypeOK, ClosersAsk
  <2> QED
    BY <2>4, <2>5
<1>2. CASE Start(c)
  <2>1. /\ mu' \in Callers /\ running' \in BOOLEAN
        /\ field' \in [{"stop", "done", "flush"} -> Starts]
    <3>1. field.stop + 1 \in Starts
      BY <1>2 DEF Start, TypeOK, Starts
    <3>2. /\ field' = [field EXCEPT !.stop = field.stop + 1]
          /\ mu' = c /\ running' = TRUE
      BY <1>2 DEF Start
    <3> QED
      BY <3>1, <3>2 DEF TypeOK
  <2>2. pc' \in [Callers -> CallerPCs]
    BY <1>2 DEF Start, Goto, TypeOK, CallerPCs
  <2>3. UNCHANGED <<stopClosed, doneClosed, flushCh, queue, run, chan, answer,
                    enqueued, received, sent, failed, dropped, panicked>>
    BY <1>2 DEF Start, outcomes
  <2>4. TypeOK'
    BY <2>1, <2>2, <2>3 DEF TypeOK
  <2>5. ClosersAsk'
    BY <1>2 DEF Start, Goto, TypeOK, ClosersAsk
  <2> QED
    BY <2>4, <2>5
<1>3. CASE Stop(c)
  <2>1. /\ running' \in BOOLEAN /\ stopClosed' \subseteq Starts
        /\ panicked' \in BOOLEAN
    <3>1. field.stop \in Starts
      BY DEF TypeOK
    <3>2. stopClosed' \subseteq Starts
      BY <1>3, <3>1 DEF Stop, SignalStop, TypeOK
    <3>3. panicked' \in BOOLEAN
      <4>1. CASE panicked' = (field.stop \in stopClosed)
        <5>1. (field.stop \in stopClosed) \in BOOLEAN
          OBVIOUS
        <5> QED
          BY <4>1, <5>1
      <4>2. CASE panicked' = panicked
        BY <4>2 DEF TypeOK
      <4> QED
        BY <1>3, <4>1, <4>2 DEF Stop, SignalStop
    <3>4. running' \in BOOLEAN
      BY <1>3 DEF Stop, SignalStop, TypeOK
    <3> QED
      BY <3>2, <3>3, <3>4
  <2>2. pc' \in [Callers -> CallerPCs] /\ chan' \in [Callers -> Starts]
    BY <1>3 DEF Stop, SignalStop, Goto, TypeOK, CallerPCs
  <2>3. UNCHANGED <<mu, field, doneClosed, flushCh, queue, run, answer,
                    enqueued, received, sent, failed, dropped>>
    BY <1>3 DEF Stop, outcomes
  <2>4. TypeOK'
    BY <2>1, <2>2, <2>3 DEF TypeOK
  <2>5. ClosersAsk'
    BY <1>3 DEF Stop, SignalStop, Goto, TypeOK, ClosersAsk
  <2> QED
    BY <2>4, <2>5
<1>4. CASE Shutdown(c)
  <2>1. pc' \in [Callers -> CallerPCs] /\ c \in Closers
    BY <1>4 DEF Shutdown, Goto, TypeOK, CallerPCs
  <2>2. answer' \in [Closers -> {"none", "pending", "nil", "error", "cancelled"}]
    BY <1>4 DEF Shutdown, TypeOK
  <2>3. UNCHANGED <<mu, running, field, stopClosed, doneClosed, flushCh, queue,
                    run, chan, enqueued, received, sent, failed, dropped, panicked>>
    BY <1>4 DEF Shutdown, objectVars, outcomes
  <2>4. TypeOK'
    BY <2>1, <2>2, <2>3 DEF TypeOK
  <2>5. ClosersAsk'
    BY <1>4 DEF Shutdown, Goto, TypeOK, ClosersAsk
  <2> QED
    BY <2>4, <2>5
<1> QED
  BY <1>1, <1>2, <1>3, <1>4

\* The steps of a caller on its way.
LEMMA CallerTyped ==
    ASSUME Typed, NEW c \in Callers, CallerStep(c)
    PROVE  Typed'
<1> USE GoSenderAssumption DEF Typed
<1>1. CASE TriggerFlush(c)
  <2>1. /\ flushCh' \in [Starts -> Closers \cup {Empty, Trigger}]
        /\ pc' \in [Callers -> CallerPCs]
    BY <1>1 DEF TriggerFlush, Goto, TypeOK, CallerPCs
  <2>2. UNCHANGED <<mu, running, field, stopClosed, doneClosed, queue, run,
                    chan, answer, enqueued, received, sent, failed, dropped, panicked>>
    BY <1>1 DEF TriggerFlush, objectVars, outcomes
  <2>3. ClosersAsk'
    BY <1>1 DEF TriggerFlush, Goto, TypeOK, ClosersAsk
  <2> QED
    BY <2>1, <2>2, <2>3 DEF TypeOK
<1>2. CASE StartDone(c)
  <2>1. /\ field' \in [{"stop", "done", "flush"} -> Starts]
        /\ pc' \in [Callers -> CallerPCs]
    BY <1>2 DEF StartDone, Goto, TypeOK, CallerPCs
  <2>2. UNCHANGED <<mu, running, stopClosed, doneClosed, flushCh, queue, run,
                    chan, answer, enqueued, received, sent, failed, dropped, panicked>>
    BY <1>2 DEF StartDone, outcomes
  <2>3. ClosersAsk'
    BY <1>2 DEF StartDone, Goto, TypeOK, ClosersAsk
  <2> QED
    BY <2>1, <2>2, <2>3 DEF TypeOK
<1>3. CASE StartGo(c)
  <2>1. /\ field' \in [{"stop", "done", "flush"} -> Starts]
        /\ pc' \in [Callers -> CallerPCs] /\ mu' = Nobody
    BY <1>3 DEF StartGo, Goto, TypeOK, CallerPCs
  <2>2. ASSUME NEW r \in 1 .. MaxStarts
        PROVE  /\ run'[r] \in Goroutine /\ run'[r].batch = run[r].batch
               /\ run'[r].tries = run[r].tries
    <3>1. run[r] \in Goroutine
      BY DEF TypeOK
    <3>2. \/ run'[r] = run[r]
          \/ run'[r] = [run[r] EXCEPT !.pc = "spawned"]
      BY <1>3 DEF StartGo, TypeOK
    <3> QED
      BY <3>1, <3>2 DEF Goroutine
  <2>3. run' \in [1 .. MaxStarts -> Goroutine]
    BY <1>3, <2>2 DEF StartGo, TypeOK
  <2>4. UNCHANGED <<running, stopClosed, doneClosed, flushCh, queue, chan,
                    answer, enqueued, received, sent, failed, dropped, panicked>>
    BY <1>3 DEF StartGo, outcomes
  <2>5. TypeOK'
    BY <2>1, <2>2, <2>3, <2>4 DEF TypeOK
  <2>6. ClosersAsk'
    BY <1>3 DEF StartGo, Goto, TypeOK, ClosersAsk
  <2> QED
    BY <2>5, <2>6
<1>4. CASE StopReturns(c)
  <2>1. pc' \in [Callers -> CallerPCs]
    BY <1>4 DEF StopReturns, Goto, TypeOK, CallerPCs
  <2>2. UNCHANGED <<mu, running, field, stopClosed, doneClosed, flushCh, queue,
                    run, chan, answer, enqueued, received, sent, failed, dropped, panicked>>
    BY <1>4 DEF StopReturns, objectVars, outcomes
  <2>3. ClosersAsk'
    BY <1>4 DEF StopReturns, Goto, TypeOK, ClosersAsk
  <2> QED
    BY <2>1, <2>2, <2>3 DEF TypeOK
<1>5. CASE ReadFlushCh(c)
  <2>1. pc' \in [Callers -> CallerPCs] /\ chan' \in [Callers -> Starts]
    BY <1>5 DEF ReadFlushCh, Goto, TypeOK, CallerPCs
  <2>2. UNCHANGED <<mu, running, field, stopClosed, doneClosed, flushCh, queue,
                    run, answer, enqueued, received, sent, failed, dropped, panicked>>
    BY <1>5 DEF ReadFlushCh, objectVars, outcomes
  <2>3. ClosersAsk'
    BY <1>5 DEF ReadFlushCh, Goto, TypeOK, ClosersAsk
  <2> QED
    BY <2>1, <2>2, <2>3 DEF TypeOK
<1>6. CASE RequestFlush(c)
  <2>1. c \in Closers
    BY <1>6 DEF RequestFlush, ClosersAsk
  <2>2. /\ flushCh' \in [Starts -> Closers \cup {Empty, Trigger}]
        /\ pc' \in [Callers -> CallerPCs]
    BY <1>6, <2>1 DEF RequestFlush, Goto, TypeOK, CallerPCs
  <2>3. UNCHANGED <<mu, running, field, stopClosed, doneClosed, queue, run,
                    chan, answer, enqueued, received, sent, failed, dropped, panicked>>
    BY <1>6 DEF RequestFlush, objectVars, outcomes
  <2>4. ClosersAsk'
    BY <1>6, <2>1 DEF RequestFlush, Goto, TypeOK, ClosersAsk
  <2> QED
    BY <2>2, <2>3, <2>4 DEF TypeOK
<1>7. CASE Cancelled(c)
  <2>1. /\ answer' \in [Closers -> {"none", "pending", "nil", "error", "cancelled"}]
        /\ pc' \in [Callers -> CallerPCs]
    BY <1>7 DEF Cancelled, Goto, TypeOK, CallerPCs
  <2>2. UNCHANGED <<mu, running, field, stopClosed, doneClosed, flushCh, queue,
                    run, chan, enqueued, received, sent, failed, dropped, panicked>>
    BY <1>7 DEF Cancelled, objectVars, outcomes
  <2>3. ClosersAsk'
    BY <1>7 DEF Cancelled, Goto, TypeOK, ClosersAsk
  <2> QED
    BY <2>1, <2>2, <2>3 DEF TypeOK
<1>8. CASE Flushed(c)
  <2>1. pc' \in [Callers -> CallerPCs]
    BY <1>8 DEF Flushed, Goto, TypeOK, CallerPCs
  <2>2. UNCHANGED <<mu, running, field, stopClosed, doneClosed, flushCh, queue,
                    run, chan, answer, enqueued, received, sent, failed, dropped, panicked>>
    BY <1>8 DEF Flushed, objectVars, outcomes
  <2>3. ClosersAsk'
    BY <1>8 DEF Flushed, Goto, TypeOK, ClosersAsk
  <2> QED
    BY <2>1, <2>2, <2>3 DEF TypeOK
<1>9. CASE ShutdownStops(c)
  <2>1. /\ running' \in BOOLEAN /\ stopClosed' \subseteq Starts
        /\ panicked' \in BOOLEAN
    <3>1. field.stop \in Starts
      BY DEF TypeOK
    <3>2. stopClosed' \subseteq Starts
      BY <1>9, <3>1 DEF ShutdownStops, SignalStop, TypeOK
    <3>3. panicked' \in BOOLEAN
      <4>1. CASE panicked' = (field.stop \in stopClosed)
        <5>1. (field.stop \in stopClosed) \in BOOLEAN
          OBVIOUS
        <5> QED
          BY <4>1, <5>1
      <4>2. CASE panicked' = panicked
        BY <4>2 DEF TypeOK
      <4> QED
        BY <1>9, <4>1, <4>2 DEF ShutdownStops, SignalStop
    <3>4. running' \in BOOLEAN
      BY <1>9 DEF ShutdownStops, SignalStop, TypeOK
    <3> QED
      BY <3>2, <3>3, <3>4
  <2>2. pc' \in [Callers -> CallerPCs] /\ chan' \in [Callers -> Starts]
    BY <1>9 DEF ShutdownStops, SignalStop, Goto, TypeOK, CallerPCs
  <2>3. UNCHANGED <<mu, field, doneClosed, flushCh, queue, run, answer,
                    enqueued, received, sent, failed, dropped>>
    BY <1>9 DEF ShutdownStops, outcomes
  <2>4. TypeOK'
    BY <2>1, <2>2, <2>3 DEF TypeOK
  <2>5. ClosersAsk'
    BY <1>9 DEF ShutdownStops, SignalStop, Goto, TypeOK, ClosersAsk
  <2> QED
    BY <2>4, <2>5
<1> QED
  BY <1>1, <1>2, <1>3, <1>4, <1>5, <1>6, <1>7, <1>8, <1>9 DEF CallerStep

\* The end of a flush, for any of its results.
LEMMA EndTyped ==
    ASSUME TypeOK, NEW r \in 1 .. MaxStarts,
           NEW result \in {"nil", "error"}, EndFlush(r, result)
    PROVE  /\ run' \in [1 .. MaxStarts -> Goroutine]
           /\ \A q \in 1 .. MaxStarts : /\ Len(run'[q].batch) <= BatchSize
                                        /\ run'[q].tries <= MaxRetries
           /\ doneClosed' \subseteq Starts
           /\ panicked' \in BOOLEAN
           /\ answer' \in [Closers -> {"none", "pending", "nil", "error", "cancelled"}]
<1> USE GoSenderAssumption
<1>1. run[r] \in Goroutine
  BY DEF TypeOK
<1> DEFINE g == [run[r] EXCEPT !.pc = IF run[r].why = "stop" THEN "exited" ELSE "loop",
                               !.batch = <<>>, !.tries = 0]
<1>2. g \in Goroutine /\ g.batch = <<>> /\ g.tries = 0
  <2>1. <<>> \in Seq(Events) /\ 0 \in Nat
    OBVIOUS
  <2>2. CASE run[r].why = "stop"
    BY <1>1, <2>1, <2>2 DEF Goroutine
  <2>3. CASE run[r].why # "stop"
    BY <1>1, <2>1, <2>3 DEF Goroutine
  <2> QED
    BY <2>2, <2>3
<1>3. run' = [run EXCEPT ![r] = g]
  BY DEF EndFlush
<1> HIDE DEF g
<1>4. Len(g.batch) <= BatchSize /\ g.tries <= MaxRetries
  BY <1>2
<1>5. /\ run' \in [1 .. MaxStarts -> Goroutine]
      /\ \A q \in 1 .. MaxStarts : /\ Len(run'[q].batch) <= BatchSize
                                   /\ run'[q].tries <= MaxRetries
  BY <1>2, <1>3, <1>4, RunTyped
<1>6. doneClosed' \subseteq Starts
  <2>1. run[r].done \in Starts
    BY <1>1 DEF Goroutine
  <2> QED
    BY <2>1 DEF EndFlush, TypeOK
<1>7. panicked' \in BOOLEAN
  <2>1. (run[r].why = "stop" /\ run[r].done \in doneClosed) \in BOOLEAN
    OBVIOUS
  <2> QED
    BY <2>1 DEF EndFlush
<1>8. answer' \in [Closers -> {"none", "pending", "nil", "error", "cancelled"}]
  BY DEF EndFlush, TypeOK
<1> QED
  BY <1>5, <1>6, <1>7, <1>8

\* The steps of a flush goroutine.
LEMMA FlushTyped ==
    ASSUME Typed, NEW r \in 1 .. MaxStarts, FlushStep(r)
    PROVE  Typed'
<1> USE GoSenderAssumption DEF Typed
<1>g. /\ run[r] \in Goroutine /\ run[r].batch \in Seq(Events)
      /\ Len(run[r].batch) \in Nat /\ Len(run[r].batch) <= BatchSize
      /\ run[r].tries \in Nat /\ run[r].tries <= MaxRetries
  BY BatchTyped
<1>f. field.stop \in Starts /\ field.done \in Starts /\ field.flush \in Starts
  BY DEF TypeOK
<1>c. ASSUME UNCHANGED pc PROVE ClosersAsk'
  BY <1>c DEF ClosersAsk
\* Where only the goroutine's record changes.
<1>o. ASSUME NEW g \in Goroutine, run' = [run EXCEPT ![r] = g],
             Len(g.batch) <= BatchSize, g.tries <= MaxRetries,
             UNCHANGED <<hostVars, doneClosed, answer, sent, failed, panicked>>,
             flushCh' \in [Starts -> Closers \cup {Empty, Trigger}],
             queue' \in Seq(Events), Len(queue') <= QueueMax,
             received' \in Seq(Events)
      PROVE  Typed'
  <2>1. /\ run' \in [1 .. MaxStarts -> Goroutine]
        /\ \A q \in 1 .. MaxStarts : /\ Len(run'[q].batch) <= BatchSize
                                     /\ run'[q].tries <= MaxRetries
    BY <1>o, RunTyped
  <2>2. UNCHANGED <<mu, running, field, stopClosed, pc, chan, enqueued, dropped,
                    doneClosed, answer, sent, failed, panicked>>
    BY <1>o DEF hostVars
  <2>3. TypeOK'
    BY <1>o, <2>1, <2>2 DEF TypeOK
  <2> QED
    BY <1>c, <2>2, <2>3
<1>t. /\ flushCh \in [Starts -> Closers \cup {Empty, Trigger}]
      /\ queue \in Seq(Events) /\ Len(queue) <= QueueMax
      /\ received \in Seq(Events)
  BY DEF TypeOK
\* Where the flush is over.
<1>e. ASSUME NEW result \in {"nil", "error"}, EndFlush(r, result),
             UNCHANGED <<hostVars, flushCh, queue>>,
             received' \in Seq(Events), sent' \subseteq Events, failed' \subseteq Events
      PROVE  Typed'
  <2>1. /\ run' \in [1 .. MaxStarts -> Goroutine]
        /\ \A q \in 1 .. MaxStarts : /\ Len(run'[q].batch) <= BatchSize
                                     /\ run'[q].tries <= MaxRetries
        /\ doneClosed' \subseteq Starts
        /\ panicked' \in BOOLEAN
        /\ answer' \in [Closers -> {"none", "pending", "nil", "error", "cancelled"}]
    BY <1>e, EndTyped
  <2>2. UNCHANGED <<mu, running, field, stopClosed, pc, chan, enqueued, dropped,
                    flushCh, queue>>
    BY <1>e DEF hostVars
  <2>3. TypeOK'
    BY <1>e, <2>1, <2>2 DEF TypeOK
  <2> QED
    BY <1>c, <2>2, <2>3
<1>s. SetOf(run[r].batch) \subseteq Events /\ sent \subseteq Events /\ failed \subseteq Events
  BY <1>g, SetOfBounds DEF TypeOK
<1>1. CASE Begin(r)
  <2> DEFINE g == [run[r] EXCEPT !.pc = "loop", !.done = field.done]
  <2>1. g \in Goroutine /\ g.batch = run[r].batch /\ g.tries = run[r].tries
    BY <1>g, <1>f DEF Goroutine
  <2>2. run' = [run EXCEPT ![r] = g]
    BY <1>1 DEF Begin
  <2>3. UNCHANGED <<hostVars, doneClosed, flushCh, queue, answer, received,
                    sent, failed, panicked>>
    BY <1>1 DEF Begin, outcomes
  <2> HIDE DEF g
  <2> QED
    BY <1>g, <1>t, <1>o, <2>1, <2>2, <2>3
<1>2. CASE ReadStopCh(r)
  <2> DEFINE g == [run[r] EXCEPT !.pc = "select0", !.stop = field.stop]
  <2>1. g \in Goroutine /\ g.batch = run[r].batch /\ g.tries = run[r].tries
    BY <1>g, <1>f DEF Goroutine
  <2>2. run' = [run EXCEPT ![r] = g]
    BY <1>2 DEF ReadStopCh
  <2>3. UNCHANGED <<hostVars, doneClosed, flushCh, queue, answer, received,
                    sent, failed, panicked>>
    BY <1>2 DEF ReadStopCh, outcomes
  <2> HIDE DEF g
  <2> QED
    BY <1>g, <1>t, <1>o, <2>1, <2>2, <2>3
<1>3. CASE Select(r)
  <2> DEFINE g == [run[r] EXCEPT !.pc = "select", !.flush = field.flush]
  <2>1. g \in Goroutine /\ g.batch = run[r].batch /\ g.tries = run[r].tries
    BY <1>g, <1>f DEF Goroutine
  <2>2. run' = [run EXCEPT ![r] = g]
    BY <1>3 DEF Select
  <2>3. UNCHANGED <<hostVars, doneClosed, flushCh, queue, answer, received,
                    sent, failed, panicked>>
    BY <1>3 DEF Select, outcomes
  <2> HIDE DEF g
  <2> QED
    BY <1>g, <1>t, <1>o, <2>1, <2>2, <2>3
<1>4. ASSUME NEW why \in Reasons, Drain(r, why),
             flushCh' \in [Starts -> Closers \cup {Empty, Trigger}]
      PROVE  Typed'
  <2> DEFINE g == [run[r] EXCEPT !.pc = "drain", !.why = why]
  <2>1. g \in Goroutine /\ g.batch = run[r].batch /\ g.tries = run[r].tries
    BY <1>g, <1>4 DEF Goroutine
  <2>2. run' = [run EXCEPT ![r] = g]
    BY <1>4 DEF Drain
  <2>3. UNCHANGED <<hostVars, doneClosed, queue, answer, received, sent,
                    failed, panicked>>
    BY <1>4 DEF Drain, outcomes
  <2> HIDE DEF g
  <2> QED
    BY <1>4, <1>g, <1>t, <1>o, <2>1, <2>2, <2>3
<1>5. CASE Stopped(r) \/ Ticked(r)
  <2>1. "stop" \in Reasons /\ "tick" \in Reasons
    BY DEF Reasons
  <2> QED
    BY <1>t, <1>4, <1>5, <2>1 DEF Stopped, Ticked
<1>6. CASE Asked(r)
  <2>1. run[r].flush \in Starts
    BY <1>g DEF Goroutine
  <2>2. flushCh[run[r].flush] \in Reasons
    BY <1>6, <1>t, <2>1 DEF Asked, Reasons, Callers
  <2>3. flushCh' \in [Starts -> Closers \cup {Empty, Trigger}]
    BY <1>6, <1>t DEF Asked
  <2> QED
    BY <1>4, <1>6, <2>2, <2>3 DEF Asked
<1>7. CASE TakeEvent(r)
  <2>1. /\ Head(queue) \in Events /\ Tail(queue) \in Seq(Events)
        /\ Len(Tail(queue)) = Len(queue) - 1 /\ Len(queue) \in Nat
    BY <1>7, <1>t, SetOfTail DEF TakeEvent
  <2>2. /\ Append(run[r].batch, Head(queue)) \in Seq(Events)
        /\ Len(Append(run[r].batch, Head(queue))) = Len(run[r].batch) + 1
    BY <1>g, <2>1, SetOfAppend
  <2> DEFINE g == [run[r] EXCEPT !.batch = Append(run[r].batch, Head(queue))]
  <2>3. /\ g \in Goroutine /\ g.tries = run[r].tries
        /\ g.batch = Append(run[r].batch, Head(queue))
    BY <1>g, <2>2 DEF Goroutine
  <2>4. run' = [run EXCEPT ![r] = g] /\ queue' = Tail(queue)
    BY <1>7 DEF TakeEvent
  <2>5. UNCHANGED <<hostVars, doneClosed, flushCh, answer, received, sent,
                    failed, panicked>>
    BY <1>7 DEF TakeEvent, outcomes
  <2>6. Len(run[r].batch) < BatchSize
    BY <1>7 DEF TakeEvent
  <2> HIDE DEF g
  <2>7. Len(g.batch) <= BatchSize /\ g.tries <= MaxRetries
    BY <1>g, <2>2, <2>3, <2>6
  <2>8. queue' \in Seq(Events) /\ Len(queue') <= QueueMax
    BY <1>t, <2>1, <2>4
  <2> QED
    BY <1>t, <1>o, <2>3, <2>4, <2>5, <2>7, <2>8
<1>8. CASE BeginSend(r)
  <2> DEFINE g == [run[r] EXCEPT !.pc = "send", !.tries = 0]
  <2>1. g \in Goroutine /\ g.batch = run[r].batch /\ g.tries = 0
    BY <1>g DEF Goroutine
  <2>2. run' = [run EXCEPT ![r] = g]
    BY <1>8 DEF BeginSend
  <2>3. UNCHANGED <<hostVars, doneClosed, flushCh, queue, answer, received,
                    sent, failed, panicked>>
    BY <1>8 DEF BeginSend, outcomes
  <2> HIDE DEF g
  <2>4. Len(g.batch) <= BatchSize /\ g.tries <= MaxRetries
    BY <1>g, <2>1
  <2> QED
    BY <1>t, <1>o, <2>1, <2>2, <2>3, <2>4
<1>9. CASE NothingToSend(r)
  BY <1>9, <1>e, <1>s, <1>t DEF NothingToSend, outcomes
<1>10. CASE Sent(r)
  <2>1. received' \in Seq(Events)
    BY <1>10, <1>g, <1>t, SetOfConcat DEF Sent
  <2>2. sent' \subseteq Events /\ failed' \subseteq Events
    BY <1>10, <1>s DEF Sent
  <2> QED
    BY <1>10, <1>e, <2>1, <2>2 DEF Sent
<1>11. CASE SendFails(r)
  <2>1. received' \in Seq(Events)
    <3>1. received \o run[r].batch \in Seq(Events)
      BY <1>g, <1>t, SetOfConcat
    <3>2. received' \in {received, received \o run[r].batch}
      BY <1>11 DEF SendFails
    <3> QED
      BY <1>t, <3>1, <3>2
  <2>2. CASE run[r].tries < MaxRetries
    <3> DEFINE g == [run[r] EXCEPT !.tries = run[r].tries + 1]
    <3>1. g \in Goroutine /\ g.batch = run[r].batch /\ g.tries = run[r].tries + 1
      BY <1>g DEF Goroutine
    <3>2. /\ run' = [run EXCEPT ![r] = g]
          /\ UNCHANGED <<hostVars, doneClosed, flushCh, queue, answer, sent,
                         failed, panicked>>
      BY <1>11, <2>2, <1>g DEF SendFails
    <3> HIDE DEF g
    <3>3. Len(g.batch) <= BatchSize /\ g.tries <= MaxRetries
      BY <1>g, <2>2, <3>1
    <3> QED
      BY <1>t, <1>o, <2>1, <3>1, <3>2, <3>3
  <2>3. CASE ~(run[r].tries < MaxRetries)
    <3>1. BatchFails(r)
      BY <1>11, <2>3 DEF SendFails
    <3>2. sent' \subseteq Events /\ failed' \subseteq Events
      BY <1>s, <3>1 DEF BatchFails
    <3> QED
      BY <1>e, <2>1, <3>1, <3>2 DEF BatchFails
  <2> QED
    BY <2>2, <2>3
<1>12. CASE Rejected(r)
  <2>1. sent' \subseteq Events /\ failed' \subseteq Events
    BY <1>12, <1>s DEF Rejected, BatchFails
  <2> QED
    BY <1>12, <1>e, <1>t, <2>1 DEF Rejected, BatchFails
<1> QED
  BY <1>1, <1>2, <1>3, <1>5, <1>6, <1>7, <1>8, <1>9, <1>10, <1>11, <1>12
     DEF FlushStep

LEMMA TypedStep == Typed /\ [Next]_vars => Typed'
<1> SUFFICES ASSUME Typed, [Next]_vars PROVE Typed'
  OBVIOUS
<1>1. CASE UNCHANGED vars
  BY <1>1 DEF Typed, TypeOK, ClosersAsk, vars
<1>2. CASE Next
  BY <1>2, CallTyped, CallerTyped, FlushTyped DEF Next
<1> QED
  BY <1>1, <1>2

LEMMA TypedInvariance == Spec => []Typed
BY TypedInit, TypedStep, PTL DEF Spec

\* Whatever the host calls, the sender's state keeps its types: the queue and
\* every batch are within their limits, and so are the attempts of a batch.
THEOREM SenderTyping == Spec => []TypeOK
BY TypedInvariance, PTL DEF Typed

-----------------------------------------------------------------------------
(* No event is lost unaccounted.                                           *)

\* A dropped event is one that was enqueued: the next event's number is new.
DroppedWereEnqueued == dropped \subseteq 1 .. enqueued

Accounted == DroppedWereEnqueued /\ EveryEventAccounted

AccountInv == Typed /\ Accounted

Others(r) == UNION {SetOf(run[q].batch) : q \in (1 .. MaxStarts) \ {r}}

\* Only one goroutine's batch changes at a time.
LEMMA InFlightOfOne ==
    ASSUME NEW r \in 1 .. MaxStarts
    PROVE  InFlight = Others(r) \cup SetOf(run[r].batch)
BY DEF InFlight, Others

LEMMA InFlightChanges ==
    ASSUME NEW r \in 1 .. MaxStarts,
           \A q \in (1 .. MaxStarts) \ {r} : run'[q] = run[q]
    PROVE  InFlight' = Others(r) \cup SetOf(run'[r].batch)
<1>1. \A q \in (1 .. MaxStarts) \ {r} :
          SetOf(run'[q].batch) = SetOf(run[q].batch)
  OBVIOUS
<1>2. InFlight' = UNION {SetOf(run'[q].batch) : q \in 1 .. MaxStarts}
  BY DEF InFlight, SetOf
<1> QED
  BY <1>1, <1>2 DEF Others

LEMMA InFlightSame ==
    ASSUME \A q \in 1 .. MaxStarts : run'[q].batch = run[q].batch
    PROVE  InFlight' = InFlight
<1>1. InFlight' = UNION {SetOf(run'[q].batch) : q \in 1 .. MaxStarts}
  BY DEF InFlight, SetOf
<1>2. \A q \in 1 .. MaxStarts : SetOf(run'[q].batch) = SetOf(run[q].batch)
  OBVIOUS
<1> QED
  BY <1>1, <1>2 DEF InFlight

LEMMA AccountedInit == Init => Accounted
<1> SUFFICES ASSUME Init PROVE Accounted
  OBVIOUS
<1>1. \A r \in 1 .. MaxStarts : SetOf(run[r].batch) = {}
  BY SetOfEmpty DEF Init, NotStarted
<1>2. InFlight = {}
  BY <1>1 DEF InFlight
<1>3. Accepted = {} /\ SetOf(queue) = {}
  BY SetOfEmpty DEF Init, Accepted
<1>4. sent = {} /\ failed = {} /\ dropped = {}
  BY DEF Init
<1> QED
  BY <1>2, <1>3, <1>4 DEF Accounted, DroppedWereEnqueued, EveryEventAccounted

\* A step that leaves the events where they are.
LEMMA AccountedStays ==
    ASSUME Accounted, UNCHANGED <<enqueued, dropped, queue, sent, failed>>,
           InFlight' = InFlight, SetOf(received) \subseteq SetOf(received')
    PROVE  Accounted'
<1>1. DroppedWereEnqueued' /\ Accepted' = Accepted
  BY DEF Accounted, DroppedWereEnqueued, Accepted
<1>2. SetOf(queue)' = SetOf(queue)
  OBVIOUS
<1>3. sent' \subseteq SetOf(received')
  BY DEF Accounted, EveryEventAccounted
<1>4. Accepted' = SetOf(queue)' \cup InFlight' \cup sent' \cup failed'
  BY <1>1, <1>2 DEF Accounted, EveryEventAccounted
<1>5. EveryEventAccounted'
  BY <1>3, <1>4 DEF EveryEventAccounted
<1> QED
  BY <1>1, <1>5 DEF Accounted

LEMMA CallAccounted ==
    ASSUME AccountInv, NEW c \in Callers,
           Enqueue(c) \/ Start(c) \/ Stop(c) \/ Shutdown(c)
    PROVE  Accounted'
<1> USE GoSenderAssumption DEF AccountInv, Typed
<1>1. CASE Enqueue(c)
  <2>1. enqueued \in Nat /\ enqueued' = enqueued + 1 /\ queue \in Seq(Events)
    BY <1>1 DEF Enqueue, TypeOK
  <2>2. /\ 1 .. enqueued' = (1 .. enqueued) \cup {enqueued'}
        /\ enqueued' \notin 1 .. enqueued
    BY <2>1
  <2>3. InFlight' = InFlight /\ UNCHANGED <<received, sent, failed>>
    BY <1>1, InFlightSame DEF Enqueue, outcomes
  <2>4. dropped \subseteq 1 .. enqueued
    BY DEF Accounted, DroppedWereEnqueued
  <2>5. /\ (1 .. enqueued) \ dropped = SetOf(queue) \cup InFlight \cup sent \cup failed
        /\ sent \subseteq SetOf(received)
    BY DEF Accounted, EveryEventAccounted, Accepted
  <2>6. sent' \subseteq SetOf(received)'
    BY <2>3, <2>5
  <2>7. \/ SetOf(queue)' = SetOf(queue) \cup {enqueued'} /\ dropped' = dropped
        \/ SetOf(queue)' = SetOf(queue) /\ dropped' = dropped \cup {enqueued'}
    <3>1. CASE queue' = Append(queue, enqueued') /\ dropped' = dropped
      <4>1. enqueued' \in Events
        BY <1>1, <2>1 DEF Enqueue, TypeOK, Events
      <4> QED
        BY <2>1, <3>1, <4>1, SetOfAppend
    <3>2. CASE queue' = queue /\ dropped' = dropped \cup {enqueued'}
      BY <3>2
    <3> QED
      BY <1>1, <3>1, <3>2 DEF Enqueue
  <2>8. dropped' \subseteq 1 .. enqueued'
    BY <2>2, <2>4, <2>7
  <2>9. (1 .. enqueued') \ dropped' = SetOf(queue)' \cup InFlight' \cup sent' \cup failed'
    BY <2>2, <2>3, <2>4, <2>5, <2>7
  <2> QED
    BY <2>6, <2>8, <2>9
       DEF Accounted, DroppedWereEnqueued, EveryEventAccounted, Accepted
<1>2. CASE Start(c) \/ Stop(c) \/ Shutdown(c)
  <2>1. UNCHANGED <<enqueued, dropped, queue, run, received, sent, failed>>
    BY <1>2 DEF Start, Stop, Shutdown, outcomes
  <2> QED
    BY <2>1, AccountedStays, InFlightSame
<1> QED
  BY <1>1, <1>2

LEMMA CallerAccounted ==
    ASSUME AccountInv, NEW c \in Callers, CallerStep(c)
    PROVE  Accounted'
<1> USE DEF AccountInv, Typed
<1>1. CASE StartGo(c)
  <2>1. UNCHANGED <<enqueued, dropped, queue, received, sent, failed>>
    BY <1>1 DEF StartGo, outcomes
  <2>2. ASSUME NEW r \in 1 .. MaxStarts PROVE run'[r].batch = run[r].batch
    <3>1. run[r] \in Goroutine
      BY DEF TypeOK
    <3>2. \/ run'[r] = run[r]
          \/ run'[r] = [run[r] EXCEPT !.pc = "spawned"]
      BY <1>1 DEF StartGo, TypeOK
    <3> QED
      BY <3>1, <3>2 DEF Goroutine
  <2> QED
    BY <2>1, <2>2, AccountedStays, InFlightSame
<1>2. CASE TriggerFlush(c) \/ StartDone(c) \/ StopReturns(c) \/ ReadFlushCh(c)
  <2>1. UNCHANGED <<enqueued, dropped, queue, run, received, sent, failed>>
    BY <1>2 DEF TriggerFlush, StartDone, StopReturns, ReadFlushCh, outcomes
  <2> QED
    BY <2>1, AccountedStays, InFlightSame
<1>3. CASE RequestFlush(c) \/ Cancelled(c) \/ Flushed(c) \/ ShutdownStops(c)
  <2>1. UNCHANGED <<enqueued, dropped, queue, run, received, sent, failed>>
    BY <1>3 DEF RequestFlush, Cancelled, Flushed, ShutdownStops, outcomes
  <2> QED
    BY <2>1, AccountedStays, InFlightSame
<1> QED
  BY <1>1, <1>2, <1>3 DEF CallerStep

\* What a step of goroutine r does to the records of all.
LEMMA RunStep ==
    ASSUME TypeOK, NEW r \in 1 .. MaxStarts, FlushStep(r)
    PROVE  \A q \in (1 .. MaxStarts) \ {r} : run'[q] = run[q]
<1>1. CASE Begin(r) \/ ReadStopCh(r) \/ Select(r)
  BY <1>1 DEF Begin, ReadStopCh, Select, TypeOK
<1>2. CASE Stopped(r) \/ Ticked(r) \/ Asked(r)
  BY <1>2 DEF Stopped, Ticked, Asked, Drain, TypeOK
<1>3. CASE TakeEvent(r) \/ BeginSend(r)
  BY <1>3 DEF TakeEvent, BeginSend, TypeOK
<1>4. ASSUME NEW result, EndFlush(r, result)
      PROVE  \A q \in (1 .. MaxStarts) \ {r} : run'[q] = run[q]
  BY <1>4 DEF EndFlush, TypeOK
<1>5. CASE NothingToSend(r) \/ Sent(r) \/ Rejected(r)
  BY <1>4, <1>5 DEF NothingToSend, Sent, Rejected, BatchFails
<1>6. CASE SendFails(r)
  <2>1. CASE BatchFails(r)
    BY <1>4, <2>1 DEF BatchFails
  <2>2. CASE run' = [run EXCEPT ![r].tries = @ + 1]
    BY <2>2 DEF TypeOK
  <2> QED
    BY <1>6, <2>1, <2>2 DEF SendFails
<1> QED
  BY <1>1, <1>2, <1>3, <1>5, <1>6 DEF FlushStep

\* What the end of a flush does to the goroutine's record.
LEMMA EndOfBatch ==
    ASSUME TypeOK, NEW r \in 1 .. MaxStarts, NEW result, EndFlush(r, result)
    PROVE  /\ run'[r].batch = <<>> /\ run'[r].pc \in {"exited", "loop"}
           /\ run'[r].pc = "exited" <=> run[r].why = "stop"
           /\ run'[r].done = run[r].done /\ run'[r].why = run[r].why
<1>1. run[r] \in Goroutine
  BY DEF TypeOK
<1>2. run'[r] = [run[r] EXCEPT !.pc = IF run[r].why = "stop" THEN "exited" ELSE "loop",
                               !.batch = <<>>, !.tries = 0]
  BY DEF EndFlush, TypeOK
<1> QED
  BY <1>1, <1>2 DEF Goroutine

\* The end of a flush, whatever became of the batch.
LEMMA EndAccounted ==
    ASSUME AccountInv, NEW r \in 1 .. MaxStarts, FlushStep(r),
           NEW result, EndFlush(r, result),
           UNCHANGED <<enqueued, dropped, queue>>,
           sent' \cup failed' = sent \cup failed \cup SetOf(run[r].batch),
           sent' \subseteq SetOf(received')
    PROVE  Accounted'
<1> USE DEF AccountInv, Typed
<1>1. InFlight = Others(r) \cup SetOf(run[r].batch)
  BY InFlightOfOne
<1>2. InFlight' = Others(r)
  <2>1. SetOf(run'[r].batch) = {}
    BY EndOfBatch, SetOfEmpty
  <2> QED
    BY <2>1, InFlightChanges, RunStep
<1>3. DroppedWereEnqueued' /\ Accepted' = Accepted /\ SetOf(queue)' = SetOf(queue)
  BY DEF Accounted, DroppedWereEnqueued, Accepted
<1>4. Accepted = SetOf(queue) \cup InFlight \cup sent \cup failed
  BY DEF Accounted, EveryEventAccounted
<1>5. Accepted' = SetOf(queue)' \cup InFlight' \cup sent' \cup failed'
  BY <1>1, <1>2, <1>3, <1>4
<1> QED
  BY <1>3, <1>5 DEF Accounted, EveryEventAccounted

LEMMA FlushAccounted ==
    ASSUME AccountInv, NEW r \in 1 .. MaxStarts, FlushStep(r)
    PROVE  Accounted'
<1> USE DEF AccountInv, Typed
<1>g. /\ run[r] \in Goroutine /\ run[r].batch \in Seq(Events)
      /\ queue \in Seq(Events) /\ received \in Seq(Events)
  BY BatchTyped DEF TypeOK
<1>s. sent \subseteq SetOf(received)
  BY DEF Accounted, EveryEventAccounted
\* Where no event moves.
<1>k. ASSUME run'[r].batch = run[r].batch, SetOf(received) \subseteq SetOf(received'),
             UNCHANGED <<enqueued, dropped, queue, sent, failed>>
      PROVE  Accounted'
  <2>1. \A q \in 1 .. MaxStarts : run'[q].batch = run[q].batch
    BY <1>k, RunStep
  <2> QED
    BY <1>k, <2>1, AccountedStays, InFlightSame
<1>1. CASE Begin(r) \/ ReadStopCh(r) \/ Select(r)
  <2>1. run'[r].batch = run[r].batch
    <3>1. CASE Begin(r)
      BY <1>g, <3>1 DEF Begin, TypeOK, Goroutine
    <3>2. CASE ReadStopCh(r)
      BY <1>g, <3>2 DEF ReadStopCh, TypeOK, Goroutine
    <3>3. CASE Select(r)
      BY <1>g, <3>3 DEF Select, TypeOK, Goroutine
    <3> QED
      BY <1>1, <3>1, <3>2, <3>3
  <2>2. UNCHANGED <<enqueued, dropped, queue, received, sent, failed>>
    BY <1>1 DEF Begin, ReadStopCh, Select, hostVars, outcomes
  <2> QED
    BY <1>k, <2>1, <2>2
<1>2. CASE Stopped(r) \/ Ticked(r) \/ Asked(r)
  <2>1. PICK why : Drain(r, why)
    BY <1>2 DEF Stopped, Ticked, Asked
  <2>2. run'[r].batch = run[r].batch
    BY <2>1, <1>g DEF Drain, TypeOK, Goroutine
  <2>3. UNCHANGED <<enqueued, dropped, queue, received, sent, failed>>
    BY <2>1 DEF Drain, hostVars, outcomes
  <2> QED
    BY <1>k, <2>2, <2>3
<1>3. CASE TakeEvent(r)
  <2>1. /\ Head(queue) \in Events /\ queue' = Tail(queue)
        /\ SetOf(queue) = {Head(queue)} \cup SetOf(queue')
    BY <1>3, <1>g, SetOfTail DEF TakeEvent
  <2>2. run'[r].batch = Append(run[r].batch, Head(queue))
    BY <1>3, <1>g DEF TakeEvent, TypeOK, Goroutine
  <2>3. SetOf(run'[r].batch) = SetOf(run[r].batch) \cup {Head(queue)}
    BY <1>g, <2>1, <2>2, SetOfAppend
  <2>4. UNCHANGED <<enqueued, dropped, received, sent, failed>>
    BY <1>3 DEF TakeEvent, hostVars, outcomes
  <2>5. InFlight = Others(r) \cup SetOf(run[r].batch)
    BY InFlightOfOne
  <2>6. InFlight' = Others(r) \cup SetOf(run'[r].batch)
    BY InFlightChanges, RunStep
  <2>7. DroppedWereEnqueued' /\ Accepted' = Accepted
    BY <2>4 DEF Accounted, DroppedWereEnqueued, Accepted
  <2>8. Accepted = SetOf(queue) \cup InFlight \cup sent \cup failed
    BY DEF Accounted, EveryEventAccounted
  <2>9. Accepted' = SetOf(queue') \cup InFlight' \cup sent' \cup failed'
    BY <2>1, <2>3, <2>4, <2>5, <2>6, <2>7, <2>8
  <2>10. sent' \subseteq SetOf(received')
    BY <1>s, <2>4
  <2>11. EveryEventAccounted'
    BY <2>9, <2>10 DEF EveryEventAccounted
  <2> QED
    BY <2>7, <2>11 DEF Accounted
<1>4. CASE BeginSend(r)
  <2>1. run'[r].batch = run[r].batch
    BY <1>4, <1>g DEF BeginSend, TypeOK, Goroutine
  <2>2. UNCHANGED <<enqueued, dropped, queue, received, sent, failed>>
    BY <1>4 DEF BeginSend, hostVars, outcomes
  <2> QED
    BY <1>k, <2>1, <2>2
<1>5. CASE NothingToSend(r)
  <2>1. SetOf(run[r].batch) = {}
    BY <1>5, SetOfEmpty DEF NothingToSend
  <2>2. /\ EndFlush(r, "nil")
        /\ UNCHANGED <<enqueued, dropped, queue, received, sent, failed>>
    BY <1>5 DEF NothingToSend, hostVars, outcomes
  <2>3. sent' \cup failed' = sent \cup failed \cup SetOf(run[r].batch)
    BY <2>1, <2>2
  <2>4. sent' \subseteq SetOf(received')
    BY <1>s, <2>2
  <2> QED
    BY <2>2, <2>3, <2>4, EndAccounted
<1>6. CASE Sent(r)
  <2>1. /\ EndFlush(r, "nil") /\ UNCHANGED <<enqueued, dropped, queue, failed>>
        /\ sent' = sent \cup SetOf(run[r].batch)
        /\ received' = received \o run[r].batch
    BY <1>6 DEF Sent, hostVars
  <2>2. SetOf(received') = SetOf(received) \cup SetOf(run[r].batch)
    BY <1>g, <2>1, SetOfConcat
  <2>3. sent' \subseteq SetOf(received')
    BY <1>s, <2>1, <2>2
  <2>4. sent' \cup failed' = sent \cup failed \cup SetOf(run[r].batch)
    BY <2>1
  <2> QED
    BY <2>1, <2>3, <2>4, EndAccounted
<1>7. ASSUME BatchFails(r), SetOf(received) \subseteq SetOf(received')
      PROVE  Accounted'
  <2>1. /\ EndFlush(r, "error") /\ UNCHANGED <<enqueued, dropped, queue, sent>>
        /\ failed' = failed \cup SetOf(run[r].batch)
    BY <1>7 DEF BatchFails, hostVars
  <2>2. sent' \cup failed' = sent \cup failed \cup SetOf(run[r].batch)
    BY <2>1
  <2>3. sent' \subseteq SetOf(received')
    BY <1>7, <1>s, <2>1
  <2> QED
    BY <2>1, <2>2, <2>3, EndAccounted
<1>8. CASE SendFails(r)
  <2>1. SetOf(received) \subseteq SetOf(received')
    <3>1. SetOf(received) \subseteq SetOf(received \o run[r].batch)
      BY <1>g, SetOfConcat
    <3>2. received' = received \/ received' = received \o run[r].batch
      BY <1>8 DEF SendFails
    <3> QED
      BY <3>1, <3>2
  <2>2. CASE BatchFails(r)
    BY <1>7, <2>1, <2>2
  <2>3. CASE ~BatchFails(r)
    <3>1. run'[r].batch = run[r].batch
      <4>1. run' = [run EXCEPT ![r].tries = @ + 1]
        BY <1>8, <2>3 DEF SendFails
      <4> QED
        BY <1>g, <4>1 DEF TypeOK, Goroutine
    <3>2. UNCHANGED <<enqueued, dropped, queue, sent, failed>>
      BY <1>8, <2>3 DEF SendFails, hostVars
    <3> QED
      BY <1>k, <2>1, <3>1, <3>2
  <2> QED
    BY <2>2, <2>3
<1>9. CASE Rejected(r)
  BY <1>7, <1>9 DEF Rejected
<1> QED
  BY <1>1, <1>2, <1>3, <1>4, <1>5, <1>6, <1>8, <1>9 DEF FlushStep

LEMMA AccountedStep == AccountInv /\ [Next]_vars => Accounted'
<1> SUFFICES ASSUME AccountInv, [Next]_vars PROVE Accounted'
  OBVIOUS
<1>1. CASE UNCHANGED vars
  <2>1. UNCHANGED <<enqueued, dropped, queue, run, received, sent, failed>>
    BY <1>1 DEF vars
  <2> QED
    BY <2>1, AccountedStays, InFlightSame DEF AccountInv
<1>2. CASE Next
  BY <1>2, CallAccounted, CallerAccounted, FlushAccounted DEF Next
<1> QED
  BY <1>1, <1>2

LEMMA AccountInvariance == Spec => []AccountInv
<1>1. Init => AccountInv
  BY TypedInit, AccountedInit DEF AccountInv
<1>2. AccountInv /\ [Next]_vars => AccountInv'
  BY TypedStep, AccountedStep DEF AccountInv
<1> QED
  BY <1>1, <1>2, PTL DEF Spec

\* However often the host starts, stops and shuts a sender down, and whatever
\* goroutines overlap: an event Enqueue has accepted is in the queue, in the
\* batch of a flush, counted as sent - and the endpoint has it - or counted as
\* failed.
THEOREM AcceptedAreAccounted == Spec => []EveryEventAccounted
BY AccountInvariance, PTL DEF AccountInv, Accounted

-----------------------------------------------------------------------------
(* A sender that is started once: it stops clean.                          *)

InStart == {"start2", "start3"}

\* Where Start is, and what the fields hold meanwhile and afterwards.
StartInv ==
    /\ \A c \in Callers : pc[c] \in InStart => mu = c
    /\ mu # Nobody => /\ pc[mu] \in InStart
                      /\ running /\ field.stop = 1 /\ run[1].pc = "none"
                      /\ pc[mu] = "start3" => field.done = 1
    /\ mu = Nobody /\ field.stop = 0 => ~running /\ run[1].pc = "none"
    /\ mu = Nobody /\ field.stop = 1 => field.done = 1 /\ run[1].pc # "none"

\* The channels: stopCh is closed when the sender is stopped, doneCh when the
\* goroutine has exited, and who waits does so on that doneCh.
ChannelInv ==
    /\ stopClosed = IF field.stop = 1 /\ ~running THEN {1} ELSE {}
    /\ doneClosed = IF run[1].pc = "exited" THEN {1} ELSE {}
    /\ \A c \in Callers : pc[c] = "waitDone" => chan[c] = 1

\* The goroutine: it closes the doneCh of its Start, and stops when told to.
GoroutineInv ==
    /\ run[1].pc \notin {"none", "spawned"} => run[1].done = 1
    /\ run[1].pc \in {"drain", "send"} /\ run[1].why = "stop" => 1 \in stopClosed

WaitInv ==
    ~running /\ (\A c \in Callers : pc[c] # "waitDone")
        => run[1].pc \in {"none", "exited"}

OnceInv == StartInv /\ ChannelInv /\ GoroutineInv /\ WaitInv /\ NeverPanics

StopInv == Typed /\ OnceInv

LEMMA OnceInit == ASSUME MaxStarts = 1 PROVE Init => OnceInv
<1> SUFFICES ASSUME Init PROVE OnceInv
  OBVIOUS
<1>1. run[1] = NotStarted /\ field.stop = 0 /\ mu = Nobody /\ running = FALSE
  BY DEF Init
<1>2. stopClosed = {} /\ doneClosed = {} /\ panicked = FALSE
  BY DEF Init
<1>3. \A c \in Callers : pc[c] = "idle"
  BY DEF Init
<1>4. run[1].pc = "none"
  BY <1>1 DEF NotStarted
<1>5. StartInv
  BY <1>1, <1>3, <1>4 DEF StartInv, InStart
<1>6. ChannelInv /\ GoroutineInv /\ WaitInv /\ NeverPanics
  BY <1>1, <1>2, <1>3, <1>4 DEF ChannelInv, GoroutineInv, WaitInv, NeverPanics
<1> QED
  BY <1>5, <1>6 DEF OnceInv

\* A caller's step that is none of Start's or Stop's.
LEMMA PlainCall ==
    ASSUME MaxStarts = 1, StopInv, NEW c \in Callers, NEW label,
           pc[c] \notin InStart \cup {"waitDone"},
           label \notin InStart \cup {"waitDone"},
           pc' = [pc EXCEPT ![c] = label],
           \A d \in Callers : d # c => chan'[d] = chan[d],
           UNCHANGED <<mu, running, field, stopClosed, doneClosed, run, panicked>>
    PROVE  OnceInv'
<1> USE DEF StopInv, OnceInv, Typed
<1>1. /\ pc'[c] = label
      /\ \A d \in Callers : d # c => pc'[d] = pc[d]
  BY DEF TypeOK
<1>2. mu # c
  BY GoSenderAssumption DEF StartInv
<1>3. mu # Nobody => pc'[mu] = pc[mu]
  BY <1>1, <1>2 DEF TypeOK
<1>4. StartInv'
  BY <1>1, <1>2, <1>3 DEF StartInv
<1>5. \A d \in Callers : pc'[d] = "waitDone" => pc[d] = "waitDone" /\ chan'[d] = 1
  BY <1>1 DEF ChannelInv
<1>6. ChannelInv'
  BY <1>5 DEF ChannelInv
<1>7. GoroutineInv' /\ NeverPanics'
  BY DEF GoroutineInv, NeverPanics
<1>8. \A d \in Callers : pc[d] = "waitDone" => pc'[d] = "waitDone"
  BY <1>1
<1>9. WaitInv'
  BY <1>8 DEF WaitInv
<1> QED
  BY <1>4, <1>6, <1>7, <1>9

\* Stop's critical section, in Stop and in Shutdown.
LEMMA SignalStopOnce ==
    ASSUME MaxStarts = 1, StopInv, NEW c \in Callers, SignalStop(c),
           pc[c] \notin InStart \cup {"waitDone"},
           UNCHANGED <<mu, field, doneClosed, run>>
    PROVE  OnceInv'
<1> USE DEF StopInv, OnceInv, Typed
<1>1. /\ mu = Nobody /\ running /\ running' = FALSE
      /\ stopClosed' = stopClosed \cup {field.stop}
      /\ panicked' = (field.stop \in stopClosed)
      /\ chan' = [chan EXCEPT ![c] = field.done]
      /\ pc' = [pc EXCEPT ![c] = "waitDone"]
  BY DEF SignalStop, Goto
<1>2. field.stop \in 0 .. 1
  BY DEF TypeOK, Starts
<1>3. field.stop = 1 /\ field.done = 1 /\ run[1].pc # "none"
  BY <1>1, <1>2 DEF StartInv
<1>4. stopClosed = {} /\ stopClosed' = {1} /\ ~panicked'
  BY <1>1, <1>3 DEF ChannelInv
<1>5. /\ pc'[c] = "waitDone" /\ chan'[c] = 1
      /\ \A d \in Callers : d # c => pc'[d] = pc[d] /\ chan'[d] = chan[d]
  BY <1>1, <1>3 DEF TypeOK
<1>6. StartInv'
  BY <1>1, <1>3, <1>5 DEF StartInv, InStart
<1>7. ChannelInv'
  BY <1>1, <1>3, <1>4, <1>5 DEF ChannelInv
<1>8. GoroutineInv'
  BY <1>4 DEF GoroutineInv
<1>9. WaitInv' /\ NeverPanics'
  BY <1>4, <1>5 DEF WaitInv, NeverPanics
<1> QED
  BY <1>6, <1>7, <1>8, <1>9

LEMMA CallStopsClean ==
    ASSUME MaxStarts = 1, StopInv, NEW c \in Callers,
           Enqueue(c) \/ Start(c) \/ Stop(c) \/ Shutdown(c)
    PROVE  OnceInv'
<1> USE DEF StopInv, OnceInv, Typed
<1>1. CASE Enqueue(c)
  <2>1. UNCHANGED <<mu, running, field, stopClosed, doneClosed, run, panicked, chan>>
    BY <1>1 DEF Enqueue, objectVars
  <2>2. CASE pc' = [pc EXCEPT ![c] = "trigger"]
    BY <1>1, <2>1, <2>2, PlainCall DEF Enqueue, InStart
  <2>3. CASE pc' = pc
    <3>1. pc' = [pc EXCEPT ![c] = "idle"]
      BY <1>1, <2>3 DEF Enqueue, TypeOK
    <3> QED
      BY <1>1, <2>1, <3>1, PlainCall DEF Enqueue, InStart
  <2> QED
    BY <1>1, <2>2, <2>3 DEF Enqueue, Goto
<1>2. CASE Start(c)
  <2>1. /\ mu = Nobody /\ ~running /\ field.stop < 1 /\ mu' = c
        /\ running' = TRUE /\ field' = [field EXCEPT !.stop = field.stop + 1]
        /\ pc' = [pc EXCEPT ![c] = "start2"] /\ pc[c] = "idle"
        /\ UNCHANGED <<stopClosed, doneClosed, run, chan, panicked>>
    BY <1>2 DEF Start, Goto
  <2>2. field.stop = 0 /\ field'.stop = 1
    BY <2>1 DEF TypeOK, Starts
  <2>3. run[1].pc = "none" /\ stopClosed = {}
    BY <2>1, <2>2 DEF StartInv, ChannelInv
  <2>4. /\ pc'[c] = "start2"
        /\ \A d \in Callers : d # c => pc'[d] = pc[d]
    BY <2>1 DEF TypeOK
  <2>5. c # Nobody /\ \A d \in Callers : pc[d] \notin InStart
    BY <2>1, GoSenderAssumption DEF StartInv
  <2>6. StartInv'
    <3>1. \A d \in Callers : pc'[d] \in InStart => mu' = d
      BY <2>1, <2>4, <2>5
    <3>2. pc'[c] \in InStart /\ pc'[c] # "start3"
      BY <2>4 DEF InStart
    <3> QED
      BY <2>1, <2>2, <2>3, <2>5, <3>1, <3>2 DEF StartInv
  <2>7. ChannelInv'
    BY <2>1, <2>3, <2>4 DEF ChannelInv
  <2>8. GoroutineInv' /\ WaitInv' /\ NeverPanics'
    BY <2>1 DEF GoroutineInv, WaitInv, NeverPanics
  <2> QED
    BY <2>6, <2>7, <2>8
<1>3. CASE Stop(c)
  BY <1>3, SignalStopOnce DEF Stop, InStart
<1>4. CASE Shutdown(c)
  <2>1. /\ pc[c] = "idle" /\ pc' = [pc EXCEPT ![c] = "ask"]
        /\ UNCHANGED <<mu, running, field, stopClosed, doneClosed, run, panicked, chan>>
    BY <1>4 DEF Shutdown, Goto, objectVars
  <2> QED
    BY <2>1, PlainCall DEF InStart
<1> QED
  BY <1>1, <1>2, <1>3, <1>4

LEMMA CallerStopsClean ==
    ASSUME MaxStarts = 1, StopInv, NEW c \in Callers, CallerStep(c)
    PROVE  OnceInv'
<1> USE DEF StopInv, OnceInv, Typed
<1>1. CASE TriggerFlush(c) \/ Cancelled(c) \/ Flushed(c) \/ RequestFlush(c)
  <2>1. /\ UNCHANGED <<mu, running, field, stopClosed, doneClosed, run, panicked, chan>>
        /\ pc[c] \in {"trigger", "offer", "await"}
    BY <1>1 DEF TriggerFlush, Cancelled, Flushed, RequestFlush, objectVars
  <2>2. PICK label \in {"idle", "stop", "await"} : pc' = [pc EXCEPT ![c] = label]
    BY <1>1 DEF TriggerFlush, Cancelled, Flushed, RequestFlush, Goto
  <2>3. /\ pc[c] \notin InStart \cup {"waitDone"}
        /\ label \notin InStart \cup {"waitDone"}
    BY <2>1, <2>2 DEF InStart
  <2> QED
    BY <2>1, <2>2, <2>3, PlainCall
<1>2. CASE ReadFlushCh(c)
  <2>1. /\ UNCHANGED <<mu, running, field, stopClosed, doneClosed, run, panicked>>
        /\ pc[c] = "ask" /\ pc' = [pc EXCEPT ![c] = "offer"]
        /\ \A d \in Callers : d # c => chan'[d] = chan[d]
    BY <1>2 DEF ReadFlushCh, Goto, objectVars, TypeOK
  <2> QED
    BY <2>1, PlainCall DEF InStart
<1>3. CASE StartDone(c)
  <2>1. /\ pc[c] = "start2" /\ pc' = [pc EXCEPT ![c] = "start3"]
        /\ field' = [field EXCEPT !.done = field.stop]
        /\ UNCHANGED <<mu, running, stopClosed, doneClosed, run, chan, panicked>>
    BY <1>3 DEF StartDone, Goto
  <2>2. mu = c /\ c # Nobody /\ field.stop = 1 /\ running /\ run[1].pc = "none"
    BY <2>1, GoSenderAssumption DEF StartInv, InStart
  <2>3. field'.stop = 1 /\ field'.done = 1
    BY <2>1, <2>2 DEF TypeOK
  <2>4. /\ pc'[c] = "start3"
        /\ \A d \in Callers : d # c => pc'[d] = pc[d]
    BY <2>1 DEF TypeOK
  <2>5. StartInv'
    BY <2>1, <2>2, <2>3, <2>4 DEF StartInv, InStart
  <2>6. ChannelInv'
    BY <2>1, <2>2, <2>3, <2>4 DEF ChannelInv
  <2>7. GoroutineInv' /\ WaitInv' /\ NeverPanics'
    BY <2>1, <2>2 DEF GoroutineInv, WaitInv, NeverPanics
  <2> QED
    BY <2>5, <2>6, <2>7
<1>4. CASE StartGo(c)
  <2>1. /\ pc[c] = "start3" /\ pc' = [pc EXCEPT ![c] = "idle"] /\ mu' = Nobody
        /\ field' = [field EXCEPT !.flush = field.stop]
        /\ run' = [run EXCEPT ![field.stop].pc = "spawned"]
        /\ UNCHANGED <<running, stopClosed, doneClosed, chan, panicked>>
    BY <1>4 DEF StartGo, Goto
  <2>2. /\ mu = c /\ c # Nobody /\ field.stop = 1 /\ field.done = 1
        /\ running /\ run[1].pc = "none"
    BY <2>1, GoSenderAssumption DEF StartInv, InStart
  <2>3. field'.stop = 1 /\ field'.done = 1
    BY <2>1, <2>2 DEF TypeOK
  <2>4. /\ pc'[c] = "idle"
        /\ \A d \in Callers : d # c => pc'[d] = pc[d]
    BY <2>1 DEF TypeOK
  <2>5. run'[1].pc = "spawned"
    <3>1. run[1] \in Goroutine /\ run'[1] = [run[1] EXCEPT !.pc = "spawned"]
      BY <2>1, <2>2 DEF TypeOK
    <3> QED
      BY <3>1 DEF Goroutine
  <2>6. \A d \in Callers : pc'[d] \notin InStart
    BY <2>2, <2>4 DEF StartInv, InStart
  <2>7. StartInv'
    BY <2>1, <2>3, <2>5, <2>6 DEF StartInv
  <2>8. ChannelInv'
    BY <2>1, <2>2, <2>3, <2>4, <2>5 DEF ChannelInv
  <2>9. GoroutineInv' /\ WaitInv' /\ NeverPanics'
    BY <2>1, <2>2, <2>5 DEF GoroutineInv, WaitInv, NeverPanics
  <2> QED
    BY <2>7, <2>8, <2>9
<1>5. CASE StopReturns(c)
  <2>1. /\ pc[c] = "waitDone" /\ pc' = [pc EXCEPT ![c] = "idle"]
        /\ chan[c] \in doneClosed
        /\ UNCHANGED <<mu, running, field, stopClosed, doneClosed, run, chan, panicked>>
    BY <1>5 DEF StopReturns, Goto, objectVars
  <2>2. run[1].pc = "exited"
    BY <2>1 DEF ChannelInv
  <2>3. /\ pc'[c] = "idle"
        /\ \A d \in Callers : d # c => pc'[d] = pc[d]
    BY <2>1 DEF TypeOK
  <2>4. mu = Nobody
    BY <2>2 DEF StartInv
  <2>5. StartInv'
    BY <2>1, <2>3, <2>4 DEF StartInv, InStart
  <2>6. ChannelInv'
    BY <2>1, <2>3 DEF ChannelInv
  <2>7. GoroutineInv' /\ WaitInv' /\ NeverPanics'
    BY <2>1, <2>2 DEF GoroutineInv, WaitInv, NeverPanics
  <2> QED
    BY <2>5, <2>6, <2>7
<1>6. CASE ShutdownStops(c)
  <2>1. /\ pc[c] = "stop" /\ UNCHANGED <<mu, field, doneClosed, run>>
    BY <1>6 DEF ShutdownStops
  <2>2. CASE SignalStop(c)
    BY <2>1, <2>2, SignalStopOnce DEF InStart
  <2>3. CASE pc' = [pc EXCEPT ![c] = "idle"] /\ UNCHANGED <<running, stopClosed, chan, panicked>>
    BY <2>1, <2>3, PlainCall DEF InStart
  <2> QED
    BY <1>6, <2>2, <2>3 DEF ShutdownStops, Goto
<1> QED
  BY <1>1, <1>2, <1>3, <1>4, <1>5, <1>6 DEF CallerStep

\* A step of the goroutine that does not end it.
LEMMA RunOnce ==
    ASSUME MaxStarts = 1, StopInv,
           UNCHANGED <<hostVars, doneClosed, panicked>>,
           run[1].pc \notin {"none", "exited"}, run'[1].pc \notin {"none", "exited"},
           GoroutineInv'
    PROVE  OnceInv'
<1> USE DEF StopInv, OnceInv, Typed
<1>1. UNCHANGED <<mu, running, field, stopClosed, pc, chan, doneClosed, panicked>>
  BY DEF hostVars
<1>2. mu = Nobody
  BY DEF StartInv
<1>3. StartInv'
  BY <1>1, <1>2 DEF StartInv, TypeOK, Starts
<1>4. ChannelInv'
  BY <1>1 DEF ChannelInv
<1>5. WaitInv' /\ NeverPanics'
  BY <1>1 DEF WaitInv, NeverPanics
<1> QED
  BY <1>3, <1>4, <1>5

\* The end of a flush: the goroutine loops, or exits and closes its doneCh.
LEMMA EndOnce ==
    ASSUME MaxStarts = 1, StopInv, NEW result, EndFlush(1, result),
           run[1].pc \in {"drain", "send"}, UNCHANGED hostVars
    PROVE  OnceInv'
<1> USE DEF StopInv, OnceInv, Typed
<1>1. UNCHANGED <<mu, running, field, stopClosed, pc, chan>>
  BY DEF hostVars
<1>2. /\ run'[1].pc \in {"exited", "loop"}
      /\ run'[1].pc = "exited" <=> run[1].why = "stop"
      /\ run'[1].done = run[1].done
  BY EndOfBatch
<1>3. run[1].done = 1 /\ doneClosed = {}
  BY DEF GoroutineInv, ChannelInv
<1>4. /\ doneClosed' = IF run[1].why = "stop" THEN {1} ELSE {}
      /\ ~panicked'
  BY <1>3 DEF EndFlush
<1>5. run[1].why = "stop" => ~running
  BY DEF GoroutineInv, ChannelInv
<1>6. mu = Nobody
  BY DEF StartInv
<1>7. StartInv'
  BY <1>1, <1>2, <1>6 DEF StartInv
<1>8. ChannelInv'
  BY <1>1, <1>2, <1>4 DEF ChannelInv
<1>9. GoroutineInv' /\ NeverPanics'
  BY <1>2, <1>3, <1>4 DEF GoroutineInv, NeverPanics
<1>10. WaitInv'
  BY <1>1, <1>2 DEF WaitInv
<1> QED
  BY <1>7, <1>8, <1>9, <1>10

LEMMA FlushStopsClean ==
    ASSUME MaxStarts = 1, StopInv, FlushStep(1)
    PROVE  OnceInv'
<1> USE DEF StopInv, OnceInv, Typed
<1>g. run[1] \in Goroutine /\ run \in [1 .. 1 -> Goroutine]
  BY DEF TypeOK
<1>1. CASE Begin(1)
  <2>1. /\ run[1].pc = "spawned"
        /\ run'[1] = [run[1] EXCEPT !.pc = "loop", !.done = field.done]
        /\ UNCHANGED <<hostVars, doneClosed, panicked>>
    BY <1>1, <1>g DEF Begin
  <2>2. run'[1].pc = "loop" /\ run'[1].done = field.done
    BY <1>g, <2>1 DEF Goroutine
  <2>3. field.done = 1
    <3>1. mu = Nobody /\ field.stop \in 0 .. 1
      BY <2>1 DEF StartInv, TypeOK, Starts
    <3> QED
      BY <2>1, <3>1 DEF StartInv
  <2>4. GoroutineInv'
    BY <2>2, <2>3 DEF GoroutineInv
  <2> QED
    BY <2>1, <2>2, <2>4, RunOnce
<1>2. CASE ReadStopCh(1)
  <2>1. /\ run[1].pc = "loop"
        /\ run'[1] = [run[1] EXCEPT !.pc = "select0", !.stop = field.stop]
        /\ UNCHANGED <<hostVars, doneClosed, panicked>>
    BY <1>2, <1>g DEF ReadStopCh
  <2>2. run'[1].pc = "select0" /\ run'[1].done = run[1].done
    BY <1>g, <2>1 DEF Goroutine
  <2>3. GoroutineInv'
    BY <2>1, <2>2 DEF GoroutineInv
  <2> QED
    BY <2>1, <2>2, <2>3, RunOnce
<1>3. CASE Select(1)
  <2>1. /\ run[1].pc = "select0"
        /\ run'[1] = [run[1] EXCEPT !.pc = "select", !.flush = field.flush]
        /\ UNCHANGED <<hostVars, doneClosed, panicked>>
    BY <1>3, <1>g DEF Select
  <2>2. run'[1].pc = "select" /\ run'[1].done = run[1].done
    BY <1>g, <2>1 DEF Goroutine
  <2>3. GoroutineInv'
    BY <2>1, <2>2 DEF GoroutineInv
  <2> QED
    BY <2>1, <2>2, <2>3, RunOnce
<1>4. ASSUME NEW why, Drain(1, why), why = "stop" => 1 \in stopClosed
      PROVE  OnceInv'
  <2>1. /\ run[1].pc = "select"
        /\ run'[1] = [run[1] EXCEPT !.pc = "drain", !.why = why]
        /\ UNCHANGED <<hostVars, doneClosed, panicked>>
    BY <1>4, <1>g DEF Drain
  <2>2. /\ run'[1].pc = "drain" /\ run'[1].done = run[1].done
        /\ run'[1].why = why
    BY <1>g, <2>1 DEF Goroutine
  <2>3. stopClosed' = stopClosed
    BY <2>1 DEF hostVars
  <2>4. GoroutineInv'
    BY <1>4, <2>1, <2>2, <2>3 DEF GoroutineInv
  <2> QED
    BY <2>1, <2>2, <2>4, RunOnce
<1>5. CASE Stopped(1)
  <2>1. 1 \in stopClosed
    BY <1>5 DEF Stopped, ChannelInv
  <2> QED
    BY <1>4, <1>5, <2>1 DEF Stopped
<1>6. CASE Ticked(1)
  BY <1>4, <1>6 DEF Ticked
<1>7. CASE Asked(1)
  <2>1. flushCh[run[1].flush] \in Closers \cup {Empty, Trigger}
    BY <1>g DEF TypeOK, Goroutine
  <2>2. flushCh[run[1].flush] # "stop"
    BY <2>1, GoSenderAssumption DEF Callers, Empty, Trigger
  <2> QED
    BY <1>4, <1>7, <2>2 DEF Asked
<1>8. ASSUME run[1].pc \in {"drain", "send"}, run'[1].pc \in {"drain", "send"},
             run'[1].done = run[1].done, run'[1].why = run[1].why,
             UNCHANGED <<hostVars, doneClosed, panicked>>
      PROVE  OnceInv'
  <2>1. stopClosed' = stopClosed
    BY <1>8 DEF hostVars
  <2>2. GoroutineInv'
    BY <1>8, <2>1 DEF GoroutineInv
  <2> QED
    BY <1>8, <2>2, RunOnce
<1>9. CASE TakeEvent(1)
  <2>1. /\ run[1].pc = "drain" /\ UNCHANGED <<hostVars, doneClosed, panicked>>
        /\ run'[1] = [run[1] EXCEPT !.batch = Append(@, Head(queue))]
    BY <1>9, <1>g DEF TakeEvent
  <2> QED
    BY <1>8, <1>g, <2>1 DEF Goroutine
<1>10. CASE BeginSend(1)
  <2>1. /\ run[1].pc = "drain" /\ UNCHANGED <<hostVars, doneClosed, panicked>>
        /\ run'[1] = [run[1] EXCEPT !.pc = "send", !.tries = 0]
    BY <1>10, <1>g DEF BeginSend
  <2> QED
    BY <1>8, <1>g, <2>1 DEF Goroutine
<1>11. CASE NothingToSend(1)
  BY <1>11, EndOnce DEF NothingToSend
<1>12. CASE Sent(1)
  BY <1>12, EndOnce DEF Sent
<1>13. CASE SendFails(1)
  <2>1. CASE BatchFails(1)
    BY <1>13, <2>1, EndOnce DEF SendFails, BatchFails
  <2>2. CASE ~BatchFails(1)
    <3>1. /\ run[1].pc = "send" /\ UNCHANGED <<hostVars, doneClosed, panicked>>
          /\ run'[1] = [run[1] EXCEPT !.tries = @ + 1]
      BY <1>13, <1>g, <2>2 DEF SendFails
    <3> QED
      BY <1>8, <1>g, <3>1 DEF Goroutine
  <2> QED
    BY <2>1, <2>2
<1>14. CASE Rejected(1)
  BY <1>14, EndOnce DEF Rejected, BatchFails
<1> QED
  BY <1>1, <1>2, <1>3, <1>5, <1>6, <1>7, <1>9, <1>10, <1>11, <1>12, <1>13,
     <1>14 DEF FlushStep

LEMMA StopInvariance == ASSUME MaxStarts = 1 PROVE Spec => []StopInv
<1>1. Init => StopInv
  BY TypedInit, OnceInit DEF StopInv
<1>2. StopInv /\ [Next]_vars => StopInv'
  <2> SUFFICES ASSUME StopInv, [Next]_vars PROVE OnceInv'
    BY TypedStep DEF StopInv
  <2>1. CASE UNCHANGED vars
    BY <2>1 DEF StopInv, OnceInv, StartInv, ChannelInv, GoroutineInv, WaitInv,
       NeverPanics, vars
  <2>2. CASE Next
    <3>1. \A r \in 1 .. MaxStarts : r = 1
      OBVIOUS
    <3> QED
      BY <2>2, <3>1, CallStopsClean, CallerStopsClean, FlushStopsClean DEF Next
  <2> QED
    BY <2>1, <2>2
<1> QED
  BY <1>1, <1>2, PTL DEF Spec

\* A sender that is started once: whoever calls Stop and Shutdown, and when,
\* no channel is closed twice, and when nobody waits in Stop and the sender is
\* not running, its goroutine has exited.
THEOREM StopsClean == ASSUME MaxStarts = 1 PROVE Spec => []StopIsClean
<1>1. StopInv => StopIsClean
  BY DEF StopInv, OnceInv, WaitInv, StopIsClean, StopWaitsForExit, Alive
<1> QED
  BY <1>1, StopInvariance, PTL

-----------------------------------------------------------------------------
(* A sender that is started once: the endpoint sees the events in order.   *)

Increasing(q) == \A i, j \in DOMAIN q : i < j => q[i] < q[j]

Below(S, T) == \A x \in S, y \in T : x < y

\* Every event of s arrives a first time, and after each that is before it.
HasFirst(s) ==
    \A e \in SetOf(s) :
        \E i \in DOMAIN s : s[i] = e /\ \A j \in 1 .. i - 1 : s[j] # e

NoneOvertaken(s) ==
    \A j, k \in DOMAIN s : s[k] < s[j] => \E i \in 1 .. j - 1 : s[i] = s[k]

\* What is queued comes after what is in the batch, and that after what has
\* arrived, unless an attempt of this batch has arrived already.
OrderInv ==
    /\ SetOf(received) \subseteq 1 .. enqueued
    /\ Increasing(queue) /\ Increasing(run[1].batch)
    /\ Below(SetOf(run[1].batch), SetOf(queue))
    /\ Below(SetOf(received), SetOf(queue))
    /\ \/ Below(SetOf(received), SetOf(run[1].batch))
       \/ run[1].pc = "send" /\ SetOf(run[1].batch) \subseteq SetOf(received)
    /\ HasFirst(received) /\ NoneOvertaken(received)

LEMMA IncreasingAppend ==
    ASSUME NEW q \in Seq(Events), NEW e \in Events,
           Increasing(q), Below(SetOf(q), {e})
    PROVE  Increasing(Append(q, e))
<1>1. /\ Len(q) \in Nat /\ DOMAIN q = 1 .. Len(q)
      /\ DOMAIN Append(q, e) = 1 .. Len(q) + 1
      /\ \A i \in 1 .. Len(q) : Append(q, e)[i] = q[i]
      /\ Append(q, e)[Len(q) + 1] = e
  OBVIOUS
<1>2. \A i \in 1 .. Len(q) : q[i] < e
  BY <1>1 DEF Below, SetOf
<1> QED
  BY <1>1, <1>2 DEF Increasing

LEMMA IncreasingTail ==
    ASSUME NEW q \in Seq(Events), q # <<>>, Increasing(q)
    PROVE  Increasing(Tail(q)) /\ Below({Head(q)}, SetOf(Tail(q)))
<1>1. /\ Len(q) \in Nat \ {0} /\ DOMAIN q = 1 .. Len(q) /\ Head(q) = q[1]
  OBVIOUS
<1>2. /\ DOMAIN Tail(q) = 1 .. Len(q) - 1
      /\ \A i \in 1 .. Len(q) - 1 : Tail(q)[i] = q[i + 1]
  BY <1>1
<1>3. Increasing(Tail(q))
  BY <1>1, <1>2 DEF Increasing
<1>4. \A i \in 1 .. Len(q) - 1 : q[1] < q[i + 1]
  BY <1>1 DEF Increasing
<1> QED
  BY <1>1, <1>2, <1>3, <1>4 DEF Below, SetOf

\* The first attempt of a batch that arrives: it continues the order.
LEMMA FirstAttempt ==
    ASSUME NEW s \in Seq(Events), NEW b \in Seq(Events), Increasing(b),
           Below(SetOf(s), SetOf(b)), HasFirst(s), NoneOvertaken(s)
    PROVE  HasFirst(s \o b) /\ NoneOvertaken(s \o b)
<1> DEFINE t == s \o b
           n == Len(s)
<1>1. /\ n \in Nat /\ Len(b) \in Nat
      /\ DOMAIN s = 1 .. n /\ DOMAIN b = 1 .. Len(b)
      /\ DOMAIN t = 1 .. n + Len(b)
      /\ \A i \in DOMAIN s : t[i] = s[i]
      /\ \A i \in DOMAIN b : t[n + i] = b[i]
      /\ SetOf(t) = SetOf(s) \cup SetOf(b)
  BY SetOfConcat
<1>0. /\ \A i \in DOMAIN s : s[i] \in SetOf(s) /\ s[i] \in Int
      /\ \A i \in DOMAIN b : b[i] \in SetOf(b) /\ b[i] \in Int
  <2>1. \A e \in Events : e \in Int
    BY GoSenderAssumption DEF Events
  <2> QED
    BY <2>1 DEF SetOf
<1>2. \A i \in DOMAIN s : t[i] = s[i] /\ t[i] \in SetOf(s) /\ t[i] \in Int
  BY <1>0, <1>1
<1>3. \A i \in n + 1 .. n + Len(b) :
          i - n \in DOMAIN b /\ t[i] = b[i - n] /\ t[i] \in SetOf(b) /\ t[i] \in Int
  <2>1. TAKE i \in n + 1 .. n + Len(b)
  <2>2. i - n \in DOMAIN b /\ n + (i - n) = i
    BY <1>1
  <2>3. t[i] = b[i - n]
    BY <1>1, <2>2
  <2> QED
    BY <1>0, <2>2, <2>3
<1> HIDE DEF t, n
<1>4. HasFirst(t)
  <2> SUFFICES ASSUME NEW e \in SetOf(t)
               PROVE  \E i \in DOMAIN t : t[i] = e /\ \A j \in 1 .. i - 1 : t[j] # e
    BY DEF HasFirst
  <2>1. CASE e \in SetOf(s)
    <3>1. PICK i \in DOMAIN s : s[i] = e /\ \A j \in 1 .. i - 1 : s[j] # e
      BY <2>1 DEF HasFirst
    <3>2. i \in DOMAIN t /\ t[i] = e
      BY <1>1, <3>1
    <3>3. \A j \in 1 .. i - 1 : t[j] # e
      BY <1>1, <3>1
    <3> QED
      BY <3>2, <3>3
  <2>2. CASE e \notin SetOf(s)
    <3>1. PICK k \in DOMAIN b : b[k] = e
      BY <1>1, <2>2 DEF SetOf
    <3>2. n + k \in DOMAIN t /\ t[n + k] = e
      BY <1>1, <3>1
    <3>3. ASSUME NEW j \in 1 .. (n + k) - 1 PROVE t[j] # e
      <4>1. CASE j \in DOMAIN s
        BY <1>2, <2>2, <4>1
      <4>2. CASE j \notin DOMAIN s
        <5>1. j \in n + 1 .. n + Len(b) /\ j - n < k
          BY <1>1, <3>1, <4>2
        <5>2. b[j - n] < b[k] /\ t[j] = b[j - n] /\ t[j] \in Int
          BY <1>3, <3>1, <5>1 DEF Increasing
        <5> QED
          BY <3>1, <5>2
      <4> QED
        BY <4>1, <4>2
    <3> QED
      BY <3>2, <3>3
  <2> QED
    BY <2>1, <2>2
<1>5. NoneOvertaken(t)
  <2> SUFFICES ASSUME NEW j \in DOMAIN t, NEW k \in DOMAIN t, t[k] < t[j]
               PROVE  \E i \in 1 .. j - 1 : t[i] = t[k]
    BY DEF NoneOvertaken
  <2>1. CASE k < j
    BY <1>1, <2>1
  <2>2. CASE ~(k < j)
    <3>1. CASE k \in DOMAIN s
      <4>1. j \in DOMAIN s
        BY <1>1, <2>2, <3>1
      <4>2. PICK i \in 1 .. j - 1 : s[i] = s[k]
        BY <1>2, <3>1, <4>1 DEF NoneOvertaken
      <4>3. t[i] = t[k]
        BY <1>1, <3>1, <4>1, <4>2
      <4> QED
        BY <4>3
    <3>2. CASE k \notin DOMAIN s
      <4>1. k \in n + 1 .. n + Len(b)
        BY <1>1, <3>2
      <4>2. CASE j \in DOMAIN s
        BY <1>2, <1>3, <4>1, <4>2 DEF Below
      <4>3. CASE j \notin DOMAIN s
        <5>1. j \in n + 1 .. n + Len(b)
          BY <1>1, <4>3
        <5>2. /\ t[k] = b[k - n] /\ t[j] = b[j - n] /\ t[k] \in Int /\ t[j] \in Int
              /\ k - n \in DOMAIN b /\ j - n \in DOMAIN b
          BY <1>3, <4>1, <5>1
        <5>3. j = k \/ b[j - n] < b[k - n]
          BY <1>1, <2>2, <5>2 DEF Increasing
        <5> QED
          BY <5>2, <5>3
      <4> QED
        BY <4>2, <4>3
    <3> QED
      BY <3>1, <3>2
  <2> QED
    BY <2>1, <2>2
<1> QED
  BY <1>4, <1>5 DEF t

\* A repeated attempt: all of the batch had arrived.
LEMMA RepeatedAttempt ==
    ASSUME NEW s \in Seq(Events), NEW b \in Seq(Events),
           SetOf(b) \subseteq SetOf(s), HasFirst(s), NoneOvertaken(s)
    PROVE  HasFirst(s \o b) /\ NoneOvertaken(s \o b)
<1> DEFINE t == s \o b
           n == Len(s)
<1>1. /\ n \in Nat /\ Len(b) \in Nat
      /\ DOMAIN s = 1 .. n /\ DOMAIN t = 1 .. n + Len(b)
      /\ \A i \in DOMAIN s : t[i] = s[i]
      /\ SetOf(t) = SetOf(s)
  <2>1. SetOf(t) = SetOf(s) \cup SetOf(b)
    BY SetOfConcat
  <2>2. /\ n \in Nat /\ Len(b) \in Nat
        /\ DOMAIN s = 1 .. n /\ DOMAIN t = 1 .. n + Len(b)
        /\ \A i \in DOMAIN s : t[i] = s[i]
    BY SetOfConcat
  <2> QED
    BY <2>1, <2>2
<1>2. \A k \in DOMAIN t : t[k] \in SetOf(s)
  BY <1>1 DEF SetOf
<1> HIDE DEF t, n
<1>3. HasFirst(t)
  <2> SUFFICES ASSUME NEW e \in SetOf(s)
               PROVE  \E i \in DOMAIN t : t[i] = e /\ \A j \in 1 .. i - 1 : t[j] # e
    BY <1>1 DEF HasFirst
  <2>1. PICK i \in DOMAIN s : s[i] = e /\ \A j \in 1 .. i - 1 : s[j] # e
    BY DEF HasFirst
  <2>2. i \in DOMAIN t /\ t[i] = e /\ \A j \in 1 .. i - 1 : t[j] # e
    BY <1>1, <2>1
  <2> QED
    BY <2>2
<1>4. NoneOvertaken(t)
  <2> SUFFICES ASSUME NEW j \in DOMAIN t, NEW k \in DOMAIN t, t[k] < t[j]
               PROVE  \E i \in 1 .. j - 1 : t[i] = t[k]
    BY DEF NoneOvertaken
  <2>1. PICK m \in DOMAIN s : s[m] = t[k]
    BY <1>2 DEF SetOf
  <2>2. CASE j \in DOMAIN s
    <3>1. s[m] < s[j]
      BY <1>1, <2>1, <2>2
    <3>2. PICK i \in 1 .. j - 1 : s[i] = s[m]
      BY <2>2, <3>1 DEF NoneOvertaken
    <3>3. t[i] = t[k]
      BY <1>1, <2>1, <2>2, <3>2
    <3> QED
      BY <3>3
  <2>3. CASE j \notin DOMAIN s
    BY <1>1, <2>1, <2>3
  <2> QED
    BY <2>2, <2>3
<1> QED
  BY <1>3, <1>4 DEF t

\* The property is what the invariant says of the endpoint.
LEMMA OrderImplies ==
    ASSUME received \in Seq(Events), HasFirst(received), NoneOvertaken(received)
    PROVE  ReceivedInOrder
<1> SUFFICES ASSUME NEW d \in SetOf(received), NEW e \in SetOf(received), d < e
             PROVE  FirstOccurrence(d) < FirstOccurrence(e)
  BY DEF ReceivedInOrder
<1>1. DOMAIN received = 1 .. Len(received) /\ Len(received) \in Nat
  OBVIOUS
<1>2. ASSUME NEW x \in SetOf(received)
      PROVE  /\ FirstOccurrence(x) \in DOMAIN received
             /\ received[FirstOccurrence(x)] = x
             /\ \A j \in 1 .. FirstOccurrence(x) - 1 : received[j] # x
  BY DEF HasFirst, FirstOccurrence
<1> DEFINE f == FirstOccurrence(d)
           g == FirstOccurrence(e)
<1>3. /\ f \in 1 .. Len(received) /\ g \in 1 .. Len(received)
      /\ received[f] = d /\ received[g] = e
      /\ \A j \in 1 .. f - 1 : received[j] # d
  BY <1>1, <1>2
<1> HIDE DEF f, g
<1>4. PICK i \in 1 .. g - 1 : received[i] = d
  BY <1>1, <1>3 DEF NoneOvertaken
<1>5. ~(i \in 1 .. f - 1)
  BY <1>3, <1>4
<1>6. f < g
  BY <1>1, <1>3, <1>4, <1>5
<1> QED
  BY <1>6 DEF f, g

LEMMA OrderInit == ASSUME MaxStarts = 1 PROVE Init => OrderInv
<1> SUFFICES ASSUME Init PROVE OrderInv
  OBVIOUS
<1>1. received = <<>> /\ queue = <<>> /\ run[1].batch = <<>>
  BY DEF Init, NotStarted
<1>2. SetOf(received) = {} /\ SetOf(queue) = {} /\ SetOf(run[1].batch) = {}
  BY <1>1, SetOfEmpty
<1>3. DOMAIN received = {} /\ DOMAIN queue = {} /\ DOMAIN run[1].batch = {}
  BY <1>1
<1> QED
  BY <1>2, <1>3 DEF OrderInv, Increasing, Below, HasFirst, NoneOvertaken

AllInv == AccountInv /\ OrderInv

\* A step that moves no event of a goroutine that has not begun to send.
LEMMA OrderStays ==
    ASSUME OrderInv, UNCHANGED <<enqueued, queue, received>>,
           run'[1].batch = run[1].batch,
           run[1].pc = "send" => run'[1].pc = "send"
    PROVE  OrderInv'
<1>1. SetOf(received)' = SetOf(received) /\ SetOf(queue)' = SetOf(queue)
  OBVIOUS
<1>2. SetOf(run'[1].batch) = SetOf(run[1].batch)
  OBVIOUS
<1> QED
  BY <1>1, <1>2 DEF OrderInv, Increasing, HasFirst, NoneOvertaken

LEMMA CallOrdered ==
    ASSUME MaxStarts = 1, AllInv, NEW c \in Callers,
           Enqueue(c) \/ Start(c) \/ Stop(c) \/ Shutdown(c)
    PROVE  OrderInv'
<1> USE GoSenderAssumption DEF AllInv, AccountInv, Typed
<1>1. CASE Enqueue(c)
  <2>1. /\ enqueued \in Nat /\ enqueued' = enqueued + 1 /\ queue \in Seq(Events)
        /\ enqueued' \in Events
    BY <1>1 DEF Enqueue, TypeOK, Events
  <2>2. UNCHANGED <<run, received>>
    BY <1>1 DEF Enqueue, outcomes
  <2>3. \A n \in 1 .. enqueued : n \in 1 .. enqueued' /\ n < enqueued'
    BY <2>1
  <2>4. /\ SetOf(received) \subseteq 1 .. enqueued
        /\ SetOf(queue) \subseteq 1 .. enqueued
        /\ SetOf(run[1].batch) \subseteq 1 .. enqueued
    BY InFlightOfOne DEF OrderInv, Accounted, EveryEventAccounted, Accepted
  <2>5. SetOf(received)' \subseteq 1 .. enqueued'
    BY <2>2, <2>3, <2>4
  <2>6. CASE queue' = queue
    <3>1. SetOf(queue)' = SetOf(queue) /\ SetOf(received)' = SetOf(received)
      BY <2>2, <2>6
    <3> QED
      BY <2>2, <2>5, <2>6, <3>1 DEF OrderInv, Increasing, HasFirst, NoneOvertaken
  <2>7. CASE queue' = Append(queue, enqueued')
    <3>1. SetOf(queue') = SetOf(queue) \cup {enqueued'}
      BY <2>1, <2>7, SetOfAppend
    <3>2. Below(SetOf(queue), {enqueued'})
      BY <2>3, <2>4 DEF Below
    <3>3. Increasing(queue')
      BY <2>1, <2>7, <3>2, IncreasingAppend DEF OrderInv
    <3>4. /\ Below(SetOf(run[1].batch), SetOf(queue'))
          /\ Below(SetOf(received), SetOf(queue'))
      BY <2>3, <2>4, <3>1 DEF OrderInv, Below
    <3> QED
      BY <2>2, <2>5, <3>3, <3>4 DEF OrderInv, Increasing, HasFirst, NoneOvertaken
  <2> QED
    BY <1>1, <2>6, <2>7 DEF Enqueue
<1>2. CASE Start(c) \/ Stop(c) \/ Shutdown(c)
  <2>1. UNCHANGED <<enqueued, queue, run, received>>
    BY <1>2 DEF Start, Stop, Shutdown, outcomes
  <2> QED
    BY <2>1, OrderStays
<1> QED
  BY <1>1, <1>2

LEMMA CallerOrdered ==
    ASSUME MaxStarts = 1, AllInv, StopInv, NEW c \in Callers, CallerStep(c)
    PROVE  OrderInv'
<1> USE DEF AllInv, AccountInv, Typed
<1>1. CASE StartGo(c)
  <2>1. UNCHANGED <<enqueued, queue, received>>
    BY <1>1 DEF StartGo, outcomes
  <2>2. run[1] \in Goroutine /\ run[1].pc = "none"
    <3>1. mu = c /\ c # Nobody
      BY <1>1, GoSenderAssumption DEF StartGo, StopInv, OnceInv, StartInv, InStart
    <3> QED
      BY <3>1 DEF TypeOK, StopInv, OnceInv, StartInv
  <2>3. run'[1].batch = run[1].batch
    <3>1. run'[1] = run[1] \/ run'[1] = [run[1] EXCEPT !.pc = "spawned"]
      BY <1>1 DEF StartGo, TypeOK
    <3> QED
      BY <2>2, <3>1 DEF Goroutine
  <2> QED
    BY <2>1, <2>2, <2>3, OrderStays
<1>2. CASE TriggerFlush(c) \/ StartDone(c) \/ StopReturns(c) \/ ReadFlushCh(c)
  <2>1. UNCHANGED <<enqueued, queue, run, received>>
    BY <1>2 DEF TriggerFlush, StartDone, StopReturns, ReadFlushCh, outcomes
  <2> QED
    BY <2>1, OrderStays
<1>3. CASE RequestFlush(c) \/ Cancelled(c) \/ Flushed(c) \/ ShutdownStops(c)
  <2>1. UNCHANGED <<enqueued, queue, run, received>>
    BY <1>3 DEF RequestFlush, Cancelled, Flushed, ShutdownStops, outcomes
  <2> QED
    BY <2>1, OrderStays
<1> QED
  BY <1>1, <1>2, <1>3 DEF CallerStep

\* An attempt arrives, or it does not.
LEMMA AttemptOrdered ==
    ASSUME MaxStarts = 1, AllInv, run[1].pc = "send",
           received' \in {received, received \o run[1].batch},
           UNCHANGED <<enqueued, queue>>
    PROVE  /\ SetOf(received') \subseteq 1 .. enqueued'
           /\ Below(SetOf(received'), SetOf(queue))
           /\ HasFirst(received') /\ NoneOvertaken(received')
           /\ SetOf(received) \subseteq SetOf(received')
           /\ \/ received' = received
              \/ SetOf(run[1].batch) \subseteq SetOf(received')
<1> USE DEF AllInv, AccountInv, Typed
<1>1. CASE received' = received
  BY <1>1 DEF OrderInv
<1>2. CASE received' = received \o run[1].batch
  <2>1. received \in Seq(Events) /\ run[1].batch \in Seq(Events)
    BY BatchTyped DEF TypeOK
  <2>2. SetOf(received') = SetOf(received) \cup SetOf(run[1].batch)
    BY <1>2, <2>1, SetOfConcat
  <2>3. SetOf(run[1].batch) \subseteq 1 .. enqueued
    BY InFlightOfOne DEF Accounted, EveryEventAccounted, Accepted
  <2>4. /\ SetOf(received') \subseteq 1 .. enqueued'
        /\ Below(SetOf(received'), SetOf(queue))
    BY <2>2, <2>3 DEF OrderInv, Below
  <2>5. HasFirst(received') /\ NoneOvertaken(received')
    BY <1>2, <2>1, FirstAttempt, RepeatedAttempt DEF OrderInv
  <2> QED
    BY <2>2, <2>4, <2>5
<1> QED
  BY <1>1, <1>2

\* The end of a flush: the batch is empty.
LEMMA EndOrdered ==
    ASSUME MaxStarts = 1, AllInv, NEW result, EndFlush(1, result),
           UNCHANGED <<enqueued, queue>>,
           SetOf(received') \subseteq 1 .. enqueued',
           Below(SetOf(received'), SetOf(queue)),
           HasFirst(received'), NoneOvertaken(received')
    PROVE  OrderInv'
<1>1. run'[1].batch = <<>>
  BY EndOfBatch DEF AllInv, AccountInv, Typed
<1>2. SetOf(run'[1].batch) = {} /\ Increasing(run'[1].batch)
  BY <1>1, SetOfEmpty DEF Increasing
<1>3. /\ Below(SetOf(run'[1].batch), SetOf(queue'))
      /\ Below(SetOf(received'), SetOf(run'[1].batch))
  BY <1>2 DEF Below
<1>4. Increasing(queue') /\ Below(SetOf(received'), SetOf(queue'))
  BY DEF AllInv, OrderInv
<1> QED
  BY <1>2, <1>3, <1>4 DEF OrderInv, HasFirst, NoneOvertaken, Increasing

LEMMA FlushOrdered ==
    ASSUME MaxStarts = 1, AllInv, FlushStep(1)
    PROVE  OrderInv'
<1> USE DEF AllInv, AccountInv, Typed
<1>g. /\ run[1] \in Goroutine /\ run[1].batch \in Seq(Events)
      /\ run \in [1 .. 1 -> Goroutine]
      /\ queue \in Seq(Events) /\ received \in Seq(Events)
  BY BatchTyped DEF TypeOK
<1>1. CASE Begin(1)
  <2>1. /\ run'[1] = [run[1] EXCEPT !.pc = "loop", !.done = field.done]
        /\ run[1].pc = "spawned" /\ UNCHANGED <<enqueued, queue, received>>
    BY <1>1, <1>g DEF Begin, hostVars, outcomes
  <2> QED
    BY <1>g, <2>1, OrderStays DEF Goroutine
<1>2. CASE ReadStopCh(1)
  <2>1. /\ run'[1] = [run[1] EXCEPT !.pc = "select0", !.stop = field.stop]
        /\ run[1].pc = "loop" /\ UNCHANGED <<enqueued, queue, received>>
    BY <1>2, <1>g DEF ReadStopCh, hostVars, outcomes
  <2> QED
    BY <1>g, <2>1, OrderStays DEF Goroutine
<1>3. CASE Select(1)
  <2>1. /\ run'[1] = [run[1] EXCEPT !.pc = "select", !.flush = field.flush]
        /\ run[1].pc = "select0" /\ UNCHANGED <<enqueued, queue, received>>
    BY <1>3, <1>g DEF Select, hostVars, outcomes
  <2> QED
    BY <1>g, <2>1, OrderStays DEF Goroutine
<1>4. CASE Stopped(1) \/ Ticked(1) \/ Asked(1)
  <2>1. PICK why : Drain(1, why)
    BY <1>4 DEF Stopped, Ticked, Asked
  <2>2. /\ run'[1] = [run[1] EXCEPT !.pc = "drain", !.why = why]
        /\ run[1].pc = "select" /\ UNCHANGED <<enqueued, queue, received>>
    BY <2>1, <1>g DEF Drain, hostVars, outcomes
  <2> QED
    BY <1>g, <2>2, OrderStays DEF Goroutine
<1>5. CASE TakeEvent(1)
  <2>1. /\ run[1].pc = "drain" /\ queue # <<>> /\ queue' = Tail(queue)
        /\ run'[1] = [run[1] EXCEPT !.batch = Append(@, Head(queue))]
        /\ UNCHANGED <<enqueued, received>>
    BY <1>5, <1>g DEF TakeEvent, hostVars, outcomes
  <2>2. run'[1].batch = Append(run[1].batch, Head(queue))
    BY <1>g, <2>1 DEF Goroutine
  <2>3. /\ Head(queue) \in Events
        /\ SetOf(queue) = {Head(queue)} \cup SetOf(queue')
    BY <1>g, <2>1, SetOfTail
  <2>4. /\ Increasing(queue')
        /\ Below({Head(queue)}, SetOf(queue'))
    BY <1>g, <2>1, IncreasingTail DEF OrderInv
  <2>5. Below(SetOf(run[1].batch), {Head(queue)})
    BY <2>3 DEF OrderInv, Below
  <2>6. Increasing(run'[1].batch)
    BY <1>g, <2>2, <2>3, <2>5, IncreasingAppend DEF OrderInv
  <2>7. SetOf(run'[1].batch) = SetOf(run[1].batch) \cup {Head(queue)}
    BY <1>g, <2>2, <2>3, SetOfAppend
  <2>8. Below(SetOf(run'[1].batch), SetOf(queue'))
    BY <2>3, <2>4, <2>7 DEF OrderInv, Below
  <2>9. /\ Below(SetOf(received), SetOf(queue'))
        /\ Below(SetOf(received), SetOf(run'[1].batch))
    BY <2>1, <2>3, <2>7 DEF OrderInv, Below
  <2> QED
    BY <2>1, <2>4, <2>6, <2>8, <2>9 DEF OrderInv, HasFirst, NoneOvertaken, Increasing
<1>6. CASE BeginSend(1)
  <2>1. /\ run'[1] = [run[1] EXCEPT !.pc = "send", !.tries = 0]
        /\ UNCHANGED <<enqueued, queue, received>>
    BY <1>6, <1>g DEF BeginSend, hostVars, outcomes
  <2> QED
    BY <1>g, <2>1, OrderStays DEF Goroutine
<1>7. CASE NothingToSend(1)
  <2>1. EndFlush(1, "nil") /\ UNCHANGED <<enqueued, queue, received>>
    BY <1>7 DEF NothingToSend, hostVars, outcomes
  <2> QED
    BY <2>1, EndOrdered DEF OrderInv
<1>8. CASE Sent(1)
  <2>1. /\ run[1].pc = "send" /\ received' = received \o run[1].batch
        /\ EndFlush(1, "nil") /\ UNCHANGED <<enqueued, queue>>
    BY <1>8 DEF Sent, hostVars
  <2> QED
    BY <2>1, AttemptOrdered, EndOrdered
<1>9. CASE SendFails(1)
  <2>1. /\ run[1].pc = "send"
        /\ received' \in {received, received \o run[1].batch}
        /\ UNCHANGED <<enqueued, queue>>
    BY <1>9 DEF SendFails, BatchFails, hostVars
  <2>2. CASE BatchFails(1)
    <3>1. EndFlush(1, "error")
      BY <2>2 DEF BatchFails
    <3> QED
      BY <2>1, <3>1, AttemptOrdered, EndOrdered
  <2>3. CASE ~BatchFails(1)
    <3>1. run'[1] = [run[1] EXCEPT !.tries = @ + 1]
      BY <1>9, <1>g, <2>3 DEF SendFails
    <3>2. run'[1].batch = run[1].batch /\ run'[1].pc = "send"
      BY <1>g, <2>1, <3>1 DEF Goroutine
    <3>3. /\ SetOf(received') \subseteq 1 .. enqueued'
          /\ Below(SetOf(received'), SetOf(queue))
          /\ HasFirst(received') /\ NoneOvertaken(received')
          /\ SetOf(received) \subseteq SetOf(received')
          /\ \/ received' = received
             \/ SetOf(run[1].batch) \subseteq SetOf(received')
      BY <2>1, AttemptOrdered
    <3>4. \/ Below(SetOf(received'), SetOf(run'[1].batch))
          \/ SetOf(run'[1].batch) \subseteq SetOf(received')
      BY <3>2, <3>3 DEF OrderInv
    <3>5. /\ Increasing(queue') /\ Increasing(run'[1].batch)
          /\ Below(SetOf(run'[1].batch), SetOf(queue'))
      BY <2>1, <3>2 DEF OrderInv
    <3> QED
      BY <2>1, <3>2, <3>3, <3>4, <3>5
         DEF OrderInv, HasFirst, NoneOvertaken, Increasing
  <2> QED
    BY <2>2, <2>3
<1>10. CASE Rejected(1)
  <2>1. EndFlush(1, "error") /\ UNCHANGED <<enqueued, queue, received>>
    BY <1>10 DEF Rejected, BatchFails, hostVars
  <2> QED
    BY <2>1, EndOrdered DEF OrderInv
<1> QED
  BY <1>1, <1>2, <1>3, <1>4, <1>5, <1>6, <1>7, <1>8, <1>9, <1>10 DEF FlushStep

LEMMA OrderInvariance == ASSUME MaxStarts = 1 PROVE Spec => []OrderInv
<1>1. Init => OrderInv
  BY OrderInit
<1>2. AccountInv /\ StopInv /\ OrderInv /\ [Next]_vars => OrderInv'
  <2> SUFFICES ASSUME AccountInv, StopInv, OrderInv, [Next]_vars PROVE OrderInv'
    OBVIOUS
  <2>1. CASE UNCHANGED vars
    <3>1. UNCHANGED <<enqueued, queue, run, received>>
      BY <2>1 DEF vars
    <3> QED
      BY <3>1, OrderStays
  <2>2. CASE Next
    <3>1. \A r \in 1 .. MaxStarts : r = 1
      OBVIOUS
    <3> QED
      BY <2>2, <3>1, CallOrdered, CallerOrdered, FlushOrdered DEF Next, AllInv
  <2> QED
    BY <2>1, <2>2
<1> QED
  BY <1>1, <1>2, AccountInvariance, StopInvariance, PTL DEF Spec

\* A sender that is started once: whatever fails, is retried or arrives twice,
\* an event that reaches the endpoint for the first time before another was
\* enqueued before it.
THEOREM ArrivesInOrder == ASSUME MaxStarts = 1 PROVE Spec => []ReceivedInOrder
<1>1. Typed /\ OrderInv => ReceivedInOrder
  BY OrderImplies DEF Typed, TypeOK, OrderInv
<1> QED
  BY <1>1, TypedInvariance, OrderInvariance, PTL
=============================================================================
