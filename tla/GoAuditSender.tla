---------------------------- MODULE GoAuditSender ----------------------------
(***************************************************************************)
(* go/kswitch/audit/sender.go: an AuditSender object, the flush goroutine  *)
(* of each Start, and the host goroutines that call Start, Stop, Shutdown  *)
(* and Enqueue, "safe for concurrent use".                                 *)
(*                                                                         *)
(* Start makes new stopCh, doneCh and flushCh: a channel is named by the   *)
(* number of the Start that made it (0: NewAuditSender), and the object's  *)
(* three fields hold such numbers.  Start writes them one by one, under    *)
(* mu; the flush goroutine, Enqueue and Shutdown read them without mu.     *)
(* Events are numbered in the order Enqueue is called.                     *)
(***************************************************************************)
EXTENDS Integers, Sequences, FiniteSets

CONSTANTS
    Producers,   \* the host goroutines that call Enqueue
    Starters,    \* those that call Start
    Stoppers,    \* those that call Stop
    Closers,     \* those that call Shutdown
    Deadline,    \* Shutdown's context may be cancelled
    QueueMax,    \* queueMaxSize
    BatchSize,   \* SenderConfig.BatchSize
    MaxRetries,  \* SenderConfig.MaxRetries
    MaxEvents,   \* bound: calls of Enqueue
    MaxStarts,   \* bound: effective calls of Start
    Nobody       \* no caller

Callers == Producers \cup Starters \cup Stoppers \cup Closers

ASSUME GoSenderAssumption ==
    /\ Deadline \in BOOLEAN
    /\ QueueMax \in Nat \ {0} /\ BatchSize \in Nat \ {0}
    /\ MaxRetries \in Nat /\ MaxEvents \in Nat /\ MaxStarts \in Nat
    /\ Callers \cap {Nobody, "empty", "trigger", "tick", "stop"} = {}

VARIABLES
    mu,         \* the caller inside Start's critical section
    running,    \* s.running
    field,      \* the numbers of s.stopCh, s.doneCh and s.flushCh
    stopClosed, \* the stopCh closed so far
    doneClosed, \* the doneCh closed so far
    flushCh,    \* what is in the one-place buffer of each flushCh
    queue,      \* s.queue
    run,        \* the flush goroutines, by the number of their Start
    pc,         \* where each caller is
    chan,       \* the channel a waiting caller waits on
    answer,     \* what the caller's Shutdown has got
    enqueued,   \* how many calls of Enqueue there were
    received,   \* what the ingest endpoint has received, in order
    sent,       \* the events s.sendCount counts
    failed,     \* the events of the batches s.failCount counts
    dropped,    \* the events s.dropCount counts
    panicked    \* the process is gone

objectVars == <<mu, running, field, stopClosed>>
callerVars == <<pc, chan>>
outcomes   == <<received, sent, failed>>
vars == <<mu, running, field, stopClosed, doneClosed, flushCh, queue, run, pc,
          chan, answer, enqueued, received, sent, failed, dropped, panicked>>

Events == 1 .. MaxEvents
Starts == 0 .. MaxStarts

Empty   == "empty"      \* nothing in the buffer of a flushCh
Trigger == "trigger"    \* a nil respCh: "fire-and-forget"

\* What a flush is for: a respCh to answer, a trigger, the ticker, stopCh.
Reasons == Callers \cup {Trigger, "tick", "stop"}

Goroutine == [pc    : {"none", "spawned", "loop", "select0", "select",
                       "drain", "send", "exited"},
              stop  : Starts,         \* the channels its select waits on
              flush : Starts,
              done  : Starts,         \* the channel its defer closes
              why   : Reasons,
              batch : Seq(Events),
              tries : Nat]

NotStarted == [pc |-> "none", stop |-> 0, flush |-> 0, done |-> 0,
               why |-> "tick", batch |-> <<>>, tries |-> 0]

CallerPCs == {"idle", "trigger", "start2", "start3", "ask", "offer", "await",
              "stop", "waitDone"}

SetOf(s) == {s[i] : i \in DOMAIN s}

TypeOK ==
    /\ mu \in Callers \cup {Nobody}
    /\ running \in BOOLEAN
    /\ field \in [{"stop", "done", "flush"} -> Starts]
    /\ stopClosed \subseteq Starts /\ doneClosed \subseteq Starts
    /\ flushCh \in [Starts -> Closers \cup {Empty, Trigger}]
    /\ queue \in Seq(Events) /\ Len(queue) <= QueueMax
    /\ run \in [1 .. MaxStarts -> Goroutine]
    /\ \A r \in 1 .. MaxStarts : /\ Len(run[r].batch) <= BatchSize
                                 /\ run[r].tries <= MaxRetries
    /\ pc \in [Callers -> CallerPCs]
    /\ chan \in [Callers -> Starts]
    /\ answer \in [Closers -> {"none", "pending", "nil", "error", "cancelled"}]
    /\ enqueued \in 0 .. MaxEvents
    /\ received \in Seq(Events)
    /\ sent \subseteq Events /\ failed \subseteq Events
    /\ dropped \subseteq Events
    /\ panicked \in BOOLEAN

\* NewAuditSender.
Init ==
    /\ mu = Nobody
    /\ running = FALSE
    /\ field = [f \in {"stop", "done", "flush"} |-> 0]
    /\ stopClosed = {} /\ doneClosed = {}
    /\ flushCh = [n \in Starts |-> Empty]
    /\ queue = <<>>
    /\ run = [r \in 1 .. MaxStarts |-> NotStarted]
    /\ pc = [c \in Callers |-> "idle"]
    /\ chan = [c \in Callers |-> 0]
    /\ answer = [c \in Closers |-> "none"]
    /\ enqueued = 0
    /\ received = <<>>
    /\ sent = {} /\ failed = {} /\ dropped = {}
    /\ panicked = FALSE

Goto(c, label) == pc' = [pc EXCEPT ![c] = label]

-----------------------------------------------------------------------------
(* Enqueue: it never blocks.                                               *)

Enqueue(c) ==
    /\ c \in Producers /\ pc[c] = "idle"
    /\ enqueued < MaxEvents
    /\ enqueued' = enqueued + 1
    /\ \/ /\ Len(queue) < QueueMax
          /\ queue' = Append(queue, enqueued')
          /\ Goto(c, "trigger")
          /\ UNCHANGED dropped
       \/ /\ Len(queue) = QueueMax
          /\ dropped' = dropped \cup {enqueued'}
          /\ UNCHANGED <<queue, pc>>
    /\ UNCHANGED <<objectVars, doneClosed, flushCh, run, chan, answer, outcomes, panicked>>

\* The size test, after the send, and the attempt to wake the goroutine.
TriggerFlush(c) ==
    /\ pc[c] = "trigger"
    /\ Goto(c, "idle")
    /\ flushCh' = IF Len(queue) >= BatchSize /\ flushCh[field.flush] = Empty
                  THEN [flushCh EXCEPT ![field.flush] = Trigger]
                  ELSE flushCh
    /\ UNCHANGED <<objectVars, doneClosed, queue, run, chan, answer, enqueued, outcomes, dropped, panicked>>

-----------------------------------------------------------------------------
(* Start: three writes and a `go` under mu.  On a running sender it does   *)
(* nothing.                                                                *)

Start(c) ==
    /\ c \in Starters /\ pc[c] = "idle"
    /\ mu = Nobody /\ ~running /\ field.stop < MaxStarts
    /\ mu' = c
    /\ running' = TRUE
    /\ field' = [field EXCEPT !.stop = @ + 1]
    /\ Goto(c, "start2")
    /\ UNCHANGED <<stopClosed, doneClosed, flushCh, queue, run, chan, answer,
                   enqueued, outcomes, dropped, panicked>>

StartDone(c) ==
    /\ pc[c] = "start2"
    /\ field' = [field EXCEPT !.done = field.stop]
    /\ Goto(c, "start3")
    /\ UNCHANGED <<mu, running, stopClosed, doneClosed, flushCh, queue, run,
                   chan, answer, enqueued, outcomes, dropped, panicked>>

StartGo(c) ==
    /\ pc[c] = "start3"
    /\ field' = [field EXCEPT !.flush = field.stop]
    /\ run' = [run EXCEPT ![field.stop].pc = "spawned"]
    /\ mu' = Nobody
    /\ Goto(c, "idle")
    /\ UNCHANGED <<running, stopClosed, doneClosed, flushCh, queue, chan,
                   answer, enqueued, outcomes, dropped, panicked>>

-----------------------------------------------------------------------------
(* Stop, and Shutdown, which ends with it.                                 *)

\* Mutant: Stop does not wait.
SignalStopOnly(c) ==
    /\ mu = Nobody /\ running
    /\ running' = FALSE
    /\ stopClosed' = stopClosed \cup {field.stop}
    /\ Goto(c, "idle")
    /\ UNCHANGED <<chan, panicked>>

\* The critical section of Stop, on a running sender.
SignalStop(c) ==
    /\ mu = Nobody /\ running
    /\ running' = FALSE
    /\ stopClosed' = stopClosed \cup {field.stop}
    /\ panicked' = (field.stop \in stopClosed)
    /\ chan' = [chan EXCEPT ![c] = field.done]
    /\ Goto(c, "waitDone")

Stop(c) ==
    /\ c \in Stoppers /\ pc[c] = "idle"
    /\ SignalStop(c)
    /\ UNCHANGED <<mu, field, doneClosed, flushCh, queue, run, answer, enqueued, outcomes, dropped>>

StopReturns(c) ==
    /\ pc[c] = "waitDone"
    /\ chan[c] \in doneClosed
    /\ Goto(c, "idle")
    /\ UNCHANGED <<objectVars, doneClosed, flushCh, queue, run, chan, answer,
                   enqueued, outcomes, dropped, panicked>>

\* One Shutdown per caller, on a running sender: on another it does nothing.
Shutdown(c) ==
    /\ c \in Closers /\ pc[c] = "idle" /\ answer[c] = "none"
    /\ mu = Nobody /\ running
    /\ answer' = [answer EXCEPT ![c] = "pending"]
    /\ Goto(c, "ask")
    /\ UNCHANGED <<objectVars, doneClosed, flushCh, queue, run, chan, enqueued,
                   outcomes, dropped, panicked>>

\* The first select reads s.flushCh once and blocks on the channel it read.
ReadFlushCh(c) ==
    /\ pc[c] = "ask"
    /\ chan' = [chan EXCEPT ![c] = field.flush]
    /\ Goto(c, "offer")
    /\ UNCHANGED <<objectVars, doneClosed, flushCh, queue, run, answer, enqueued, outcomes, dropped, panicked>>

RequestFlush(c) ==
    /\ pc[c] = "offer"
    /\ flushCh[chan[c]] = Empty
    /\ flushCh' = [flushCh EXCEPT ![chan[c]] = c]
    /\ Goto(c, "await")
    /\ UNCHANGED <<objectVars, doneClosed, queue, run, chan, answer, enqueued, outcomes, dropped, panicked>>

\* ctx.Done() in either select.
Cancelled(c) ==
    /\ Deadline
    /\ pc[c] \in {"offer", "await"}
    /\ answer' = [answer EXCEPT ![c] = "cancelled"]
    /\ Goto(c, "stop")
    /\ UNCHANGED <<objectVars, doneClosed, flushCh, queue, run, chan, enqueued, outcomes, dropped, panicked>>

\* The respCh has the result of the flush.
Flushed(c) ==
    /\ pc[c] = "await"
    /\ answer[c] \in {"nil", "error"}
    /\ Goto(c, "stop")
    /\ UNCHANGED <<objectVars, doneClosed, flushCh, queue, run, chan, answer,
                   enqueued, outcomes, dropped, panicked>>

ShutdownStops(c) ==
    /\ pc[c] = "stop"
    /\ \/ SignalStop(c)
       \/ /\ mu = Nobody /\ ~running
          /\ Goto(c, "idle")
          /\ UNCHANGED <<running, stopClosed, chan, panicked>>
    /\ UNCHANGED <<mu, field, doneClosed, flushCh, queue, run, answer, enqueued, outcomes, dropped>>

-----------------------------------------------------------------------------
(* The flush goroutine.  Its defer reads s.doneCh when it first runs; each *)
(* turn of its loop reads s.stopCh and then s.flushCh, and the select      *)
(* waits on the channels read.                                             *)

hostVars == <<mu, running, field, stopClosed, pc, chan, enqueued, dropped>>

Begin(r) ==
    /\ run[r].pc = "spawned"
    /\ run' = [run EXCEPT ![r].pc = "loop", ![r].done = field.done]
    /\ UNCHANGED <<hostVars, doneClosed, flushCh, queue, answer, outcomes, panicked>>

ReadStopCh(r) ==
    /\ run[r].pc = "loop"
    /\ run' = [run EXCEPT ![r].pc = "select0", ![r].stop = field.stop]
    /\ UNCHANGED <<hostVars, doneClosed, flushCh, queue, answer, outcomes, panicked>>

Select(r) ==
    /\ run[r].pc = "select0"
    /\ run' = [run EXCEPT ![r].pc = "select", ![r].flush = field.flush]
    /\ UNCHANGED <<hostVars, doneClosed, flushCh, queue, answer, outcomes, panicked>>

Drain(r, why) ==
    /\ run[r].pc = "select"
    /\ run' = [run EXCEPT ![r].pc = "drain", ![r].why = why]
    /\ UNCHANGED <<hostVars, doneClosed, queue, answer, outcomes, panicked>>

Stopped(r) ==
    /\ run[r].stop \in stopClosed
    /\ Drain(r, "stop")
    /\ UNCHANGED flushCh

\* Mutant: the goroutine wakes up for requests only.
NeverTicked(r) == FALSE

Ticked(r) ==
    /\ Drain(r, "tick")
    /\ UNCHANGED flushCh

Asked(r) ==
    /\ flushCh[run[r].flush] # Empty
    /\ Drain(r, flushCh[run[r].flush])
    /\ flushCh' = [flushCh EXCEPT ![run[r].flush] = Empty]

\* Mutant: the event that finds the batch full is taken all the same.
TakeOneTooMany(r) ==
    /\ run[r].pc = "drain"
    /\ queue # <<>> /\ Len(run[r].batch) <= BatchSize
    /\ run' = IF Len(run[r].batch) < BatchSize
              THEN [run EXCEPT ![r].batch = Append(@, Head(queue))]
              ELSE [run EXCEPT ![r].pc = "send", ![r].tries = 0]
    /\ queue' = Tail(queue)
    /\ UNCHANGED <<hostVars, doneClosed, flushCh, answer, outcomes, panicked>>

\* drainAndFlush takes events one at a time, up to a batch.
TakeEvent(r) ==
    /\ run[r].pc = "drain"
    /\ queue # <<>> /\ Len(run[r].batch) < BatchSize
    /\ run' = [run EXCEPT ![r].batch = Append(@, Head(queue))]
    /\ queue' = Tail(queue)
    /\ UNCHANGED <<hostVars, doneClosed, flushCh, answer, outcomes, panicked>>

BeginSend(r) ==
    /\ run[r].pc = "drain"
    /\ run[r].batch # <<>>
    /\ queue = <<>> \/ Len(run[r].batch) = BatchSize
    /\ run' = [run EXCEPT ![r].pc = "send", ![r].tries = 0]
    /\ UNCHANGED <<hostVars, doneClosed, flushCh, queue, answer, outcomes, panicked>>

\* Mutant: the goroutine returns and leaves doneCh open.
EndFlushSilently(r, result) ==
    /\ run' = [run EXCEPT ![r].pc = IF run[r].why = "stop" THEN "exited" ELSE "loop",
                          ![r].batch = <<>>, ![r].tries = 0]
    /\ answer' = IF run[r].why \in Closers /\ answer[run[r].why] = "pending"
                 THEN [answer EXCEPT ![run[r].why] = result] ELSE answer
    /\ UNCHANGED <<doneClosed, panicked>>

\* The flush is over: answer a respCh, and loop; or, stopped, return, which
\* runs the deferred close(doneCh).
EndFlush(r, result) ==
    LET f == run[r]
        stops == f.why = "stop"
    IN /\ run' = [run EXCEPT ![r].pc = IF stops THEN "exited" ELSE "loop",
                             ![r].batch = <<>>, ![r].tries = 0]
       /\ doneClosed' = IF stops THEN doneClosed \cup {f.done} ELSE doneClosed
       /\ panicked' = (stops /\ f.done \in doneClosed)
       /\ answer' = IF f.why \in Closers /\ answer[f.why] = "pending"
                    THEN [answer EXCEPT ![f.why] = result] ELSE answer

NothingToSend(r) ==
    /\ run[r].pc = "drain"
    /\ queue = <<>> /\ run[r].batch = <<>>
    /\ EndFlush(r, "nil")
    /\ UNCHANGED <<hostVars, flushCh, queue, outcomes>>

\* POST, answered 2xx.
Sent(r) ==
    /\ run[r].pc = "send"
    /\ received' = received \o run[r].batch
    /\ sent' = sent \cup SetOf(run[r].batch)
    /\ EndFlush(r, "nil")
    /\ UNCHANGED <<hostVars, flushCh, queue, failed>>

BatchFails(r) ==
    /\ failed' = failed \cup SetOf(run[r].batch)
    /\ EndFlush(r, "error")
    /\ UNCHANGED <<hostVars, flushCh, queue, sent>>

\* Mutant: the batch that failed goes back to the end of the queue.
SendRequeues(r) ==
    /\ run[r].pc = "send"
    /\ queue' = queue \o run[r].batch
    /\ EndFlush(r, "error")
    /\ UNCHANGED <<hostVars, flushCh, outcomes>>

\* Mutant: one retry more than configured.
SendFailsOnceMore(r) ==
    /\ run[r].pc = "send" /\ run[r].tries <= MaxRetries
    /\ received' \in {received, received \o run[r].batch}
    /\ run' = [run EXCEPT ![r].tries = @ + 1]
    /\ UNCHANGED <<hostVars, doneClosed, flushCh, queue, answer, sent, failed,
                   panicked>>

\* No answer, 5xx or 429: the endpoint may or may not have the batch.
SendFails(r) ==
    /\ run[r].pc = "send"
    /\ received' \in {received, received \o run[r].batch}
    /\ \/ /\ run[r].tries < MaxRetries
          /\ run' = [run EXCEPT ![r].tries = @ + 1]
          /\ UNCHANGED <<hostVars, doneClosed, flushCh, queue, answer, sent,
                         failed, panicked>>
       \/ /\ run[r].tries = MaxRetries
          /\ BatchFails(r)

\* Another status, or events that do not marshal: no retry.
Rejected(r) ==
    /\ run[r].pc = "send"
    /\ BatchFails(r)
    /\ UNCHANGED received

-----------------------------------------------------------------------------
CallerStep(c) ==
    \/ TriggerFlush(c)
    \/ StartDone(c)
    \/ StartGo(c)
    \/ StopReturns(c)
    \/ ReadFlushCh(c)
    \/ RequestFlush(c)
    \/ Cancelled(c)
    \/ Flushed(c)
    \/ ShutdownStops(c)

FlushStep(r) ==
    \/ Begin(r)
    \/ ReadStopCh(r)
    \/ Select(r)
    \/ Stopped(r)
    \/ Ticked(r)
    \/ Asked(r)
    \/ TakeEvent(r)
    \/ BeginSend(r)
    \/ NothingToSend(r)
    \/ Sent(r)
    \/ SendFails(r)
    \/ Rejected(r)

Next ==
    /\ ~panicked
    /\ \/ \E c \in Callers :
             Enqueue(c) \/ Start(c) \/ Stop(c) \/ Shutdown(c) \/ CallerStep(c)
       \/ \E r \in 1 .. MaxStarts : FlushStep(r)

Spec == Init /\ [][Next]_vars

\* Goroutines that can run do.  A select that stays ready on one channel is
\* taken on it in the end, although other channels are ready too.  A POST need
\* not end: http.DefaultClient has no timeout, and the flush's context is
\* context.Background().
FairSpec ==
    /\ Spec
    /\ \A c \in Callers : WF_vars(~panicked /\ CallerStep(c))
    /\ \A r \in 1 .. MaxStarts :
          /\ WF_vars(~panicked /\ run[r].pc # "send" /\ FlushStep(r))
          /\ SF_vars(~panicked /\ Stopped(r))
          /\ SF_vars(~panicked /\ Asked(r))

-----------------------------------------------------------------------------
Accepted == (1 .. enqueued) \ dropped

InFlight == UNION {SetOf(run[r].batch) : r \in 1 .. MaxStarts}

Alive(r) == run[r].pc \notin {"none", "exited"}

\* No accepted event disappears without a trace: it is queued, in the batch
\* of a flush, counted as sent - then the endpoint has it - or in a batch
\* whose failure was counted and logged.
EveryEventAccounted ==
    /\ Accepted = SetOf(queue) \cup InFlight \cup sent \cup failed
    /\ sent \subseteq SetOf(received)

\* Enqueue order is what the endpoint sees, retries aside: an event that
\* arrives before another for the first time was enqueued before it.
FirstOccurrence(e) == CHOOSE i \in DOMAIN received :
    received[i] = e /\ \A j \in 1 .. i - 1 : received[j] # e

ReceivedInOrder ==
    \A d, e \in SetOf(received) :
        d < e => FirstOccurrence(d) < FirstOccurrence(e)

\* "Stop signals the goroutine to stop and waits for it to exit": with the
\* sender stopped and nobody waiting, no goroutine of its is left.
StopWaitsForExit ==
    ~running /\ (\A c \in Callers : pc[c] # "waitDone")
        => \A r \in 1 .. MaxStarts : ~Alive(r)

\* "Safe for concurrent use": no goroutine closes a channel twice.
NeverPanics == ~panicked

\* What a call of Stop or Shutdown promises, whoever else calls them.
StopIsClean == StopWaitsForExit /\ NeverPanics

\* Every batch is over at some time: sent, or given up after its retries.  The
\* endpoint, or a timeout of the client the host passes in, has to see to that.
PostsEnd == \A r \in 1 .. MaxStarts : []<>(run[r].pc # "send")

\* A sender left running empties its queue, if its POSTs end: no event waits
\* forever below the batch size, or for a trigger that found the goroutine busy.
QueueIsFlushed == PostsEnd /\ <>[]running => <>[](queue = <<>>)

\* "Respects the context deadline/cancellation": a Shutdown whose context ends
\* does not go on waiting for its flush, though a POST may hang for ever.
GivesUpFlush ==
    \A c \in Closers :
        (pc[c] \in {"offer", "await"}) ~> (pc[c] \in {"waitDone", "idle"})

\* Every Stop and Shutdown returns, if the POSTs end: Shutdown too waits for the
\* goroutine, context or not, once it has given up the flush.
CallsReturn ==
    /\ GivesUpFlush
    /\ PostsEnd =>
          \A c \in Stoppers \cup Closers : (pc[c] # "idle") ~> (pc[c] = "idle")
=============================================================================
