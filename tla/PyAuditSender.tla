---------------------------- MODULE PyAuditSender ----------------------------
(***************************************************************************)
(* Central audit forwarding in the Python SDK: python/kswitch/audit/       *)
(* sender.py, the sender that audit/emitter.py hands events to (step 2 of  *)
(* emit), and the runtimes of invoke.py that start and stop it.            *)
(*                                                                         *)
(* The module keeps one current sender for all runtimes.  Each start of a  *)
(* new one is an AuditSender object with its own queue and thread, named   *)
(* by its number; None is 0.                                               *)
(***************************************************************************)
EXTENDS Integers, Sequences, FiniteSets

CONSTANTS
    Runtimes,     \* the KSwitchRuntime objects of the process
    QueueMax,     \* _QUEUE_MAXSIZE
    BatchSize,    \* batch_size
    MaxRetries,   \* max_retries
    JoinTimesOut, \* a sender's last sends may outlast stop's join
    MaxEvents,    \* bound: calls of emit
    MaxSenders,   \* bound: senders created
    Nobody        \* no runtime

ASSUME PySenderAssumption ==
    /\ QueueMax \in Nat \ {0} /\ BatchSize \in Nat \ {0} /\ MaxRetries \in Nat
    /\ JoinTimesOut \in BOOLEAN /\ MaxEvents \in Nat /\ MaxSenders \in Nat
    /\ Nobody \notin Runtimes

VARIABLES
    current,    \* _sender
    attached,   \* the emitter's _sender
    mine,       \* each runtime's _audit_sender
    pc,         \* where each runtime is in starting or stopping
    lock,       \* the runtime that holds _sender_lock
    running,    \* each sender's _running
    thread,     \* where each sender's thread is
    queue,      \* each sender's _queue
    batch,      \* what its thread has taken from it
    tries,      \* failed attempts to send the batch
    owed,       \* what was in the queue when stop was called
    emitted,    \* how many events were emitted while one was attached
    received,   \* the events the server has
    sent,       \* those _send_count counts
    failed,     \* those _fail_count counts
    dropped     \* those _drop_count counts

hostVars   == <<current, attached, mine, pc, lock>>
threadVars == <<thread, queue, batch, tries>>
countVars  == <<received, sent, failed, dropped>>
vars == <<hostVars, running, threadVars, owed, emitted, countVars>>

None    == 0
Senders == 1 .. MaxSenders
Events  == 1 .. MaxEvents

SetOf(s) == {s[i] : i \in DOMAIN s}

ThreadPCs == {"none", "test", "get", "flush", "send", "last", "dead"}

TypeOK ==
    /\ current \in 0 .. MaxSenders /\ attached \in 0 .. MaxSenders
    /\ mine \in [Runtimes -> 0 .. MaxSenders]
    /\ pc \in [Runtimes -> {"idle", "attach", "join"}]
    /\ lock \in Runtimes \cup {Nobody}
    /\ running \in [Senders -> BOOLEAN]
    /\ thread \in [Senders -> ThreadPCs]
    /\ queue \in [Senders -> Seq(Events)]
    /\ batch \in [Senders -> Seq(Events)]
    /\ \A s \in Senders : Len(queue[s]) <= QueueMax /\ Len(batch[s]) <= BatchSize
    /\ tries \in [Senders -> 0 .. MaxRetries]
    /\ owed \in [Senders -> SUBSET Events]
    /\ emitted \in 0 .. MaxEvents
    /\ received \subseteq Events /\ sent \subseteq Events
    /\ failed \subseteq Events /\ dropped \subseteq Events

Init ==
    /\ current = None /\ attached = None
    /\ mine = [rt \in Runtimes |-> None]
    /\ pc = [rt \in Runtimes |-> "idle"]
    /\ lock = Nobody
    /\ running = [s \in Senders |-> FALSE]
    /\ thread = [s \in Senders |-> "none"]
    /\ queue = [s \in Senders |-> <<>>]
    /\ batch = [s \in Senders |-> <<>>]
    /\ tries = [s \in Senders |-> 0]
    /\ owed = [s \in Senders |-> {}]
    /\ emitted = 0
    /\ received = {} /\ sent = {} /\ failed = {} /\ dropped = {}

Alive(s) == s # None /\ thread[s] \notin {"none", "dead"}

-----------------------------------------------------------------------------
(* The runtimes: _maybe_start_audit_sender and stop_audit_sender.          *)

\* Mutant: every start creates a sender.
StartAnotherSender(rt) ==
    /\ pc[rt] = "idle" /\ lock = Nobody
    /\ \E s \in Senders :
          /\ thread[s] = "none" /\ \A r \in 1 .. s - 1 : thread[r] # "none"
          /\ current' = s
          /\ mine' = [mine EXCEPT ![rt] = s]
          /\ running' = [running EXCEPT ![s] = TRUE]
          /\ thread' = [thread EXCEPT ![s] = "test"]
    /\ pc' = [pc EXCEPT ![rt] = "attach"]
    /\ UNCHANGED <<attached, lock, queue, batch, tries, owed, emitted, countVars>>

\* start_audit_sender, under _sender_lock: the current sender if its thread
\* is alive, or a new one and its thread.
StartSender(rt) ==
    /\ pc[rt] = "idle" /\ lock = Nobody
    /\ \/ /\ Alive(current)
          /\ mine' = [mine EXCEPT ![rt] = current]
          /\ UNCHANGED <<current, running, thread>>
       \/ /\ ~Alive(current)
          /\ \E s \in Senders :
                /\ thread[s] = "none" /\ \A r \in 1 .. s - 1 : thread[r] # "none"
                /\ current' = s
                /\ mine' = [mine EXCEPT ![rt] = s]
                /\ running' = [running EXCEPT ![s] = TRUE]
                /\ thread' = [thread EXCEPT ![s] = "test"]
    /\ pc' = [pc EXCEPT ![rt] = "attach"]
    /\ UNCHANGED <<attached, lock, queue, batch, tries, owed, emitted, countVars>>

\* get_audit_emitter().set_sender(self._audit_sender)
Attach(rt) ==
    /\ pc[rt] = "attach"
    /\ attached' = mine[rt]
    /\ pc' = [pc EXCEPT ![rt] = "idle"]
    /\ UNCHANGED <<current, mine, lock, running, threadVars, owed, emitted, countVars>>

\* stop_audit_sender holds the lock over stop and its join.
StopSender(rt) ==
    /\ pc[rt] = "idle" /\ mine[rt] # None
    /\ lock = Nobody
    /\ \/ /\ current # None
          /\ running' = [running EXCEPT ![current] = FALSE]
          /\ owed' = [owed EXCEPT ![current] = SetOf(queue[current])]
          /\ lock' = rt
          /\ pc' = [pc EXCEPT ![rt] = "join"]
          /\ UNCHANGED mine
       \/ /\ current = None
          /\ mine' = [mine EXCEPT ![rt] = None]
          /\ UNCHANGED <<running, owed, lock, pc>>
    /\ UNCHANGED <<current, attached, threadVars, emitted, countVars>>

\* The join ends with the thread, or after its timeout.
Joined(rt) ==
    /\ pc[rt] = "join"
    /\ JoinTimesOut \/ ~Alive(current)
    /\ current' = None
    /\ mine' = [mine EXCEPT ![rt] = None]
    /\ lock' = Nobody
    /\ pc' = [pc EXCEPT ![rt] = "idle"]
    /\ UNCHANGED <<attached, running, threadVars, owed, emitted, countVars>>

-----------------------------------------------------------------------------
\* Mutant: the queue takes one event more than its bound.
EmitOneMore ==
    /\ attached # None /\ emitted < MaxEvents
    /\ Len(queue[attached]) <= QueueMax
    /\ emitted' = emitted + 1
    /\ queue' = [queue EXCEPT ![attached] = Append(@, emitted')]
    /\ UNCHANGED <<hostVars, running, thread, batch, tries, owed, countVars>>

\* A thread of the host emits an event: step 2 of emit, and enqueue.
Emit ==
    /\ attached # None /\ emitted < MaxEvents
    /\ emitted' = emitted + 1
    /\ \/ /\ Len(queue[attached]) < QueueMax
          /\ queue' = [queue EXCEPT ![attached] = Append(@, emitted')]
          /\ UNCHANGED dropped
       \/ /\ Len(queue[attached]) = QueueMax
          /\ dropped' = dropped \cup {emitted'}
          /\ UNCHANGED queue
    /\ UNCHANGED <<hostVars, running, thread, batch, tries, owed, received, sent,
                   failed>>

-----------------------------------------------------------------------------
(* A sender's thread: _run.                                                *)

idleVars == <<hostVars, running, owed, emitted, dropped>>

GoThread(s, label) == thread' = [thread EXCEPT ![s] = label]

\* Mutant: the thread leaves as soon as it is told to.
TestRunningOnly(s) ==
    /\ thread[s] = "test"
    /\ GoThread(s, IF running[s] THEN "get"
                   ELSE IF batch[s] # <<>> THEN "last" ELSE "dead")
    /\ UNCHANGED <<idleVars, queue, batch, tries, received, sent, failed>>

\* while self._running or not self._queue.empty(), and the final drain.
Test(s) ==
    /\ thread[s] = "test"
    /\ GoThread(s, IF running[s] \/ queue[s] # <<>> THEN "get"
                   ELSE IF batch[s] # <<>> THEN "last" ELSE "dead")
    /\ UNCHANGED <<idleVars, queue, batch, tries, received, sent, failed>>

Get(s) ==
    /\ thread[s] = "get"
    /\ \/ /\ queue[s] # <<>>
          /\ batch' = [batch EXCEPT ![s] = Append(@, Head(queue[s]))]
          /\ queue' = [queue EXCEPT ![s] = Tail(@)]
       \/ /\ queue[s] = <<>>          \* queue.Empty, after half a second
          /\ UNCHANGED <<batch, queue>>
    /\ GoThread(s, "flush")
    /\ UNCHANGED <<idleVars, tries, received, sent, failed>>

\* Mutant: a batch goes out only when it is full.
FlushFull(s) ==
    /\ thread[s] = "flush"
    /\ GoThread(s, IF Len(batch[s]) < BatchSize THEN "test" ELSE "send")
    /\ UNCHANGED <<idleVars, queue, batch, tries, received, sent, failed>>

\* should_flush: the batch is full, or the deadline of the interval is over.
Flush(s) ==
    /\ thread[s] = "flush"
    /\ \/ batch[s] # <<>> /\ GoThread(s, "send")
       \/ Len(batch[s]) < BatchSize /\ GoThread(s, "test")
    /\ UNCHANGED <<idleVars, queue, batch, tries, received, sent, failed>>

BatchDone(s) ==
    /\ batch' = [batch EXCEPT ![s] = <<>>]
    /\ tries' = [tries EXCEPT ![s] = 0]
    /\ GoThread(s, IF thread[s] = "last" THEN "dead" ELSE "test")

\* _send_batch answered below 300.
Sent(s) ==
    /\ thread[s] \in {"send", "last"}
    /\ received' = received \cup SetOf(batch[s])
    /\ sent' = sent \cup SetOf(batch[s])
    /\ BatchDone(s)
    /\ UNCHANGED <<idleVars, queue, failed>>

\* Mutant: the batch of a failed attempt is not kept.
SendForgets(s) ==
    /\ thread[s] \in {"send", "last"}
    /\ BatchDone(s)
    /\ UNCHANGED <<idleVars, queue, received, sent, failed>>

\* Another status or an exception: the server may or may not have the batch.
\* _backoff_send sleeps and tries again, or counts the batch as failed.
SendFails(s) ==
    /\ thread[s] \in {"send", "last"}
    /\ received' \in {received, received \cup SetOf(batch[s])}
    /\ \/ /\ tries[s] < MaxRetries
          /\ tries' = [tries EXCEPT ![s] = @ + 1]
          /\ UNCHANGED <<thread, batch, failed>>
       \/ /\ tries[s] = MaxRetries
          /\ failed' = failed \cup SetOf(batch[s])
          /\ BatchDone(s)
    /\ UNCHANGED <<idleVars, queue, sent>>

ThreadStep(s) ==
    \/ Test(s) \/ Get(s) \/ Flush(s) \/ Sent(s) \/ SendFails(s)

Next ==
    \/ \E rt \in Runtimes :
          StartSender(rt) \/ Attach(rt) \/ StopSender(rt) \/ Joined(rt)
    \/ Emit
    \/ \E s \in Senders : ThreadStep(s)

Spec == Init /\ [][Next]_vars

\* Threads run; the interval's deadline passes; joins return.
FairSpec ==
    /\ Spec
    /\ \A rt \in Runtimes : WF_vars(Attach(rt)) /\ WF_vars(Joined(rt))
    /\ \A s \in Senders : /\ WF_vars(ThreadStep(s))
                          /\ SF_vars(Flush(s) /\ thread'[s] = "send")

-----------------------------------------------------------------------------
Forwarded == (1 .. emitted) \ dropped

Queued  == UNION {SetOf(queue[s]) : s \in Senders}
InHand  == UNION {SetOf(batch[s]) : s \in Senders}

\* Whatever senders came and went, a forwarded event is in a queue, in the
\* batch of a thread, sent or counted as failed, and only once in memory.
EveryEventAccounted ==
    /\ Forwarded = Queued \cup InHand \cup sent \cup failed
    /\ Queued \cap InHand = {} /\ (Queued \cup InHand) \cap (sent \cup failed) = {}
    /\ sent \subseteq received

\* "Signal stop, drain remaining events": a thread that has ended has taken
\* what was queued when its sender was stopped.
StopDrains ==
    \A s \in Senders : thread[s] = "dead" => owed[s] \cap SetOf(queue[s]) = {}

\* At most one sender is in charge, and it is the last one created.
OneInCharge ==
    \A s \in Senders : running[s] => s = current /\ Alive(s)

\* While a sender stays in charge, an event in its queue or batch goes out
\* or is given up.
QueueIsForwarded ==
    \A s \in Senders :
        <>[](current = s /\ running[s]) => <>[](queue[s] = <<>> /\ batch[s] = <<>>)
=============================================================================
