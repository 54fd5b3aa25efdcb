-------------------------- MODULE ContextPackCache --------------------------
(***************************************************************************)
(* The context pack of one agent in the Python local PDP: LocalContextCache*)
(* with its file, and the ContextInvalidationSyncWorker that throws packs  *)
(* away when the server says that an agent has changed.                    *)
(*                                                                         *)
(* Threads load and store packs without a lock.  The worker's version is   *)
(* not kept across restarts, the files are; the server (external) lists    *)
(* events since a version, a page at a time, may have compacted them, and  *)
(* may itself fall back to an earlier version.                             *)
(***************************************************************************)
EXTENDS Integers, Sequences, FiniteSetsExt

CONSTANTS
    Threads,      \* threads that ask for the pack or store one
    Ttl,          \* _CONTEXT_PACK_TTL, in ticks
    Lag,          \* a load lasts no longer than this
    MaxChanges    \* bound: changes of the agent

None == 0

VARIABLES
    pack,      \* the agent's pack at the server: a number that only grows
    log,       \* the server's events: the agent's new pack, or None where
               \* the event names another agent
    disk,      \* the pack in the file, or None
    memory,    \* the cached pack and its age
    step,      \* where each thread is
    held,      \* the pack a thread has read or is storing
    age,       \* for how long it has been loading it
    last,      \* the worker's _last_version
    poll,      \* where the worker is
    version,   \* the version it will have applied then
    told,      \* the pack it has been told of, and acts on
    due,       \* the newest pack it has been told of and acted on; None where
               \* a store was under way then, or the file was not removed
    applied    \* for how long

server == <<pack, log>>
cache  == <<disk, memory>>
caller == <<step, held, age>>
worker == <<last, poll, version, told>>
ghost  == <<due, applied>>
vars   == <<server, cache, caller, worker, ghost>>

Pack   == None .. MaxChanges + 1
\* Times past these are not told apart.
Long   == Ttl + Lag + 1
Empty  == [pack |-> None, age |-> 0]

\* is_stale, and what get_or_load returns to a thread
Usable == memory.pack # None /\ memory.age <= Ttl
Served == IF Usable THEN memory.pack ELSE disk

TypeOK ==
    /\ pack \in Pack \ {None} /\ log \in Seq(Pack)
    /\ disk \in Pack /\ memory \in [pack : Pack, age : 0 .. Ttl + 1]
    /\ step \in [Threads -> {"idle", "read", "replace", "reset"}]
    /\ held \in [Threads -> Pack] /\ age \in [Threads -> 0 .. Lag]
    /\ told \in Pack /\ due \in Pack
    /\ last \in 0 .. MaxChanges /\ version \in 0 .. MaxChanges
    /\ poll \in {"idle", "fetch", "pop", "remove"}
    /\ applied \in 0 .. Long

Init ==
    /\ pack = 1 /\ log = <<>>
    /\ disk \in {None, 1} /\ memory = Empty
    /\ step = [t \in Threads |-> "idle"]
    /\ held = [t \in Threads |-> None]
    /\ age = [t \in Threads |-> 0]
    /\ last = 0 /\ poll = "idle" /\ version = 0 /\ told = None
    /\ due = None /\ applied = Long

Forget(t) == held' = [held EXCEPT ![t] = None] /\ age' = [age EXCEPT ![t] = 0]

Goes(t, from, to) == step[t] = from /\ step' = [step EXCEPT ![t] = to]

\* Time passes; a load does not last longer than Lag.
Older(a, limit) == Min({a + 1, limit})

Tick ==
    /\ \A t \in Threads : step[t] = "read" => age[t] < Lag
    /\ age' = [t \in Threads |-> IF step[t] = "read" THEN age[t] + 1 ELSE 0]
    /\ memory' = IF memory = Empty THEN Empty
                 ELSE [memory EXCEPT !.age = Older(@, Ttl + 1)]
    /\ applied' = Older(applied, Long)
    /\ UNCHANGED <<server, disk, step, held, worker, due>>

-----------------------------------------------------------------------------
(* The server.                                                             *)

\* The agent changes, or another one does.
Change ==
    /\ Len(log) < MaxChanges /\ pack <= MaxChanges
    /\ \/ pack' = pack + 1 /\ log' = Append(log, pack')
       \/ pack' = pack /\ log' = Append(log, None)
    /\ UNCHANGED <<cache, caller, worker, ghost>>

\* The server loses its latest event, not the agent's state.
FallBack ==
    /\ log # <<>>
    /\ log' = SubSeq(log, 1, Len(log) - 1)
    /\ UNCHANGED <<pack, cache, caller, worker, ghost>>

-----------------------------------------------------------------------------
(* LocalContextCache.                                                      *)

\* get_or_load has no pack, or one past its TTL: load reads the file.
Read(t) ==
    /\ ~Usable
    /\ Goes(t, "idle", "read")
    /\ held' = [held EXCEPT ![t] = disk]
    /\ UNCHANGED <<server, cache, age, worker, ghost>>

Load(t) ==
    /\ Goes(t, "read", "idle")
    /\ memory' = IF held[t] = None THEN memory
                 ELSE [pack |-> held[t], age |-> 0]
    /\ Forget(t)
    /\ UNCHANGED <<server, disk, worker, ghost>>

\* The host fetches the pack and stores it: the temporary file, os.replace,
\* and the pack in memory forgotten.
Fetch(t) ==
    /\ \A u \in Threads : step[u] \notin {"replace", "reset"}
    /\ Goes(t, "idle", "replace")
    /\ held' = [held EXCEPT ![t] = pack]
    /\ UNCHANGED <<server, cache, age, worker, ghost>>

Replace(t) ==
    /\ Goes(t, "replace", "reset")
    /\ disk' = held[t]
    /\ UNCHANGED <<server, memory, held, age, worker, ghost>>

Reset(t) ==
    /\ Goes(t, "reset", "idle")
    /\ memory' = Empty
    /\ Forget(t)
    /\ UNCHANGED <<server, disk, worker, ghost>>

StoreFails(t) ==
    /\ Goes(t, "replace", "idle")
    /\ Forget(t)
    /\ UNCHANGED <<server, cache, worker, ghost>>

-----------------------------------------------------------------------------
(* ContextInvalidationSyncWorker._poll_and_maybe_fetch.                    *)

\* The worker goes on, will have applied version v and been told of pack p.
Goal(next, v, p) == poll' = next /\ version' = v /\ told' = p

\* GET version.  Equal or none: nothing to do.
PollVersion ==
    /\ poll = "idle" /\ Len(log) > last
    /\ Goal("fetch", 0, None)
    /\ UNCHANGED <<server, cache, caller, last, ghost>>

\* Lower: the server fell back, and everything is flushed.
Regressed ==
    /\ poll = "idle" /\ Len(log) < last
    /\ Goal("pop", Len(log), pack)
    /\ UNCHANGED <<server, cache, caller, last, ghost>>

\* GET events: compacted, and everything is flushed; or a page of them.  An
\* event of another agent throws away a pack not modelled here.
FetchEvents ==
    /\ poll = "fetch"
    /\ \/ Goal("pop", Len(log), pack) /\ UNCHANGED last
       \/ \E v \in last + 1 .. Len(log), i \in last + 1 .. Len(log) :
             /\ i <= v /\ log[i] # None
             /\ \A j \in i + 1 .. v : log[j] = None
             /\ Goal("pop", v, log[i]) /\ UNCHANGED last
       \/ \E v \in last + 1 .. Len(log) :
             /\ \A j \in last + 1 .. v : log[j] = None
             /\ Goal("idle", 0, None) /\ last' = v
    /\ UNCHANGED <<server, cache, caller, ghost>>

PollFails ==
    /\ poll = "fetch"
    /\ Goal("idle", 0, None)
    /\ UNCHANGED <<server, cache, caller, last, ghost>>

\* invalidate(..., remove_disk=True): the pack in memory, then the file.
Pop ==
    /\ poll = "pop"
    /\ poll' = "remove"
    /\ memory' = Empty
    /\ UNCHANGED <<server, disk, caller, last, version, told, ghost>>

Storing == \E t \in Threads : step[t] \in {"replace", "reset"}

Applied(excused) ==
    /\ last' = version
    /\ Goal("idle", 0, None)
    /\ due' = IF excused THEN None ELSE Max({due, told})
    /\ applied' = IF excused THEN Long ELSE 0

\* Mutant: the file is left, to be loaded again.
LeaveFile ==
    /\ poll = "remove"
    /\ Applied(Storing)
    /\ UNCHANGED <<server, cache, caller>>

\* An OSError is ignored and the event counts as applied.
Remove ==
    /\ poll = "remove"
    /\ \/ disk' = None /\ Applied(Storing)
       \/ disk' = disk /\ Applied(TRUE)
    /\ UNCHANGED <<server, memory, caller>>

\* Of the worker's state and the cache only the file survives.
Restart ==
    /\ memory' = Empty
    /\ step' = [t \in Threads |-> "idle"]
    /\ held' = [t \in Threads |-> None]
    /\ age' = [t \in Threads |-> 0]
    /\ last' = 0 /\ Goal("idle", 0, None)
    /\ UNCHANGED <<server, disk, ghost>>

Next ==
    \/ Tick \/ Change \/ FallBack \/ Restart
    \/ \E t \in Threads :
          Read(t) \/ Load(t) \/ Fetch(t) \/ Replace(t) \/ Reset(t) \/ StoreFails(t)
    \/ PollVersion \/ Regressed \/ FetchEvents \/ PollFails \/ Pop \/ Remove

Spec == Init /\ [][Next]_vars

-----------------------------------------------------------------------------
\* invalidation_sync.py: packs that an event names are not served once the
\* worker has applied it, whatever is cached, on disk or restarted, or, where
\* a load raced the invalidation, not for longer than that load and one TTL;
\* only a store that had fetched the old pack before, or a file that cannot
\* be removed, brings it back.
InvalidatedPacksGo ==
    \/ Served = None \/ Served >= due
    \/ applied <= Ttl + Lag
=============================================================================
