--------------------------- MODULE RevocationSync ---------------------------
(***************************************************************************)
(* The kill switch as one Python process enforces it:                      *)
(*                                                                         *)
(*   - the KSwitch server (external), whose revocation state carries a     *)
(*     version that changes with every kill and every clear;               *)
(*   - RevocationSyncWorker threads, started and stopped through the       *)
(*     module-level singleton, that poll the version, fetch the state and  *)
(*     apply it to the cache;                                              *)
(*   - host threads that ask the local PDP for a decision, or call         *)
(*     revoke, clear_agent and set_blanket_kill;                           *)
(*   - the file revoked.json, its temporary file, and restarts.            *)
(*                                                                         *)
(* A step is one critical section, one file operation or one HTTP answer;  *)
(* what happens between two of them may interleave with the other threads. *)
(***************************************************************************)
EXTENDS RevocationCache, Sequences, FiniteSets

CONSTANTS
    Workers,         \* RevocationSyncWorker objects the process may create
    Threads,         \* host threads
    LocalOps,        \* the cache calls the host makes: subset of EditOps
    WarmStart,       \* TRUE: the cache is loaded before a worker is started
    StaleMode,       \* KSWITCH_REVOCATION_STALE_MODE
    StaleThreshold,  \* REVOCATION_STALE_THRESHOLD, in ticks
    DiskWritable,    \* FALSE: the revocation directory cannot be written
    PollTicks,       \* assumed: an HTTP answer is used within this many ticks
    MaxVersion,      \* bound: changes of the server state
    MaxTime          \* bound: clock ticks

EditOps == {"revoke", "clear", "blanket"}

ASSUME SyncAssumption ==
    /\ Workers \cap Threads = {}
    /\ LocalOps \subseteq EditOps
    /\ WarmStart \in BOOLEAN
    /\ StaleMode \in {"warn", "deny", "conditional"}
    /\ StaleThreshold \in Nat
    /\ DiskWritable \in BOOLEAN
    /\ PollTicks \in Nat
    /\ MaxVersion \in Nat \ {0}
    /\ MaxTime \in Nat

VARIABLES
    history,   \* the server's states, oldest first; the last one is current
    now,       \* the clock
    mem,       \* the process's LocalRevocationCache
    path,      \* revoked.json
    tmp,       \* revoked.json.tmp
    current,   \* the module-level _worker: empty or one worker
    pc,        \* where each thread is
    reply,     \* the server version in the worker's last HTTP answer
    sampled,   \* when the server gave that answer
    data,      \* the snapshot a thread has read or is writing
    fd,        \* which file the temporary file a thread opened is by now
    job,       \* what a host thread is doing
    outcome    \* how its last decision ended

vars == <<history, now, mem, path, tmp, current, pc, reply, sampled, data, fd,
          job, outcome>>

serverVars == <<history, now>>
fileVars   == <<path, tmp, fd>>
workerVars == <<current, reply, sampled>>
threadVars == <<job, outcome>>

Actors == Workers \cup Threads

ServerState == [blanket : BOOLEAN, killed : SUBSET Agents, at : Nat]

Version == Len(history)

\* The server kills agent a in the state it had at version v.
Kills(v, a) == history[v].blanket \/ a \in history[v].killed

File == [status : {"absent", "empty", "broken", "whole"}, content : Snapshot]
NoFile    == [status |-> "absent", content |-> EmptySnapshot]
EmptyFile == [status |-> "empty",  content |-> EmptySnapshot]
Broken    == [status |-> "broken", content |-> EmptySnapshot]
Whole(s)  == [status |-> "whole",  content |-> s]

Job == [op : EditOps \cup {"none", "decide"}, agent : Agents, flag : BOOLEAN,
        began : Nat]

PersistPCs == {"snapshot", "open", "write", "replace"}
WorkerPCs  == {"off", "loop", "poll", "compare", "version", "stamp", "fetch",
               "applyFast", "apply"} \cup PersistPCs
ThreadPCs  == {"idle", "stale", "ensure", "read", "install", "act"}
                \cup PersistPCs

\* Waiting for an HTTP answer it depends on, or about to use one.
MidPoll(w) == pc[w] \in {"compare", "version", "stamp", "fetch", "applyFast",
                         "apply"}

MidLoad(t) == pc[t] \in {"read", "install"}

TypeOK ==
    /\ history \in Seq(ServerState) /\ Version \in 1 .. MaxVersion
    /\ now \in 0 .. MaxTime
    /\ mem \in Cache
    /\ path \in File /\ tmp \in File
    /\ current \in SUBSET Workers
    /\ pc \in [Actors -> WorkerPCs \cup ThreadPCs]
    /\ \A w \in Workers : pc[w] \in WorkerPCs
    /\ \A t \in Threads : pc[t] \in ThreadPCs
    /\ reply \in [Workers -> Nat]
    /\ sampled \in [Workers -> Nat]
    /\ data \in [Actors -> Snapshot]
    /\ fd \in [Actors -> {"none", "tmp", "path", "orphan"}]
    /\ job \in [Threads -> Job]
    /\ outcome \in [Threads -> {"none", "pass", "deny", "conditional"}]

NoJob == [op |-> "none", agent |-> CHOOSE a \in Agents : TRUE, flag |-> FALSE,
          began |-> 0]

Init ==
    /\ \E b \in BOOLEAN, K \in SUBSET Agents :
          history = <<[blanket |-> b, killed |-> K, at |-> 0]>>
    /\ now = 0
    /\ mem = EmptyCache
    /\ path = NoFile /\ tmp = NoFile
    /\ current = {}
    /\ pc = [x \in Actors |-> IF x \in Workers THEN "off" ELSE "idle"]
    /\ reply = [w \in Workers |-> NoVersion]
    /\ sampled = [w \in Workers |-> 0]
    /\ data = [x \in Actors |-> EmptySnapshot]
    /\ fd = [x \in Actors |-> "none"]
    /\ job = [t \in Threads |-> NoJob]
    /\ outcome = [t \in Threads |-> "none"]

-----------------------------------------------------------------------------
(* The server and the clock.                                               *)

\* An operator kills or clears agents, or flips the blanket kill switch: the
\* version the two endpoints report goes up.
ServerChange ==
    /\ Version < MaxVersion
    /\ \E b \in BOOLEAN, K \in SUBSET Agents :
          /\ <<b, K>> # <<history[Version].blanket, history[Version].killed>>
          /\ history' = Append(history, [blanket |-> b, killed |-> K,
                                         at |-> now])
    /\ UNCHANGED <<now, mem, fileVars, workerVars, pc, data, threadVars>>

\* PollTicks is an assumption on the network and on the scheduling of
\* threads.  The code bounds each operation on the connection (5 s and 10 s),
\* not a request as a whole, and not how soon the worker goes on after it.
Tick ==
    /\ now < MaxTime
    /\ \A w \in Workers : MidPoll(w) => now - sampled[w] < PollTicks
    /\ now' = now + 1
    /\ UNCHANGED <<history, mem, fileVars, workerVars, pc, data, threadVars>>

-----------------------------------------------------------------------------
(* The module-level singleton: start_sync_worker and stop_sync_worker.     *)

StartWorker(w) ==
    /\ current = {}
    /\ pc[w] = "off"
    /\ WarmStart => mem.loaded /\ \A t \in Threads : ~MidLoad(t)
    /\ current' = {w}
    /\ pc' = [pc EXCEPT ![w] = "loop"]
    /\ UNCHANGED <<serverVars, mem, fileVars, reply, sampled, data, threadVars>>

\* stop() sets the worker's stop event and joins its thread for at most five
\* seconds, less than a poll may take: the thread may still be running when
\* stop_sync_worker forgets the worker.
StopWorker ==
    /\ current # {}
    /\ current' = {}
    /\ UNCHANGED <<serverVars, mem, fileVars, pc, reply, sampled, data,
                   threadVars>>

-----------------------------------------------------------------------------
(* RevocationSyncWorker._run and _poll_and_maybe_fetch.                    *)

\* `while not self._stop_event.is_set()`, and the sleep between two polls.
Loop(w) ==
    /\ pc[w] = "loop"
    /\ pc' = [pc EXCEPT ![w] = IF w \in current THEN "poll" ELSE "off"]
    /\ UNCHANGED <<serverVars, mem, fileVars, workerVars, data, threadVars>>

Answered(w, next) ==
    /\ reply' = [reply EXCEPT ![w] = Version]
    /\ sampled' = [sampled EXCEPT ![w] = now]
    /\ pc' = [pc EXCEPT ![w] = next]
    /\ UNCHANGED <<serverVars, mem, fileVars, current, data, threadVars>>

\* The worker is done with the answers of this poll.
Forget(w) ==
    /\ reply' = [reply EXCEPT ![w] = NoVersion]
    /\ sampled' = [sampled EXCEPT ![w] = 0]

\* Step 1: GET /revocations/version.
PollVersion(w) == pc[w] = "poll" /\ Answered(w, "compare")

\* Step 4: GET /revocations/state.
FetchState(w) == pc[w] = "fetch" /\ Answered(w, "apply")

\* Mutant: a failed poll counts as a sync.
FailureRefreshes(w) ==
    /\ pc[w] \in {"poll", "fetch"}
    /\ pc' = [pc EXCEPT ![w] = "loop"]
    /\ mem' = [mem EXCEPT !.syncedAt = now]
    /\ Forget(w)
    /\ UNCHANGED <<serverVars, fileVars, current, data, threadVars>>

\* Either request fails: HTTP 401, another error status, a timeout, bad JSON.
\* record_sync_failure and _check_stale_behavior only count and log.
RequestFails(w) ==
    /\ pc[w] \in {"poll", "fetch"}
    /\ pc' = [pc EXCEPT ![w] = "loop"]
    /\ Forget(w)
    /\ UNCHANGED <<serverVars, mem, fileVars, current, data, threadVars>>

\* Mutants: the fast path is not there, or does not look at the answer.
NoFastPath(w) == FALSE
FastPathUnasked(w) == ~mem.blanket

\* Step 2: blanket kill on at the server and not in the cache.
TakesFastPath(w) == history[reply[w]].blanket /\ ~mem.blanket

\* Mutant: one sync is enough.
AnyVersionWillDo(w) == mem.version # NoVersion

\* Step 3: the version is the one already applied.
VersionUnchanged(w) == mem.version # NoVersion /\ mem.version = reply[w]

\* The poll looks into the cache up to three times, under its lock each time
\* and not between them: for the flag,
Compare(w) ==
    /\ pc[w] = "compare"
    /\ pc' = [pc EXCEPT ![w] = IF TakesFastPath(w) THEN "applyFast"
                                                   ELSE "version"]
    /\ UNCHANGED <<serverVars, mem, fileVars, workerVars, data, threadVars>>

\* for the version,
CompareVersion(w) ==
    /\ pc[w] = "version"
    /\ pc' = [pc EXCEPT ![w] = IF VersionUnchanged(w) THEN "stamp"
                                                      ELSE "fetch"]
    /\ UNCHANGED <<serverVars, mem, fileVars, workerVars, data, threadVars>>

\* and, if nothing changed, to say that the state in it was confirmed: the
\* state that is in it by now.
ConfirmSync(w) ==
    /\ pc[w] = "stamp"
    /\ mem' = [mem EXCEPT !.syncedAt = now]
    /\ pc' = [pc EXCEPT ![w] = "loop"]
    /\ Forget(w)
    /\ UNCHANGED <<serverVars, fileVars, current, data, threadVars>>

\* Mutant: the fast path sets the flag under the version it had.
ApplyFastOldVersion(w) ==
    /\ pc[w] = "applyFast"
    /\ mem' = Applied(mem.version, TRUE, {}, now)
    /\ pc' = [pc EXCEPT ![w] = "snapshot"]
    /\ Forget(w)
    /\ UNCHANGED <<serverVars, fileVars, current, data, threadVars>>

\* The fast path applies the version it polled, the flag, and no agents.
ApplyFast(w) ==
    /\ pc[w] = "applyFast"
    /\ mem' = Applied(reply[w], TRUE, {}, now)
    /\ pc' = [pc EXCEPT ![w] = "snapshot"]
    /\ Forget(w)
    /\ UNCHANGED <<serverVars, fileVars, current, data, threadVars>>

\* Mutant: the full state does not take a blanket kill back.
ApplyKeepsBlanket(w) ==
    /\ pc[w] = "apply"
    /\ LET s == history[reply[w]]
       IN mem' = Applied(reply[w], s.blanket \/ mem.blanket, s.killed, now)
    /\ pc' = [pc EXCEPT ![w] = "snapshot"]
    /\ Forget(w)
    /\ UNCHANGED <<serverVars, fileVars, current, data, threadVars>>

\* Step 5: the full state.
Apply(w) ==
    /\ pc[w] = "apply"
    /\ LET s == history[reply[w]]
       IN mem' = Applied(reply[w], s.blanket, s.killed, now)
    /\ pc' = [pc EXCEPT ![w] = "snapshot"]
    /\ Forget(w)
    /\ UNCHANGED <<serverVars, fileVars, current, data, threadVars>>

-----------------------------------------------------------------------------
(* _persist: a snapshot under the lock, then the files without it.  All    *)
(* threads use the same temporary name, so two of them may hold it open.   *)

\* Mutant: the worker does not come back to its loop.
AfterPersistIdle(x) == "idle"

AfterPersist(x) == IF x \in Workers THEN "loop" ELSE "idle"

TakeSnapshot(x) ==
    /\ pc[x] = "snapshot"
    /\ data' = [data EXCEPT ![x] = SnapshotOf(mem)]
    /\ pc' = [pc EXCEPT ![x] = "open"]
    /\ UNCHANGED <<serverVars, mem, fileVars, workerVars, threadVars>>

\* Mutant: the file is rewritten in place.
OpenInPlace(x) ==
    /\ pc[x] = "open"
    /\ DiskWritable
    /\ path' = EmptyFile
    /\ fd' = [fd EXCEPT ![x] = "path"]
    /\ pc' = [pc EXCEPT ![x] = "write"]
    /\ UNCHANGED <<serverVars, mem, tmp, workerVars, data, threadVars>>

\* open(tmp, "w") creates the file, or truncates the one that is there.
OpenTmp(x) ==
    /\ pc[x] = "open"
    /\ DiskWritable
    /\ tmp' = EmptyFile
    /\ fd' = [fd EXCEPT ![x] = "tmp"]
    /\ pc' = [pc EXCEPT ![x] = "write"]
    /\ UNCHANGED <<serverVars, mem, path, workerVars, data, threadVars>>

\* Closing the file writes the text from offset 0: over what another thread
\* wrote into the same file since, the shorter of two texts leaves a tail.
Written(f, s) == IF f.status = "empty" THEN {Whole(s)} ELSE {Whole(s), Broken}

FileOf(x) == IF fd[x] = "tmp" THEN tmp ELSE path

WriteFile(x, results) ==
    /\ \/ /\ fd[x] = "tmp"    /\ tmp' \in results  /\ path' = path
       \/ /\ fd[x] = "path"   /\ path' \in results /\ tmp' = tmp
       \/ /\ fd[x] = "orphan" /\ UNCHANGED <<path, tmp>>
    /\ fd' = [fd EXCEPT ![x] = "none"]

WriteTmp(x) ==
    /\ pc[x] = "write"
    /\ WriteFile(x, Written(FileOf(x), data[x]))
    /\ pc' = [pc EXCEPT ![x] = "replace"]
    /\ UNCHANGED <<serverVars, mem, workerVars, data, threadVars>>

\* os.replace(tmp, path): a file another thread holds open keeps its content
\* and changes its name.  Without a temporary file it raises, and is ignored.
Replace(x) ==
    /\ pc[x] = "replace"
    /\ IF tmp.status = "absent"
       THEN UNCHANGED <<path, tmp, fd>>
       ELSE /\ path' = tmp
            /\ tmp' = NoFile
            /\ fd' = [y \in Actors |-> CASE fd[y] = "path" -> "orphan"
                                         [] fd[y] = "tmp"  -> "path"
                                         [] OTHER          -> fd[y]]
    /\ pc' = [pc EXCEPT ![x] = AfterPersist(x)]
    /\ data' = [data EXCEPT ![x] = EmptySnapshot]
    /\ UNCHANGED <<serverVars, mem, workerVars, threadVars>>

\* The directory cannot be written, the disk fills up, the rename is refused:
\* "Persistence failure is non-fatal".
PersistFails(x) ==
    /\ \/ pc[x] \in {"open", "replace"} /\ UNCHANGED <<path, tmp, fd>>
       \/ pc[x] = "write" /\ WriteFile(x, {Broken})
    /\ pc' = [pc EXCEPT ![x] = AfterPersist(x)]
    /\ data' = [data EXCEPT ![x] = EmptySnapshot]
    /\ UNCHANGED <<serverVars, mem, workerVars, threadVars>>

Persist(x) ==
    \/ TakeSnapshot(x)
    \/ OpenTmp(x)
    \/ WriteTmp(x)
    \/ Replace(x)
    \/ PersistFails(x)

-----------------------------------------------------------------------------
(* Host threads.                                                           *)

\* LocalPDPEvaluator.evaluate begins with the staleness of the sync.
BeginDecision(t) ==
    /\ pc[t] = "idle"
    /\ \E a \in Agents :
          job' = [job EXCEPT ![t] = [op |-> "decide", agent |-> a,
                                     flag |-> FALSE, began |-> now]]
    /\ outcome' = [outcome EXCEPT ![t] = "none"]
    /\ pc' = [pc EXCEPT ![t] = "stale"]
    /\ UNCHANGED <<serverVars, mem, fileVars, workerVars, data>>

\* revoke loads the file first; clear_agent and set_blanket_kill do not.
BeginEdit(t) ==
    /\ pc[t] = "idle"
    /\ \E op \in LocalOps, a \in Agents, f \in BOOLEAN :
          /\ op # "blanket" => ~f
          /\ job' = [job EXCEPT ![t] = [op |-> op, agent |-> a, flag |-> f,
                                        began |-> now]]
          /\ pc' = [pc EXCEPT ![t] = IF op = "revoke" THEN "ensure" ELSE "act"]
    /\ outcome' = [outcome EXCEPT ![t] = "none"]
    /\ UNCHANGED <<serverVars, mem, fileVars, workerVars, data>>

\* _check_stale_revocation: step 0 of evaluate.
CheckStale(t) ==
    /\ pc[t] = "stale"
    /\ IF StaleMode # "warn" /\ IsSyncStale(mem, StaleThreshold, now)
       THEN /\ outcome' = [outcome EXCEPT ![t] = StaleMode]
            /\ pc' = [pc EXCEPT ![t] = "idle"]
       ELSE /\ pc' = [pc EXCEPT ![t] = "ensure"]
            /\ UNCHANGED outcome
    /\ UNCHANGED <<serverVars, mem, fileVars, workerVars, data, job>>

\* _ensure_loaded reads the flag without the lock.
EnsureLoaded(t) ==
    /\ pc[t] = "ensure"
    /\ pc' = [pc EXCEPT ![t] = IF mem.loaded THEN "act" ELSE "read"]
    /\ UNCHANGED <<serverVars, mem, fileVars, workerVars, data, threadVars>>

\* load_from_disk reads the file before it takes the lock.  No file, or one
\* that does not parse, leaves the set as it is.
ReadFile(t) ==
    /\ pc[t] = "read"
    /\ \/ /\ path.status = "whole"
          /\ data' = [data EXCEPT ![t] = path.content]
          /\ pc' = [pc EXCEPT ![t] = "install"]
          /\ UNCHANGED mem
       \/ /\ path.status # "whole"
          /\ mem' = [mem EXCEPT !.loaded = TRUE]
          /\ pc' = [pc EXCEPT ![t] = "act"]
          /\ UNCHANGED data
    /\ UNCHANGED <<serverVars, fileVars, workerVars, threadVars>>

Install(t) ==
    /\ pc[t] = "install"
    /\ mem' = Installed(mem, data[t])
    /\ data' = [data EXCEPT ![t] = EmptySnapshot]
    /\ pc' = [pc EXCEPT ![t] = "act"]
    /\ UNCHANGED <<serverVars, fileVars, workerVars, threadVars>>

\* is_revoked: a revoked agent is denied, any other goes on to the policies.
Lookup(t) ==
    /\ pc[t] = "act" /\ job[t].op = "decide"
    /\ outcome' = [outcome EXCEPT ![t] =
                     IF Denies(mem, job[t].agent, now) THEN "deny" ELSE "pass"]
    /\ mem' = AfterLookup(mem, job[t].agent, now)
    /\ pc' = [pc EXCEPT ![t] = "idle"]
    /\ UNCHANGED <<serverVars, fileVars, workerVars, data, job>>

\* revoke, clear_agent and set_blanket_kill.
Edit(t) ==
    /\ pc[t] = "act"
    /\ LET a == job[t].agent
       IN \/ job[t].op = "revoke"  /\ mem' = Revoked(mem, a, now)
          \/ job[t].op = "clear"   /\ mem' = Cleared(mem, a)
          \/ job[t].op = "blanket" /\ mem' = BlanketSet(mem, job[t].flag)
    /\ pc' = [pc EXCEPT ![t] = "snapshot"]
    /\ UNCHANGED <<serverVars, fileVars, workerVars, data, threadVars>>

-----------------------------------------------------------------------------
\* The process dies, at any point, and is started again: the files remain.
Restart ==
    /\ mem' = EmptyCache
    /\ current' = {}
    /\ pc' = [x \in Actors |-> IF x \in Workers THEN "off" ELSE "idle"]
    /\ reply' = [w \in Workers |-> NoVersion]
    /\ sampled' = [w \in Workers |-> 0]
    /\ data' = [x \in Actors |-> EmptySnapshot]
    /\ fd' = [x \in Actors |-> "none"]
    /\ job' = [t \in Threads |-> NoJob]
    /\ outcome' = [t \in Threads |-> "none"]
    /\ UNCHANGED <<serverVars, path, tmp>>

WorkerStep(w) ==
    \/ Loop(w)
    \/ PollVersion(w)
    \/ FetchState(w)
    \/ RequestFails(w)
    \/ Compare(w)
    \/ CompareVersion(w)
    \/ ConfirmSync(w)
    \/ ApplyFast(w)
    \/ Apply(w)

ThreadStep(t) ==
    \/ BeginDecision(t)
    \/ BeginEdit(t)
    \/ CheckStale(t)
    \/ EnsureLoaded(t)
    \/ ReadFile(t)
    \/ Install(t)
    \/ Lookup(t)
    \/ Edit(t)

Next ==
    \/ ServerChange
    \/ Tick
    \/ \E w \in Workers : StartWorker(w)
    \/ StopWorker
    \/ \E w \in Workers : WorkerStep(w)
    \/ \E t \in Threads : ThreadStep(t)
    \/ \E x \in Actors : Persist(x)
    \/ Restart

Spec == Init /\ [][Next]_vars

\* A thread that can run does run, and requests that are repeated for ever
\* are answered now and then.  Nothing is assumed of the server's operators,
\* of the host, or of restarts.
Fairness ==
    /\ \A w \in Workers : /\ WF_vars(WorkerStep(w) \/ Persist(w))
                          /\ SF_vars(PollVersion(w))
                          /\ SF_vars(FetchState(w))

FairSpec == Spec /\ Fairness

-----------------------------------------------------------------------------
(* What the kill switch owes its users.  Each property names the           *)
(* assumptions it needs; the runs that leave them out show what is lost.   *)

\* While a version is recorded as applied, the cache denies exactly the
\* agents the server kills in that version, on the fast path too, whatever
\* polls, loads, persists, stops and restarts went before.  (cache.py,
\* apply_server_state: "Atomically replace local revocation state".)
DecisionsFollowVersion ==
    mem.version # NoVersion =>
        \A a \in Agents : Denies(mem, a, now) <=> Kills(mem.version, a)

\* The server has killed agent a without a break since before time m.
KilledSinceBefore(a, m) ==
    \E v \in 1 .. Version : /\ history[v].at < m
                            /\ \A u \in v .. Version : Kills(u, a)

\* With stale_mode "deny" or "conditional", an agent killed for longer than
\* the stale threshold and twice the age of an answer does not pass the
\* revocation checks, though the network may fail and several workers may be
\* running.  Twice: a worker may confirm what a stopped one applied from an
\* answer of its own, between its comparison and its time stamp.
BoundedExposure ==
    \A t \in Threads :
        /\ StaleMode # "warn" /\ StaleThreshold > 0
        /\ outcome[t] = "pass"
        => ~KilledSinceBefore(job[t].agent,
                              job[t].began - StaleThreshold - 2 * PollTicks)

DiskKills(a) ==
    /\ path.status = "whole"
    /\ path.content.blanket \/ path.content.revoked[a] # Never

\* A kill found on disk or in the cache is one the server once had: a torn
\* file, a raced load or an overtaken poll may lose kills but invents none,
\* as long as the host itself kills nothing.
NoInventedKill ==
    \A a \in Agents : DiskKills(a) \/ Denies(mem, a, now) =>
        \E v \in 1 .. Version : Kills(v, a)

\* revoked.json "survives process restart": a kill it holds leaves it only
\* when the server's version in force no longer has it, or when the host
\* clears that agent (or the blanket flag) itself.
DiskForgetsOnlyOnCommand ==
    [][\A a \in Agents :
         DiskKills(a) /\ ~DiskKills(a)' =>
            \/ mem.version # NoVersion /\ ~Kills(mem.version, a)
            \/ \E t \in Threads : /\ pc[t] = "replace"
                                  /\ \/ job[t].op = "clear" /\ job[t].agent = a
                                     \/ job[t].op = "blanket" /\ ~job[t].flag
      ]_vars

\* In memory, an agent that was denied stops being denied only at a restart,
\* by a sync whose version does not kill it, by a host call that
\* clears that agent or the blanket flag, or when a lookup loads the file.
ReleasedOnlyOnCommand ==
    [][\A a \in Agents :
         Denies(mem, a, now) /\ ~Denies(mem, a, now)' =>
            \/ mem' = EmptyCache
            \/ \E w \in Workers : /\ pc[w] \in {"applyFast", "apply"}
                                  /\ pc'[w] = "snapshot"
                                  /\ ~Kills(reply[w], a)
            \/ \E t \in Threads : pc[t] = "install"
            \/ \E t \in Threads : /\ pc[t] = "act" /\ pc'[t] = "snapshot"
                                  /\ \/ job[t].op = "clear" /\ job[t].agent = a
                                     \/ job[t].op = "blanket" /\ ~job[t].flag
      ]_vars

\* "atomic rename": at no moment would a restart find a file that is cut or
\* mixed, which load_from_disk treats as no revocations at all.
FileIsWhole == path.status \in {"absent", "whole"}

\* As long as the process keeps a worker, the cache ends up at the version
\* the server ends up at, however polls of earlier workers were overtaken.
Converges == <>[](current # {}) => <>[](mem.version = Version)

\* A blanket kill that stays on ends up in force, and a lookup that loads
\* an old file in the middle of a sync can delay it only until the next
\* poll: the fast path compares the flag, not the version.
BlanketKillEnforced ==
    <>[](current # {} /\ history[Version].blanket) => <>[]mem.blanket

\* An agent whose kill stays on ends up denied.  (sync.py: "Closes the gap
\* where a long-running Python SDK process could issue local ALLOW for a
\* kill-switched agent".)
KillEnforced ==
    \A a \in Agents :
        <>[](current # {} /\ Kills(Version, a)) => <>[]Denies(mem, a, now)
=============================================================================
