----------------------- MODULE RevocationPromiseProofs -----------------------
(***************************************************************************)
(* What the revocation sync of a Python process promises as a whole:       *)
(*                                                                         *)
(*   - in a strict stale mode a killed agent passes for no longer than the *)
(*     stale threshold and twice the age of an HTTP answer;                *)
(*   - revoked.json is never cut or mixed while one thread writes it;      *)
(*   - the file forgets kills, and the process moves between them, in the  *)
(*     order of the server's versions: the refinement of KillSwitch.       *)
(***************************************************************************)
EXTENDS RevocationSyncProofs, MCRevocationSync

-----------------------------------------------------------------------------
(* Strict stale modes.                                                     *)

\* Version v was the server's current one at time m or later.
CurrentAt(v, m) ==
    /\ v \in 1 .. Version
    /\ v < Version => history[v + 1].at >= m

\* The server's clock and the process's are one.
InOrder ==
    /\ \A v \in 1 .. Version : history[v].at \in Nat /\ history[v].at <= now
    /\ \A u, v \in 1 .. Version : u <= v => history[u].at <= history[v].at

\* An answer is used while it is young.
AnswersYoung ==
    \A w \in Workers : MidPoll(w) => /\ CurrentAt(reply[w], sampled[w])
                                     /\ sampled[w] <= now
                                     /\ now - sampled[w] <= PollTicks

\* What a worker is about to confirm is the version it compared, or one that
\* another worker has applied since, from an answer that was young then.
ConfirmsYoung ==
    \A w \in Workers :
        pc[w] = "stamp" => CurrentAt(mem.version, sampled[w] - PollTicks)

\* The version in force was current shortly before the sync was recorded.
SyncYoung ==
    /\ mem.version # NoVersion <=> mem.syncedAt # Never
    /\ mem.syncedAt # Never =>
          /\ mem.syncedAt <= now
          /\ CurrentAt(mem.version, mem.syncedAt - 2 * PollTicks)

Deadline(t) == job[t].began - StaleThreshold

Strict == StaleMode # "warn" /\ StaleThreshold > 0

\* A decision that got past the stale check sees a sync that is not older.
ChecksHold ==
    \A t \in Threads :
        /\ job[t].began <= now
        /\ pc[t] \in {"ensure", "read", "install", "act"} =>
              mem.syncedAt # Never /\ mem.syncedAt >= Deadline(t)

ExposureInv ==
    /\ FollowInv
    /\ InOrder
    /\ AnswersYoung
    /\ ConfirmsYoung
    /\ SyncYoung
    /\ ChecksHold
    /\ BoundedExposure

LEMMA ExposureInit == Sheltered /\ Init => ExposureInv
<1> SUFFICES ASSUME Sheltered, Init PROVE ExposureInv
  OBVIOUS
<1>1. FollowInv
  BY FollowInit
<1>2. \A t \in Threads : job[t].began = 0 /\ outcome[t] = "none"
  BY DEF Init, NoJob
<1>3. InOrder
  <2>1. PICK b \in BOOLEAN, K \in SUBSET Agents :
           history = <<[blanket |-> b, killed |-> K, at |-> 0]>>
    BY DEF Init
  <2>2. Version = 1 /\ history[1].at = 0 /\ now = 0
    BY <2>1 DEF Init, Version
  <2> QED
    BY <2>2 DEF InOrder
<1>4. AnswersYoung
  BY DEF Init, AnswersYoung, MidPoll, Actors
<1>4a. ConfirmsYoung
  BY DEF Init, ConfirmsYoung, Actors
<1>5. SyncYoung
  BY DEF Init, SyncYoung, EmptyCache, NoVersion, Never
<1>6. ChecksHold
  BY <1>2, SyncAssumption DEF Init, ChecksHold, Actors
<1>7. BoundedExposure
  BY <1>2 DEF BoundedExposure
<1> QED
  BY <1>1, <1>3, <1>4, <1>4a, <1>5, <1>6, <1>7 DEF ExposureInv

\* The server's clock does not run back.
LEMMA InOrderStep ==
    ASSUME TypeInv, InOrder, [Next]_vars
    PROVE  /\ InOrder'
           /\ now' \in Nat /\ now <= now'
           /\ \A v, m : CurrentAt(v, m) /\ m \in Int /\ m <= now =>
                 CurrentAt(v, m)'
<1> USE SyncAssumption
<1>0. now \in Nat /\ Version \in Nat
  BY DEF TypeInv, TypeOK
<1>1. CASE ServerChange
  <2>1. PICK b \in BOOLEAN, K \in SUBSET Agents :
           history' = Append(history, [blanket |-> b, killed |-> K, at |-> now])
    BY <1>1 DEF ServerChange
  <2>2. /\ Version' = Version + 1 /\ now' = now
        /\ history'[Version + 1].at = now
        /\ \A v \in 1 .. Version : history'[v] = history[v]
    BY <1>1, <2>1 DEF ServerChange, TypeInv, TypeOK, Version
  <2>3. InOrder'
    BY <1>0, <2>2 DEF InOrder
  <2> QED
    BY <1>0, <2>2, <2>3 DEF CurrentAt
<1>2. CASE Tick
  BY <1>0, <1>2 DEF Tick, InOrder, CurrentAt, Version
<1>3. CASE UNCHANGED serverVars
  BY <1>0, <1>3 DEF serverVars, InOrder, CurrentAt, Version
<1>4. ServerChange \/ Tick \/ UNCHANGED serverVars
  BY DEF Next, vars, StartWorker, StopWorker, WorkerStep, Loop, PollVersion,
         FetchState, Answered, RequestFails, Compare, CompareVersion,
         ConfirmSync, ApplyFast, Apply, ThreadStep, BeginDecision, BeginEdit,
         CheckStale, EnsureLoaded, ReadFile, Install, Lookup, Edit, Persist,
         TakeSnapshot, OpenTmp, WriteTmp, Replace, PersistFails, Restart,
         serverVars
<1> QED
  BY <1>1, <1>2, <1>3, <1>4

LEMMA AnswersYoungStep ==
    ASSUME TypeInv, TypeInv', InOrder, AnswersYoung, [Next]_vars
    PROVE  AnswersYoung'
<1> USE SyncAssumption DEF Actors
<1>0. now \in Nat /\ Version \in Nat /\ \A w \in Workers : sampled[w] \in Nat
  BY DEF TypeInv, TypeOK
<1>1. ASSUME NEW w \in Workers, MidPoll(w)', MidPoll(w),
             reply'[w] = reply[w], sampled'[w] = sampled[w]
      PROVE  /\ CurrentAt(reply[w], sampled[w])' /\ sampled'[w] <= now'
             /\ now' - sampled'[w] <= PollTicks
  <2>1. now' = now \/ Tick
    BY DEF Next, vars, ServerChange, StartWorker, StopWorker, WorkerStep, Loop,
           PollVersion, FetchState, Answered, RequestFails, Compare,
           CompareVersion, ConfirmSync, ApplyFast, Apply, ThreadStep,
           BeginDecision, BeginEdit, CheckStale, EnsureLoaded, ReadFile,
           Install, Lookup, Edit, Persist, TakeSnapshot, OpenTmp, WriteTmp,
           Replace, PersistFails, Restart, serverVars
  <2>2. now' - sampled[w] <= PollTicks
    BY <1>0, <1>1, <2>1 DEF Tick, AnswersYoung
  <2>3. CurrentAt(reply[w], sampled[w])'
    BY <1>0, <1>1, InOrderStep DEF AnswersYoung, CurrentAt
  <2> QED
    BY <1>0, <1>1, <2>2, <2>3, InOrderStep DEF AnswersYoung
<1>2. ASSUME NEW w \in Workers,
             MidPoll(w)' => /\ MidPoll(w)
                            /\ reply'[w] = reply[w] /\ sampled'[w] = sampled[w]
      PROVE  MidPoll(w)' => /\ CurrentAt(reply[w], sampled[w])'
                            /\ sampled'[w] <= now'
                            /\ now' - sampled'[w] <= PollTicks
  BY <1>1, <1>2
<1>3. ASSUME NEW w \in Workers, Answered(w, "compare") \/ Answered(w, "apply")
      PROVE  /\ CurrentAt(reply[w], sampled[w])'
             /\ sampled'[w] <= now'
             /\ now' - sampled'[w] <= PollTicks
  BY <1>0, <1>3 DEF Answered, serverVars, CurrentAt, TypeInv, TypeOK, Version
<1>4. ASSUME NEW w \in Workers, WorkerStep(w) PROVE AnswersYoung'
  <2>1. ASSUME NEW y \in Workers, y # w
        PROVE  pc'[y] = pc[y] /\ reply'[y] = reply[y] /\ sampled'[y] = sampled[y]
    BY <1>4, <2>1
    DEF WorkerStep, Loop, PollVersion, FetchState, Answered, RequestFails,
        Compare, CompareVersion, ConfirmSync, ApplyFast, Apply, Forget,
        workerVars, TypeInv, TypeOK
  <2>2. CASE PollVersion(w) \/ FetchState(w)
    BY <1>2, <1>3, <2>1, <2>2
    DEF PollVersion, FetchState, AnswersYoung, MidPoll
  <2>3. CASE Compare(w) \/ CompareVersion(w)
    <3>1. MidPoll(w)' => /\ MidPoll(w)
                         /\ reply'[w] = reply[w] /\ sampled'[w] = sampled[w]
      BY <2>3 DEF Compare, CompareVersion, workerVars, MidPoll, TypeInv, TypeOK
    <3> QED
      BY <1>2, <2>1, <3>1 DEF AnswersYoung, MidPoll
  <2>4. CASE Loop(w) \/ RequestFails(w) \/ ConfirmSync(w) \/ ApplyFast(w)
             \/ Apply(w)
    <3>1. ~MidPoll(w)'
      BY <2>4 DEF Loop, RequestFails, ConfirmSync, ApplyFast, Apply, MidPoll,
                  TypeInv, TypeOK
    <3> QED
      BY <1>2, <2>1, <3>1 DEF AnswersYoung, MidPoll
  <2> QED
    BY <1>4, <2>2, <2>3, <2>4 DEF WorkerStep
<1>5. ASSUME UNCHANGED <<reply, sampled>>,
             \A w \in Workers : MidPoll(w)' => MidPoll(w)
      PROVE  AnswersYoung'
  BY <1>2, <1>5 DEF AnswersYoung
<1>6. ASSUME NEW w \in Workers, StartWorker(w) PROVE AnswersYoung'
  BY <1>5, <1>6 DEF StartWorker, MidPoll, TypeInv, TypeOK
<1>7. ASSUME NEW t \in Threads, ThreadStep(t) PROVE AnswersYoung'
  <2>1. UNCHANGED <<reply, sampled>> /\ \A w \in Workers : pc'[w] = pc[w]
    BY <1>7 DEF ThreadStep, BeginDecision, BeginEdit, CheckStale, EnsureLoaded,
                ReadFile, Install, Lookup, Edit, workerVars, TypeInv, TypeOK
  <2> QED
    BY <1>5, <2>1 DEF MidPoll
<1>8. ASSUME NEW x \in Actors, Persist(x) PROVE AnswersYoung'
  <2>1. /\ UNCHANGED <<reply, sampled>>
        /\ \E next \in PersistPCs \cup {"loop", "idle"} :
              pc' = [pc EXCEPT ![x] = next]
    BY <1>8 DEF Persist, TakeSnapshot, OpenTmp, WriteTmp, Replace,
                PersistFails, AfterPersist, PersistPCs, workerVars
  <2> QED
    BY <1>5, <2>1 DEF MidPoll, PersistPCs, TypeInv, TypeOK
<1>9. CASE Restart
  BY <1>9 DEF Restart, AnswersYoung, MidPoll
<1>10. CASE ServerChange \/ Tick \/ StopWorker \/ UNCHANGED vars
  BY <1>5, <1>10 DEF ServerChange, Tick, StopWorker, workerVars, vars, MidPoll
<1> QED
  BY <1>4, <1>6, <1>7, <1>8, <1>9, <1>10 DEF Next
LEMMA SyncYoungStep ==
    ASSUME Sheltered, FollowInv, InOrder, AnswersYoung, ConfirmsYoung,
           SyncYoung, [Next]_vars
    PROVE  SyncYoung'
<1> USE SyncAssumption DEF FollowInv, TypeInv, Actors
<1>0. /\ now \in Nat /\ Version \in Nat /\ mem \in Cache
      /\ \A w \in Workers : sampled[w] \in Nat
  BY DEF TypeOK
<1>1. ASSUME mem'.version = mem.version, mem'.syncedAt = mem.syncedAt
      PROVE  SyncYoung'
  <2>1. mem.syncedAt # Never => mem.syncedAt \in Nat
    BY <1>0 DEF Cache, Stamp, Never
  <2> QED
    BY <1>0, <1>1, <2>1, InOrderStep DEF SyncYoung, CurrentAt, NoVersion, Never
\* A sync that uses an answer is as young as the answer.
<1>2. ASSUME NEW w \in Workers, MidPoll(w), UNCHANGED serverVars,
             mem'.version = reply[w], mem'.syncedAt = now
      PROVE  SyncYoung'
  <2>1. /\ CurrentAt(reply[w], sampled[w]) /\ now - sampled[w] <= PollTicks
        /\ reply[w] \in 1 .. Version
    BY <1>2 DEF AnswersYoung, RepliesKnown
  <2>2. CurrentAt(reply[w], now - 2 * PollTicks)
    BY <1>0, <2>1 DEF CurrentAt, InOrder
  <2>3. now' = now /\ history' = history /\ Version' = Version
    BY <1>2 DEF serverVars, Version
  <2> QED
    BY <1>0, <1>2, <2>1, <2>2, <2>3 DEF SyncYoung, NoVersion, Never, CurrentAt
<1>3. ASSUME NEW w \in Workers, WorkerStep(w) PROVE SyncYoung'
  \* What is confirmed is young enough, whoever put it there.
  <2>1. CASE ConfirmSync(w)
    <3>1. /\ CurrentAt(mem.version, sampled[w] - PollTicks)
          /\ now - sampled[w] <= PollTicks
          /\ mem.version # NoVersion /\ mem.version \in 1 .. Version
      BY <2>1 DEF ConfirmSync, ConfirmsYoung, Confirms, AnswersYoung, MidPoll,
                  CurrentAt
    <3>2. CurrentAt(mem.version, now - 2 * PollTicks)
      BY <1>0, <3>1 DEF CurrentAt, InOrder
    <3>3. mem'.version = mem.version /\ mem'.syncedAt = now
      BY <1>0, <2>1 DEF ConfirmSync, Cache
    <3>4. now' = now /\ history' = history /\ Version' = Version
      BY <2>1 DEF ConfirmSync, serverVars, Version
    <3> QED
      BY <1>0, <3>1, <3>2, <3>3, <3>4 DEF SyncYoung, Never, CurrentAt
  <2>2. CASE ApplyFast(w)
    BY <1>2, <2>2 DEF ApplyFast, MidPoll, Applied
  <2>3. CASE Apply(w)
    BY <1>2, <2>3 DEF Apply, MidPoll, Applied
  <2> QED
    BY <1>1, <1>3, <2>1, <2>2, <2>3
    DEF WorkerStep, Loop, PollVersion, FetchState, Answered, RequestFails,
        Compare, CompareVersion
<1>4. ASSUME NEW t \in Threads, ThreadStep(t) PROVE SyncYoung'
  BY <1>0, <1>1, <1>4
  DEF ThreadStep, BeginDecision, BeginEdit, CheckStale, EnsureLoaded, ReadFile,
      Install, Lookup, Edit, Installed, AfterLookup, Revoked, Cleared,
      BlanketSet, Cache
<1>5. ASSUME NEW x \in Actors, Persist(x) PROVE SyncYoung'
  BY <1>1, <1>5
  DEF Persist, TakeSnapshot, OpenTmp, WriteTmp, Replace, PersistFails
<1>6. CASE Restart
  BY <1>6 DEF Restart, SyncYoung, EmptyCache, NoVersion, Never
<1>7. CASE ServerChange \/ Tick \/ StopWorker \/ UNCHANGED vars
           \/ \E w \in Workers : StartWorker(w)
  BY <1>1, <1>7 DEF ServerChange, Tick, StopWorker, StartWorker, vars
<1> QED
  BY <1>3, <1>4, <1>5, <1>6, <1>7 DEF Next

LEMMA ConfirmsYoungStep ==
    ASSUME FollowInv, InOrder, AnswersYoung, ConfirmsYoung, [Next]_vars
    PROVE  ConfirmsYoung'
<1> USE SyncAssumption DEF FollowInv, TypeInv, Actors
<1>0. /\ now \in Nat /\ Version \in Nat /\ mem \in Cache
      /\ \A w \in Workers : sampled[w] \in Nat
  BY DEF TypeOK
<1>a. \A w \in Workers : MidPoll(w) => sampled[w] <= now
  BY DEF AnswersYoung
\* Nothing happened to the version that is being confirmed.
<1>1. ASSUME mem'.version = mem.version,
             \A w \in Workers : pc'[w] = "stamp" =>
                pc[w] = "stamp" /\ sampled'[w] = sampled[w]
      PROVE  ConfirmsYoung'
  <2>1. ASSUME NEW w \in Workers, pc'[w] = "stamp"
        PROVE  CurrentAt(mem.version, sampled[w] - PollTicks)'
    <3>1. /\ CurrentAt(mem.version, sampled[w] - PollTicks)
          /\ sampled[w] - PollTicks \in Int /\ sampled[w] - PollTicks <= now
      BY <1>0, <1>a, <1>1, <2>1 DEF ConfirmsYoung, MidPoll
    <3>2. mem'.version = mem.version /\ sampled'[w] = sampled[w]
      BY <1>1, <2>1
    <3> QED
      BY <3>1, <3>2, InOrderStep DEF CurrentAt
  <2> QED
    BY <2>1 DEF ConfirmsYoung
<1>2. ASSUME NEW w \in Workers, WorkerStep(w) PROVE ConfirmsYoung'
  <2>1. /\ history' = history /\ now' = now
        /\ \A y \in Workers \ {w} : pc'[y] = pc[y] /\ sampled'[y] = sampled[y]
    BY <1>2 DEF WorkerStep, Loop, PollVersion, FetchState, Answered,
                RequestFails, Compare, CompareVersion, ConfirmSync, ApplyFast,
                Apply, Forget, serverVars, workerVars, TypeOK
  \* Another worker's answer was young when it took its place.
  <2>2. CASE ApplyFast(w) \/ Apply(w)
    <3>1. /\ CurrentAt(reply[w], sampled[w]) /\ now - sampled[w] <= PollTicks
          /\ reply[w] \in 1 .. Version
      BY <2>2 DEF ApplyFast, Apply, MidPoll, AnswersYoung, RepliesKnown
    <3>2. mem'.version = reply[w] /\ pc'[w] = "snapshot"
      BY <2>2 DEF ApplyFast, Apply, Applied, TypeOK
    <3>3. ASSUME NEW y \in Workers, pc'[y] = "stamp"
          PROVE  CurrentAt(mem'.version, sampled'[y] - PollTicks)
      <4>1. y # w /\ pc[y] = "stamp" /\ sampled'[y] = sampled[y]
        BY <2>1, <3>2, <3>3
      <4>2. sampled[y] <= now
        BY <1>a, <4>1 DEF MidPoll
      <4> QED
        BY <1>0, <3>1, <3>2, <4>1, <4>2 DEF CurrentAt, InOrder
    <3>4. Version' = Version
      BY <2>1 DEF Version
    <3> QED
      BY <2>1, <3>3, <3>4 DEF ConfirmsYoung, CurrentAt
  <2>3. CASE CompareVersion(w)
    <3>1. mem' = mem /\ sampled' = sampled /\ Version' = Version
      BY <2>1, <2>3 DEF CompareVersion, workerVars, Version
    <3>2. pc'[w] = "stamp" => CurrentAt(mem.version, sampled[w] - PollTicks)
      <4> SUFFICES ASSUME pc'[w] = "stamp"
                   PROVE  CurrentAt(mem.version, sampled[w] - PollTicks)
        OBVIOUS
      <4>1. VersionUnchanged(w)
        BY <2>3 DEF CompareVersion, TypeOK
      <4>2. CurrentAt(reply[w], sampled[w]) /\ mem.version = reply[w]
        BY <2>3, <4>1
        DEF CompareVersion, VersionUnchanged, AnswersYoung, MidPoll
      <4> QED
        BY <1>0, <4>2 DEF CurrentAt, InOrder
    <3>3. ASSUME NEW y \in Workers, pc'[y] = "stamp"
          PROVE  CurrentAt(mem.version, sampled[y] - PollTicks)
      BY <2>1, <3>2, <3>3 DEF ConfirmsYoung
    <3> QED
      BY <2>1, <3>1, <3>3 DEF ConfirmsYoung, CurrentAt
  <2>4. CASE ~ApplyFast(w) /\ ~Apply(w) /\ ~CompareVersion(w)
    <3>1. mem'.version = mem.version
      BY <1>0, <1>2, <2>4
      DEF WorkerStep, Loop, PollVersion, FetchState, Answered, RequestFails,
          Compare, ConfirmSync, Cache
    <3>2. pc'[w] # "stamp"
      BY <1>2, <2>4
      DEF WorkerStep, Loop, PollVersion, FetchState, Answered, RequestFails,
          Compare, ConfirmSync, TypeOK
    <3> QED
      BY <1>1, <2>1, <3>1, <3>2
  <2> QED
    BY <2>2, <2>3, <2>4
<1>3. ASSUME NEW t \in Threads, ThreadStep(t) PROVE ConfirmsYoung'
  <2>1. mem'.version = mem.version
    BY <1>0, <1>3
    DEF ThreadStep, BeginDecision, BeginEdit, CheckStale, EnsureLoaded,
        ReadFile, Install, Lookup, Edit, Installed, AfterLookup, Revoked,
        Cleared, BlanketSet, Cache
  <2>2. sampled' = sampled /\ \A w \in Workers : pc'[w] = pc[w]
    BY <1>3 DEF ThreadStep, BeginDecision, BeginEdit, CheckStale, EnsureLoaded,
                ReadFile, Install, Lookup, Edit, workerVars, TypeOK
  <2> QED
    BY <1>1, <2>1, <2>2
<1>4. ASSUME NEW x \in Actors, Persist(x) PROVE ConfirmsYoung'
  <2>1. /\ mem' = mem /\ sampled' = sampled
        /\ \E next : next # "stamp" /\ pc' = [pc EXCEPT ![x] = next]
    BY <1>4 DEF Persist, TakeSnapshot, OpenTmp, WriteTmp, Replace,
                PersistFails, AfterPersist, workerVars
  <2> QED
    BY <1>1, <2>1 DEF TypeOK
<1>5. ASSUME NEW w \in Workers, StartWorker(w) PROVE ConfirmsYoung'
  BY <1>1, <1>5 DEF StartWorker, TypeOK
<1>6. CASE Restart
  BY <1>6 DEF Restart, ConfirmsYoung
<1>7. CASE ServerChange \/ Tick \/ StopWorker \/ UNCHANGED vars
  BY <1>1, <1>7 DEF ServerChange, Tick, StopWorker, workerVars, vars
<1> QED
  BY <1>2, <1>3, <1>4, <1>5, <1>6, <1>7 DEF Next

\* The time of the last sync is lost only in a restart, and grows otherwise.
LEMMA SyncedLater ==
    ASSUME FollowInv, SyncYoung, [Next]_vars, ~Restart, mem.syncedAt # Never
    PROVE  /\ mem'.syncedAt # Never
           /\ mem'.syncedAt >= mem.syncedAt
<1> USE SyncAssumption DEF FollowInv, TypeInv, Actors
<1>0. now \in Nat /\ mem \in Cache /\ mem.syncedAt \in Nat /\ mem.syncedAt <= now
  BY DEF TypeOK, Cache, Stamp, Never, SyncYoung
<1>1. mem'.syncedAt = mem.syncedAt \/ mem'.syncedAt = now
  <2>1. ASSUME NEW w \in Workers, WorkerStep(w)
        PROVE  mem'.syncedAt = mem.syncedAt \/ mem'.syncedAt = now
    BY <1>0, <2>1
    DEF WorkerStep, Loop, PollVersion, FetchState, Answered, RequestFails,
        Compare, CompareVersion, ConfirmSync, ApplyFast, Apply, Applied, Cache
  <2>2. ASSUME NEW t \in Threads, ThreadStep(t)
        PROVE  mem'.syncedAt = mem.syncedAt
    BY <1>0, <2>2
    DEF ThreadStep, BeginDecision, BeginEdit, CheckStale, EnsureLoaded,
        ReadFile, Install, Lookup, Edit, Installed, AfterLookup, Revoked,
        Cleared, BlanketSet, Cache
  <2>3. ASSUME NEW x \in Actors, Persist(x)
        PROVE  mem' = mem
    BY <2>3
    DEF Persist, TakeSnapshot, OpenTmp, WriteTmp, Replace, PersistFails
  <2> QED
    BY <2>1, <2>2, <2>3
    DEF Next, vars, ServerChange, Tick, StartWorker, StopWorker
<1> QED
  BY <1>0, <1>1 DEF Never

LEMMA ChecksHoldStep ==
    ASSUME Sheltered, Strict, FollowInv, InOrder, SyncYoung, ChecksHold,
           [Next]_vars
    PROVE  ChecksHold'
<1> USE SyncAssumption DEF FollowInv, TypeInv, Actors
<1>0. /\ now \in Nat /\ now' \in Nat /\ now <= now' /\ mem.syncedAt \in Stamp
      /\ \A t \in Threads : job[t].began \in Nat
  BY InOrderStep DEF TypeOK, Cache, Job
<1>1. CASE Restart
  BY <1>0, <1>1 DEF Restart, ChecksHold, NoJob
<1>2. ASSUME ~Restart,
             NEW t \in Threads, job'[t] = job[t],
             pc'[t] \in {"ensure", "read", "install", "act"} =>
                pc[t] \in {"ensure", "read", "install", "act"}
      PROVE  /\ job'[t].began <= now'
             /\ pc'[t] \in {"ensure", "read", "install", "act"} =>
                  mem'.syncedAt # Never /\ mem'.syncedAt >= Deadline(t)'
  <2>1. job'[t].began <= now'
    BY <1>0, <1>2 DEF ChecksHold
  <2>2. ASSUME pc'[t] \in {"ensure", "read", "install", "act"}
        PROVE  mem'.syncedAt # Never /\ mem'.syncedAt >= Deadline(t)'
    <3>1. mem.syncedAt # Never /\ mem.syncedAt >= Deadline(t)
      BY <1>2, <2>2 DEF ChecksHold
    <3>2. mem'.syncedAt # Never /\ mem'.syncedAt >= mem.syncedAt
      BY <1>2, <3>1, SyncedLater
    <3>3. Deadline(t)' = Deadline(t) /\ Deadline(t) \in Int
      BY <1>0, <1>2 DEF Deadline
    <3>4. mem'.syncedAt \in Int /\ mem.syncedAt \in Int
      BY TypeStep DEF TypeOK, Cache, Stamp, Never
    <3> QED
      BY <3>1, <3>2, <3>3, <3>4
  <2> QED
    BY <2>1, <2>2
<1>3. ASSUME ~Restart, job' = job,
             \A t \in Threads :
                pc'[t] \in {"ensure", "read", "install", "act"} =>
                   pc[t] \in {"ensure", "read", "install", "act"}
      PROVE  ChecksHold'
  BY <1>2, <1>3 DEF ChecksHold
<1>4. ASSUME ~Restart, NEW w \in Workers, StartWorker(w) \/ WorkerStep(w)
      PROVE  ChecksHold'
  <2>1. job' = job
    BY <1>4 DEF StartWorker, WorkerStep, Loop, PollVersion, FetchState,
                Answered, RequestFails, Compare, CompareVersion,
                ConfirmSync, ApplyFast, Apply, threadVars
  <2>2. \A t \in Threads : pc'[t] = pc[t]
    BY <1>4 DEF StartWorker, WorkerStep, Loop, PollVersion, FetchState,
                Answered, RequestFails, Compare, CompareVersion,
                ConfirmSync, ApplyFast, Apply, TypeOK
  <2> QED
    BY <1>3, <1>4, <2>1, <2>2
<1>5. ASSUME ~Restart, NEW x \in Actors, Persist(x) PROVE ChecksHold'
  <2>1. /\ job' = job
        /\ \E next \in PersistPCs \cup {"loop", "idle"} :
              pc' = [pc EXCEPT ![x] = next]
    BY <1>5 DEF Persist, TakeSnapshot, OpenTmp, WriteTmp, Replace,
                PersistFails, AfterPersist, PersistPCs, threadVars
  <2> QED
    BY <1>3, <1>5, <2>1 DEF PersistPCs, TypeOK
<1>6. ASSUME ~Restart, NEW t \in Threads, ThreadStep(t) PROVE ChecksHold'
  <2>1. \A y \in Threads \ {t} : pc'[y] = pc[y] /\ job'[y] = job[y]
    BY <1>6 DEF ThreadStep, BeginDecision, BeginEdit, CheckStale, EnsureLoaded,
                ReadFile, Install, Lookup, Edit, threadVars, TypeOK
  <2>2. ~BeginEdit(t)
    BY DEF BeginEdit, Sheltered
  <2>3. CASE BeginDecision(t)
    <3>1. job'[t].began = now /\ now' = now /\ pc'[t] = "stale"
      BY <2>3 DEF BeginDecision, serverVars, TypeOK
    <3> QED
      BY <1>0, <1>2, <1>6, <2>1, <3>1 DEF ChecksHold
  <2>4. CASE CheckStale(t)
    <3>1. job' = job /\ now' = now /\ mem' = mem
      BY <2>4 DEF CheckStale, serverVars
    <3>2. ASSUME pc'[t] \in {"ensure", "read", "install", "act"}
          PROVE  mem.syncedAt # Never /\ mem.syncedAt >= Deadline(t)
      <4>1. ~IsSyncStale(mem, StaleThreshold, now)
        BY <2>4, <3>2 DEF CheckStale, Strict, TypeOK
      <4>2. mem.syncedAt # Never /\ now - mem.syncedAt <= StaleThreshold
        BY <1>0, <4>1 DEF IsSyncStale, Strict, Stamp, Never
      <4> QED
        BY <1>0, <4>2 DEF ChecksHold, Deadline, Stamp, Never
    <3> QED
      BY <1>0, <1>2, <1>6, <2>1, <3>1, <3>2 DEF ChecksHold, Deadline
  <2>5. CASE ~BeginDecision(t) /\ ~CheckStale(t)
    <3>1. /\ job' = job
          /\ pc'[t] \in {"ensure", "read", "install", "act"} =>
                pc[t] \in {"ensure", "read", "install", "act"}
      BY <1>6, <2>2, <2>5
      DEF ThreadStep, EnsureLoaded, ReadFile, Install, Lookup, Edit, threadVars
    <3> QED
      BY <1>3, <1>6, <2>1, <3>1
  <2> QED
    BY <2>3, <2>4, <2>5
<1>7. ASSUME ~Restart, ServerChange \/ Tick \/ StopWorker \/ UNCHANGED vars
      PROVE  ChecksHold'
  BY <1>3, <1>7 DEF ServerChange, Tick, StopWorker, threadVars, vars
<1> QED
  BY <1>1, <1>4, <1>5, <1>6, <1>7 DEF Next

\* A version current at m or later has every kill older than m that lasts.
LEMMA OldKillsAreSeen ==
    ASSUME TypeInv, InOrder, NEW a \in Agents, NEW m \in Int,
           NEW v, CurrentAt(v, m), KilledSinceBefore(a, m)
    PROVE  Kills(v, a)
<1>0. Version \in Nat
  BY DEF TypeInv, TypeOK
<1>1. PICK u \in 1 .. Version : /\ history[u].at < m
                                /\ \A x \in u .. Version : Kills(x, a)
  BY DEF KilledSinceBefore
<1>2. v \in 1 .. Version
  BY DEF CurrentAt
<1>3. ~(v < u)
  <2> SUFFICES ASSUME v < u PROVE FALSE
    OBVIOUS
  <2>1. v + 1 \in 1 .. Version /\ v + 1 <= u /\ history[v + 1].at >= m
    BY <1>0, <1>1, <1>2 DEF CurrentAt
  <2>2. history[v + 1].at <= history[u].at
    BY <1>1, <2>1 DEF InOrder
  <2>3. history[v + 1].at \in Nat /\ history[u].at \in Nat
    BY <1>1, <2>1 DEF InOrder
  <2> QED
    BY <1>1, <2>1, <2>2, <2>3
<1> QED
  BY <1>0, <1>1, <1>2, <1>3

\* A kill that is older than a past moment was so one step ago.
LEMMA OldKillsAreOld ==
    ASSUME TypeInv, InOrder, [Next]_vars, NEW a \in Agents, NEW m \in Int,
           m <= now, KilledSinceBefore(a, m)'
    PROVE  KilledSinceBefore(a, m)
<1>0. Version \in Nat /\ Version' \in Nat /\ Version <= Version' /\ now \in Nat
  BY HistoryGrows DEF TypeInv, TypeOK
<1>1. PICK u \in 1 .. Version' :
         history'[u].at < m /\ \A x \in u .. Version' : Kills(x, a)'
  BY DEF KilledSinceBefore
<1>2. CASE u \in 1 .. Version
  BY <1>0, <1>1, <1>2, HistoryGrows DEF KilledSinceBefore
<1>3. CASE u \notin 1 .. Version
  <2>1. ServerChange
    BY <1>0, <1>3
    DEF Next, vars, Tick, StartWorker, StopWorker, WorkerStep, Loop,
        PollVersion, FetchState, Answered, RequestFails, Compare,
        CompareVersion, ConfirmSync, ApplyFast, Apply, ThreadStep,
        BeginDecision, BeginEdit, CheckStale, EnsureLoaded, ReadFile, Install,
        Lookup, Edit, Persist, TakeSnapshot, OpenTmp, WriteTmp, Replace,
        PersistFails, Restart, serverVars, Version
  <2>2. history'[Version + 1].at = now /\ u = Version + 1
    BY <1>0, <1>1, <1>3, <2>1 DEF ServerChange, TypeInv, TypeOK, Version
  <2> QED
    BY <1>0, <1>1, <2>2
<1> QED
  BY <1>2, <1>3

LEMMA BoundStep ==
    ASSUME Sheltered, Strict, ExposureInv, [Next]_vars
    PROVE  BoundedExposure'
<1> USE SyncAssumption DEF ExposureInv, FollowInv, TypeInv, Actors
<1>0. /\ now \in Nat /\ PollTicks \in Nat /\ StaleThreshold \in Nat
      /\ \A t \in Threads : /\ job[t].began \in Nat /\ job[t].began <= now
                            /\ job[t].agent \in Agents
  BY DEF TypeOK, Job, ChecksHold
<1>1. ASSUME NEW t \in Threads, job'[t] = job[t], outcome[t] = "pass"
      PROVE  ~KilledSinceBefore(job[t].agent,
                                job[t].began - StaleThreshold - 2 * PollTicks)'
  <2>1. PICK a \in Agents, m \in Int :
           /\ a = job[t].agent
           /\ m = job[t].began - StaleThreshold - 2 * PollTicks
           /\ m <= now
    BY <1>0
  <2>2. ~KilledSinceBefore(a, m)
    BY <1>1, <2>1 DEF BoundedExposure, Strict
  <2>3. ~KilledSinceBefore(a, m)'
    BY <2>1, <2>2, OldKillsAreOld
  <2> QED
    BY <1>1, <2>1, <2>3 DEF KilledSinceBefore
<1>2. ASSUME NEW t \in Threads, Lookup(t), outcome'[t] = "pass"
      PROVE  ~KilledSinceBefore(job[t].agent,
                                job[t].began - StaleThreshold - 2 * PollTicks)'
  <2>1. PICK a \in Agents, m \in Int :
           /\ a = job[t].agent
           /\ m = job[t].began - StaleThreshold - 2 * PollTicks
    BY <1>0
  <2>2. mem.syncedAt # Never /\ mem.syncedAt >= Deadline(t)
    BY <1>2 DEF Lookup, ChecksHold
  <2>3. /\ mem.version # NoVersion
        /\ CurrentAt(mem.version, mem.syncedAt - 2 * PollTicks)
    BY <2>2 DEF SyncYoung
  <2>4. mem.syncedAt \in Nat
    BY <2>2 DEF TypeOK, Cache, Stamp, Never
  <2>5. CurrentAt(mem.version, m)
    <3>1. mem.syncedAt - 2 * PollTicks >= m
      BY <1>0, <2>1, <2>2, <2>4 DEF Deadline
    <3>2. mem.version \in 1 .. Version /\ Version \in Nat
      BY <2>3 DEF CurrentAt, TypeOK
    <3>3. mem.version < Version => history[mem.version + 1].at \in Nat
      BY <3>2 DEF InOrder
    <3> QED
      BY <1>0, <2>1, <2>3, <2>4, <3>1, <3>2, <3>3 DEF CurrentAt
  <2>6. ~Kills(mem.version, a)
    <3>1. ~Denies(mem, a, now)
      BY <1>2, <2>1 DEF Lookup, TypeOK
    <3> QED
      BY <2>1, <2>3, <3>1, AgeIgnored DEF Agrees
  <2>7. ~KilledSinceBefore(a, m)
    BY <2>1, <2>5, <2>6, OldKillsAreSeen
  <2>8. history' = history /\ job' = job
    BY <1>2 DEF Lookup, serverVars
  <2> QED
    BY <2>1, <2>7, <2>8 DEF KilledSinceBefore, Kills, Version
<1>3. ASSUME NEW t \in Threads, outcome'[t] = "pass"
      PROVE  (job'[t] = job[t] /\ outcome[t] = "pass") \/ Lookup(t)
  <2>1. CASE UNCHANGED threadVars
    BY <1>3, <2>1 DEF threadVars
  <2>2. ASSUME NEW y \in Threads, ThreadStep(y)
        PROVE  (job'[t] = job[t] /\ outcome[t] = "pass") \/ Lookup(t)
    BY <1>3, <2>2
    DEF ThreadStep, BeginDecision, BeginEdit, CheckStale, EnsureLoaded,
        ReadFile, Install, Lookup, Edit, threadVars, TypeOK, Strict
  <2>3. CASE Restart
    BY <1>3, <2>3 DEF Restart
  <2>4. ASSUME NEW w \in Workers, WorkerStep(w) PROVE UNCHANGED threadVars
    BY <2>4 DEF WorkerStep, Loop, PollVersion, FetchState, Answered,
                RequestFails, Compare, CompareVersion,
                ConfirmSync, ApplyFast, Apply
  <2>5. ASSUME NEW x \in Actors, Persist(x) PROVE UNCHANGED threadVars
    BY <2>5
    DEF Persist, TakeSnapshot, OpenTmp, WriteTmp, Replace, PersistFails
  <2>6. CASE ServerChange \/ Tick \/ StopWorker \/ UNCHANGED vars
             \/ \E w \in Workers : StartWorker(w)
    BY <2>1, <2>6
    DEF ServerChange, Tick, StopWorker, StartWorker, vars, threadVars
  <2> QED
    BY <2>1, <2>2, <2>3, <2>4, <2>5, <2>6 DEF Next
<1>4. ASSUME NEW t \in Threads, outcome'[t] = "pass"
      PROVE  ~KilledSinceBefore(job[t].agent,
                                job[t].began - StaleThreshold - 2 * PollTicks)'
  BY <1>1, <1>2, <1>3, <1>4
<1> QED
  BY <1>4 DEF BoundedExposure

\* In a strict stale mode an agent the server has killed for longer than the
\* stale threshold and twice the age of an answer does not pass the local
\* checks, for any number of workers, if every answer is used within
\* PollTicks, the host makes no edits and entries do not expire within the
\* run.
THEOREM ExposureIsBounded ==
    ASSUME Sheltered, Strict
    PROVE  Spec => []BoundedExposure
<1>1. Init => ExposureInv
  BY ExposureInit
<1>2. ExposureInv /\ [Next]_vars => ExposureInv'
  <2> SUFFICES ASSUME ExposureInv, [Next]_vars PROVE ExposureInv'
    OBVIOUS
  <2>1. FollowInv'
    BY TypeStep, PlansStep, ConfirmsStep, NoRaceStep, AgreesStep
    DEF ExposureInv, FollowInv, Sheltered
  <2>2. InOrder' /\ AnswersYoung' /\ ConfirmsYoung'
    BY <2>1, InOrderStep, AnswersYoungStep, ConfirmsYoungStep
    DEF ExposureInv, FollowInv
  <2>3. SyncYoung' /\ ChecksHold' /\ BoundedExposure'
    BY SyncYoungStep, ChecksHoldStep, BoundStep DEF ExposureInv
  <2> QED
    BY <2>1, <2>2, <2>3 DEF ExposureInv
<1>3. ExposureInv => BoundedExposure
  BY DEF ExposureInv
<1> QED
  BY <1>1, <1>2, <1>3, PTL DEF Spec

-----------------------------------------------------------------------------
(* The file, while one thread writes it.                                   *)

\* The threads that persist: the workers, and the host if it edits.
Writers == IF LocalOps = {} THEN Workers ELSE Actors

OneWriter == \A x, y \in Writers : x = y

\* The temporary file is open only in a write, under its own name and
\* empty; what is renamed is whole.
FileInv ==
    /\ FileIsWhole
    /\ \A x \in Actors :
          /\ pc[x] \in PersistPCs => x \in Writers
          /\ fd[x] # "none" => pc[x] = "write"
          /\ pc[x] = "write" => fd[x] = "tmp" /\ tmp.status = "empty"
          /\ pc[x] = "replace" => tmp.status = "whole"

Plans == LocalOps = {} => FastPathAsked /\ OnlyDecisions

LEMMA PlansStay == TypeInv /\ Plans /\ [Next]_vars => Plans'
BY PlansStep DEF Plans

LEMMA FileInit == Init => FileInv
BY SyncAssumption
DEF Init, FileInv, FileIsWhole, NoFile, PersistPCs, Actors

LEMMA FileStep ==
    ASSUME OneWriter, TypeInv, Plans, FileInv, [Next]_vars
    PROVE  FileInv'
<1> USE SyncAssumption DEF TypeInv, Actors
<1>0. \A x \in Workers : x \in Writers
  BY DEF Writers
\* A step outside the file operations.
<1>1. ASSUME UNCHANGED fileVars, NEW x \in Actors, NEW next,
             pc' = [pc EXCEPT ![x] = next], pc[x] # "write",
             next \notin {"write", "replace"},
             next \in PersistPCs => x \in Writers
      PROVE  FileInv'
  <2>1. path' = path /\ tmp' = tmp /\ fd' = fd
    BY <1>1 DEF fileVars
  <2>2. pc'[x] = next /\ \A y \in Actors \ {x} : pc'[y] = pc[y]
    BY <1>1 DEF TypeOK
  <2>3. fd[x] = "none"
    BY <1>1 DEF FileInv
  <2> QED
    BY <1>1, <2>1, <2>2, <2>3 DEF FileInv, FileIsWhole
<1>2. CASE UNCHANGED <<pc, path, tmp, fd>>
  BY <1>2 DEF FileInv, FileIsWhole
<1>3. ASSUME NEW w \in Workers, WorkerStep(w) \/ StartWorker(w)
      PROVE  FileInv'
  <2>1. /\ UNCHANGED fileVars /\ pc[w] # "write"
        /\ \E next \in {"off", "loop", "poll", "compare", "version", "stamp",
                        "fetch", "applyFast", "apply", "snapshot"} :
              pc' = [pc EXCEPT ![w] = next]
    BY <1>3 DEF StartWorker, WorkerStep, Loop, PollVersion, FetchState,
                Answered, RequestFails, Compare, CompareVersion,
                ConfirmSync, ApplyFast, Apply
  <2> QED
    BY <1>0, <1>1, <2>1
<1>4. ASSUME NEW t \in Threads, ThreadStep(t) PROVE FileInv'
  <2>1. Edit(t) => t \in Writers
    BY DEF Edit, Plans, OnlyDecisions, Writers
  <2>2. /\ UNCHANGED fileVars /\ pc[t] # "write"
        /\ \E next \in {"idle", "stale", "ensure", "read", "install", "act",
                        "snapshot"} :
              /\ pc' = [pc EXCEPT ![t] = next]
              /\ next = "snapshot" => Edit(t)
    BY <1>4 DEF ThreadStep, BeginDecision, BeginEdit, CheckStale, EnsureLoaded,
                ReadFile, Install, Lookup, Edit
  <2> QED
    BY <1>1, <2>1, <2>2 DEF PersistPCs
<1>5. ASSUME NEW x \in Actors, Persist(x) PROVE FileInv'
  <2>1. pc[x] \in PersistPCs
    BY <1>5 DEF Persist, TakeSnapshot, OpenTmp, WriteTmp, Replace,
                PersistFails, PersistPCs
  <2>2. /\ x \in Writers
        /\ \A y \in Actors \ {x} : pc[y] \notin PersistPCs /\ fd[y] = "none"
    BY <2>1 DEF FileInv, OneWriter, PersistPCs
  <2>3. ASSUME NEW next, pc' = [pc EXCEPT ![x] = next]
        PROVE  /\ pc'[x] = next
               /\ \A y \in Actors \ {x} : pc'[y] \notin PersistPCs
    BY <2>2, <2>3 DEF TypeOK
  <2>4. CASE TakeSnapshot(x)
    <3>1. /\ UNCHANGED fileVars /\ pc[x] # "write"
          /\ pc' = [pc EXCEPT ![x] = "open"]
      BY <2>4 DEF TakeSnapshot
    <3>2. "open" \notin {"write", "replace"}
      OBVIOUS
    <3> QED
      BY <1>1, <2>2, <3>1, <3>2
  <2>5. CASE OpenTmp(x)
    <3>1. path' = path /\ tmp'.status = "empty"
      BY <2>5 DEF OpenTmp, EmptyFile
    <3>2. fd'[x] = "tmp" /\ \A y \in Actors \ {x} : fd'[y] = "none"
      BY <2>2, <2>5 DEF OpenTmp, TypeOK
    <3>3. pc'[x] = "write" /\ \A y \in Actors \ {x} : pc'[y] \notin PersistPCs
      BY <2>3, <2>5 DEF OpenTmp
    <3> QED
      BY <2>2, <3>1, <3>2, <3>3 DEF FileInv, FileIsWhole, PersistPCs
  <2>6. CASE WriteTmp(x)
    <3>1. fd[x] = "tmp" /\ tmp.status = "empty"
      BY <2>6 DEF WriteTmp, FileInv
    <3>2. path' = path /\ tmp'.status = "whole"
      BY <2>6, <3>1 DEF WriteTmp, WriteFile, Written, FileOf, Whole
    <3>3. \A y \in Actors : fd'[y] = "none"
      BY <2>2, <2>6 DEF WriteTmp, WriteFile, TypeOK
    <3>4. pc'[x] = "replace" /\ \A y \in Actors \ {x} : pc'[y] \notin PersistPCs
      BY <2>3, <2>6 DEF WriteTmp
    <3> QED
      BY <2>2, <3>2, <3>3, <3>4 DEF FileInv, FileIsWhole, PersistPCs
  <2>7. CASE Replace(x)
    <3>1. tmp.status = "whole" /\ fd[x] = "none"
      BY <2>7 DEF Replace, FileInv
    <3>2. path' = tmp
      BY <2>7, <3>1 DEF Replace
    <3>3. \A y \in Actors : fd'[y] = "none"
      BY <2>2, <2>7, <3>1 DEF Replace
    <3>4. \A y \in Actors : pc'[y] \notin PersistPCs
      BY <2>3, <2>7 DEF Replace, AfterPersist, PersistPCs
    <3> QED
      BY <3>1, <3>2, <3>3, <3>4 DEF FileInv, FileIsWhole, PersistPCs
  <2>8. CASE PersistFails(x)
    <3>1. path' = path
      BY <2>8 DEF PersistFails, WriteFile, FileInv
    <3>2. \A y \in Actors : fd'[y] = "none"
      BY <2>2, <2>8 DEF PersistFails, WriteFile, FileInv, TypeOK
    <3>3. \A y \in Actors : pc'[y] \notin PersistPCs
      BY <2>3, <2>8 DEF PersistFails, AfterPersist, PersistPCs
    <3> QED
      BY <3>1, <3>2, <3>3 DEF FileInv, FileIsWhole, PersistPCs
  <2> QED
    BY <1>5, <2>4, <2>5, <2>6, <2>7, <2>8 DEF Persist
<1>6. CASE Restart
  BY <1>6 DEF Restart, FileInv, FileIsWhole, PersistPCs
<1>7. CASE ServerChange \/ Tick \/ StopWorker \/ UNCHANGED vars
  BY <1>2, <1>7 DEF ServerChange, Tick, StopWorker, fileVars, vars
<1> QED
  BY <1>3, <1>4, <1>5, <1>6, <1>7 DEF Next

\* While one thread persists, wherever its writes, renames and the process
\* itself are cut off, a restart finds no file or a whole one.
THEOREM FileStaysWhole ==
    ASSUME OneWriter
    PROVE  Spec => []FileIsWhole
<1>1. Init => TypeInv /\ Plans /\ FileInv
  BY TypeInit, PlansInit, FileInit DEF Plans
<1>2. TypeInv /\ Plans /\ FileInv /\ [Next]_vars => (TypeInv /\ Plans /\ FileInv)'
  BY TypeStep, PlansStay, FileStep
<1>3. FileInv => FileIsWhole
  BY DEF FileInv
<1> QED
  BY <1>1, <1>2, <1>3, PTL DEF Spec

-----------------------------------------------------------------------------
(* Memory and file move through the server's versions.                     *)

\* Two snapshots, or a snapshot and the cache, kill the same.
SameKills(s, c) ==
    /\ s.blanket = c.blanket
    /\ \A a \in Agents : s.revoked[a] # Never <=> c.revoked[a] # Never

\* A snapshot kills what one of the server's versions kills.
OneVersion(s) ==
    \E v \in 1 .. Version :
       \A a \in Agents : s.blanket \/ s.revoked[a] # Never <=> Kills(v, a)

\* The worker holds answers no older than the version in force, and saves
\* what is in force; the file, and what a lookup has read of it, is the
\* state of one version.
VersionInv ==
    /\ \A w \in Workers :
          /\ MidPoll(w) => mem.version <= reply[w]
          /\ pc[w] \in PersistPCs => mem.version # NoVersion
          /\ pc[w] \in {"open", "write", "replace"} => SameKills(data[w], mem)
          /\ pc[w] = "replace" => tmp.content = data[w]
    /\ path.status = "whole" => OneVersion(path.content)
    /\ \A t \in Threads : pc[t] = "install" => OneVersion(data[t])

PromiseInv == FollowInv /\ FileInv /\ VersionInv

LEMMA OneVersionStays ==
    ASSUME TypeInv, [Next]_vars, NEW s, OneVersion(s)
    PROVE  \E v \in 1 .. Version' :
              \A a \in Agents : s.blanket \/ s.revoked[a] # Never
                                  <=> Kills(v, a)'
<1>1. PICK v \in 1 .. Version :
         \A a \in Agents : s.blanket \/ s.revoked[a] # Never <=> Kills(v, a)
  BY DEF OneVersion
<1>2. v \in 1 .. Version' /\ \A a \in Agents : Kills(v, a)' <=> Kills(v, a)
  BY HistoryGrows
<1> QED
  BY <1>1, <1>2

LEMMA VersionInit == Init => VersionInv
BY SyncAssumption
DEF Init, VersionInv, MidPoll, NoFile, PersistPCs, Actors

\* No host thread but one that installs the file changes what is in force.
LEMMA LookupsKeep ==
    ASSUME Sheltered, FollowInv, NEW t \in Threads, ThreadStep(t), ~Install(t)
    PROVE  mem'.version = mem.version /\ SameKills(mem', mem)
<1> USE DEF FollowInv, TypeInv, Actors
<1>0. mem \in Cache
  BY DEF TypeOK
<1>1. mem' = mem => mem'.version = mem.version /\ SameKills(mem', mem)
  BY DEF SameKills
<1>2. CASE ReadFile(t)
  BY <1>0, <1>1, <1>2 DEF ReadFile, SameKills, Cache
<1>3. CASE Lookup(t)
  <2>1. job[t].agent \in Agents
    BY DEF TypeOK, Job
  <2>2. CASE Denies(mem, job[t].agent, now)
    BY <1>1, <1>3, <2>2 DEF Lookup, AfterLookup
  <2>3. CASE ~Denies(mem, job[t].agent, now)
    <3>1. mem.revoked[job[t].agent] = Never
      BY <2>1, <2>3, AgeIgnored
    <3>2. mem' = [mem EXCEPT !.revoked[job[t].agent] = Never]
      BY <1>3, <2>3 DEF Lookup, AfterLookup
    <3> QED
      BY <1>0, <3>1, <3>2 DEF SameKills, Cache
  <2> QED
    BY <2>2, <2>3
<1>4. ~Edit(t)
  BY DEF Edit, OnlyDecisions
<1> QED
  BY <1>1, <1>2, <1>3, <1>4
  DEF ThreadStep, BeginDecision, BeginEdit, CheckStale, EnsureLoaded

\* What is in force changes when a worker applies an answer, when a lookup
\* installs the file, and in a restart; in no other step.
LEMMA CacheMoves ==
    ASSUME Sheltered, FollowInv, [Next]_vars
    PROVE  \/ mem'.version = mem.version /\ SameKills(mem', mem)
           \/ \E w \in Workers : ApplyFast(w) \/ Apply(w)
           \/ \E t \in Threads : Install(t)
           \/ Restart
<1> USE DEF FollowInv, TypeInv, Actors
<1>0. mem \in Cache
  BY DEF TypeOK
<1>1. mem' = mem => mem'.version = mem.version /\ SameKills(mem', mem)
  BY DEF SameKills
<1>2. ASSUME NEW w \in Workers, WorkerStep(w), ~ApplyFast(w), ~Apply(w)
      PROVE  mem'.version = mem.version /\ SameKills(mem', mem)
  <2>1. CASE ConfirmSync(w)
    BY <1>0, <1>1, <2>1 DEF ConfirmSync, SameKills, Cache
  <2>2. CASE ~ConfirmSync(w)
    BY <1>1, <1>2, <2>2
    DEF WorkerStep, Loop, PollVersion, FetchState, Answered, RequestFails,
        Compare, CompareVersion
  <2> QED
    BY <2>1, <2>2
<1>3. ASSUME NEW t \in Threads, ThreadStep(t), ~Install(t)
      PROVE  mem'.version = mem.version /\ SameKills(mem', mem)
  BY <1>3, LookupsKeep
<1>4. ASSUME NEW x \in Actors, Persist(x) PROVE mem' = mem
  BY <1>4
  DEF Persist, TakeSnapshot, OpenTmp, WriteTmp, Replace, PersistFails
<1>5. ServerChange \/ Tick \/ StopWorker \/ UNCHANGED vars
           \/ (\E w \in Workers : StartWorker(w)) => mem' = mem
  BY DEF ServerChange, Tick, StopWorker, StartWorker, vars
<1> QED
  BY <1>1, <1>2, <1>3, <1>4, <1>5 DEF Next

LEMMA VersionStep ==
    ASSUME Sheltered, OneWriter, PromiseInv, [Next]_vars
    PROVE  VersionInv'
<1> USE SyncAssumption DEF PromiseInv, FollowInv, TypeInv, Actors
<1>0. /\ \A x, y \in Workers : x = y
      /\ \A t \in Threads : t \notin Workers
      /\ mem \in Cache /\ mem.version \in 0 .. Version /\ Version \in Nat
      /\ \A w \in Workers : reply[w] \in Nat
  BY DEF Sheltered, OneWriter, Writers, TypeOK, RepliesKnown
<1>a. \A s : OneVersion(s) =>
         \E v \in 1 .. Version' :
            \A a \in Agents : s.blanket \/ s.revoked[a] # Never
                                <=> Kills(v, a)'
  BY OneVersionStays
\* The clauses about the file.
<1>1. ASSUME path' = path \/ (path'.status = "whole" => OneVersion(path'.content))
      PROVE  (path.status = "whole" => OneVersion(path.content))'
  BY <1>a, <1>1 DEF VersionInv, OneVersion
<1>2. ASSUME \A t \in Threads : pc'[t] = "install" =>
                \/ pc[t] = "install" /\ data'[t] = data[t]
                \/ OneVersion(data'[t])
      PROVE  (\A t \in Threads : pc[t] = "install" => OneVersion(data[t]))'
  BY <1>a, <1>2 DEF VersionInv, OneVersion
\* The worker moves on and holds no answer, or still the same one.
<1>3. ASSUME NEW w \in Workers, WorkerStep(w) \/ StartWorker(w)
      PROVE  VersionInv'
  <2>1. /\ UNCHANGED <<path, tmp, data>>
        /\ \E next \in {"off", "loop", "poll", "compare", "version", "stamp",
                        "fetch", "applyFast", "apply", "snapshot"} :
              pc' = [pc EXCEPT ![w] = next]
    BY <1>3 DEF StartWorker, WorkerStep, Loop, PollVersion, FetchState,
                Answered, RequestFails, Compare, CompareVersion,
                ConfirmSync, ApplyFast, Apply, fileVars
  <2>2. /\ \A t \in Threads : pc'[t] = pc[t] /\ data'[t] = data[t]
        /\ pc'[w] \in {"off", "loop", "poll", "compare", "version", "stamp",
                       "fetch", "applyFast", "apply", "snapshot"}
    BY <1>0, <2>1 DEF TypeOK
  <2>3. /\ (path.status = "whole" => OneVersion(path.content))'
        /\ (\A t \in Threads : pc[t] = "install" => OneVersion(data[t]))'
    BY <1>1, <1>2, <2>1, <2>2
  <2>4. MidPoll(w)' => mem'.version <= reply'[w]
    <3>1. CASE PollVersion(w) \/ FetchState(w)
      BY <1>0, <3>1 DEF PollVersion, FetchState, Answered, TypeOK
    <3>2. CASE Compare(w) \/ CompareVersion(w)
      BY <1>0, <3>2
      DEF Compare, CompareVersion, MidPoll, workerVars, VersionInv, TypeOK
    <3>3. CASE Loop(w) \/ RequestFails(w) \/ StartWorker(w) \/ ConfirmSync(w)
               \/ ApplyFast(w) \/ Apply(w)
      BY <3>3 DEF Loop, RequestFails, StartWorker, ConfirmSync, ApplyFast,
                  Apply, MidPoll, TypeOK
    <3> QED
      BY <1>3, <3>1, <3>2, <3>3 DEF WorkerStep
  <2>5. pc'[w] \in PersistPCs => mem'.version # NoVersion
    <3>1. CASE ApplyFast(w) \/ Apply(w)
      <4>1. reply[w] \in 1 .. Version
        BY <3>1 DEF ApplyFast, Apply, MidPoll, RepliesKnown
      <4> QED
        BY <3>1, <4>1 DEF ApplyFast, Apply, Applied, NoVersion
    <3>2. CASE ~ApplyFast(w) /\ ~Apply(w)
      BY <1>3, <3>2 DEF WorkerStep, StartWorker, Loop, PollVersion, FetchState,
                        Answered, RequestFails, Compare, CompareVersion,
                        ConfirmSync, PersistPCs, TypeOK
    <3> QED
      BY <3>1, <3>2
  <2>6. pc'[w] \notin {"open", "write", "replace"}
    BY <2>2
  <2> QED
    BY <1>0, <2>3, <2>4, <2>5, <2>6 DEF VersionInv
\* The worker stays where it is.
<1>4. ASSUME \A w \in Workers : /\ pc'[w] = pc[w] /\ reply'[w] = reply[w]
                                /\ data'[w] = data[w],
             path' = path, tmp' = tmp,
             mem'.version = mem.version,
             SameKills(mem', mem) \/ mem.version = NoVersion,
             \A t \in Threads : pc'[t] = "install" =>
                \/ pc[t] = "install" /\ data'[t] = data[t]
                \/ OneVersion(data'[t])
      PROVE  VersionInv'
  <2>1. ASSUME NEW w \in Workers
        PROVE  /\ MidPoll(w)' => mem'.version <= reply'[w]
               /\ pc'[w] \in PersistPCs => mem'.version # NoVersion
               /\ pc'[w] = "replace" => tmp'.content = data'[w]
    BY <1>4 DEF VersionInv, MidPoll
  <2>2. ASSUME NEW w \in Workers, pc'[w] \in {"open", "write", "replace"}
        PROVE  SameKills(data[w], mem)'
    <3>1. SameKills(data[w], mem) /\ mem.version # NoVersion
      BY <1>4, <2>2 DEF VersionInv, PersistPCs
    <3>2. SameKills(mem', mem)
      BY <1>4, <3>1
    <3> QED
      BY <1>4, <3>1, <3>2 DEF SameKills
  <2>3. /\ (path.status = "whole" => OneVersion(path.content))'
        /\ (\A t \in Threads : pc[t] = "install" => OneVersion(data[t]))'
    BY <1>1, <1>2, <1>4
  <2> QED
    BY <2>1, <2>2, <2>3 DEF VersionInv
<1>5. ASSUME NEW t \in Threads, ThreadStep(t) PROVE VersionInv'
  <2>1. /\ path' = path /\ tmp' = tmp /\ reply' = reply
        /\ \A y \in Actors \ {t} : pc'[y] = pc[y] /\ data'[y] = data[y]
    BY <1>5 DEF ThreadStep, BeginDecision, BeginEdit, CheckStale, EnsureLoaded,
                ReadFile, Install, Lookup, Edit, fileVars, workerVars, TypeOK
  <2>2. mem'.version = mem.version
    BY <1>0, <1>5
    DEF ThreadStep, BeginDecision, BeginEdit, CheckStale, EnsureLoaded,
        ReadFile, Install, Lookup, Edit, Installed, AfterLookup, Revoked,
        Cleared, BlanketSet, Cache
  <2>3. SameKills(mem', mem) \/ mem.version = NoVersion
    <3>1. CASE Install(t)
      BY <3>1 DEF Install, NoRace, LoadedFirst, LoadedBySync, MidLoad
    <3>2. CASE ~Install(t)
      BY <1>5, <3>2, LookupsKeep
    <3> QED
      BY <3>1, <3>2
  <2>4. pc'[t] = "install" => OneVersion(data'[t])
    <3>1. CASE ReadFile(t)
      BY <3>1 DEF ReadFile, VersionInv, TypeOK
    <3>2. CASE ~ReadFile(t)
      BY <1>5, <3>2 DEF ThreadStep, BeginDecision, BeginEdit, CheckStale,
                        EnsureLoaded, Install, Lookup, Edit, TypeOK
    <3> QED
      BY <3>1, <3>2
  <2> QED
    BY <1>0, <1>4, <2>1, <2>2, <2>3, <2>4
<1>6. ASSUME NEW x \in Actors, Persist(x) PROVE VersionInv'
  <2>1. /\ x \in Workers /\ pc[x] \in PersistPCs
        /\ \A y \in Workers : y = x
    BY <1>0, <1>6 DEF Persist, TakeSnapshot, OpenTmp, WriteTmp, Replace,
                      PersistFails, PersistPCs, FileInv, Writers, Sheltered
  <2>2. mem' = mem /\ reply' = reply /\ mem.version # NoVersion
    BY <1>6, <2>1 DEF Persist, TakeSnapshot, OpenTmp, WriteTmp, Replace,
                      PersistFails, workerVars, VersionInv
  <2>3. \A t \in Threads : pc'[t] = pc[t] /\ data'[t] = data[t]
    BY <1>0, <1>6, <2>1 DEF Persist, TakeSnapshot, OpenTmp, WriteTmp, Replace,
                            PersistFails, TypeOK
  <2>4. (\A t \in Threads : pc[t] = "install" => OneVersion(data[t]))'
    BY <1>2, <2>3
  <2>5. ~MidPoll(x)'
    BY <1>6 DEF Persist, TakeSnapshot, OpenTmp, WriteTmp, Replace,
                PersistFails, AfterPersist, MidPoll, TypeOK
  <2>6. ASSUME pc'[x] \in {"open", "write", "replace"} =>
                  SameKills(data'[x], mem),
               pc'[x] = "replace" => tmp'.content = data'[x],
               path' = path \/ (path'.status = "whole" =>
                                  OneVersion(path'.content))
        PROVE  VersionInv'
    <3>1. (path.status = "whole" => OneVersion(path.content))'
      BY <1>1, <2>6
    <3>2. \A w \in Workers :
             pc'[w] \in {"open", "write", "replace"} => SameKills(data[w], mem)'
      BY <2>1, <2>2, <2>6 DEF SameKills
    <3> QED
      BY <2>1, <2>2, <2>4, <2>5, <2>6, <3>1, <3>2 DEF VersionInv
  <2>7. CASE TakeSnapshot(x)
    <3>1. SameKills(data'[x], mem) /\ pc'[x] = "open" /\ path' = path
      BY <2>7 DEF TakeSnapshot, SnapshotOf, SameKills, fileVars, TypeOK
    <3> QED
      BY <2>6, <3>1
  <2>8. CASE OpenTmp(x)
    <3>1. data' = data /\ pc'[x] = "write" /\ path' = path
      BY <2>8 DEF OpenTmp, TypeOK
    <3>2. SameKills(data[x], mem)
      BY <2>1, <2>8 DEF OpenTmp, VersionInv
    <3> QED
      BY <2>6, <3>1, <3>2
  <2>9. CASE WriteTmp(x)
    <3>1. fd[x] = "tmp" /\ tmp.status = "empty"
      BY <2>9 DEF WriteTmp, FileInv
    <3>2. path' = path /\ tmp'.content = data[x]
      BY <2>9, <3>1 DEF WriteTmp, WriteFile, Written, FileOf, Whole
    <3>3. SameKills(data[x], mem) /\ data' = data
      BY <2>1, <2>9 DEF WriteTmp, VersionInv
    <3> QED
      BY <2>6, <3>2, <3>3
  <2>10. CASE Replace(x)
    <3>1. /\ tmp.status = "whole" /\ tmp.content = data[x]
          /\ SameKills(data[x], mem)
      BY <2>1, <2>10 DEF Replace, FileInv, VersionInv
    <3>2. path' = tmp /\ pc'[x] = "loop"
      BY <2>1, <2>10, <3>1 DEF Replace, AfterPersist, TypeOK
    <3>3. mem.version \in 1 .. Version
      BY <1>0, <2>2 DEF NoVersion
    <3>4. \A a \in Agents : tmp.content.blanket \/ tmp.content.revoked[a] # Never
                              <=> Kills(mem.version, a)
      BY <2>2, <3>1 DEF SameKills, Agrees
    <3>5. OneVersion(path'.content)
      BY <3>2, <3>3, <3>4 DEF OneVersion
    <3> QED
      BY <2>6, <3>2, <3>5
  <2>11. CASE PersistFails(x)
    <3>1. path' = path
      BY <2>11 DEF PersistFails, WriteFile, FileInv
    <3>2. pc'[x] = "loop"
      BY <2>1, <2>11 DEF PersistFails, AfterPersist, TypeOK
    <3> QED
      BY <2>6, <3>1, <3>2
  <2> QED
    BY <1>6, <2>7, <2>8, <2>9, <2>10, <2>11 DEF Persist
<1>7. CASE Restart
  <2>1. \A x \in Actors : pc'[x] \in {"off", "idle"}
    BY <1>7 DEF Restart
  <2>2. path' = path
    BY <1>7 DEF Restart
  <2>3. (path.status = "whole" => OneVersion(path.content))'
    BY <1>1, <2>2
  <2> QED
    BY <2>1, <2>3 DEF VersionInv, MidPoll, PersistPCs
<1>8. CASE ServerChange \/ Tick \/ StopWorker \/ UNCHANGED vars
  <2>1. UNCHANGED <<mem, path, tmp, pc, reply, data>>
    BY <1>8 DEF ServerChange, Tick, StopWorker, vars, fileVars, workerVars
  <2>2. SameKills(mem', mem)
    BY <2>1 DEF SameKills
  <2> QED
    BY <1>4, <2>1, <2>2
<1> QED
  BY <1>3, <1>5, <1>6, <1>7, <1>8 DEF Next

LEMMA PromiseStep ==
    ASSUME Sheltered, OneWriter, PromiseInv, [Next]_vars
    PROVE  PromiseInv'
<1>1. FollowInv'
  BY TypeStep, PlansStep, ConfirmsStep, NoRaceStep, AgreesStep
  DEF PromiseInv, FollowInv, Sheltered
<1>2. FileInv'
  BY FileStep DEF PromiseInv, FollowInv, Plans
<1>3. VersionInv'
  BY VersionStep
<1> QED
  BY <1>1, <1>2, <1>3 DEF PromiseInv

LEMMA PromiseInit == Sheltered /\ Init => PromiseInv
BY FollowInit, FileInit, VersionInit DEF PromiseInv

\* The step that takes a kill out of the file is the rename of a snapshot of
\* what is in force.
LEMMA ForgetStep ==
    ASSUME Sheltered, OneWriter, PromiseInv, [Next]_vars, NEW a \in Agents,
           DiskKills(a), ~DiskKills(a)'
    PROVE  mem.version # NoVersion /\ ~Kills(mem.version, a)
<1> USE SyncAssumption DEF PromiseInv, FollowInv, TypeInv, Actors
<1>1. path' # path
  BY DEF DiskKills
<1>2. PICK x \in Actors : Persist(x)
  BY <1>1
  DEF Next, vars, ServerChange, Tick, StartWorker, StopWorker, WorkerStep,
      Loop, PollVersion, FetchState, Answered, RequestFails, Compare,
      CompareVersion, ConfirmSync, ApplyFast, Apply, ThreadStep, BeginDecision,
      BeginEdit, CheckStale, EnsureLoaded, ReadFile, Install, Lookup, Edit,
      Restart, fileVars
<1>3. Replace(x)
  <2>1. ~TakeSnapshot(x) /\ ~OpenTmp(x)
    BY <1>1 DEF TakeSnapshot, OpenTmp, fileVars
  <2>2. ~WriteTmp(x) /\ ~PersistFails(x)
    BY <1>1 DEF WriteTmp, PersistFails, WriteFile, FileInv
  <2> QED
    BY <1>2, <2>1, <2>2 DEF Persist
<1>4. x \in Workers
  BY <1>3 DEF Replace, PersistPCs, FileInv, Writers, Sheltered
<1>5. /\ tmp.status = "whole" /\ tmp.content = data[x]
      /\ SameKills(data[x], mem) /\ mem.version # NoVersion
  BY <1>3, <1>4 DEF Replace, PersistPCs, FileInv, VersionInv
<1>6. path' = tmp
  BY <1>3, <1>5 DEF Replace
<1>7. ~mem.blanket /\ mem.revoked[a] = Never
  BY <1>5, <1>6 DEF DiskKills, SameKills
<1> QED
  BY <1>5, <1>7 DEF Agrees

\* With one worker, a kill that is in revoked.json leaves it only when the
\* version in force no longer has it: no torn write, crash between two file
\* operations, stopped worker or restart makes the file forget.
THEOREM DiskForgetsInOrder ==
    ASSUME Sheltered, OneWriter
    PROVE  Spec => DiskForgetsOnlyOnCommand
<1>1. Init => PromiseInv
  BY PromiseInit
<1>2. PromiseInv /\ [Next]_vars => PromiseInv'
  BY PromiseStep
<1> DEFINE Command(a) ==
        \/ mem.version # NoVersion /\ ~Kills(mem.version, a)
        \/ \E t \in Threads : /\ pc[t] = "replace"
                              /\ \/ job[t].op = "clear" /\ job[t].agent = a
                                 \/ job[t].op = "blanket" /\ ~job[t].flag
<1>3. PromiseInv /\ [Next]_vars =>
         \A a \in Agents : DiskKills(a) /\ ~DiskKills(a)' => Command(a)
  BY ForgetStep
<1> QED
  BY <1>1, <1>2, <1>3, PTL DEF Spec, DiskForgetsOnlyOnCommand

-----------------------------------------------------------------------------
(* The refinement of KillSwitch.                                           *)

\* The agents the process denies: the refinement mapping.
Denied == {a \in Agents : Denies(mem, a, now)}

LEMMA PromiseStarts == Sheltered /\ Init => Promise!Init
<1> SUFFICES ASSUME Sheltered, Init PROVE Promise!Init
  OBVIOUS
<1>1. Len(history) = 1
  BY DEF Init
<1>2. mem.version = 0
  BY DEF Init, EmptyCache, NoVersion
<1>3. \A a \in Agents : ~Denies(mem, a, now)
  BY DEF Init, EmptyCache, NoneRevoked, Denies
<1>4. {a \in Agents : Denies(mem, a, now)} = {}
  BY <1>3
<1> QED
  BY <1>1, <1>2, <1>4 DEF Promise!Init

\* Every step of the process is one of KillSwitch, or none.
LEMMA PromiseSteps ==
    ASSUME Sheltered, OneWriter, PromiseInv, PromiseInv', [Next]_vars
    PROVE  \/ Promise!Next
           \/ UNCHANGED <<history, mem.version, Denied>>
<1> USE SyncAssumption DEF PromiseInv, FollowInv, TypeInv, Actors
<1>0. /\ mem \in Cache /\ mem' \in Cache /\ now \in Nat
      /\ now \in 0 .. MaxTime /\ now' \in 0 .. MaxTime
      /\ mem.version \in 0 .. Version /\ Version \in Nat
  BY DEF TypeOK, RepliesKnown
<1>1. /\ Denied = {a \in Agents : mem.blanket \/ mem.revoked[a] # Never}
      /\ Denied' = {a \in Agents : mem'.blanket \/ mem'.revoked[a] # Never}
  BY <1>0, Ageless DEF Denied, Sheltered
<1>2. SameKills(mem', mem) => Denied' = Denied
  BY <1>1 DEF SameKills
<1>3. Denied = {a \in Agents : Denies(mem, a, now)}
  BY DEF Denied
<1>4. ASSUME NEW w \in Workers, ApplyFast(w) \/ Apply(w) PROVE Promise!Adopt
  <2>1. /\ reply[w] \in 1 .. Len(history) /\ mem.version <= reply[w]
        /\ reply[w] \in Nat
    BY <1>4 DEF ApplyFast, Apply, MidPoll, RepliesKnown, Version, VersionInv,
                TypeOK
  <2>2. mem'.version = reply[w] /\ history' = history
    BY <1>4 DEF ApplyFast, Apply, Applied, serverVars
  <2>3. Denied' = Promise!KilledAt(reply[w])
    <3>1. CASE ApplyFast(w)
      <4>1. history[reply[w]].blanket /\ mem'.blanket
        BY <3>1 DEF ApplyFast, Applied, FastPathAsked
      <4> QED
        BY <1>1, <4>1 DEF Promise!KilledAt
    <3>2. CASE Apply(w)
      <4>1. /\ mem'.blanket = history[reply[w]].blanket
            /\ \A a \in Agents : mem'.revoked[a] # Never
                                   <=> a \in history[reply[w]].killed
        BY <1>0, <3>2 DEF Apply, Applied, Never
      <4> QED
        BY <1>1, <4>1 DEF Promise!KilledAt
    <3> QED
      BY <1>4, <3>1, <3>2
  <2> QED
    BY <1>0, <1>3, <2>1, <2>2, <2>3 DEF Promise!Adopt, Denied
<1>5. ASSUME NEW t \in Threads, Install(t) PROVE Promise!Recall
  <2>1. mem.version = 0
    BY <1>5 DEF Install, NoRace, LoadedFirst, LoadedBySync, MidLoad, NoVersion
  <2>2. /\ mem'.version = mem.version /\ history' = history
        /\ mem'.blanket = data[t].blanket /\ mem'.revoked = data[t].revoked
    BY <1>0, <1>5 DEF Install, Installed, Cache, serverVars
  <2>3. PICK v \in 1 .. Len(history) :
           \A a \in Agents : data[t].blanket \/ data[t].revoked[a] # Never
                               <=> Kills(v, a)
    BY <1>5 DEF Install, VersionInv, OneVersion, Version
  <2>4. Denied' = Promise!KilledAt(v)
    BY <1>1, <2>2, <2>3 DEF Promise!KilledAt, Kills
  <2> QED
    BY <2>1, <2>2, <2>4 DEF Promise!Recall, Denied
<1>6. CASE Restart
  <2>1. mem'.version = 0 /\ history' = history
    BY <1>6 DEF Restart, EmptyCache, NoVersion, serverVars
  <2>2. Denied' = {}
    BY <1>1, <1>6 DEF Restart, EmptyCache, NoneRevoked
  <2> QED
    BY <2>1, <2>2 DEF Promise!Next, Promise!Restart, Denied
<1>7. CASE ServerChange
  <2>1. mem' = mem
    BY <1>7 DEF ServerChange
  <2>2. Denied' = Denied /\ mem'.version = mem.version
    BY <1>1, <2>1
  <2>3. PICK s : history' = Append(history, s)
    BY <1>7 DEF ServerChange
  <2>4. /\ Len(history') = Len(history) + 1
        /\ \A v \in 1 .. Len(history) : history'[v] = history[v]
    BY <2>3 DEF TypeOK
  <2> QED
    BY <2>2, <2>4 DEF Promise!Next, Promise!Change, Denied
<1>8. ASSUME ~ServerChange, ~Restart,
             \A w \in Workers : ~ApplyFast(w) /\ ~Apply(w),
             \A t \in Threads : ~Install(t)
      PROVE  UNCHANGED <<history, mem.version, Denied>>
  <2>1. history' = history
    BY <1>8
    DEF Next, vars, Tick, StartWorker, StopWorker, WorkerStep, Loop,
        PollVersion, FetchState, Answered, RequestFails, Compare,
        CompareVersion, ConfirmSync, ThreadStep, BeginDecision, BeginEdit,
        CheckStale, EnsureLoaded, ReadFile, Lookup, Edit, Persist,
        TakeSnapshot, OpenTmp, WriteTmp, Replace, PersistFails, serverVars
  <2>2. mem'.version = mem.version /\ SameKills(mem', mem)
    BY <1>8, CacheMoves
  <2> QED
    BY <1>2, <2>1, <2>2
<1> QED
  BY <1>4, <1>5, <1>6, <1>7, <1>8 DEF Promise!Next

\* With one worker and no file loaded over a sync, the process implements
\* KillSwitch: it enforces whole versions of the server's state, moves to
\* later ones only, and after a restart takes up one it had saved.
THEOREM ProcessKeepsPromise ==
    ASSUME Sheltered, OneWriter
    PROVE  Spec => KeepsPromise
<1>1. Init => PromiseInv /\ Promise!Init
  BY PromiseInit, PromiseStarts
<1>2. PromiseInv /\ [Next]_vars => PromiseInv'
  BY PromiseStep
<1>3. PromiseInv /\ PromiseInv' /\ [Next]_vars =>
         [Promise!Next]_<<history, mem.version,
                          {a \in Agents : Denies(mem, a, now)}>>
  BY PromiseSteps DEF Denied
<1> QED
  BY <1>1, <1>2, <1>3, PTL DEF Spec, KeepsPromise, Promise!Spec

==============================================================================
