------------------------ MODULE RevocationSyncProofs ------------------------
(***************************************************************************)
(* Theorems about RevocationSync, for every number of agents, workers,     *)
(* host threads, versions and ticks.                                       *)
(***************************************************************************)
EXTENDS RevocationSync, TLAPS

-----------------------------------------------------------------------------
(* Types.                                                                  *)

\* A worker that is about to use an answer has one, from a version the
\* server has had; a version recorded as applied is one of these too.
RepliesKnown ==
    /\ \A w \in Workers : MidPoll(w) => reply[w] \in 1 .. Version
    /\ mem.version \in 0 .. Version

TypeInv == TypeOK /\ RepliesKnown

LEMMA EmptyTypes == EmptySnapshot \in Snapshot /\ EmptyCache \in Cache
BY DEF EmptySnapshot, Snapshot, EmptyCache, Cache, NoneRevoked, Never, Stamp,
       NoVersion

LEMMA NoJobType == NoJob \in Job
BY CacheAssumption DEF NoJob, Job

LEMMA FileTypes ==
    /\ NoFile \in File /\ EmptyFile \in File /\ Broken \in File
    /\ \A s \in Snapshot : Whole(s) \in File
BY EmptyTypes DEF NoFile, EmptyFile, Broken, Whole, File

\* Each critical section of the cache yields a cache.
LEMMA CacheTypes ==
    ASSUME NEW c \in Cache, NEW a \in Agents, NEW time \in Nat
    PROVE  /\ AfterLookup(c, a, time) \in Cache
           /\ Revoked(c, a, time) \in Cache
           /\ Cleared(c, a) \in Cache
           /\ \A f \in BOOLEAN : BlanketSet(c, f) \in Cache
           /\ \A s \in Snapshot : Installed(c, s) \in Cache
           /\ SnapshotOf(c) \in Snapshot
<1>1. time \in Stamp /\ Never \in Stamp
  BY DEF Stamp, Never
<1>2. AfterLookup(c, a, time) \in Cache
  BY <1>1 DEF AfterLookup, Cache
<1>3. Revoked(c, a, time) \in Cache /\ Cleared(c, a) \in Cache
  BY <1>1 DEF Revoked, Cleared, Cache
<1>4. \A f \in BOOLEAN : BlanketSet(c, f) \in Cache
  BY DEF BlanketSet, Cache
<1>5. \A s \in Snapshot : Installed(c, s) \in Cache
  BY DEF Installed, Cache, Snapshot
<1>6. SnapshotOf(c) \in Snapshot
  BY DEF SnapshotOf, Cache, Snapshot
<1> QED
  BY <1>2, <1>3, <1>4, <1>5, <1>6

LEMMA AppliedType ==
    ASSUME NEW v \in Nat, NEW b \in BOOLEAN, NEW K \in SUBSET Agents,
           NEW time \in Nat
    PROVE  /\ Applied(v, b, K, time) \in Cache
           /\ Applied(v, b, K, time).version = v
BY DEF Applied, Cache, Stamp, Never

LEMMA TypeInit == Init => TypeInv
<1> SUFFICES ASSUME Init PROVE TypeInv
  OBVIOUS
<1>1. PICK b \in BOOLEAN, K \in SUBSET Agents :
         history = <<[blanket |-> b, killed |-> K, at |-> 0]>>
  BY DEF Init
<1>2. history \in Seq(ServerState) /\ Len(history) = 1
  BY <1>1 DEF ServerState
<1>3. Version \in 1 .. MaxVersion
  BY <1>2, SyncAssumption DEF Version
<1>4. mem.version = 0
  BY DEF Init, EmptyCache, NoVersion
<1>5. TypeOK
  BY <1>2, <1>3, EmptyTypes, NoJobType, FileTypes, SyncAssumption
  DEF Init, TypeOK, Actors, WorkerPCs, ThreadPCs, PersistPCs, NoVersion
<1>6. RepliesKnown
  BY <1>2, <1>4, SyncAssumption
  DEF RepliesKnown, Init, MidPoll, Actors, Version
<1> QED
  BY <1>5, <1>6 DEF TypeInv
\* What TypeInv says of the variables most steps change.
LEMMA TypeStep == TypeInv /\ [Next]_vars => TypeInv'
<1> SUFFICES ASSUME TypeInv, [Next]_vars PROVE TypeInv'
  OBVIOUS
<1> USE DEF TypeInv, Actors, MidPoll, serverVars, fileVars, workerVars,
            threadVars, PersistPCs, WorkerPCs, ThreadPCs
<1> USE SyncAssumption
<1>1. CASE ServerChange
  <2>1. PICK b \in BOOLEAN, K \in SUBSET Agents :
           history' = Append(history, [blanket |-> b, killed |-> K, at |-> now])
    BY <1>1 DEF ServerChange
  <2>2. [blanket |-> b, killed |-> K, at |-> now] \in ServerState
    BY DEF TypeOK, ServerState
  <2>3. history' \in Seq(ServerState) /\ Version' = Version + 1
    BY <2>1, <2>2 DEF TypeOK, Version
  <2>4. Version' \in 1 .. MaxVersion
    BY <1>1, <2>3 DEF ServerChange, TypeOK
  <2> QED
    BY <1>1, <2>3, <2>4 DEF ServerChange, TypeOK, RepliesKnown
<1>2. CASE Tick
  BY <1>2 DEF Tick, TypeOK, RepliesKnown, Version
<1>3. CASE \E w \in Workers : StartWorker(w)
  BY <1>3 DEF StartWorker, TypeOK, RepliesKnown, Version
<1>4. CASE StopWorker
  BY <1>4 DEF StopWorker, TypeOK, RepliesKnown, Version
<1>5. ASSUME NEW w \in Workers, WorkerStep(w) PROVE TypeInv'
  <2>1. CASE Loop(w)
    BY <2>1 DEF Loop, TypeOK, RepliesKnown, Version
  <2>2. CASE PollVersion(w)
    BY <2>2 DEF PollVersion, Answered, TypeOK, RepliesKnown, Version
  <2>3. CASE FetchState(w)
    BY <2>3 DEF FetchState, Answered, TypeOK, RepliesKnown, Version
  <2>4. CASE RequestFails(w)
    BY <2>4 DEF RequestFails, Forget, NoVersion, TypeOK, RepliesKnown, Version
  <2>5. CASE Compare(w) \/ CompareVersion(w)
    BY <2>5 DEF Compare, CompareVersion, TypeOK, RepliesKnown, Version
  <2>5a. CASE ConfirmSync(w)
    <3>a. now \in Stamp /\ mem \in Cache
      BY DEF TypeOK, Stamp
    <3>1. mem' \in Cache /\ mem'.version = mem.version
      BY <2>5a, <3>a DEF ConfirmSync, Cache
    <3> QED
      BY <2>5a, <3>1
      DEF ConfirmSync, Forget, NoVersion, TypeOK, RepliesKnown, Version
  <2>6. CASE ApplyFast(w)
    <3>1. reply[w] \in 1 .. Version /\ reply[w] \in Nat /\ now \in Nat
      BY <2>6 DEF ApplyFast, TypeOK, RepliesKnown
    <3>2. mem' \in Cache /\ mem'.version = reply[w]
      <4>1. TRUE \in BOOLEAN /\ {} \in SUBSET Agents
        OBVIOUS
      <4>2. mem' = Applied(reply[w], TRUE, {}, now)
        BY <2>6 DEF ApplyFast
      <4> QED
        BY <3>1, <4>1, <4>2, AppliedType
    <3>3. TypeOK'
      BY <2>6, <3>2 DEF ApplyFast, Forget, NoVersion, TypeOK, Version
    <3>4. RepliesKnown'
      <4>0. Version' = Version
        BY <2>6 DEF ApplyFast, Version
      <4>1. Version' = Version /\ mem'.version \in 0 .. Version'
        BY <3>1, <3>2, <4>0 DEF TypeOK
      <4>2. ASSUME NEW y \in Workers, MidPoll(y)'
            PROVE  reply'[y] \in 1 .. Version'
        BY <2>6, <4>1, <4>2 DEF ApplyFast, Forget, TypeOK, RepliesKnown
      <4> QED
        BY <4>1, <4>2 DEF RepliesKnown
    <3> QED
      BY <3>3, <3>4
  <2>7. CASE Apply(w)
    <3>1. reply[w] \in 1 .. Version /\ reply[w] \in Nat /\ now \in Nat
      BY <2>7 DEF Apply, TypeOK, RepliesKnown
    <3>2. history[reply[w]] \in ServerState
      BY <3>1 DEF TypeOK, Version
    <3>3. mem' \in Cache /\ mem'.version = reply[w]
      BY <2>7, <3>1, <3>2, AppliedType DEF Apply, ServerState
    <3>4. TypeOK'
      BY <2>7, <3>3 DEF Apply, Forget, NoVersion, TypeOK, Version
    <3>5. RepliesKnown'
      BY <2>7, <3>1, <3>3 DEF Apply, Forget, TypeOK, RepliesKnown, Version
    <3> QED
      BY <3>4, <3>5
  <2> QED
    BY <1>5, <2>1, <2>2, <2>3, <2>4, <2>5, <2>5a, <2>6, <2>7 DEF WorkerStep
<1>6. ASSUME NEW t \in Threads, ThreadStep(t) PROVE TypeInv'
  <2>1. CASE BeginDecision(t)
    <3>1. job' \in [Threads -> Job]
      BY <2>1 DEF BeginDecision, TypeOK, Job
    <3> QED
      BY <2>1, <3>1 DEF BeginDecision, TypeOK, RepliesKnown, Version
  <2>2. CASE BeginEdit(t)
    <3>1. job' \in [Threads -> Job]
      BY <2>2 DEF BeginEdit, TypeOK, Job
    <3> QED
      BY <2>2, <3>1 DEF BeginEdit, TypeOK, RepliesKnown, Version
  <2>3. CASE CheckStale(t)
    BY <2>3 DEF CheckStale, TypeOK, RepliesKnown, Version
  <2>4. CASE EnsureLoaded(t)
    BY <2>4 DEF EnsureLoaded, TypeOK, RepliesKnown, Version
  <2>5. CASE ReadFile(t)
    <3>1. mem' \in Cache /\ mem'.version = mem.version
      BY <2>5 DEF ReadFile, TypeOK, Cache
    <3>2. data' \in [Actors -> Snapshot]
      BY <2>5 DEF ReadFile, TypeOK, File
    <3> QED
      BY <2>5, <3>1, <3>2 DEF ReadFile, TypeOK, RepliesKnown, Version
  <2>6. CASE Install(t)
    <3>1. mem' \in Cache /\ mem'.version = mem.version
      BY <2>6, CacheTypes, CacheAssumption
      DEF Install, TypeOK, Installed, Cache
    <3> QED
      BY <2>6, <3>1, EmptyTypes DEF Install, TypeOK, RepliesKnown, Version
  <2>7. CASE Lookup(t)
    <3>1. job[t].agent \in Agents /\ now \in Nat
      BY DEF TypeOK, Job
    <3>2. mem' \in Cache
      BY <2>7, <3>1, CacheTypes DEF Lookup, TypeOK
    <3>3. mem'.version = mem.version
      BY <2>7 DEF Lookup, AfterLookup, TypeOK, Cache
    <3> QED
      BY <2>7, <3>2, <3>3 DEF Lookup, TypeOK, RepliesKnown, Version
  <2>8. CASE Edit(t)
    <3>1. job[t].agent \in Agents /\ job[t].flag \in BOOLEAN /\ now \in Nat
      BY DEF TypeOK, Job
    <3>2. mem' \in Cache
      BY <2>8, <3>1, CacheTypes DEF Edit, TypeOK
    <3>3. mem'.version = mem.version
      BY <2>8 DEF Edit, Revoked, Cleared, BlanketSet, TypeOK, Cache
    <3> QED
      BY <2>8, <3>2, <3>3 DEF Edit, TypeOK, RepliesKnown, Version
  <2> QED
    BY <1>6, <2>1, <2>2, <2>3, <2>4, <2>5, <2>6, <2>7, <2>8 DEF ThreadStep
<1>7. ASSUME NEW x \in Actors, Persist(x) PROVE TypeInv'
  <2>1. CASE TakeSnapshot(x)
    BY <2>1, CacheTypes, CacheAssumption
    DEF TakeSnapshot, TypeOK, RepliesKnown, Version
  <2>2. CASE OpenTmp(x)
    BY <2>2, FileTypes DEF OpenTmp, TypeOK, RepliesKnown, Version
  <2>3. CASE WriteTmp(x)
    <3>1. \A f : Written(f, data[x]) \subseteq File
      BY FileTypes DEF Written, TypeOK
    <3>2. path' \in File /\ tmp' \in File
      BY <2>3, <3>1 DEF WriteTmp, WriteFile, TypeOK
    <3>3. fd' \in [Actors -> {"none", "tmp", "path", "orphan"}]
      BY <2>3 DEF WriteTmp, WriteFile, TypeOK
    <3> QED
      BY <2>3, <3>2, <3>3 DEF WriteTmp, TypeOK, RepliesKnown, Version
  <2>4. CASE Replace(x)
    BY <2>4, FileTypes, EmptyTypes
    DEF Replace, AfterPersist, TypeOK, RepliesKnown, Version
  <2>5. CASE PersistFails(x)
    <3>1. path' \in File /\ tmp' \in File
      BY <2>5, FileTypes DEF PersistFails, WriteFile, TypeOK
    <3>2. fd' \in [Actors -> {"none", "tmp", "path", "orphan"}]
      BY <2>5 DEF PersistFails, WriteFile, TypeOK
    <3> QED
      BY <2>5, <3>1, <3>2, EmptyTypes
      DEF PersistFails, AfterPersist, TypeOK, RepliesKnown, Version
  <2> QED
    BY <1>7, <2>1, <2>2, <2>3, <2>4, <2>5 DEF Persist
<1>8. CASE Restart
  BY <1>8, EmptyTypes, NoJobType
  DEF Restart, TypeOK, RepliesKnown, Version, EmptyCache, NoVersion
<1>9. CASE UNCHANGED vars
  BY <1>9 DEF vars, TypeOK, RepliesKnown, Version
<1> QED
  BY <1>1, <1>2, <1>3, <1>4, <1>5, <1>6, <1>7, <1>8, <1>9 DEF Next

\* The types hold, and no thread acts on, or records, a version the server
\* has not had.
THEOREM TypeCorrect == Spec => [](TypeOK /\ RepliesKnown)
<1>1. Init => TypeInv
  BY TypeInit
<1>2. TypeInv /\ [Next]_vars => TypeInv'
  BY TypeStep
<1> QED
  BY <1>1, <1>2, PTL DEF Spec, TypeInv

-----------------------------------------------------------------------------
(* No kill is invented.                                                    *)

\* The server's past does not change.
LEMMA HistoryGrows ==
    ASSUME TypeInv, [Next]_vars
    PROVE  /\ Version <= Version' /\ Version \in Nat /\ Version' \in Nat
           /\ \A v \in 1 .. Version : history'[v] = history[v]
           /\ \A v \in 1 .. Version, a \in Agents : Kills(v, a)' <=> Kills(v, a)
<1>1. CASE ServerChange
  <2>1. PICK s : history' = Append(history, s)
    BY <1>1 DEF ServerChange
  <2>2. /\ Version' = Version + 1 /\ Version \in Nat
        /\ \A v \in 1 .. Version : history'[v] = history[v]
    BY <2>1 DEF TypeInv, TypeOK, Version
  <2> QED
    BY <2>2 DEF Kills
<1>2. CASE history' = history
  BY <1>2 DEF TypeInv, TypeOK, Version, Kills
<1>3. ServerChange \/ history' = history
  BY DEF Next, vars, Tick, StartWorker, StopWorker, WorkerStep, Loop,
         PollVersion, FetchState, Answered, RequestFails, Compare,
         CompareVersion, ConfirmSync, ApplyFast, Apply, ThreadStep,
         BeginDecision, BeginEdit, CheckStale, EnsureLoaded, ReadFile, Install,
         Lookup, Edit, Persist, TakeSnapshot, OpenTmp, WriteTmp, Replace,
         PersistFails, Restart, serverVars
<1> QED
  BY <1>1, <1>2, <1>3

\* Some version of the server's state killed agent a.
EverKilled(a) == \E v \in 1 .. Version : Kills(v, a)

\* All that a snapshot, or the cache, kills was killed once.
Known(s) ==
    \A a \in Agents : s.blanket \/ s.revoked[a] # Never => EverKilled(a)

\* The fast path is taken only on an answer that says so, and the host makes
\* no calls but decisions.
FastPathAsked ==
    \A w \in Workers : pc[w] = "applyFast" => history[reply[w]].blanket

OnlyDecisions == \A t \in Threads : job[t].op \in {"none", "decide"}

KnownInv ==
    /\ TypeInv
    /\ FastPathAsked
    /\ OnlyDecisions
    /\ Known(mem)
    /\ Known(path.content) /\ Known(tmp.content)
    /\ \A x \in Actors : Known(data[x])

LEMMA KnownStays ==
    ASSUME TypeInv, [Next]_vars, NEW s, Known(s)
    PROVE  \A a \in Agents : s.blanket \/ s.revoked[a] # Never => EverKilled(a)'
BY HistoryGrows DEF Known, EverKilled, TypeInv, TypeOK

LEMMA EmptyKnown == Known(EmptySnapshot) /\ Known(EmptyCache)
BY DEF Known, EmptySnapshot, EmptyCache, NoneRevoked

\* The two parts of KnownInv about what threads are up to.
LEMMA PlansStep ==
    ASSUME LocalOps = {}, TypeInv, FastPathAsked, OnlyDecisions, [Next]_vars
    PROVE  FastPathAsked' /\ OnlyDecisions'
<1> USE SyncAssumption DEF TypeInv, Actors, MidPoll
<1>1. \A w \in Workers : MidPoll(w) =>
         history'[reply[w]].blanket = history[reply[w]].blanket
  BY HistoryGrows DEF RepliesKnown
<1>2. CASE UNCHANGED <<pc, reply, job>>
  BY <1>1, <1>2 DEF FastPathAsked, OnlyDecisions
<1>3. ASSUME NEW w \in Workers, WorkerStep(w) PROVE FastPathAsked'
  <2>1. CASE Compare(w)
    BY <1>1, <2>1 DEF Compare, TakesFastPath, workerVars, FastPathAsked, TypeOK
  <2>2. CASE ~Compare(w)
    <3>1. \E next \in WorkerPCs \ {"applyFast"} : pc' = [pc EXCEPT ![w] = next]
      BY <1>3, <2>2 DEF WorkerStep, Loop, PollVersion, FetchState, Answered,
                        RequestFails, CompareVersion, ConfirmSync, ApplyFast,
                        Apply, WorkerPCs, PersistPCs
    <3>2. \A y \in Workers \ {w} : reply'[y] = reply[y]
      BY <1>3, <2>2 DEF WorkerStep, Loop, PollVersion, FetchState, Answered,
                        RequestFails, CompareVersion, ConfirmSync, ApplyFast,
                        Apply, Forget, TypeOK, workerVars
    <3> QED
      BY <1>1, <3>1, <3>2 DEF FastPathAsked, TypeOK
  <2> QED
    BY <2>1, <2>2
<1>4. ASSUME NEW w \in Workers, WorkerStep(w) PROVE OnlyDecisions'
  BY <1>4 DEF WorkerStep, Loop, PollVersion, FetchState, Answered,
              RequestFails, Compare, CompareVersion, ConfirmSync, ApplyFast,
              Apply, threadVars, OnlyDecisions
<1>5. ASSUME NEW w \in Workers, StartWorker(w)
      PROVE  FastPathAsked' /\ OnlyDecisions'
  BY <1>1, <1>5 DEF StartWorker, threadVars, FastPathAsked, OnlyDecisions,
                    TypeOK
<1>6. ASSUME NEW t \in Threads, ThreadStep(t)
      PROVE  FastPathAsked' /\ OnlyDecisions'
  <2>1. \A w \in Workers : w # t
    OBVIOUS
  <2>2. /\ reply' = reply
        /\ \E next \in ThreadPCs : pc' = [pc EXCEPT ![t] = next]
    BY <1>6 DEF ThreadStep, BeginDecision, BeginEdit, CheckStale, EnsureLoaded,
                ReadFile, Install, Lookup, Edit, workerVars, ThreadPCs,
                PersistPCs
  <2>3. FastPathAsked'
    BY <1>1, <2>1, <2>2 DEF FastPathAsked, TypeOK
  <2>4. OnlyDecisions'
    <3>1. ~BeginEdit(t)
      BY DEF BeginEdit
    <3>2. CASE BeginDecision(t)
      BY <3>2 DEF BeginDecision, OnlyDecisions, TypeOK
    <3>3. CASE ~BeginDecision(t)
      BY <1>6, <3>1, <3>3
      DEF ThreadStep, CheckStale, EnsureLoaded, ReadFile, Install, Lookup,
          Edit, threadVars, OnlyDecisions
    <3> QED
      BY <3>2, <3>3
  <2> QED
    BY <2>3, <2>4
<1>7. ASSUME NEW x \in Actors, Persist(x)
      PROVE  FastPathAsked' /\ OnlyDecisions'
  <2>1. reply' = reply /\ \E next : next # "applyFast"
                                    /\ pc' = [pc EXCEPT ![x] = next]
    BY <1>7 DEF Persist, TakeSnapshot, OpenTmp, WriteTmp, Replace,
                PersistFails, AfterPersist, workerVars
  <2>2. FastPathAsked'
    BY <1>1, <2>1 DEF FastPathAsked, TypeOK
  <2>3. OnlyDecisions'
    BY <1>7 DEF Persist, TakeSnapshot, OpenTmp, WriteTmp, Replace,
                PersistFails, threadVars, OnlyDecisions
  <2> QED
    BY <2>2, <2>3
<1>8. CASE Restart
  BY <1>8 DEF Restart, FastPathAsked, OnlyDecisions, NoJob
<1>9. CASE ServerChange \/ Tick \/ StopWorker \/ UNCHANGED vars
  BY <1>2, <1>9 DEF ServerChange, Tick, StopWorker, vars, workerVars,
                    threadVars
<1> QED
  BY <1>3, <1>4, <1>5, <1>6, <1>7, <1>8, <1>9 DEF Next

LEMMA PlansInit == Init => FastPathAsked /\ OnlyDecisions
<1>1. NoJob.op = "none"
  BY DEF NoJob
<1>2. Init => FastPathAsked
  BY DEF Init, FastPathAsked, Actors
<1>3. Init => OnlyDecisions
  BY <1>1 DEF Init, OnlyDecisions
<1> QED
  BY <1>2, <1>3

LEMMA KnownInit == Init => KnownInv
<1>1. Init => /\ Known(mem) /\ Known(path.content) /\ Known(tmp.content)
              /\ \A x \in Actors : Known(data[x])
  BY EmptyKnown DEF Init, NoFile
<1> QED
  BY <1>1, TypeInit, PlansInit DEF KnownInv

\* What the sections of the cache do to what it kills.
LEMMA KnownSections ==
    ASSUME NEW c \in Cache, Known(c), NEW a \in Agents, NEW time \in Nat,
           NEW s \in Snapshot, Known(s)
    PROVE  /\ Known(AfterLookup(c, a, time))
           /\ Known(Installed(c, s))
           /\ Known(SnapshotOf(c))
           /\ Known([c EXCEPT !.syncedAt = time])
           /\ Known([c EXCEPT !.loaded = TRUE])
BY DEF Known, AfterLookup, Installed, SnapshotOf, Cache, Snapshot

LEMMA KnownStep == 
    ASSUME LocalOps = {}, KnownInv, [Next]_vars
    PROVE  KnownInv'
<1> USE SyncAssumption, CacheAssumption DEF Actors
<1>1. TypeInv /\ TypeInv' /\ FastPathAsked' /\ OnlyDecisions'
  BY TypeStep, PlansStep DEF KnownInv
\* It is enough that what is new was known before the step.
<1>2. ASSUME Known(mem'), Known(path'.content), Known(tmp'.content),
             \A x \in Actors : Known(data'[x])
      PROVE  KnownInv'
  <2>1. \A a \in Agents : EverKilled(a) => EverKilled(a)'
    BY <1>1, HistoryGrows DEF EverKilled
  <2> QED
    BY <1>1, <1>2, <2>1 DEF KnownInv, Known
<1>3. /\ mem \in Cache /\ now \in Nat /\ \A x \in Actors : data[x] \in Snapshot
      /\ path.content \in Snapshot /\ tmp.content \in Snapshot
  BY <1>1 DEF TypeInv, TypeOK, File
<1>4. CASE UNCHANGED <<mem, path, tmp, data>>
  BY <1>2, <1>4 DEF KnownInv
<1>5. ASSUME NEW w \in Workers, WorkerStep(w) PROVE KnownInv'
  <2>1. UNCHANGED <<path, tmp, data>>
    BY <1>5 DEF WorkerStep, Loop, PollVersion, FetchState, Answered,
                RequestFails, Compare, CompareVersion,
                ConfirmSync, ApplyFast, Apply, fileVars
  <2>2. CASE ConfirmSync(w)
    BY <1>2, <1>3, <2>1, <2>2, KnownSections, EmptyKnown, EmptyTypes
    DEF ConfirmSync, KnownInv
  <2>3. CASE ApplyFast(w)
    <3>1. \A a \in Agents : Kills(reply[w], a)
      BY <2>3 DEF ApplyFast, Kills, KnownInv, FastPathAsked
    <3>2. reply[w] \in 1 .. Version
      BY <1>1, <2>3 DEF ApplyFast, TypeInv, RepliesKnown, MidPoll
    <3> QED
      BY <1>2, <2>1, <2>3, <3>1, <3>2
      DEF ApplyFast, KnownInv, Known, EverKilled
  <2>4. CASE Apply(w)
    <3>1. reply[w] \in 1 .. Version
      BY <1>1, <2>4 DEF Apply, TypeInv, RepliesKnown, MidPoll
    <3>2. now # Never
      BY <1>3 DEF Never
    <3>3. Known(mem')
      BY <2>4, <3>1, <3>2 DEF Apply, Applied, Known, EverKilled, Kills
    <3> QED
      BY <1>2, <2>1, <3>3 DEF KnownInv
  <2>5. CASE ~ConfirmSync(w) /\ ~ApplyFast(w) /\ ~Apply(w)
    BY <1>4, <1>5, <2>1, <2>5
    DEF WorkerStep, Loop, PollVersion, FetchState, Answered, RequestFails,
        Compare, CompareVersion
  <2> QED
    BY <2>2, <2>3, <2>4, <2>5
<1>6. ASSUME NEW t \in Threads, ThreadStep(t) PROVE KnownInv'
  <2>1. UNCHANGED <<path, tmp>>
    BY <1>6 DEF ThreadStep, BeginDecision, BeginEdit, CheckStale, EnsureLoaded,
                ReadFile, Install, Lookup, Edit, fileVars
  <2>2. CASE ReadFile(t)
    <3>1. Known(mem')
      BY <1>3, <2>2, KnownSections, EmptyKnown, EmptyTypes
      DEF ReadFile, KnownInv
    <3>2. \A x \in Actors : Known(data'[x])
      BY <1>1, <2>2 DEF ReadFile, KnownInv, TypeInv, TypeOK
    <3> QED
      BY <1>2, <2>1, <3>1, <3>2 DEF KnownInv
  <2>3. CASE Install(t)
    <3>1. Known(mem')
      BY <1>3, <2>3, KnownSections DEF Install, KnownInv
    <3>2. \A x \in Actors : Known(data'[x])
      BY <1>1, <2>3, EmptyKnown DEF Install, KnownInv, TypeInv, TypeOK
    <3> QED
      BY <1>2, <2>1, <3>1, <3>2 DEF KnownInv
  <2>4. CASE Lookup(t)
    <3>1. job[t].agent \in Agents
      BY <1>1 DEF TypeInv, TypeOK, Job
    <3>2. Known(mem') /\ data' = data
      BY <1>3, <2>4, <3>1, KnownSections, EmptyKnown, EmptyTypes
      DEF Lookup, KnownInv
    <3> QED
      BY <1>2, <2>1, <3>2 DEF KnownInv
  <2>5. ~Edit(t)
    BY DEF Edit, KnownInv, OnlyDecisions
  <2>6. CASE ~ReadFile(t) /\ ~Install(t) /\ ~Lookup(t)
    BY <1>4, <1>6, <2>1, <2>5, <2>6
    DEF ThreadStep, BeginDecision, BeginEdit, CheckStale, EnsureLoaded
  <2> QED
    BY <2>2, <2>3, <2>4, <2>6
<1>7. ASSUME NEW x \in Actors, Persist(x) PROVE KnownInv'
  <2>1. mem' = mem
    BY <1>7 DEF Persist, TakeSnapshot, OpenTmp, WriteTmp, Replace, PersistFails
  <2>2. \A y \in Actors : Known(data'[y])
    <3>1. PICK a \in Agents : TRUE
      BY CacheAssumption
    <3>2. Known(SnapshotOf(mem))
      BY <1>3, <3>1, KnownSections, EmptyKnown, EmptyTypes DEF KnownInv
    <3>3. \/ data' = data
          \/ data' = [data EXCEPT ![x] = SnapshotOf(mem)]
          \/ data' = [data EXCEPT ![x] = EmptySnapshot]
      BY <1>7 DEF Persist, TakeSnapshot, OpenTmp, WriteTmp, Replace,
                  PersistFails
    <3> QED
      BY <1>1, <3>2, <3>3, EmptyKnown DEF KnownInv, TypeInv, TypeOK
  <2>3. \A f : \A g \in Written(f, data[x]) : Known(g.content)
    BY EmptyKnown DEF Written, Whole, Broken, KnownInv
  <2>4. Known(path'.content) /\ Known(tmp'.content)
    BY <1>7, <2>3, EmptyKnown
    DEF Persist, TakeSnapshot, OpenTmp, WriteTmp, WriteFile, Replace,
        PersistFails, fileVars, NoFile, EmptyFile, Broken, KnownInv
  <2> QED
    BY <1>2, <2>1, <2>2, <2>4 DEF KnownInv
<1>8. CASE Restart
  BY <1>2, <1>8, EmptyKnown DEF Restart, KnownInv
<1>9. CASE ServerChange \/ Tick \/ StopWorker \/ UNCHANGED vars
           \/ \E w \in Workers : StartWorker(w)
  BY <1>4, <1>9 DEF ServerChange, Tick, StopWorker, StartWorker, vars, fileVars
<1> QED
  BY <1>5, <1>6, <1>7, <1>8, <1>9 DEF Next

\* When the host makes no edits of its own, every kill in memory and on disk
\* was the server's: no race between workers, lookups, writers of the file,
\* stops and crashes makes one up.
THEOREM KillsAreTheServers ==
    ASSUME LocalOps = {}
    PROVE  Spec => []NoInventedKill
<1>1. Init => KnownInv
  BY KnownInit
<1>2. KnownInv /\ [Next]_vars => KnownInv'
  BY KnownStep
<1>3. KnownInv => NoInventedKill
  BY DEF KnownInv, NoInventedKill, Known, DiskKills, Denies, EverKilled
<1> QED
  BY <1>1, <1>2, <1>3, PTL DEF Spec

-----------------------------------------------------------------------------
(* Nothing but a command releases an agent.                                *)

\* In a cache all of whose entries are younger than Expiry, age does not
\* matter.
LEMMA Ageless ==
    ASSUME MaxTime <= Expiry, NEW c \in Cache, NEW time \in 0 .. MaxTime,
           NEW a \in Agents
    PROVE  Denies(c, a, time) <=> c.blanket \/ c.revoked[a] # Never
<1>1. c.revoked[a] \in Stamp
  BY DEF Cache
<1>2. c.revoked[a] # Never => time - c.revoked[a] <= Expiry
  BY <1>1, CacheAssumption, SyncAssumption DEF Stamp, Never
<1> QED
  BY <1>2 DEF Denies

\* The step that releases agent a, if there is one, is a command.
LEMMA ReleaseStep ==
    ASSUME MaxTime <= Expiry, TypeInv, [Next]_vars, NEW a \in Agents,
           Denies(mem, a, now), ~Denies(mem, a, now)'
    PROVE  \/ mem' = EmptyCache
           \/ \E w \in Workers : /\ pc[w] \in {"applyFast", "apply"}
                                 /\ pc'[w] = "snapshot"
                                 /\ ~Kills(reply[w], a)
           \/ \E t \in Threads : pc[t] = "install"
           \/ \E t \in Threads : /\ pc[t] = "act" /\ pc'[t] = "snapshot"
                                 /\ \/ job[t].op = "clear" /\ job[t].agent = a
                                    \/ job[t].op = "blanket" /\ ~job[t].flag
<1> USE SyncAssumption DEF TypeInv, Actors
<1>1. /\ mem \in Cache /\ mem' \in Cache
      /\ now \in 0 .. MaxTime /\ now' \in 0 .. MaxTime /\ now \in Nat
  BY TypeStep DEF TypeOK
<1>2. mem.blanket \/ mem.revoked[a] # Never
  BY <1>1, Ageless
<1>3. ~mem'.blanket /\ mem'.revoked[a] = Never
  BY <1>1, Ageless
\* So the step changed the flag or the agent's entry.
<1>4. mem'.blanket # mem.blanket \/ mem'.revoked[a] # mem.revoked[a]
  BY <1>2, <1>3
<1>5. ASSUME NEW w \in Workers, WorkerStep(w)
      PROVE  \E y \in Workers : /\ pc[y] \in {"applyFast", "apply"}
                                /\ pc'[y] = "snapshot"
                                /\ ~Kills(reply[y], a)
  <2>1. ~ConfirmSync(w)
    BY <1>1, <1>4 DEF ConfirmSync, Cache
  <2>2. ~ApplyFast(w)
    BY <1>3 DEF ApplyFast, Applied
  <2>3. Apply(w)
    BY <1>4, <1>5, <2>1, <2>2
    DEF WorkerStep, Loop, PollVersion, FetchState, Answered, RequestFails,
        Compare, CompareVersion
  <2>4. pc[w] = "apply" /\ pc'[w] = "snapshot"
    BY <2>3 DEF Apply, TypeOK
  <2>5. ~Kills(reply[w], a)
    <3>1. now # Never
      BY <1>1 DEF Never
    <3> QED
      BY <1>3, <2>3, <3>1 DEF Apply, Applied, Kills
  <2> QED
    BY <2>4, <2>5
<1>6. ASSUME NEW t \in Threads, ThreadStep(t)
      PROVE  \/ pc[t] = "install"
             \/ /\ pc[t] = "act" /\ pc'[t] = "snapshot"
                /\ \/ job[t].op = "clear" /\ job[t].agent = a
                   \/ job[t].op = "blanket" /\ ~job[t].flag
  <2>1. ~ReadFile(t)
    BY <1>1, <1>4 DEF ReadFile, Cache
  \* A lookup drops the entry of an agent it does not deny.
  <2>2. ~Lookup(t)
    <3> SUFFICES ASSUME Lookup(t) PROVE FALSE
      OBVIOUS
    <3>1. job[t].agent \in Agents
      BY DEF TypeOK, Job
    <3>2. CASE Denies(mem, job[t].agent, now)
      BY <1>4, <3>2 DEF Lookup, AfterLookup
    <3>3. CASE ~Denies(mem, job[t].agent, now)
      <4>1. mem' = [mem EXCEPT !.revoked[job[t].agent] = Never]
        BY <3>3 DEF Lookup, AfterLookup
      <4>2. job[t].agent # a
        BY <3>3
      <4> QED
        BY <1>1, <1>4, <3>1, <4>1, <4>2 DEF Cache
    <3> QED
      BY <3>2, <3>3
  <2>3. CASE Edit(t)
    <3>1. pc[t] = "act" /\ pc'[t] = "snapshot"
      BY <2>3 DEF Edit, TypeOK
    <3>2. job[t].agent \in Agents /\ job[t].flag \in BOOLEAN
      BY DEF TypeOK, Job
    <3>3. CASE job[t].op = "revoke" /\ mem' = Revoked(mem, job[t].agent, now)
      <4>1. now # Never
        BY <1>1 DEF Never
      <4> QED
        BY <1>1, <1>2, <1>3, <3>2, <3>3, <4>1 DEF Revoked, Cache
    <3>4. CASE job[t].op = "clear" /\ mem' = Cleared(mem, job[t].agent)
      <4>1. job[t].agent # a => mem'.revoked[a] = mem.revoked[a]
        BY <1>1, <3>2, <3>4 DEF Cleared, Cache
      <4>2. mem'.blanket = mem.blanket
        BY <1>1, <3>4 DEF Cleared, Cache
      <4> QED
        BY <1>4, <3>1, <3>4, <4>1, <4>2
    <3>5. CASE job[t].op = "blanket" /\ mem' = BlanketSet(mem, job[t].flag)
      <4>1. mem'.blanket = job[t].flag
        BY <1>1, <3>5 DEF BlanketSet, Cache
      <4> QED
        BY <1>3, <3>1, <3>5, <4>1
    <3> QED
      BY <2>3, <3>3, <3>4, <3>5 DEF Edit
  <2>4. CASE Install(t)
    BY <2>4 DEF Install
  <2> QED
    BY <1>4, <1>6, <2>1, <2>2, <2>3, <2>4
    DEF ThreadStep, BeginDecision, BeginEdit, CheckStale, EnsureLoaded
<1>7. ~\E x \in Actors : Persist(x)
  BY <1>4
  DEF Persist, TakeSnapshot, OpenTmp, WriteTmp, Replace, PersistFails
<1>8. ~(ServerChange \/ Tick \/ StopWorker \/ UNCHANGED vars
           \/ \E w \in Workers : StartWorker(w))
  BY <1>4 DEF ServerChange, Tick, StopWorker, StartWorker, vars
<1>9. Restart => mem' = EmptyCache
  BY DEF Restart
<1> QED
  BY <1>5, <1>6, <1>7, <1>8, <1>9 DEF Next

\* If no entry grows old enough to expire, an agent that was denied is
\* released only by a restart, by a sync whose version does not kill it, by
\* a host call that clears it or the flag, or by the file a lookup installs:
\* for all workers, threads and calls of the host at once.
THEOREM ReleasesAreCommands ==
    ASSUME MaxTime <= Expiry
    PROVE  Spec => ReleasedOnlyOnCommand
<1>1. Init => TypeInv
  BY TypeInit
<1>2. TypeInv /\ [Next]_vars => TypeInv'
  BY TypeStep
<1> DEFINE Command(a) ==
        \/ mem' = EmptyCache
        \/ \E w \in Workers : /\ pc[w] \in {"applyFast", "apply"}
                              /\ pc'[w] = "snapshot"
                              /\ ~Kills(reply[w], a)
        \/ \E t \in Threads : pc[t] = "install"
        \/ \E t \in Threads : /\ pc[t] = "act" /\ pc'[t] = "snapshot"
                              /\ \/ job[t].op = "clear" /\ job[t].agent = a
                                 \/ job[t].op = "blanket" /\ ~job[t].flag
<1>3. TypeInv /\ [Next]_vars =>
         \A a \in Agents :
            Denies(mem, a, now) /\ ~Denies(mem, a, now)' => Command(a)
  BY ReleaseStep
<1> QED
  BY <1>1, <1>2, <1>3, PTL DEF Spec, ReleasedOnlyOnCommand

-----------------------------------------------------------------------------
(* The cache agrees with the version it records.                           *)

\* A run on which no lookup can install the file over a sync: the cache is
\* loaded before the worker starts, or a stale sync is not let through to
\* the cache.  And no entry lives long enough to expire.
Sheltered ==
    /\ LocalOps = {}
    /\ MaxTime <= Expiry
    /\ WarmStart \/ (StaleMode # "warn" /\ StaleThreshold > 0)

\* WarmStart: all loads were over when the first worker started.
LoadedFirst ==
    (\E w \in Workers : pc[w] # "off") \/ mem.version # NoVersion =>
        mem.loaded /\ \A t \in Threads : ~MidLoad(t)

\* Strict stale modes: only a synced cache is looked into, and it is loaded.
LoadedBySync ==
    /\ mem.version # NoVersion \/ mem.syncedAt # Never => mem.loaded
    /\ \A t \in Threads : ~MidLoad(t) /\ (pc[t] = "ensure" => mem.loaded)

NoRace == IF WarmStart THEN LoadedFirst ELSE LoadedBySync

\* DecisionsFollowVersion, entries counted whatever their age.
Agrees ==
    mem.version # NoVersion =>
        \A a \in Agents : mem.blanket \/ mem.revoked[a] # Never
                            <=> Kills(mem.version, a)

\* A worker that is about to confirm the version in force saw one, and what
\* another worker puts in its place is a version too.
Confirms == \A w \in Workers : pc[w] = "stamp" => mem.version # NoVersion

FollowInv ==
    /\ TypeInv
    /\ FastPathAsked
    /\ OnlyDecisions
    /\ Confirms
    /\ NoRace
    /\ Agrees

LEMMA FollowInit == Sheltered /\ Init => FollowInv
<1>1. Init => NoRace /\ Agrees /\ Confirms
  BY SyncAssumption
  DEF Init, NoRace, LoadedFirst, LoadedBySync, Agrees, Confirms, EmptyCache,
      NoVersion, MidLoad, Actors
<1> QED
  BY <1>1, TypeInit, PlansInit DEF FollowInv

LEMMA AgeIgnored ==
    ASSUME Sheltered, TypeInv, NEW a \in Agents
    PROVE  Denies(mem, a, now) <=> mem.blanket \/ mem.revoked[a] # Never
BY Ageless DEF Sheltered, TypeInv, TypeOK

LEMMA ConfirmsStep ==
    ASSUME TypeInv, Confirms, [Next]_vars
    PROVE  Confirms'
<1> USE SyncAssumption DEF TypeInv, Actors
<1>0. mem \in Cache
  BY DEF TypeOK
\* A version is never taken back but by a restart.
<1>1. ASSUME \A w \in Workers : pc'[w] = "stamp" => pc[w] = "stamp",
             mem'.version = mem.version
      PROVE  Confirms'
  BY <1>1 DEF Confirms
<1>2. ASSUME NEW w \in Workers, WorkerStep(w) PROVE Confirms'
  <2>1. CASE ApplyFast(w) \/ Apply(w)
    <3>1. reply[w] \in 1 .. Version
      BY <2>1 DEF ApplyFast, Apply, MidPoll, RepliesKnown
    <3> QED
      BY <2>1, <3>1 DEF ApplyFast, Apply, Applied, Confirms, NoVersion
  <2>2. CASE CompareVersion(w)
    BY <2>2 DEF CompareVersion, VersionUnchanged, Confirms, TypeOK
  <2>3. CASE ConfirmSync(w)
    BY <1>0, <1>1, <2>3 DEF ConfirmSync, Cache, TypeOK
  <2>4. CASE ~ApplyFast(w) /\ ~Apply(w) /\ ~CompareVersion(w) /\ ~ConfirmSync(w)
    <3>1. mem' = mem /\ \E next : next # "stamp" /\ pc' = [pc EXCEPT ![w] = next]
      BY <1>2, <2>4 DEF WorkerStep, Loop, PollVersion, FetchState, Answered,
                        RequestFails, Compare
    <3> QED
      BY <1>1, <3>1 DEF TypeOK
  <2> QED
    BY <2>1, <2>2, <2>3, <2>4
<1>3. ASSUME NEW t \in Threads, ThreadStep(t) PROVE Confirms'
  <2>1. mem'.version = mem.version
    BY <1>0, <1>3
    DEF ThreadStep, BeginDecision, BeginEdit, CheckStale, EnsureLoaded,
        ReadFile, Install, Lookup, Edit, Installed, AfterLookup, Revoked,
        Cleared, BlanketSet, Cache
  <2>2. \A w \in Workers : pc'[w] = pc[w]
    BY <1>3 DEF ThreadStep, BeginDecision, BeginEdit, CheckStale, EnsureLoaded,
                ReadFile, Install, Lookup, Edit, TypeOK
  <2> QED
    BY <1>1, <2>1, <2>2
<1>4. ASSUME NEW x \in Actors, Persist(x) PROVE Confirms'
  <2>1. mem' = mem /\ \E next : next # "stamp" /\ pc' = [pc EXCEPT ![x] = next]
    BY <1>4 DEF Persist, TakeSnapshot, OpenTmp, WriteTmp, Replace,
                PersistFails, AfterPersist
  <2> QED
    BY <1>1, <2>1 DEF TypeOK
<1>5. ASSUME NEW w \in Workers, StartWorker(w) PROVE Confirms'
  BY <1>1, <1>5 DEF StartWorker, TypeOK
<1>6. CASE Restart
  BY <1>6 DEF Restart, Confirms
<1>7. CASE ServerChange \/ Tick \/ StopWorker \/ UNCHANGED vars
  BY <1>1, <1>7 DEF ServerChange, Tick, StopWorker, vars
<1> QED
  BY <1>2, <1>3, <1>4, <1>5, <1>6, <1>7 DEF Next

LEMMA NoRaceStep ==
    ASSUME Sheltered, FollowInv, [Next]_vars
    PROVE  NoRace'
<1> USE SyncAssumption DEF FollowInv, TypeInv, Actors
<1>1. CASE UNCHANGED <<pc, mem>>
  BY <1>1 DEF NoRace, LoadedFirst, LoadedBySync, MidLoad
<1>2. ASSUME NEW w \in Workers, StartWorker(w) PROVE NoRace'
  <2>1. \A t \in Threads : pc'[t] = pc[t]
    BY <1>2 DEF StartWorker, TypeOK
  <2>2. mem' = mem
    BY <1>2 DEF StartWorker
  <2>3. WarmStart => mem.loaded /\ \A t \in Threads : ~MidLoad(t)
    BY <1>2 DEF StartWorker
  <2> QED
    BY <2>1, <2>2, <2>3 DEF NoRace, LoadedFirst, LoadedBySync, MidLoad
<1>3. ASSUME NEW w \in Workers, WorkerStep(w) PROVE NoRace'
  <2>1. pc[w] # "off"
    BY <1>3 DEF WorkerStep, Loop, PollVersion, FetchState, RequestFails,
                Compare, CompareVersion, ConfirmSync, ApplyFast, Apply
  <2>2. \A t \in Threads : pc'[t] = pc[t]
    BY <1>3 DEF WorkerStep, Loop, PollVersion, FetchState, Answered,
                RequestFails, Compare, CompareVersion, ConfirmSync, ApplyFast,
                Apply, TypeOK
  <2>3. \/ mem' = mem
        \/ mem.version # NoVersion /\ mem' = [mem EXCEPT !.syncedAt = now]
        \/ mem'.loaded
    BY <1>3 DEF WorkerStep, Loop, PollVersion, FetchState, Answered,
                RequestFails, Compare, CompareVersion, ConfirmSync, Confirms,
                ApplyFast, Apply, Applied
  <2>4. CASE WarmStart
    BY <2>1, <2>2, <2>3, <2>4 DEF NoRace, LoadedFirst, MidLoad, TypeOK, Cache
  <2>5. CASE ~WarmStart
    BY <2>2, <2>3, <2>5 DEF NoRace, LoadedBySync, MidLoad, TypeOK, Cache
  <2> QED
    BY <2>4, <2>5
<1>4. ASSUME NEW t \in Threads, ThreadStep(t) PROVE NoRace'
  <2>1. \A y \in Actors \ {t} : pc'[y] = pc[y]
    BY <1>4 DEF ThreadStep, BeginDecision, BeginEdit, CheckStale, EnsureLoaded,
                ReadFile, Install, Lookup, Edit, TypeOK
  <2>2. /\ mem'.version = mem.version /\ mem'.syncedAt = mem.syncedAt
        /\ mem.loaded => mem'.loaded
    BY <1>4 DEF ThreadStep, BeginDecision, BeginEdit, CheckStale, EnsureLoaded,
                ReadFile, Install, Lookup, Edit, Installed, AfterLookup,
                Revoked, Cleared, BlanketSet, TypeOK, Cache
  <2>3. MidLoad(t)' => MidLoad(t) \/ (pc[t] = "ensure" /\ ~mem.loaded)
    BY <1>4 DEF ThreadStep, BeginDecision, BeginEdit, CheckStale, EnsureLoaded,
                ReadFile, Install, Lookup, Edit, MidLoad, TypeOK
  <2>4. ~BeginEdit(t)
    BY DEF BeginEdit, Sheltered
  <2>5. pc'[t] = "ensure" /\ ~WarmStart => mem.syncedAt # Never
    BY <1>4, <2>4
    DEF ThreadStep, BeginDecision, CheckStale, EnsureLoaded, ReadFile, Install,
        Lookup, Edit, IsSyncStale, Sheltered, TypeOK
  <2>6. CASE WarmStart
    BY <2>1, <2>2, <2>3, <2>6 DEF NoRace, LoadedFirst, MidLoad
  <2>7. CASE ~WarmStart
    BY <2>1, <2>2, <2>3, <2>5, <2>7 DEF NoRace, LoadedBySync, MidLoad
  <2> QED
    BY <2>6, <2>7
<1>5. ASSUME NEW x \in Actors, Persist(x) PROVE NoRace'
  <2>1. mem' = mem
    BY <1>5 DEF Persist, TakeSnapshot, OpenTmp, WriteTmp, Replace, PersistFails
  <2>2. /\ pc[x] # "off"
        /\ \E next \in PersistPCs \cup {"loop", "idle"} :
              pc' = [pc EXCEPT ![x] = next]
    BY <1>5 DEF Persist, TakeSnapshot, OpenTmp, WriteTmp, Replace,
                PersistFails, AfterPersist, PersistPCs
  <2>3. \A t \in Threads : /\ MidLoad(t)' => MidLoad(t)
                           /\ pc'[t] = "ensure" => pc[t] = "ensure"
    BY <2>2 DEF MidLoad, PersistPCs, TypeOK
  <2>4. (\E w \in Workers : pc'[w] # "off") => (\E w \in Workers : pc[w] # "off")
    BY <2>2 DEF TypeOK, PersistPCs, ThreadPCs
  <2> QED
    BY <2>1, <2>3, <2>4 DEF NoRace, LoadedFirst, LoadedBySync
<1>6. CASE Restart
  BY <1>6 DEF Restart, NoRace, LoadedFirst, LoadedBySync, MidLoad, EmptyCache,
              NoVersion
<1>7. CASE ServerChange \/ Tick \/ StopWorker \/ UNCHANGED vars
  BY <1>1, <1>7 DEF ServerChange, Tick, StopWorker, vars
<1> QED
  BY <1>2, <1>3, <1>4, <1>5, <1>6, <1>7 DEF Next

LEMMA AgreesStep ==
    ASSUME Sheltered, FollowInv, [Next]_vars
    PROVE  Agrees'
<1> USE SyncAssumption DEF FollowInv, TypeInv, Actors
<1>0. /\ \A v \in 1 .. Version, a \in Agents : Kills(v, a)' <=> Kills(v, a)
      /\ mem.version \in 0 .. Version /\ Version \in Nat
      /\ mem \in Cache /\ now \in Nat
  BY HistoryGrows DEF RepliesKnown, TypeOK
\* Nothing to show when the version and what it denies stay.
<1>1. ASSUME mem'.version = mem.version, mem'.blanket = mem.blanket,
             \A a \in Agents : mem'.revoked[a] = Never <=> mem.revoked[a] = Never
      PROVE  Agrees'
  BY <1>0, <1>1 DEF Agrees, NoVersion
<1>2. CASE mem' = mem
  BY <1>1, <1>2
<1>3. ASSUME NEW w \in Workers, WorkerStep(w) PROVE Agrees'
  <2>1. CASE ConfirmSync(w)
    BY <1>0, <1>1, <2>1 DEF ConfirmSync, Cache
  <2>2. CASE ApplyFast(w)
    <3>1. reply[w] \in 1 .. Version /\ history[reply[w]].blanket
      BY <2>2 DEF ApplyFast, RepliesKnown, MidPoll, FastPathAsked
    <3>2. mem'.version = reply[w] /\ mem'.blanket
      BY <2>2 DEF ApplyFast, Applied
    <3> QED
      BY <1>0, <3>1, <3>2 DEF Agrees, Kills
  <2>3. CASE Apply(w)
    <3>1. reply[w] \in 1 .. Version
      BY <2>3 DEF Apply, RepliesKnown, MidPoll
    <3>2. now # Never
      BY <1>0 DEF Never
    <3>3. /\ mem'.version = reply[w]
          /\ mem'.blanket = history[reply[w]].blanket
          /\ \A a \in Agents : mem'.revoked[a] # Never
                                 <=> a \in history[reply[w]].killed
      BY <2>3, <3>2 DEF Apply, Applied
    <3>4. \A a \in Agents : mem'.blanket \/ mem'.revoked[a] # Never
                              <=> Kills(reply[w], a)
      BY <3>3 DEF Kills
    <3> QED
      BY <1>0, <3>1, <3>3, <3>4 DEF Agrees
  <2> QED
    BY <1>2, <1>3, <2>1, <2>2, <2>3
    DEF WorkerStep, Loop, PollVersion, FetchState, Answered, RequestFails,
        Compare, CompareVersion
<1>4. ASSUME NEW t \in Threads, ThreadStep(t) PROVE Agrees'
  <2>1. CASE ReadFile(t)
    BY <1>0, <1>1, <2>1 DEF ReadFile, Cache
  <2>2. CASE Install(t)
    <3>1. mem.version = NoVersion
      BY <2>2 DEF Install, NoRace, LoadedFirst, LoadedBySync, MidLoad
    <3>2. mem'.version = mem.version
      BY <1>0, <2>2 DEF Install, Installed, Cache
    <3> QED
      BY <3>1, <3>2 DEF Agrees
  <2>3. CASE Lookup(t)
    <3>1. job[t].agent \in Agents
      BY DEF TypeOK, Job
    <3>2. CASE Denies(mem, job[t].agent, now)
      BY <1>2, <2>3, <3>2 DEF Lookup, AfterLookup
    <3>3. CASE ~Denies(mem, job[t].agent, now)
      <4>1. mem.revoked[job[t].agent] = Never
        BY <3>1, <3>3, AgeIgnored
      <4>2. mem' = [mem EXCEPT !.revoked[job[t].agent] = Never]
        BY <2>3, <3>3 DEF Lookup, AfterLookup
      <4> QED
        BY <1>0, <1>1, <4>1, <4>2 DEF Cache
    <3> QED
      BY <3>2, <3>3
  <2>4. ~Edit(t)
    BY DEF Edit, OnlyDecisions
  <2> QED
    BY <1>2, <1>4, <2>1, <2>2, <2>3, <2>4
    DEF ThreadStep, BeginDecision, BeginEdit, CheckStale, EnsureLoaded
<1>5. ASSUME NEW x \in Actors, Persist(x) PROVE Agrees'
  BY <1>2, <1>5
  DEF Persist, TakeSnapshot, OpenTmp, WriteTmp, Replace, PersistFails
<1>6. CASE Restart
  BY <1>6 DEF Restart, Agrees, EmptyCache
<1>7. CASE ServerChange \/ Tick \/ StopWorker \/ UNCHANGED vars
           \/ \E w \in Workers : StartWorker(w)
  BY <1>2, <1>7 DEF ServerChange, Tick, StopWorker, StartWorker, vars
<1> QED
  BY <1>3, <1>4, <1>5, <1>6, <1>7 DEF Next

\* While a version is recorded as applied, exactly the agents it kills are
\* denied, for any number of workers and host threads, if no lookup can
\* install the file over a sync and no entry grows old enough to expire.
THEOREM CacheAgrees ==
    ASSUME Sheltered
    PROVE  Spec => []DecisionsFollowVersion
<1>1. Init => FollowInv
  BY FollowInit
<1>2. FollowInv /\ [Next]_vars => FollowInv'
  BY TypeStep, PlansStep, ConfirmsStep, NoRaceStep, AgreesStep
  DEF FollowInv, Sheltered
<1>3. FollowInv => DecisionsFollowVersion
  BY AgeIgnored DEF FollowInv, Agrees, DecisionsFollowVersion
<1> QED
  BY <1>1, <1>2, <1>3, PTL DEF Spec

=============================================================================
