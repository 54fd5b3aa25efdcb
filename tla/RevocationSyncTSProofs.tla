----------------------- MODULE RevocationSyncTSProofs -----------------------
(***************************************************************************)
(* The TypeScript cache follows the version it has recorded, for any       *)
(* number of polls under way at once, agents, server versions and host     *)
(* calls.                                                                  *)
(***************************************************************************)
EXTENDS RevocationSyncTS, TLAPS

\* The part of the typing the argument needs: what a poll holds after an
\* answer, and what the cache records, are versions the server has had.
Shape ==
    /\ history \in Seq(ServerState) /\ Version \in Nat \ {0}
    /\ mem \in Cache /\ disk \in File
    /\ pc \in [Polls -> PollPCs] /\ reply \in [Polls -> Nat]
    /\ \A p \in Polls : pc[p] \in {"useVersion", "useState"}
                        => reply[p] \in 1 .. Version
    /\ mem.version \in 0 .. Version
    /\ hostFlag \in BOOLEAN

\* A cache that has a version is loaded: no lookup reads the file over it.
SyncedIsLoaded == mem.version # NoVersion => mem.loaded

\* The set has only agents the version kills, whatever the flag.
SetFollowsVersion ==
    mem.version # NoVersion =>
        \A a \in Agents \ hostKills :
            mem.revoked[a] # Never => a \in history[mem.version].killed

SyncInv == Shape /\ SyncedIsLoaded /\ SetFollowsVersion /\ BlanketFollowsVersion

LEMMA Stamped == 0 \in Stamp /\ Never \in Stamp
BY DEF Stamp, Never

LEMMA SectionTypes ==
    ASSUME NEW c \in Cache, NEW a \in Agents, NEW flag \in BOOLEAN,
           NEW s \in Snapshot
    PROVE  /\ EmptyCache \in Cache /\ NoFile \in File
           /\ Installed(c, s) \in Cache
           /\ AfterLookup(c, a, Now) \in Cache
           /\ Revoked(c, a, Now) \in Cache /\ Cleared(c, a) \in Cache
           /\ BlanketSet(c, flag) \in Cache
           /\ SnapshotOf(c) \in Snapshot
           /\ [c EXCEPT !.loaded = TRUE] \in Cache
BY Stamped DEF Cache, Snapshot, File, EmptyCache, NoFile, EmptySnapshot,
   NoneRevoked, Installed, AfterLookup, Revoked, Cleared, BlanketSet,
   SnapshotOf, NoVersion, Now

\* A lookup drops at most the agent it looks up, an edit touches only the
\* entry of its agent.
LEMMA LookupShape ==
    ASSUME NEW c \in Cache, NEW a \in Agents
    PROVE  LET d == AfterLookup(c, a, Now) IN
           /\ d.version = c.version /\ d.loaded = c.loaded /\ d.blanket = c.blanket
           /\ \A b \in Agents : d.revoked[b] # Never => c.revoked[b] # Never
<1>1. c.revoked \in [Agents -> Stamp]
  BY DEF Cache
<1> QED
  BY <1>1 DEF AfterLookup, Cache

LEMMA EditShape ==
    ASSUME NEW c \in Cache, NEW a \in Agents
    PROVE  /\ LET d == Revoked(c, a, Now) IN
              /\ d.version = c.version /\ d.loaded = c.loaded /\ d.blanket = c.blanket
              /\ \A b \in Agents \ {a} : d.revoked[b] = c.revoked[b]
           /\ LET d == Cleared(c, a) IN
              /\ d.version = c.version /\ d.loaded = c.loaded /\ d.blanket = c.blanket
              /\ \A b \in Agents : d.revoked[b] # Never => c.revoked[b] # Never
<1>1. c.revoked \in [Agents -> Stamp]
  BY DEF Cache
<1> QED
  BY <1>1 DEF Revoked, Cleared, Cache

LEMMA AppliedTypes ==
    ASSUME NEW v \in Nat, NEW flag \in BOOLEAN, NEW killed
    PROVE  Applied(v, flag, killed, Now) \in Cache
BY Stamped DEF Applied, Cache, Now

LEMMA SavedFile ==
    ASSUME NEW c \in Cache, disk \in File, Save(c) PROVE disk' \in File
<1>1. PICK s \in Snapshot : s = SnapshotOf(c)
  BY DEF SnapshotOf, Cache, Snapshot
<1>2. [exists |-> TRUE, content |-> s] \in File
  BY DEF File
<1> QED
  BY <1>1, <1>2 DEF Save

LEMMA SyncInit == Init => SyncInv
<1> SUFFICES ASSUME Init PROVE SyncInv
  OBVIOUS
<1>1. PICK b \in BOOLEAN, K \in SUBSET Agents :
         history = <<[blanket |-> b, killed |-> K]>>
  BY DEF Init
<1>2. history \in Seq(ServerState) /\ Version = 1
  BY <1>1 DEF ServerState, Version
<1>3. mem \in Cache /\ disk \in File
  BY Stamped DEF Init, Cache, File, Snapshot, EmptyCache, NoFile, EmptySnapshot,
     NoneRevoked, NoVersion
<1>4. mem.version = 0
  BY DEF Init, EmptyCache, NoVersion
<1>5. pc \in [Polls -> PollPCs] /\ reply \in [Polls -> Nat]
      /\ \A p \in Polls : pc[p] = "idle"
  BY DEF Init, PollPCs, NoVersion
<1>6. hostFlag \in BOOLEAN
  BY Zenon DEF Init
<1> QED
  BY <1>2, <1>3, <1>4, <1>5, <1>6 DEF SyncInv, Shape, SyncedIsLoaded,
     SetFollowsVersion, BlanketFollowsVersion, NoVersion

\* A poll applies version v, or a part of what it kills; the flag is v's
\* unless the host has set it.
LEMMA ApplyStep ==
    ASSUME SyncInv, NEW p \in Polls, NEW v \in 1 .. Version,
           NEW flag \in BOOLEAN, NEW killed \in SUBSET history[v].killed,
           hostFlag \/ flag = history[v].blanket,
           ApplyServerState(v, flag, killed), EndPoll(p),
           UNCHANGED <<history, hostVars>>
    PROVE  SyncInv'
<1> USE DEF SyncInv
<1>1. /\ mem' = Applied(v, flag, killed, Now) /\ v \in Nat
      /\ UNCHANGED <<history, hostKills, hostFlag>> /\ Version' = Version
  BY DEF ApplyServerState, hostVars, Version, Shape
<1>2. /\ mem' \in Cache /\ mem'.version = v /\ mem'.loaded /\ mem'.blanket = flag
      /\ \A a \in Agents : mem'.revoked[a] # Never => a \in killed
  BY <1>1, AppliedTypes DEF Applied
<1>3. disk' \in File
  <2>1. PICK c \in Cache : c = mem'
    BY <1>2
  <2>2. disk \in File /\ Save(c)
    BY <2>1 DEF ApplyServerState, Shape
  <2> QED
    BY <2>2, SavedFile
<1>4. /\ pc' \in [Polls -> PollPCs] /\ reply' \in [Polls -> Nat]
      /\ \A q \in Polls : pc'[q] \in {"useVersion", "useState"}
                           => reply'[q] \in 1 .. Version
  BY DEF EndPoll, Shape, PollPCs, NoVersion
<1>5. Shape'
  BY <1>1, <1>2, <1>3, <1>4 DEF Shape
<1>6. SyncedIsLoaded' /\ SetFollowsVersion' /\ BlanketFollowsVersion'
  BY <1>1, <1>2 DEF SyncedIsLoaded, SetFollowsVersion, BlanketFollowsVersion
<1> QED
  BY <1>5, <1>6

\* The host looks an agent up or edits the cache.
LEMMA HostStep ==
    ASSUME SyncInv, mem' \in Cache, disk' \in File,
           mem'.version = mem.version,
           mem.version # NoVersion =>
              /\ mem'.loaded /\ (mem'.blanket = mem.blanket \/ hostFlag')
              /\ \A a \in Agents \ hostKills' :
                    mem'.revoked[a] # Never => mem.revoked[a] # Never,
           hostKills \subseteq hostKills', hostFlag => hostFlag',
           hostFlag' \in BOOLEAN,
           UNCHANGED <<history, pc, reply>>
    PROVE  SyncInv'
<1> USE DEF SyncInv
<1>1. Version' = Version
  BY DEF Version
<1>2. Shape'
  BY <1>1 DEF Shape
<1>3. SyncedIsLoaded' /\ SetFollowsVersion' /\ BlanketFollowsVersion'
  BY DEF SyncedIsLoaded, SetFollowsVersion, BlanketFollowsVersion
<1> QED
  BY <1>2, <1>3

\* Cache, file and server stay; a poll moves.
LEMMA PollMoves ==
    ASSUME SyncInv, UNCHANGED <<history, mem, disk, hostVars>>,
           pc' \in [Polls -> PollPCs], reply' \in [Polls -> Nat],
           \A p \in Polls : pc'[p] \in {"useVersion", "useState"}
                            => reply'[p] \in 1 .. Version
    PROVE  SyncInv'
BY DEF SyncInv, Shape, SyncedIsLoaded, SetFollowsVersion,
   BlanketFollowsVersion, hostVars, Version

LEMMA PollStepKeeps ==
    ASSUME SyncInv, NEW p \in Polls, BeginPoll(p) \/ PollStep(p) PROVE SyncInv'
<1>1. Shape
  BY DEF SyncInv
<1>2. CASE BeginPoll(p) \/ NeedState(p)
  BY <1>1, <1>2, PollMoves DEF BeginPoll, NeedState, Shape, PollPCs
<1>3. CASE VersionAnswered(p) \/ StateAnswered(p)
  <2>1. PICK next \in {"useVersion", "useState"} : pc' = [pc EXCEPT ![p] = next]
    BY <1>3 DEF VersionAnswered, StateAnswered
  <2>2. /\ reply' = [reply EXCEPT ![p] = Version]
        /\ UNCHANGED <<history, mem, disk, hostVars>>
    BY <1>3 DEF VersionAnswered, StateAnswered
  <2>3. Version \in Nat \ {0} /\ pc \in [Polls -> PollPCs] /\ reply \in [Polls -> Nat]
        /\ \A q \in Polls : pc[q] \in {"useVersion", "useState"}
                             => reply[q] \in 1 .. Version
    BY <1>1 DEF Shape
  <2>4. pc' \in [Polls -> PollPCs] /\ reply' \in [Polls -> Nat]
    BY <2>1, <2>2, <2>3 DEF PollPCs
  <2>5. \A q \in Polls : pc'[q] \in {"useVersion", "useState"}
                          => reply'[q] \in 1 .. Version
    BY <2>1, <2>2, <2>3
  <2> QED
    BY <2>2, <2>4, <2>5, PollMoves
<1>4. CASE RequestFails(p)
  BY <1>1, <1>4, PollMoves DEF RequestFails, EndPoll, Shape, PollPCs, NoVersion
<1>5. \A v \in 1 .. Version : /\ history[v].blanket \in BOOLEAN
                              /\ history[v].killed \subseteq Agents
  <2>1. \A v \in 1 .. Version : history[v] \in ServerState
    BY <1>1 DEF Shape, Version
  <2> QED
    BY <2>1 DEF ServerState
<1>6. CASE FastPath(p)
  <2>1. reply[p] \in 1 .. Version /\ history[reply[p]].blanket
    BY <1>1, <1>6 DEF FastPath, TakesFastPath, Shape
  <2>2. /\ ApplyServerState(reply[p], TRUE, {}) /\ EndPoll(p)
        /\ UNCHANGED <<history, hostVars>>
    BY <1>6 DEF FastPath
  <2>3. history[reply[p]].blanket = TRUE
    BY <1>5, <2>1
  <2> QED
    BY <2>1, <2>2, <2>3, ApplyStep
<1>7. CASE Unchanged(p)
  <2>1. mem.version \in 1 .. Version /\ mem.version # NoVersion
    BY <1>1, <1>7 DEF Unchanged, VersionUnchanged, Shape, NoVersion
  <2>2. /\ ApplyServerState(mem.version, mem.blanket, {}) /\ EndPoll(p)
        /\ UNCHANGED <<history, hostVars>>
    BY <1>7 DEF Unchanged
  <2>3. mem.blanket \in BOOLEAN
    BY <1>1 DEF Shape, Cache
  <2>4. hostFlag \/ mem.blanket = history[mem.version].blanket
    BY <2>1 DEF SyncInv, BlanketFollowsVersion
  <2> QED
    BY <2>1, <2>2, <2>3, <2>4, ApplyStep
<1>8. CASE UseState(p)
  <2>1. reply[p] \in 1 .. Version
    BY <1>1, <1>8 DEF UseState, Shape
  <2>2. /\ ApplyServerState(reply[p], history[reply[p]].blanket,
                            history[reply[p]].killed)
        /\ EndPoll(p) /\ UNCHANGED <<history, hostVars>>
    BY <1>8 DEF UseState
  <2> QED
    BY <1>5, <2>1, <2>2, ApplyStep
<1> QED
  BY <1>2, <1>3, <1>4, <1>6, <1>7, <1>8 DEF PollStep

LEMMA HostCallKeeps ==
    ASSUME SyncInv, NEW a \in Agents,
           IsRevoked(a) \/ Revoke(a) \/ ClearAgent(a)
    PROVE  SyncInv'
<1>1. /\ mem \in Cache /\ disk \in File /\ disk.content \in Snapshot
      /\ hostFlag \in BOOLEAN /\ FALSE \in BOOLEAN
  BY DEF SyncInv, Shape, File
<1>2. /\ Loaded \in Cache /\ Loaded.version = mem.version
      /\ mem.version # NoVersion =>
            /\ Loaded.loaded /\ Loaded.blanket = mem.blanket
            /\ Loaded.revoked = mem.revoked
  <2>1. CASE mem.loaded
    <3>1. Loaded = [mem EXCEPT !.loaded = TRUE]
      BY <2>1 DEF Loaded
    <3> QED
      BY <1>1, <2>1, <3>1, SectionTypes DEF Cache
  <2>2. CASE ~mem.loaded
    <3>1. mem.version = NoVersion
      BY <2>2 DEF SyncInv, SyncedIsLoaded
    <3> QED
      BY <1>1, <3>1, SectionTypes DEF Loaded, Installed, Cache
  <2> QED
    BY <2>1, <2>2
<1>3. PICK c \in Cache : c = Loaded
  BY <1>2
<1>4. CASE IsRevoked(a)
  <2>1. mem' = AfterLookup(c, a, Now) /\ UNCHANGED <<history, disk, pc, reply, hostVars>>
    BY <1>3, <1>4 DEF IsRevoked
  <2>2. mem' \in Cache
    BY <1>1, <2>1, SectionTypes
  <2>3. /\ mem'.version = c.version /\ mem'.loaded = c.loaded /\ mem'.blanket = c.blanket
        /\ \A b \in Agents : mem'.revoked[b] # Never => c.revoked[b] # Never
    BY <2>1, LookupShape
  <2> QED
    BY <1>1, <1>2, <1>3, <2>1, <2>2, <2>3, HostStep DEF hostVars
<1>5. CASE Revoke(a)
  <2>1. /\ mem' = Revoked(c, a, Now) /\ Save(mem')
        /\ hostKills' = hostKills \cup {a} /\ UNCHANGED <<history, pc, reply, hostFlag>>
    BY <1>3, <1>5 DEF Revoke
  <2>2. mem' \in Cache /\ disk' \in File
    <3>1. PICK d \in Cache : d = mem'
      BY <1>1, <2>1, SectionTypes
    <3> QED
      BY <1>1, <2>1, <3>1, SavedFile
  <2>3. /\ mem'.version = c.version /\ mem'.loaded = c.loaded /\ mem'.blanket = c.blanket
        /\ \A b \in Agents \ {a} : mem'.revoked[b] = c.revoked[b]
    BY <2>1, EditShape
  <2> QED
    BY <1>1, <1>2, <1>3, <2>1, <2>2, <2>3, HostStep
<1>6. CASE ClearAgent(a)
  <2>1. mem' = Cleared(mem, a) /\ Save(mem') /\ UNCHANGED <<history, pc, reply, hostVars>>
    BY <1>6 DEF ClearAgent
  <2>2. mem' \in Cache /\ disk' \in File
    <3>1. PICK d \in Cache : d = mem'
      BY <1>1, <2>1, SectionTypes
    <3> QED
      BY <1>1, <2>1, <3>1, SavedFile
  <2>3. /\ mem'.version = mem.version /\ mem'.loaded = mem.loaded
        /\ mem'.blanket = mem.blanket
        /\ \A b \in Agents : mem'.revoked[b] # Never => mem.revoked[b] # Never
    BY <1>1, <2>1, EditShape
  <2>4. mem.version # NoVersion => mem.loaded
    BY DEF SyncInv, SyncedIsLoaded
  <2> QED
    BY <1>1, <2>1, <2>2, <2>3, <2>4, HostStep DEF hostVars
<1> QED
  BY <1>4, <1>5, <1>6

LEMMA SyncStep == ASSUME SyncInv, [Next]_vars PROVE SyncInv'
<1>1. Shape
  BY DEF SyncInv
<1>2. CASE ServerChange
  <2>1. PICK b \in BOOLEAN, K \in SUBSET Agents :
           history' = Append(history, [blanket |-> b, killed |-> K])
    BY <1>2 DEF ServerChange
  <2>2. /\ history' \in Seq(ServerState) /\ Version' = Version + 1
        /\ \A v \in 1 .. Version : history'[v] = history[v]
    BY <1>1, <2>1 DEF Shape, ServerState, Version
  <2>3. UNCHANGED <<mem, disk, pc, reply, hostKills, hostFlag>>
    BY <1>2 DEF ServerChange, hostVars
  <2>4. Shape'
    BY <1>1, <2>2, <2>3 DEF Shape
  <2>5. mem.version # NoVersion => history'[mem.version] = history[mem.version]
    BY <1>1, <2>2 DEF Shape, NoVersion
  <2> QED
    BY <2>3, <2>4, <2>5 DEF SyncInv, SyncedIsLoaded, SetFollowsVersion,
       BlanketFollowsVersion
<1>3. CASE StartWorker \/ StopWorker \/ UNCHANGED vars
  BY <1>1, <1>3, PollMoves DEF StartWorker, StopWorker, vars, hostVars, Shape
<1>4. ASSUME NEW active \in BOOLEAN, SetBlanketKill(active) PROVE SyncInv'
  <2>1. /\ mem' = BlanketSet(mem, active) /\ Save(mem') /\ hostFlag' = TRUE
        /\ UNCHANGED <<history, pc, reply, hostKills>>
    BY <1>4 DEF SetBlanketKill
  <2>2. /\ mem' \in Cache /\ mem'.version = mem.version /\ mem'.loaded = mem.loaded
        /\ mem'.revoked = mem.revoked
    BY <1>1, <2>1 DEF BlanketSet, Cache, Shape
  <2>3. disk' \in File
    <3>1. PICK d \in Cache : d = mem'
      BY <2>2
    <3> QED
      BY <1>1, <2>1, <3>1, SavedFile DEF Shape
  <2>4. mem.version # NoVersion => mem.loaded
    BY DEF SyncInv, SyncedIsLoaded
  <2>5. hostFlag' \in BOOLEAN
    BY <2>1, Zenon
  <2> QED
    BY <2>1, <2>2, <2>3, <2>4, <2>5, HostStep
<1>5. CASE Restart
  <2>1. /\ mem' = EmptyCache /\ UNCHANGED <<history, disk, hostKills, hostFlag>>
        /\ \A p \in Polls : pc'[p] = "idle"
        /\ pc' \in [Polls -> PollPCs] /\ reply' \in [Polls -> Nat]
    BY <1>5 DEF Restart, hostVars, PollPCs, NoVersion
  <2>2. mem' \in Cache /\ mem'.version = NoVersion
    BY <2>1, Stamped DEF EmptyCache, Cache, NoneRevoked, NoVersion
  <2>3. Shape'
    BY <1>1, <2>1, <2>2 DEF Shape, Version, NoVersion
  <2> QED
    BY <2>2, <2>3 DEF SyncInv, SyncedIsLoaded, SetFollowsVersion,
       BlanketFollowsVersion
<1> QED
  BY <1>2, <1>3, <1>4, <1>5, PollStepKeeps, HostCallKeeps DEF Next

\* LocalRevocationCache of the TypeScript SDK: whatever polls overtake each
\* other, lookups, edits, failed saves and restarts come in between, the flag
\* is that of the version recorded unless the host has set it, and no agent
\* is denied that neither this version kills nor the host has revoked.
THEOREM CacheFollowsVersion == Spec => []DecisionsFollowVersion
<1>1. Init => SyncInv
  BY SyncInit
<1>2. SyncInv /\ [Next]_vars => SyncInv'
  BY SyncStep
<1>3. SyncInv => DecisionsFollowVersion
  <2> SUFFICES ASSUME SyncInv PROVE DeniesNoMoreThanVersion
    BY DEF SyncInv, DecisionsFollowVersion
  <2> QED
    BY DEF SyncInv, DeniesNoMoreThanVersion, Denies, Kills, SetFollowsVersion,
       BlanketFollowsVersion
<1> QED
  BY <1>1, <1>2, <1>3, PTL DEF Spec

-----------------------------------------------------------------------------
(* Typing, with the bounds.                                                *)

Limits ==
    /\ Version <= MaxVersion
    /\ \A p \in Polls : /\ reply[p] <= Version
                        /\ reply[p] = 0 <=> pc[p] \in {"idle", "askVersion"}
    /\ running \in BOOLEAN /\ hostKills \subseteq Agents

LEMMA LimitsInit == Init => Limits
<1> SUFFICES ASSUME Init PROVE Limits
  OBVIOUS
<1>1. PICK b \in BOOLEAN, K \in SUBSET Agents :
         history = <<[blanket |-> b, killed |-> K]>>
  BY DEF Init
<1>2. Version = 1
  BY <1>1 DEF Version
<1>3. /\ \A p \in Polls : reply[p] = 0 /\ pc[p] = "idle"
      /\ running = FALSE /\ hostKills = {}
  BY DEF Init, NoVersion
<1>4. Version <= MaxVersion
  BY <1>2, SyncTSAssumption
<1>5. running \in BOOLEAN
  BY <1>3, Zenon
<1>6. \A p \in Polls :
         reply[p] <= Version /\ (reply[p] = 0 <=> pc[p] \in {"idle", "askVersion"})
  BY <1>2, <1>3
<1> QED
  BY <1>3, <1>4, <1>5, <1>6 DEF Limits

LEMMA LimitsStep == ASSUME SyncInv, Limits, [Next]_vars PROVE Limits'
<1>1. /\ Version \in Nat \ {0} /\ reply \in [Polls -> Nat]
      /\ history \in Seq(ServerState) /\ pc \in [Polls -> PollPCs]
  BY DEF SyncInv, Shape
<1>2. CASE ServerChange
  <2>1. PICK s \in ServerState : history' = Append(history, s)
    BY <1>2 DEF ServerChange, ServerState
  <2>2. Version' = Version + 1
    BY <1>1, <2>1 DEF Version
  <2>3. Version < MaxVersion /\ UNCHANGED <<running, pc, reply, hostKills>>
    BY <1>2 DEF ServerChange, hostVars
  <2> QED
    BY <1>1, <2>2, <2>3, SyncTSAssumption DEF Limits
<1>3. CASE StartWorker \/ StopWorker
  BY <1>3 DEF StartWorker, StopWorker, hostVars, Limits, Version
<1>4. ASSUME NEW p \in Polls, BeginPoll(p) \/ PollStep(p) PROVE Limits'
  <2>1. UNCHANGED <<history, running, hostKills>>
    BY <1>4 DEF BeginPoll, PollStep, VersionAnswered, StateAnswered,
       RequestFails, FastPath, Unchanged, NeedState, UseState, hostVars
  <2>2. \/ /\ reply' = reply
           /\ \/ pc[p] = "idle" /\ pc' = [pc EXCEPT ![p] = "askVersion"]
              \/ pc[p] = "useVersion" /\ pc' = [pc EXCEPT ![p] = "askState"]
        \/ /\ reply' = [reply EXCEPT ![p] = Version]
           /\ \E next \in {"useVersion", "useState"} :
                 pc' = [pc EXCEPT ![p] = next]
        \/ /\ reply' = [reply EXCEPT ![p] = NoVersion]
           /\ pc' = [pc EXCEPT ![p] = "idle"]
    BY <1>4 DEF BeginPoll, PollStep, VersionAnswered, StateAnswered,
       RequestFails, FastPath, Unchanged, NeedState, UseState, EndPoll
  <2>3. \A q \in Polls : /\ reply'[q] <= Version
                         /\ reply'[q] = 0 <=> pc'[q] \in {"idle", "askVersion"}
    <3>1. \A q \in Polls \ {p} : reply'[q] = reply[q] /\ pc'[q] = pc[q]
      BY <1>1, <2>2
    <3>2. /\ reply'[p] <= Version
          /\ reply'[p] = 0 <=> pc'[p] \in {"idle", "askVersion"}
      BY <1>1, <2>2 DEF Limits, NoVersion
    <3> QED
      BY <3>1, <3>2 DEF Limits
  <2> QED
    BY <2>1, <2>3 DEF Limits, Version
<1>5. ASSUME NEW a \in Agents, IsRevoked(a) \/ Revoke(a) \/ ClearAgent(a)
      PROVE  Limits'
  BY <1>5 DEF IsRevoked, Revoke, ClearAgent, hostVars, Limits, Version
<1>6. ASSUME NEW active \in BOOLEAN, SetBlanketKill(active) PROVE Limits'
  BY <1>6 DEF SetBlanketKill, Limits, Version
<1>7. CASE Restart
  <2>1. /\ UNCHANGED <<history, hostKills>> /\ running' = FALSE
        /\ \A p \in Polls : reply'[p] = 0 /\ pc'[p] = "idle"
    BY <1>7 DEF Restart, hostVars, NoVersion
  <2>2. Version' = Version /\ 0 <= Version
    BY <1>1, <2>1 DEF Version
  <2>3. running' \in BOOLEAN
    BY <2>1, Zenon
  <2> QED
    BY <2>1, <2>2, <2>3 DEF Limits
<1>8. CASE UNCHANGED vars
  BY <1>8 DEF vars, Limits, Version
<1> QED
  BY <1>2, <1>3, <1>4, <1>5, <1>6, <1>7, <1>8 DEF Next

\* The TypeScript worker's state keeps its types, for any number of polls
\* under way: what a poll holds is a version the server has had, and it holds one
\* exactly from its first answer to its end.
THEOREM SyncTyping == Spec => []TypeOK
<1>1. Init => SyncInv /\ Limits
  BY SyncInit, LimitsInit
<1>2. SyncInv /\ Limits /\ [Next]_vars => SyncInv' /\ Limits'
  BY SyncStep, LimitsStep
<1>3. SyncInv /\ Limits => TypeOK
  <2> SUFFICES ASSUME SyncInv, Limits PROVE TypeOK
    OBVIOUS
  <2>1. Version \in 1 .. MaxVersion
    BY SyncTSAssumption DEF SyncInv, Shape, Limits
  <2>2. reply \in [Polls -> 0 .. MaxVersion]
    <3>1. /\ reply \in [Polls -> Nat] /\ \A p \in Polls : reply[p] <= Version
          /\ Version \in Nat /\ Version <= MaxVersion
      BY DEF SyncInv, Shape, Limits
    <3>2. \A p \in Polls : reply[p] \in 0 .. MaxVersion
      BY <3>1, SyncTSAssumption
    <3> QED
      BY <3>1, <3>2
  <2> QED
    BY <2>1, <2>2 DEF SyncInv, Shape, Limits, TypeOK, NoVersion
<1> QED
  BY <1>1, <1>2, <1>3, PTL DEF Spec
=============================================================================
