-------------------------- MODULE RevocationSyncGo --------------------------
(***************************************************************************)
(* The kill switch in the Go SDK: LocalRevocationCache and                 *)
(* RevocationSyncWorker of go/kswitch/revocation.  Unlike the Python one,  *)
(* the file carries the server's version back, StopSyncWorker waits for    *)
(* the goroutine to end however long its request takes, and persist        *)
(* marshals the cache's map itself, outside the lock.                      *)
(*                                                                         *)
(* An entry is an agent: that it is older than 24 hours may be found at    *)
(* any lookup.  The time of the last sync, and answers without a version,  *)
(* are left out.                                                           *)
(***************************************************************************)
EXTENDS Integers, Sequences

CONSTANTS
    Agents,
    Threads,      \* goroutines of the host
    Worker,       \* the goroutine of the module-level worker
    Pollers,      \* the goroutines that poll: others than Worker by SyncOnce
    LocalOps,     \* the cache calls the host makes, beside lookups
    MaxVersion    \* bound: changes of the server state

VARIABLES
    history,   \* the server's states, oldest first; the last one is current
    mem,       \* the LocalRevocationCache
    path,      \* revoked.json
    worker,    \* globalWorker: "none", "running", or "stopping"
    pc,        \* where each goroutine is
    reply,     \* the server version in the last HTTP answer
    job,       \* the agent a goroutine looks up or revokes
    held,      \* the file it has read, or the state it persists
    hostKills, \* the agents the host has revoked
    hostFlag,  \* the host has set the blanket flag
    released   \* the agents whose entry was cleared, or deleted as expired

callVars == <<reply, job, held>>
ghost    == <<hostKills, hostFlag, released>>
vars == <<history, mem, path, worker, pc, callVars, ghost>>

Goroutines == Threads \cup {Worker}

NoVersion == 0
NoFile    == -1

ServerState == [blanket : BOOLEAN, killed : SUBSET Agents]
Version     == Len(history)
Cache == [revoked : SUBSET Agents, blanket : BOOLEAN, loaded : BOOLEAN,
          version : Nat]

\* `shared`: its map is still the cache's.  `surely` and `maybe`: the agents
\* that are in the map all the time from the snapshot on, and some time.
Snapshot == [surely : SUBSET Agents, maybe : SUBSET Agents, shared : BOOLEAN,
             blanket : BOOLEAN, version : Nat]

\* revoked.json: `version` is NoFile before it is first written.
File == [revoked : SUBSET Agents, blanket : BOOLEAN, version : Nat \cup {NoFile}]
Text(s) == [revoked |-> s.surely, blanket |-> s.blanket, version |-> s.version]

NoSnapshot == [surely |-> {}, maybe |-> {}, shared |-> FALSE, blanket |-> FALSE,
               version |-> NoVersion]

EmptyCache == [revoked |-> {}, blanket |-> FALSE, loaded |-> FALSE,
               version |-> NoVersion]

PCs == {"idle", "askVersion", "fast", "compare", "askState", "applyFast",
        "apply", "snapshot", "marshal", "publish",
        "read", "install", "mark", "look", "delete", "revoke"}

TypeOK ==
    /\ history \in Seq(ServerState) /\ Version \in 1 .. MaxVersion
    /\ mem \in Cache
    /\ path \in File
    /\ worker \in {"none", "running", "stopping"}
    /\ pc \in [Goroutines -> PCs]
    /\ reply \in [Goroutines -> 0 .. MaxVersion]
    /\ job \in [Goroutines -> [op : {"look", "revoke"}, agent : Agents]]
    /\ held \in [Goroutines -> Snapshot]
    /\ hostKills \subseteq Agents /\ hostFlag \in BOOLEAN /\ released \subseteq Agents

NoJob == [op |-> "look", agent |-> CHOOSE a \in Agents : TRUE]

Init ==
    /\ \E b \in BOOLEAN, K \in SUBSET Agents :
          history = <<[blanket |-> b, killed |-> K]>>
    /\ mem = EmptyCache
    /\ path = [revoked |-> {}, blanket |-> FALSE, version |-> NoFile]
    /\ worker = "none"
    /\ pc = [g \in Goroutines |-> "idle"]
    /\ reply = [g \in Goroutines |-> NoVersion]
    /\ job = [g \in Goroutines |-> NoJob]
    /\ held = [g \in Goroutines |-> NoSnapshot]
    /\ hostKills = {} /\ hostFlag = FALSE /\ released = {}

Goto(g, step) == pc' = [pc EXCEPT ![g] = step]

\* An operator kills or clears agents, or flips the blanket kill switch.
ServerChange ==
    /\ Version < MaxVersion
    /\ \E b \in BOOLEAN, K \in SUBSET Agents :
          /\ [blanket |-> b, killed |-> K] # history[Version]
          /\ history' = Append(history, [blanket |-> b, killed |-> K])
    /\ UNCHANGED <<mem, path, worker, pc, callVars, ghost>>

-----------------------------------------------------------------------------
(* The map behind mem.revoked: persist holds it while it marshals it.      *)

\* The map is edited in place: whoever marshals it meets the edit, or not.
\* (The Go runtime may also abort the process: a Restart.)
Inserted(a) ==
    [g \in Goroutines |-> IF held[g].shared THEN [held[g] EXCEPT !.maybe = @ \cup {a}]
                                            ELSE held[g]]
Deleted(a) ==
    [g \in Goroutines |-> IF held[g].shared THEN [held[g] EXCEPT !.surely = @ \ {a}]
                                            ELSE held[g]]

\* The cache gets another map.
Unshared == [g \in Goroutines |-> [held[g] EXCEPT !.shared = FALSE]]

-----------------------------------------------------------------------------
(* StartSyncWorker, StopSyncWorker.                                        *)

StartWorker ==
    /\ worker = "none"
    /\ worker' = "running"
    /\ UNCHANGED <<history, mem, path, pc, callVars, ghost>>

StopWorker ==
    /\ worker = "running"
    /\ worker' = "stopping"
    /\ UNCHANGED <<history, mem, path, pc, callVars, ghost>>

\* Stop waits for doneCh, under globalWorkerMu.
WorkerStopped ==
    /\ worker = "stopping" /\ pc[Worker] = "idle"
    /\ worker' = "none"
    /\ UNCHANGED <<history, mem, path, pc, callVars, ghost>>

-----------------------------------------------------------------------------
(* pollAndMaybeFetch.                                                      *)

\* The worker's first poll, or one at a tick of its ticker, which the select
\* may take though the worker is to stop; or SyncOnce.
BeginPoll(g) ==
    /\ g = Worker => worker # "none"
    /\ pc[g] = "idle"
    /\ Goto(g, "askVersion")
    /\ UNCHANGED <<history, mem, path, worker, callVars, ghost>>

Answered(g, step, next) ==
    /\ pc[g] = step
    /\ reply' = [reply EXCEPT ![g] = Version]
    /\ Goto(g, next)
    /\ UNCHANGED <<history, mem, path, worker, job, held, ghost>>

VersionAnswered(g) == Answered(g, "askVersion", "fast")
StateAnswered(g)   == Answered(g, "askState", "apply")

EndPoll(g) ==
    /\ Goto(g, "idle")
    /\ reply' = [reply EXCEPT ![g] = NoVersion]

\* A refused connection, HTTP 401 or another error status, bad JSON.
RequestFails(g) ==
    /\ pc[g] \in {"askVersion", "askState"}
    /\ EndPoll(g)
    /\ UNCHANGED <<history, mem, path, worker, job, held, ghost>>

\* Step 2 reads the flag, step 3 the version, each under the lock.
TestFastPath(g) ==
    /\ pc[g] = "fast"
    /\ Goto(g, IF history[reply[g]].blanket /\ ~mem.blanket THEN "applyFast"
                                                           ELSE "compare")
    /\ UNCHANGED <<history, mem, path, worker, callVars, ghost>>

Unchanged(g) ==
    /\ pc[g] = "compare"
    /\ mem.version = reply[g]
    /\ EndPoll(g)
    /\ UNCHANGED <<history, mem, path, worker, job, held, ghost>>

NeedState(g) ==
    /\ pc[g] = "compare"
    /\ mem.version # reply[g]
    /\ reply' = [reply EXCEPT ![g] = NoVersion]
    /\ Goto(g, "askState")
    /\ UNCHANGED <<history, mem, path, worker, job, held, ghost>>

ApplyServerState(g, blanket, killed) ==
    /\ mem' = [revoked |-> killed, blanket |-> blanket, loaded |-> TRUE,
               version |-> reply[g]]
    /\ held' = Unshared
    /\ Goto(g, "snapshot")
    /\ reply' = [reply EXCEPT ![g] = NoVersion]
    /\ UNCHANGED <<history, path, worker, job, ghost>>

ApplyFast(g) == pc[g] = "applyFast" /\ ApplyServerState(g, TRUE, {})

Apply(g) ==
    /\ pc[g] = "apply"
    /\ ApplyServerState(g, history[reply[g]].blanket, history[reply[g]].killed)

PollStep(g) ==
    \/ BeginPoll(g) \/ VersionAnswered(g) \/ StateAnswered(g) \/ RequestFails(g)
    \/ TestFastPath(g) \/ Unchanged(g) \/ NeedState(g) \/ ApplyFast(g) \/ Apply(g)

-----------------------------------------------------------------------------
(* persist.                                                                *)

TakeSnapshot(g) ==
    /\ pc[g] = "snapshot"
    /\ held' = [held EXCEPT ![g] = [surely |-> mem.revoked, maybe |-> mem.revoked,
                                    shared |-> TRUE, blanket |-> mem.blanket,
                                    version |-> mem.version]]
    /\ Goto(g, "marshal")
    /\ UNCHANGED <<history, mem, path, worker, reply, job, ghost>>

Marshal(g) ==
    /\ pc[g] = "marshal"
    /\ \E read \in SUBSET Agents :
          /\ held[g].surely \subseteq read /\ read \subseteq held[g].maybe
          /\ held' = [held EXCEPT ![g].surely = read, ![g].maybe = read,
                                  ![g].shared = FALSE]
    /\ Goto(g, "publish")
    /\ UNCHANGED <<history, mem, path, worker, reply, job, ghost>>

EndPersist(g) ==
    /\ Goto(g, "idle")
    /\ held' = [held EXCEPT ![g] = NoSnapshot]
    /\ UNCHANGED <<history, mem, worker, reply, job, ghost>>

\* WriteFile to the temporary name, Rename.  Goroutines that do so at once
\* write into one file, so that it may be another's text that gets the name.
\* It may also be torn: ReadFails says what becomes of such a file.
Publish(g) ==
    /\ pc[g] = "publish"
    /\ \E h \in Goroutines : pc[h] = "publish" /\ path' = Text(held[h])
    /\ EndPersist(g)

PersistFails(g) ==
    /\ pc[g] = "publish"
    /\ UNCHANGED path
    /\ EndPersist(g)

PersistStep(g) ==
    TakeSnapshot(g) \/ Marshal(g) \/ Publish(g) \/ PersistFails(g)

-----------------------------------------------------------------------------
(* ensureLoaded and LoadFromDisk.                                          *)

ReadFile(t) ==
    /\ pc[t] = "read" /\ path.version # NoFile
    /\ held' = [held EXCEPT ![t] = [surely |-> path.revoked, maybe |-> path.revoked,
                                    shared |-> FALSE, blanket |-> path.blanket,
                                    version |-> path.version]]
    /\ Goto(t, "install")
    /\ UNCHANGED <<history, mem, path, worker, reply, job, ghost>>

\* Mutant: like in Python, the version stays what it was.
InstallUnversioned(t) ==
    /\ pc[t] = "install"
    /\ mem' = [revoked |-> held[t].surely, blanket |-> held[t].blanket,
               loaded |-> TRUE, version |-> mem.version]
    /\ held' = [Unshared EXCEPT ![t] = NoSnapshot]
    /\ Goto(t, job[t].op)
    /\ UNCHANGED <<history, path, worker, reply, job, ghost>>

Install(t) ==
    /\ pc[t] = "install"
    /\ mem' = [revoked |-> held[t].surely, blanket |-> held[t].blanket,
               loaded |-> TRUE, version |-> held[t].version]
    /\ held' = [Unshared EXCEPT ![t] = NoSnapshot]
    /\ Goto(t, job[t].op)
    /\ UNCHANGED <<history, path, worker, reply, job, ghost>>

\* Missing, unreadable, torn by two writers or a crash: "start fresh".
ReadFails(t) ==
    /\ pc[t] = "read"
    /\ Goto(t, "mark")
    /\ UNCHANGED <<history, mem, path, worker, callVars, ghost>>

MarkLoaded(t) ==
    /\ pc[t] = "mark"
    /\ mem' = [mem EXCEPT !.loaded = TRUE]
    /\ Goto(t, job[t].op)
    /\ UNCHANGED <<history, path, worker, callVars, ghost>>

LoadStep(t) == ReadFile(t) \/ Install(t) \/ ReadFails(t) \/ MarkLoaded(t)

-----------------------------------------------------------------------------
(* IsRevoked and the edits.                                                *)

\* IsRevoked and Revoke load first.
Begin(t, op, a) ==
    /\ op = "look" \/ op \in LocalOps
    /\ pc[t] = "idle"
    /\ job' = [job EXCEPT ![t] = [op |-> op, agent |-> a]]
    /\ Goto(t, IF mem.loaded THEN op ELSE "read")
    /\ UNCHANGED <<history, mem, path, worker, reply, held, ghost>>

Done(t, next) == Goto(t, next) /\ job' = [job EXCEPT ![t] = NoJob]

LookUp(t) ==
    /\ pc[t] = "look"
    /\ Done(t, "idle")
    /\ UNCHANGED <<history, mem, path, worker, reply, held, ghost>>

\* "Remove expired entry": the read lock is given up in between, so it may be
\* a newer entry that is deleted.
FindsExpired(t) ==
    /\ pc[t] = "look"
    /\ ~mem.blanket /\ job[t].agent \in mem.revoked
    /\ Goto(t, "delete")
    /\ UNCHANGED <<history, mem, path, worker, callVars, ghost>>

RemovesAgent(a) ==
    /\ mem' = [mem EXCEPT !.revoked = @ \ {a}]
    /\ held' = Deleted(a)
    /\ released' = released \cup {a}

DeleteExpired(t) ==
    /\ pc[t] = "delete"
    /\ RemovesAgent(job[t].agent)
    /\ Done(t, "idle")
    /\ UNCHANGED <<history, path, worker, reply, hostKills, hostFlag>>

Revoke(t) ==
    /\ pc[t] = "revoke"
    /\ mem' = [mem EXCEPT !.revoked = @ \cup {job[t].agent}]
    /\ held' = Inserted(job[t].agent)
    /\ hostKills' = hostKills \cup {job[t].agent}
    /\ Done(t, "snapshot")
    /\ UNCHANGED <<history, path, worker, reply, hostFlag, released>>

ClearAgent(t, a) ==
    /\ "clear" \in LocalOps
    /\ pc[t] = "idle"
    /\ RemovesAgent(a)
    /\ Goto(t, "snapshot")
    /\ UNCHANGED <<history, path, worker, reply, job, hostKills, hostFlag>>

SetBlanketKill(t, active) ==
    /\ "blanket" \in LocalOps
    /\ pc[t] = "idle"
    /\ mem' = [mem EXCEPT !.blanket = active]
    /\ hostFlag' = TRUE
    /\ Goto(t, "snapshot")
    /\ UNCHANGED <<history, path, worker, callVars, hostKills, released>>

\* The process ends, or is aborted, and starts again: the files remain.
Restart ==
    /\ mem' = EmptyCache
    /\ worker' = "none"
    /\ pc' = [g \in Goroutines |-> "idle"]
    /\ reply' = [g \in Goroutines |-> NoVersion]
    /\ job' = [g \in Goroutines |-> NoJob]
    /\ held' = [g \in Goroutines |-> NoSnapshot]
    /\ UNCHANGED <<history, path, ghost>>

HostStep(t) ==
    \/ \E a \in Agents, op \in {"look", "revoke"} : Begin(t, op, a)
    \/ LoadStep(t)
    \/ LookUp(t) \/ FindsExpired(t) \/ DeleteExpired(t) \/ Revoke(t)
    \/ \E a \in Agents : ClearAgent(t, a)
    \/ \E active \in BOOLEAN : SetBlanketKill(t, active)

Next ==
    \/ ServerChange
    \/ StartWorker \/ StopWorker \/ WorkerStopped
    \/ \E g \in Pollers : PollStep(g)
    \/ \E g \in Goroutines : PersistStep(g)
    \/ \E t \in Threads : HostStep(t)
    \/ Restart

Spec == Init /\ [][Next]_vars

-----------------------------------------------------------------------------
\* "Mirrors Python": what the cache holds is what the server had at the
\* version recorded, whatever file was loaded over it, torn, or written last,
\* but for what the host has set itself and entries that were removed.  The
\* fast path leaves out the agents, for as long as the blanket kill is on.
FollowsVersion ==
    LET s == history[mem.version] IN
    mem.version # NoVersion =>
        /\ hostFlag \/ mem.blanket = s.blanket
        /\ mem.revoked \subseteq s.killed \cup hostKills
        /\ s.blanket \/ s.killed \subseteq mem.revoked \cup released
=============================================================================
