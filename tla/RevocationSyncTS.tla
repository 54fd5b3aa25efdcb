-------------------------- MODULE RevocationSyncTS --------------------------
(***************************************************************************)
(* The kill switch in the TypeScript SDK.  JavaScript runs one thing at a  *)
(* time, so a cache operation and its save are one step, and nothing can   *)
(* come between reading the file and installing it.  But the timer starts  *)
(* a poll every interval whether or not the last one is over: polls        *)
(* overlap, and each continues when its own HTTP answer arrives.           *)
(* The data of the cache is that of the Python one (RevocationCache).      *)
(***************************************************************************)
EXTENDS RevocationCache, Sequences

CONSTANTS
    Polls,        \* bound: polls under way at the same time
    LocalOps,     \* the cache calls the host makes
    MaxVersion    \* bound: changes of the server state

ASSUME SyncTSAssumption ==
    /\ LocalOps \subseteq {"revoke", "clear", "blanket"}
    /\ MaxVersion \in Nat \ {0}

VARIABLES
    history,   \* the server's states, oldest first; the last one is current
    mem,       \* the process's LocalRevocationCache
    disk,      \* revoked.json
    running,   \* the module-level worker runs, and its timer with it
    pc,        \* where each poll is
    reply,     \* the server version in the poll's last HTTP answer
    hostKills, \* the agents the host itself has revoked
    hostFlag   \* the host has set the blanket flag itself

hostVars == <<hostKills, hostFlag>>
vars == <<history, mem, disk, running, pc, reply, hostKills, hostFlag>>

ServerState == [blanket : BOOLEAN, killed : SUBSET Agents]

Version == Len(history)

\* The server kills agent a in the state it had at version v.
Kills(v, a) == history[v].blanket \/ a \in history[v].killed

\* Nothing in a poll depends on the clock but the expiry of entries, which
\* is the Python cache's: time stands still here.
Now == 0

File   == [exists : BOOLEAN, content : Snapshot]
NoFile == [exists |-> FALSE, content |-> EmptySnapshot]

PollPCs == {"idle", "askVersion", "useVersion", "askState", "useState"}

TypeOK ==
    /\ history \in Seq(ServerState) /\ Version \in 1 .. MaxVersion
    /\ mem \in Cache
    /\ disk \in File
    /\ running \in BOOLEAN
    /\ pc \in [Polls -> PollPCs]
    /\ reply \in [Polls -> 0 .. MaxVersion]
    /\ \A p \in Polls :
          reply[p] = NoVersion <=> pc[p] \in {"idle", "askVersion"}
    /\ hostKills \subseteq Agents /\ hostFlag \in BOOLEAN

Init ==
    /\ \E b \in BOOLEAN, K \in SUBSET Agents :
          history = <<[blanket |-> b, killed |-> K]>>
    /\ mem = EmptyCache
    /\ disk = NoFile
    /\ running = FALSE
    /\ pc = [p \in Polls |-> "idle"]
    /\ reply = [p \in Polls |-> NoVersion]
    /\ hostKills = {} /\ hostFlag = FALSE

\* An operator kills or clears agents, or flips the blanket kill switch.
ServerChange ==
    /\ Version < MaxVersion
    /\ \E b \in BOOLEAN, K \in SUBSET Agents :
          /\ [blanket |-> b, killed |-> K] # history[Version]
          /\ history' = Append(history, [blanket |-> b, killed |-> K])
    /\ UNCHANGED <<mem, disk, running, pc, reply, hostVars>>

\* persist: the file takes the new state, or stays if that fails.
Save(c) == disk' \in {[exists |-> TRUE, content |-> SnapshotOf(c)], disk}

-----------------------------------------------------------------------------
(* startSyncWorker, stopSyncWorker, and the worker's timer.                *)

StartWorker ==
    /\ ~running
    /\ running' = TRUE
    /\ UNCHANGED <<history, mem, disk, pc, reply, hostVars>>

\* stop() clears the timer; polls under way go on.
StopWorker ==
    /\ running
    /\ running' = FALSE
    /\ UNCHANGED <<history, mem, disk, pc, reply, hostVars>>

\* start() and every tick of setInterval: `void this.poll()`.
BeginPoll(p) ==
    /\ running
    /\ pc[p] = "idle"
    /\ pc' = [pc EXCEPT ![p] = "askVersion"]
    /\ UNCHANGED <<history, mem, disk, running, reply, hostVars>>

-----------------------------------------------------------------------------
(* pollAndMaybeFetch, cut at its awaits.                                   *)

\* The server answers now; the poll continues later, after any other one.
VersionAnswered(p) ==
    /\ pc[p] = "askVersion"
    /\ reply' = [reply EXCEPT ![p] = Version]
    /\ pc' = [pc EXCEPT ![p] = "useVersion"]
    /\ UNCHANGED <<history, mem, disk, running, hostVars>>

StateAnswered(p) ==
    /\ pc[p] = "askState"
    /\ reply' = [reply EXCEPT ![p] = Version]
    /\ pc' = [pc EXCEPT ![p] = "useState"]
    /\ UNCHANGED <<history, mem, disk, running, hostVars>>

EndPoll(p) ==
    /\ pc' = [pc EXCEPT ![p] = "idle"]
    /\ reply' = [reply EXCEPT ![p] = NoVersion]

\* Mutant: the branch of a failed request does not return.
RequestFailsOnly(p) ==
    /\ pc[p] \in {"askVersion", "askState"}
    /\ pc' = [pc EXCEPT ![p] = IF @ = "askVersion" THEN "useVersion"
                                                 ELSE "useState"]
    /\ UNCHANGED <<history, mem, disk, running, reply, hostVars>>

\* HTTP 401, another error status, an aborted fetch, bad JSON.
RequestFails(p) ==
    /\ pc[p] \in {"askVersion", "askState"}
    /\ EndPoll(p)
    /\ UNCHANGED <<history, mem, disk, running, hostVars>>

ApplyServerState(v, blanket, killed) ==
    /\ mem' = Applied(v, blanket, killed, Now)
    /\ Save(mem')

\* Mutant: the fast path does not look at the answer.
FastPathUnasked(p) == ~mem.blanket

TakesFastPath(p) == history[reply[p]].blanket /\ ~mem.blanket

VersionUnchanged(p) == mem.version # NoVersion /\ mem.version = reply[p]

FastPath(p) ==
    /\ pc[p] = "useVersion"
    /\ TakesFastPath(p)
    /\ ApplyServerState(reply[p], TRUE, {})
    /\ EndPoll(p)
    /\ UNCHANGED <<history, running, hostVars>>

\* "pass current state back to itself to bump lastSyncedAt": the flag is
\* passed back, the agents are not.
Unchanged(p) ==
    /\ pc[p] = "useVersion"
    /\ ~TakesFastPath(p) /\ VersionUnchanged(p)
    /\ ApplyServerState(mem.version, mem.blanket, {})
    /\ EndPoll(p)
    /\ UNCHANGED <<history, running, hostVars>>

NeedState(p) ==
    /\ pc[p] = "useVersion"
    /\ ~TakesFastPath(p) /\ ~VersionUnchanged(p)
    /\ pc' = [pc EXCEPT ![p] = "askState"]
    /\ UNCHANGED <<history, mem, disk, running, reply, hostVars>>

\* Mutant: the state is applied without its version.
UseStateUnversioned(p) ==
    /\ pc[p] = "useState"
    /\ LET s == history[reply[p]]
       IN ApplyServerState(mem.version, s.blanket, s.killed)
    /\ EndPoll(p)
    /\ UNCHANGED <<history, running, hostVars>>

UseState(p) ==
    /\ pc[p] = "useState"
    /\ LET s == history[reply[p]]
       IN ApplyServerState(reply[p], s.blanket, s.killed)
    /\ EndPoll(p)
    /\ UNCHANGED <<history, running, hostVars>>

-----------------------------------------------------------------------------
(* The host.                                                               *)

\* ensureLoaded, at the head of isRevoked and revoke.
Loaded ==
    IF ~mem.loaded /\ disk.exists THEN Installed(mem, disk.content)
                                 ELSE [mem EXCEPT !.loaded = TRUE]

IsRevoked(a) ==
    /\ mem' = AfterLookup(Loaded, a, Now)
    /\ UNCHANGED <<history, disk, running, pc, reply, hostVars>>

Revoke(a) ==
    /\ "revoke" \in LocalOps
    /\ mem' = Revoked(Loaded, a, Now)
    /\ Save(mem')
    /\ hostKills' = hostKills \cup {a}
    /\ UNCHANGED <<history, running, pc, reply, hostFlag>>

ClearAgent(a) ==
    /\ "clear" \in LocalOps
    /\ mem' = Cleared(mem, a)
    /\ Save(mem')
    /\ UNCHANGED <<history, running, pc, reply, hostVars>>

SetBlanketKill(active) ==
    /\ "blanket" \in LocalOps
    /\ mem' = BlanketSet(mem, active)
    /\ Save(mem')
    /\ hostFlag' = TRUE
    /\ UNCHANGED <<history, running, pc, reply, hostKills>>

\* The process ends and starts again: the file remains.
Restart ==
    /\ mem' = EmptyCache
    /\ running' = FALSE
    /\ pc' = [p \in Polls |-> "idle"]
    /\ reply' = [p \in Polls |-> NoVersion]
    /\ UNCHANGED <<history, disk, hostVars>>

PollStep(p) ==
    \/ VersionAnswered(p)
    \/ StateAnswered(p)
    \/ RequestFails(p)
    \/ FastPath(p)
    \/ Unchanged(p)
    \/ NeedState(p)
    \/ UseState(p)

Next ==
    \/ ServerChange
    \/ StartWorker
    \/ StopWorker
    \/ \E p \in Polls : BeginPoll(p) \/ PollStep(p)
    \/ \E a \in Agents : IsRevoked(a) \/ Revoke(a) \/ ClearAgent(a)
    \/ \E active \in BOOLEAN : SetBlanketKill(active)
    \/ Restart

Spec == Init /\ [][Next]_vars

\* The timer fires while it is set, a poll goes on when it can (its requests
\* time out), and repeated requests are answered now and then.
FairSpec ==
    /\ Spec
    /\ \A p \in Polls : /\ WF_vars(BeginPoll(p))
                        /\ WF_vars(PollStep(p))
                        /\ SF_vars(VersionAnswered(p))
                        /\ SF_vars(StateAnswered(p))

-----------------------------------------------------------------------------
\* The blanket flag is that of the version recorded, whatever polls overtook
\* each other, unless the host has set it itself: an answer that comes late
\* replaces version and flag together.
BlanketFollowsVersion ==
    mem.version # NoVersion /\ ~hostFlag =>
        mem.blanket = history[mem.version].blanket

\* The cache denies no agent but those the version recorded kills and those
\* the host has revoked itself.
DeniesNoMoreThanVersion ==
    mem.version # NoVersion /\ ~hostFlag =>
        \A a \in Agents \ hostKills :
            Denies(mem, a, Now) => Kills(mem.version, a)

\* "Mirrors Python LocalRevocationCache exactly": what the cache decides
\* follows the version it has recorded.
DecisionsFollowVersion == BlanketFollowsVersion /\ DeniesNoMoreThanVersion

\* A late answer of an earlier poll is put right, and no call of the host
\* keeps the worker from it: while the worker runs, the cache ends up at the
\* version the server ends up at.
Converges == <>[]running => <>[](mem.version = Version)

\* An agent whose kill stays on ends up denied ("preserved by apply", the
\* comment at the call an unchanged poll makes).
KillEnforced ==
    \A a \in Agents :
        <>[](running /\ Kills(Version, a)) => <>[]Denies(mem, a, Now)
=============================================================================
