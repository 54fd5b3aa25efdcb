---------------------------- MODULE AuditEmitter ----------------------------
(***************************************************************************)
(* python/kswitch/audit/emitter.py, step 1 of emit: the local JSONL file   *)
(* that several threads append to and rotate.  Only the append is under    *)
(* the emitter's lock; the size test and the rename are before it.         *)
(*                                                                         *)
(* A file is a number and the set of the events in it; a name - the path   *)
(* of events.jsonl, or that path with a second of the clock after it -     *)
(* stands for a file or for none.  An open file stays itself under another *)
(* name.                                                                   *)
(***************************************************************************)
EXTENDS Integers, FiniteSets

CONSTANTS
    Threads,      \* the threads that emit
    FileMax,      \* _MAX_FILE_SIZE, in events
    DiskFails,    \* a call on the file system may fail
    MaxEvents,    \* bound: calls of emit
    MaxTime       \* bound: the clock, in seconds

VARIABLES
    clock,     \* int(time.time())
    content,   \* the events in each file
    born,      \* the second each file was created in
    path,      \* the file under the name events.jsonl
    rotated,   \* the files under the names events.jsonl.<second>
    lock,      \* self._lock is held
    pc,        \* where each thread is in emit
    event,     \* the event it emits
    name,      \* the second it has taken for the new name
    open,      \* the file it has open
    emitted,   \* how many calls of emit there were
    written,   \* the events appended without an error
    refused    \* those whose emit had the rename refused

fileVars == <<content, born, path, rotated>>
vars == <<clock, content, born, path, rotated, lock, pc, event, name, open,
          emitted, written, refused>>

Events  == 1 .. MaxEvents
Seconds == 0 .. MaxTime
Files   == 1 .. MaxEvents       \* opening for append creates one at most
NoFile  == 0

PCs == {"idle", "exists", "size", "name", "rename", "lock", "open", "append"}

TypeOK ==
    /\ clock \in Seconds
    /\ content \in [Files -> SUBSET Events]
    /\ born \in [Files -> Seconds]
    /\ path \in Files \cup {NoFile}
    /\ rotated \in [Seconds -> Files \cup {NoFile}]
    /\ lock \in BOOLEAN
    /\ pc \in [Threads -> PCs]
    /\ event \in [Threads -> 0 .. MaxEvents]
    /\ name \in [Threads -> Seconds]
    /\ open \in [Threads -> Files \cup {NoFile}]
    /\ emitted \in 0 .. MaxEvents
    /\ written \subseteq Events /\ refused \subseteq Events
    /\ lock <=> \E t \in Threads : pc[t] \in {"open", "append"}

Init ==
    /\ clock = 0
    /\ content = [f \in Files |-> {}]
    /\ born = [f \in Files |-> 0]
    /\ path = NoFile
    /\ rotated = [s \in Seconds |-> NoFile]
    /\ lock = FALSE
    /\ pc = [t \in Threads |-> "idle"]
    /\ event = [t \in Threads |-> 0]
    /\ name = [t \in Threads |-> 0]
    /\ open = [t \in Threads |-> NoFile]
    /\ emitted = 0
    /\ written = {} /\ refused = {}

Tick ==
    /\ clock < MaxTime
    /\ clock' = clock + 1
    /\ UNCHANGED <<fileVars, lock, pc, event, name, open, emitted, written, refused>>

Goto(t, label) == pc' = [pc EXCEPT ![t] = label]

\* emit is called; os.makedirs.
Emit(t) ==
    /\ pc[t] = "idle" /\ emitted < MaxEvents
    /\ emitted' = emitted + 1
    /\ event' = [event EXCEPT ![t] = emitted']
    /\ Goto(t, "exists")
    /\ UNCHANGED <<clock, fileVars, lock, name, open, written, refused>>

TestExists(t) ==
    /\ pc[t] = "exists"
    /\ Goto(t, IF path = NoFile THEN "lock" ELSE "size")
    /\ UNCHANGED <<clock, fileVars, lock, event, name, open, emitted, written, refused>>

\* Mutant: only a file of more than twice the size is rotated.
IsFarTooLarge(f) == Cardinality(content[f]) > 2 * FileMax + 1

IsTooLarge(f) == Cardinality(content[f]) > FileMax

\* os.path.getsize raises when the file has been renamed since: `except
\* Exception: pass` ends step 1.
TestSize(t) ==
    /\ pc[t] = "size"
    /\ \/ path = NoFile /\ Goto(t, "idle")
       \/ path # NoFile /\ Goto(t, IF IsTooLarge(path) THEN "name" ELSE "lock")
    /\ UNCHANGED <<clock, fileVars, lock, event, name, open, emitted, written, refused>>

TakeName(t) ==
    /\ pc[t] = "name"
    /\ name' = [name EXCEPT ![t] = clock]
    /\ Goto(t, "rename")
    /\ UNCHANGED <<clock, fileVars, lock, event, open, emitted, written, refused>>

\* os.rename replaces what has the new name; its failure is ignored.
Rename(t) ==
    /\ pc[t] = "rename"
    /\ \/ /\ path # NoFile
          /\ rotated' = [rotated EXCEPT ![name[t]] = path]
          /\ path' = NoFile
          /\ UNCHANGED refused
       \/ /\ path = NoFile
          /\ UNCHANGED <<path, rotated, refused>>
       \/ /\ DiskFails
          /\ refused' = refused \cup {event[t]}
          /\ UNCHANGED <<path, rotated>>
    /\ Goto(t, "lock")
    /\ UNCHANGED <<clock, content, born, lock, event, name, open, emitted, written>>

Acquire(t) ==
    /\ pc[t] = "lock" /\ ~lock
    /\ lock' = TRUE
    /\ Goto(t, "open")
    /\ UNCHANGED <<clock, fileVars, event, name, open, emitted, written, refused>>

Created == {f \in Files : f = path \/ \E s \in Seconds : rotated[s] = f}
           \cup {f \in Files : content[f] # {}}

\* open(path, "a") creates the file if there is none.
OpenFile(t) ==
    /\ pc[t] = "open"
    /\ \/ path # NoFile /\ UNCHANGED <<path, born>>
       \/ path = NoFile /\ \E f \in Files \ Created :
             /\ \A g \in Files \ Created : f <= g
             /\ path' = f
             /\ born' = [born EXCEPT ![f] = clock]
    /\ open' = [open EXCEPT ![t] = path']
    /\ Goto(t, "append")
    /\ UNCHANGED <<clock, content, rotated, lock, event, name, emitted, written, refused>>

\* A file takes longer than a second to reach 50 MB.
SlowEnough(f, events) == Cardinality(events) > FileMax => clock > born[f]

\* f.write, and the end of the `with` blocks.
Append(t) ==
    /\ pc[t] = "append"
    /\ LET f == open[t]
           events == content[f] \cup {event[t]}
       IN /\ SlowEnough(f, events)
          /\ content' = [content EXCEPT ![f] = events]
    /\ written' = written \cup {event[t]}
    /\ lock' = FALSE
    /\ open' = [open EXCEPT ![t] = NoFile]
    /\ Goto(t, "idle")
    /\ UNCHANGED <<clock, born, path, rotated, event, name, emitted, refused>>

\* Mutant: the lock is taken and released by hand, not by `with`.
EmitFailsLocked(t) ==
    /\ DiskFails
    /\ pc[t] \in {"exists", "open", "append"}
    /\ open' = [open EXCEPT ![t] = NoFile]
    /\ Goto(t, "idle")
    /\ UNCHANGED <<clock, fileVars, lock, event, name, emitted, written, refused>>

\* Another error of the file system: `except Exception: pass`.
EmitFails(t) ==
    /\ DiskFails
    /\ pc[t] \in {"exists", "open", "append"}
    /\ lock' = (lock /\ pc[t] = "exists")
    /\ open' = [open EXCEPT ![t] = NoFile]
    /\ Goto(t, "idle")
    /\ UNCHANGED <<clock, fileVars, event, name, emitted, written, refused>>

Next ==
    \/ Tick
    \/ \E t \in Threads :
          \/ Emit(t) \/ TestExists(t) \/ TestSize(t) \/ TakeName(t)
          \/ Rename(t) \/ Acquire(t) \/ OpenFile(t) \/ Append(t)
          \/ EmitFails(t)

Spec == Init /\ [][Next]_vars

-----------------------------------------------------------------------------
Reachable == {path} \cup {rotated[s] : s \in Seconds}

\* "Thread-safe local JSONL audit emitter": no rotation takes a file of
\* events with it.
NothingOverwritten ==
    \A e \in written : \E f \in Reachable \ {NoFile} : e \in content[f]

\* The size test is taken before the lock, so each other thread may add an
\* event to a full file before it is renamed, and no more than that - events
\* whose own rename was refused aside: a file is one event over the limit
\* when the first test finds it too large.
FilesAreBounded ==
    \A f \in Files :
        Cardinality(content[f] \ refused) <= FileMax + Cardinality(Threads)
=============================================================================
