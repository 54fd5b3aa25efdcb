---------------------------- MODULE McpAuditLog ----------------------------
(***************************************************************************)
(* The local audit log of the MCP proxy, mcp-server/kswitch_mcp/           *)
(* local_audit.py: threads of one process append, read what is not yet     *)
(* synced and mark what the server has confirmed; the process may crash.   *)
(* append and mark_synced hold the lock, the readers do not.  Every file   *)
(* operation may fail: the methods log a warning and release the lock.     *)
(*                                                                         *)
(* A line is an entry's number, and whether it is marked as synced.  The   *)
(* log and its rotated predecessor are sequences of lines; what a write    *)
(* that was cut short left of a line is unreadable and not counted.        *)
(***************************************************************************)
EXTENDS Integers, Sequences

CONSTANTS
    Threads,     \* the threads that use the log
    FileMax,     \* _ROTATION_BYTES, in entries
    Crashes,     \* the process may crash
    DiskFails,   \* file operations may fail
    MaxEntries   \* bound: entries written

VARIABLES
    file,        \* the lines of local-audit.jsonl
    rotated,     \* those of local-audit.jsonl.1
    lock,        \* self._lock is held
    pc,          \* where each thread is
    snapshot,    \* what mark_synced has read and rewrites
    appended,    \* how many entries append has written
    confirmed,   \* the entries the server has confirmed
    torn,        \* the file ends in a piece of a line
    damaged      \* a rewrite was cut short, or an entry joined to such a piece

vars == <<file, rotated, lock, pc, snapshot, appended, confirmed, torn, damaged>>

Entries == 1 .. MaxEntries
Line    == [entry : Entries, synced : BOOLEAN]

TypeOK ==
    /\ file \in Seq(Line) /\ rotated \in Seq(Line)
    /\ pc \in [Threads -> {"idle", "write", "rewrite", "finish"}]
    /\ snapshot \in Seq(Line)
    /\ appended \in 0 .. MaxEntries
    /\ confirmed \subseteq Entries /\ torn \in BOOLEAN /\ damaged \in BOOLEAN
    /\ lock <=> \E t \in Threads : pc[t] # "idle"

Init ==
    /\ file = <<>> /\ rotated = <<>>
    /\ lock = FALSE
    /\ pc = [t \in Threads |-> "idle"]
    /\ snapshot = <<>>
    /\ appended = 0 /\ confirmed = {} /\ torn = FALSE /\ damaged = FALSE

Goto(t, label) == pc' = [pc EXCEPT ![t] = label]

Acquire(t, label) == pc[t] = "idle" /\ ~lock /\ lock' = TRUE /\ Goto(t, label)
Release(t)        == lock' = FALSE /\ Goto(t, "idle")

\* A write that is cut short leaves the first of its lines, and may leave a
\* piece of the next.
CutShort(lines) ==
    /\ \E k \in 0 .. Len(lines) : file' = SubSeq(lines, 1, k)
    /\ torn' \in BOOLEAN

-----------------------------------------------------------------------------
\* append, with the lock: _rotate_if_needed, which may fail,
Rotate(t) ==
    /\ Acquire(t, "write")
    /\ \/ Len(file) > FileMax /\ rotated' = file /\ file' = <<>> /\ torn' = FALSE
       \/ (Len(file) <= FileMax \/ DiskFails) /\ UNCHANGED <<file, rotated, torn>>
    /\ UNCHANGED <<snapshot, appended, confirmed, damaged>>

\* and the line.  Behind a piece of a line it is as unreadable as the piece.
WriteLine(t) ==
    /\ pc[t] = "write" /\ appended < MaxEntries
    /\ appended' = appended + 1
    /\ file' = IF torn THEN file
               ELSE Append(file, [entry |-> appended', synced |-> FALSE])
    /\ torn' = FALSE
    /\ damaged' = (damaged \/ torn)
    /\ Release(t)
    /\ UNCHANGED <<rotated, snapshot, confirmed>>

\* The entry cannot be written: it is gone, or a piece of it stays.
AppendFails(t) ==
    /\ DiskFails
    /\ pc[t] = "write"
    /\ torn' \in {torn, TRUE}
    /\ Release(t)
    /\ UNCHANGED <<file, rotated, snapshot, appended, confirmed, damaged>>

Pending == {file[i].entry : i \in {j \in DOMAIN file : ~file[j].synced}}

\* pending_sync reads the current file, whoever holds the lock; what it
\* returns is sent, and the server confirms it.
PendingSync(t) ==
    /\ pc[t] = "idle" /\ Pending # {}
    /\ confirmed' = confirmed \cup Pending
    /\ UNCHANGED <<file, rotated, lock, pc, snapshot, appended, torn, damaged>>

Marked(lines, ids) ==
    [i \in DOMAIN lines |-> [lines[i] EXCEPT !.synced = @ \/ lines[i].entry \in ids]]

\* Mutant: the file is read before the lock is taken.
MarkReadUnlocked(t) ==
    /\ pc[t] = "idle" /\ file # <<>> /\ confirmed # {}
    /\ snapshot' = Marked(file, confirmed)
    /\ Goto(t, "rewrite")
    /\ UNCHANGED <<file, rotated, lock, appended, confirmed, torn, damaged>>

\* mark_synced, with the lock: the lines are read and marked,
MarkRead(t) ==
    /\ file # <<>> /\ confirmed # {}
    /\ Acquire(t, "rewrite")
    /\ snapshot' = Marked(file, confirmed)
    /\ UNCHANGED <<file, rotated, appended, confirmed, torn, damaged>>

\* write_text truncates the file,
MarkTruncate(t) ==
    /\ pc[t] = "rewrite"
    /\ file' = <<>> /\ torn' = FALSE
    /\ Goto(t, "finish")
    /\ UNCHANGED <<rotated, lock, snapshot, appended, confirmed, damaged>>

\* and writes them.
MarkWrite(t) ==
    /\ pc[t] = "finish"
    /\ file' = snapshot
    /\ snapshot' = <<>>
    /\ Release(t)
    /\ UNCHANGED <<rotated, appended, confirmed, torn, damaged>>

\* write_text fails: the file cannot be opened, and stays,
MarkRefused(t) ==
    /\ DiskFails
    /\ pc[t] = "rewrite"
    /\ snapshot' = <<>>
    /\ Release(t)
    /\ UNCHANGED <<file, rotated, appended, confirmed, torn, damaged>>

\* or it is truncated and the disk does not take all of the lines: the method
\* returns 0 and the log goes on with what is left.
MarkFails(t) ==
    /\ DiskFails
    /\ pc[t] = "finish"
    /\ CutShort(snapshot)
    /\ damaged' = TRUE
    /\ snapshot' = <<>>
    /\ Release(t)
    /\ UNCHANGED <<rotated, appended, confirmed>>

\* The process crashes, in a write or not, and starts again.
Crash ==
    /\ Crashes
    /\ \/ /\ \E t \in Threads : pc[t] = "finish"
          /\ CutShort(snapshot)
          /\ damaged' = TRUE
       \/ /\ \A t \in Threads : pc[t] # "finish"
          /\ torn' \in IF \E t \in Threads : pc[t] = "write" THEN {torn, TRUE} ELSE {torn}
          /\ UNCHANGED <<file, damaged>>
    /\ lock' = FALSE
    /\ pc' = [t \in Threads |-> "idle"]
    /\ snapshot' = <<>>
    /\ UNCHANGED <<rotated, appended, confirmed>>

Next ==
    \/ Crash
    \/ \E t \in Threads :
          \/ Rotate(t) \/ WriteLine(t) \/ AppendFails(t) \/ PendingSync(t)
          \/ MarkRead(t) \/ MarkTruncate(t) \/ MarkWrite(t)
          \/ MarkRefused(t) \/ MarkFails(t)

Spec == Init /\ [][Next]_vars

-----------------------------------------------------------------------------
InFile(lines) == {lines[i].entry : i \in DOMAIN lines}

\* What is on disk, or about to be written back to it
Kept == InFile(file) \cup InFile(rotated) \cup InFile(snapshot)

\* The second rotation drops the entries of the first, so the log is a window:
\* of what append has written, the newest FileMax + 1 entries are there -
\* whatever rotations, rewrites, refused writes and appends of other threads
\* came between.  This ends with the first rewrite that a crash or a failing
\* disk cuts short, and with the first entry written behind a torn line.
NewestKept ==
    ~damaged => \A e \in Entries : e <= appended /\ appended - e <= FileMax => e \in Kept

\* The window is in the order of the appends, without duplicates, and no entry
\* is marked as synced that the server has not confirmed, damaged or not.
InOrder ==
    /\ \A i \in DOMAIN file : file[i].synced => file[i].entry \in confirmed
    /\ \A i, j \in DOMAIN (rotated \o file) :
          i < j => (rotated \o file)[i].entry < (rotated \o file)[j].entry

\* What tail and pending_sync read is the newest part of what was appended.
LogIsAWindow == NewestKept /\ InOrder
=============================================================================
