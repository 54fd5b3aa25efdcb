---------------------------- MODULE BundleCache -----------------------------
(***************************************************************************)
(* The policy bundle of the Python local PDP: LocalBundleCache, its file   *)
(* and the temporary file every store writes, and restarts.  Threads load  *)
(* without a lock while one of them, the host's, stores.                   *)
(***************************************************************************)
EXTENDS Integers

CONSTANTS
    Threads,      \* threads that ask for the bundle or store one
    MaxVersion    \* bound: bundles the server has issued

None   == 0       \* no file, no bundle
Torn   == -1      \* a file whose JSON or signature does not hold

VARIABLES
    newest,    \* the last bundle the server has issued
    disk,      \* the bundle in the file, None or Torn
    partial,   \* the temporary file
    memory,    \* LocalBundleCache._bundle, or None
    step,      \* where each thread is
    held,      \* the bundle a thread has read or is storing
    overlap    \* some load was under way while the file was last replaced

vars == <<newest, disk, partial, memory, step, held, overlap>>

Files == {None, Torn} \cup 1 .. MaxVersion

TypeOK ==
    /\ newest \in 1 .. MaxVersion
    /\ disk \in Files /\ partial \in Files
    /\ memory \in 0 .. MaxVersion
    /\ step \in [Threads -> {"idle", "read", "open", "write", "replace",
                             "reset"}]
    /\ held \in [Threads -> Files]
    /\ overlap \in BOOLEAN

Init ==
    /\ newest = 1
    /\ disk \in {None, Torn, 1} /\ partial \in {None, Torn}
    /\ memory = None
    /\ step = [t \in Threads |-> "idle"]
    /\ held = [t \in Threads |-> None]
    /\ overlap = FALSE

Goes(t, from, to) == step[t] = from /\ step' = [step EXCEPT ![t] = to]

\* The server compiles a new bundle.
Issue ==
    /\ newest < MaxVersion
    /\ newest' = newest + 1
    /\ UNCHANGED <<disk, partial, memory, step, held, overlap>>

\* get_or_load finds no cached bundle, however old one would have been, and
\* reads the file.
Read(t) ==
    /\ memory = None
    /\ Goes(t, "idle", "read")
    /\ held' = [held EXCEPT ![t] = disk]
    /\ UNCHANGED <<newest, disk, partial, memory, overlap>>

\* load keeps what it read, unless it is missing, torn or wrongly signed.
Load(t) ==
    /\ Goes(t, "read", "idle")
    /\ memory' = IF held[t] \in {None, Torn} THEN memory ELSE held[t]
    /\ UNCHANGED <<newest, disk, partial, held, overlap>>

Storing == \E t \in Threads : step[t] \in {"open", "write", "replace", "reset"}

\* The host has fetched the bundle and stores it.
Fetch(t) ==
    /\ ~Storing
    /\ Goes(t, "idle", "open")
    /\ held' = [held EXCEPT ![t] = newest]
    /\ UNCHANGED <<newest, disk, partial, memory, overlap>>

Open(t) ==
    /\ Goes(t, "open", "write")
    /\ partial' = Torn
    /\ UNCHANGED <<newest, disk, memory, held, overlap>>

Write(t) ==
    /\ Goes(t, "write", "replace")
    /\ partial' = held[t]
    /\ UNCHANGED <<newest, disk, memory, held, overlap>>

Loading == \E t \in Threads : step[t] = "read"

\* os.replace.
Replace(t) ==
    /\ Goes(t, "replace", "reset")
    /\ disk' = partial /\ partial' = None
    /\ overlap' = Loading
    /\ UNCHANGED <<newest, memory, held>>

\* `self._bundle = None  # Force reload`, and invalidate().
Reset(t) ==
    /\ Goes(t, "reset", "idle")
    /\ memory' = None
    /\ UNCHANGED <<newest, disk, partial, held, overlap>>

\* The write of a store fails; the temporary file stays as it is.
StoreFails(t) ==
    /\ step[t] \in {"open", "write", "replace"}
    /\ step' = [step EXCEPT ![t] = "idle"]
    /\ UNCHANGED <<newest, disk, partial, memory, held, overlap>>

Restart ==
    /\ memory' = None
    /\ step' = [t \in Threads |-> "idle"]
    /\ held' = [t \in Threads |-> None]
    /\ overlap' = FALSE
    /\ UNCHANGED <<newest, disk, partial>>

Next ==
    \/ Issue \/ Restart
    \/ \E t \in Threads :
          \/ Read(t) \/ Load(t) \/ Fetch(t) \/ Open(t) \/ Write(t)
          \/ Replace(t) \/ Reset(t) \/ StoreFails(t)

Spec == Init /\ [][Next]_vars

-----------------------------------------------------------------------------
\* The bundle decisions are taken on is the one in the file, not an earlier
\* one, whenever no store is between its two last steps: a stored bundle is
\* in force, unless a load was under way when it replaced the file (then
\* the load may put the old bundle back for good).
StoredIsInForce ==
    \/ memory \in {None, disk}
    \/ overlap
    \/ \E t \in Threads : step[t] = "reset"
=============================================================================
