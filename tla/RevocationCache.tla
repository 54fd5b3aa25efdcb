--------------------------- MODULE RevocationCache ---------------------------
(***************************************************************************)
(* The data of python/kswitch/revocation/cache.py: what one                *)
(* LocalRevocationCache object holds and what each of its critical         *)
(* sections (the `with self._lock:` blocks) computes.  The threads that    *)
(* run those sections, and the order they run in, are in RevocationSync.   *)
(*                                                                         *)
(* An entry of `_revoked` is reduced to its `revoked_at`; `reason`, and    *)
(* the failure texts and counters kept for get_diagnostics, are left out.  *)
(***************************************************************************)
EXTENDS Integers

CONSTANTS
    Agents,      \* the agent identifiers
    Expiry       \* _REVOCATION_EXPIRY, in clock ticks

ASSUME CacheAssumption == Agents # {} /\ Expiry \in Nat

Never == -1                      \* no timestamp
NoVersion == 0                   \* _server_version is None
Stamp == Nat \cup {Never}

\* What is written to revoked.json and read back.  The file also carries
\* server_version and last_synced_at, which load_from_disk does not read.
Snapshot == [revoked : [Agents -> Stamp], blanket : BOOLEAN]

Cache == [revoked  : [Agents -> Stamp],
          blanket  : BOOLEAN,
          loaded   : BOOLEAN,
          version  : Nat,
          syncedAt : Stamp]

NoneRevoked == [a \in Agents |-> Never]

EmptySnapshot == [revoked |-> NoneRevoked, blanket |-> FALSE]

EmptyCache == [revoked  |-> NoneRevoked,
               blanket  |-> FALSE,
               loaded   |-> FALSE,
               version  |-> NoVersion,
               syncedAt |-> Never]

\* is_revoked, after _ensure_loaded.
Denies(c, a, time) ==
    \/ c.blanket
    \/ c.revoked[a] # Never /\ time - c.revoked[a] <= Expiry

\* is_revoked deletes the entry it finds expired.
AfterLookup(c, a, time) ==
    IF Denies(c, a, time) THEN c ELSE [c EXCEPT !.revoked[a] = Never]

\* load_from_disk, the part under the lock.
Installed(c, s) ==
    [c EXCEPT !.revoked = s.revoked, !.blanket = s.blanket, !.loaded = TRUE]

\* Mutant: clearing one agent clears them all.
ClearedAll(c, a) == [c EXCEPT !.revoked = NoneRevoked]

\* revoke, set_blanket_kill and clear_agent, the part under the lock.
Revoked(c, a, time) == [c EXCEPT !.revoked[a] = time]
BlanketSet(c, flag) == [c EXCEPT !.blanket = flag]
Cleared(c, a)       == [c EXCEPT !.revoked[a] = Never]

\* Mutant: the flag is not saved.
SnapshotWithoutBlanket(c) == [revoked |-> c.revoked, blanket |-> FALSE]

\* _persist copies the set and the flag under the lock.
SnapshotOf(c) == [revoked |-> c.revoked, blanket |-> c.blanket]

\* apply_server_state, the part under the lock.
Applied(version, blanket, killed, time) ==
    [revoked  |-> [a \in Agents |-> IF a \in killed THEN time ELSE Never],
     blanket  |-> blanket,
     loaded   |-> TRUE,
     version  |-> version,
     syncedAt |-> time]

\* is_sync_stale.
IsSyncStale(c, threshold, time) ==
    /\ threshold > 0
    /\ c.syncedAt = Never \/ time - c.syncedAt > threshold
==============================================================================
