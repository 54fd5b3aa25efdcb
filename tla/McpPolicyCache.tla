--------------------------- MODULE McpPolicyCache ---------------------------
(***************************************************************************)
(* The signed policy bundle of the MCP proxy, PolicyCache of mcp-server/   *)
(* kswitch_mcp/policy_cache.py: the file in ~/.kswitch, the bundle in      *)
(* force, pulls from the control plane that overlap, and restarts.         *)
(*                                                                         *)
(* A bundle is its version, whether its signature verifies under the       *)
(* pinned key, the day it was issued and that it expires on - each may be  *)
(* unreadable, and the latter absent - and whether it may be waived.  The  *)
(* flag _partial, which nothing reads, is left out.                        *)
(***************************************************************************)
EXTENDS Integers, FiniteSets

CONSTANTS
    Pullers,      \* the threads that call pull
    KeyPinned,    \* a public key and the crypto library are there
    MaxAge,       \* MAX_BUNDLE_AGE_DAYS
    MaxVersion,   \* bound: bundles published
    MaxTime       \* bound: the clock, in days

VARIABLES
    today,        \* datetime.now
    published,    \* the bundle the control plane serves
    disk,         \* what policy-bundle.json holds
    bundle,       \* self._bundle
    pc,           \* where each puller is
    body,         \* the body it fetched, then what its load accepted
    outdated,     \* the loads whose file another pull has written since
    raced,        \* such a load was the last to install its bundle
    spoiled       \* a write has failed since the file was last whole

vars == <<today, published, disk, bundle, pc, body, outdated, raced, spoiled>>

Unreadable == -1
Absent     == -2
NoBundle   == [version |-> 0, verifies |-> FALSE, issued |-> 0, expires |-> 0,
               waivable |-> FALSE]
\* A truncated file, one that two writes have mixed or one has torn, and a
\* JSON object that is no bundle
Empty      == [NoBundle EXCEPT !.version = -1]
Mixed      == [NoBundle EXCEPT !.version = -3]
Foreign    == [NoBundle EXCEPT !.version = -2, !.issued = Unreadable, !.expires = Absent,
               !.waivable = TRUE]
Days       == 0 .. MaxTime
Bundles    == [version : 1 .. MaxVersion, verifies : BOOLEAN,
               issued : Days \cup {Unreadable},
               expires : Days \cup {Unreadable, Absent}, waivable : BOOLEAN]
Bodies     == Bundles \cup {Foreign}
Unparsed   == {NoBundle, Empty, Mixed}

TypeOK ==
    /\ today \in Days
    /\ published \in Bundles \cup {NoBundle}
    /\ disk \in Bodies \cup Unparsed
    /\ bundle \in Bodies \cup {NoBundle}
    /\ pc \in [Pullers -> {"idle", "write", "finish", "load", "install"}]
    /\ body \in [Pullers -> Bodies \cup {NoBundle}]
    /\ outdated \subseteq {p \in Pullers : pc[p] = "install"}
    /\ raced \in BOOLEAN /\ spoiled \in BOOLEAN

Init ==
    /\ today = 0 /\ published = NoBundle
    /\ disk = NoBundle /\ bundle = NoBundle
    /\ pc = [p \in Pullers |-> "idle"]
    /\ body = [p \in Pullers |-> NoBundle]
    /\ outdated = {} /\ raced = FALSE /\ spoiled = FALSE

-----------------------------------------------------------------------------
\* _verify_signature: without a key everything passes.
Verified(b) == KeyPinned => b.verifies

\* _is_stale: a readable expires_at decides alone.
IsStale(b, day) ==
    IF b.expires >= 0 THEN day >= b.expires
    ELSE b.issued = Unreadable \/ day - b.issued > MaxAge

\* What load makes of the file: a stale bundle stays in force, as a partial
\* one, only if it may not be waived.
Accepted(file, day) ==
    IF file \in Unparsed \/ ~Verified(file) \/ (IsStale(file, day) /\ file.waivable)
    THEN NoBundle ELSE file

Goto(p, label) == pc' = [pc EXCEPT ![p] = label]

\* The file has changed under the loads that have read it.
Overtakes == outdated' = {p \in Pullers : pc[p] = "install"}

-----------------------------------------------------------------------------
Tick ==
    /\ today < MaxTime
    /\ today' = today + 1
    /\ UNCHANGED <<published, disk, bundle, pc, body, outdated, raced, spoiled>>

\* The control plane issues a bundle.
Publish ==
    /\ published.version < MaxVersion
    /\ \E b \in Bundles :
          /\ b.version = published.version + 1
          /\ <<b.issued, b.expires>> \in
                {<<today, Absent>>, <<today, Unreadable>>, <<today, today + 1>>,
                 <<Unreadable, Absent>>}
          /\ published' = b
    /\ UNCHANGED <<today, disk, bundle, pc, body, outdated, raced, spoiled>>

\* pull: a 404, an error, or a body that is no JSON object changes nothing.
\* Any JSON object is written.
Fetch(p) ==
    /\ pc[p] = "idle"
    /\ \E b \in {published, Foreign} \ {NoBundle} : body' = [body EXCEPT ![p] = b]
    /\ Goto(p, "write")
    /\ UNCHANGED <<today, published, disk, bundle, outdated, raced, spoiled>>

\* write_bytes truncates the file,
WriteBegins(p) ==
    /\ pc[p] = "write"
    /\ disk' = Empty
    /\ Goto(p, "finish")
    /\ Overtakes
    /\ UNCHANGED <<today, published, bundle, body, raced, spoiled>>

\* and writes the body, over what another pull has written meanwhile: the end
\* of a longer one stays.
WriteEnds(p) ==
    /\ pc[p] = "finish"
    /\ \/ disk' = body[p]
       \/ disk # Empty /\ disk' = Mixed
    /\ spoiled' = FALSE
    /\ Goto(p, "load")
    /\ Overtakes
    /\ UNCHANGED <<today, published, bundle, body, raced>>

\* Or it fails, before the truncation or in the write, and the bundle in force
\* stays.
WriteFails(p) ==
    /\ \/ pc[p] = "write" /\ UNCHANGED disk
       \/ pc[p] = "finish" /\ disk' \in {disk, Mixed}
    /\ spoiled' = TRUE
    /\ Goto(p, "idle")
    /\ body' = [body EXCEPT ![p] = NoBundle]
    /\ UNCHANGED <<today, published, bundle, outdated, raced>>

\* Mutant: load is given the body that was fetched, to read the file once less.
LoadFetched(p) ==
    /\ pc[p] = "load"
    /\ body' = [body EXCEPT ![p] = Accepted(@, today)]
    /\ Goto(p, "install")
    /\ UNCHANGED <<today, published, disk, bundle, outdated, raced, spoiled>>

\* load: the file is read, parsed and verified,
LoadReads(p) ==
    /\ pc[p] = "load"
    /\ body' = [body EXCEPT ![p] = Accepted(disk, today)]
    /\ Goto(p, "install")
    /\ UNCHANGED <<today, published, disk, bundle, outdated, raced, spoiled>>

\* and what was accepted is put in force, over what a later load installed.
LoadInstalls(p) ==
    /\ pc[p] = "install"
    /\ bundle' = body[p]
    /\ raced' = (p \in outdated)
    /\ outdated' = outdated \ {p}
    /\ Goto(p, "idle")
    /\ body' = [body EXCEPT ![p] = NoBundle]
    /\ UNCHANGED <<today, published, disk, spoiled>>

\* The proxy ends at any point; a new one loads what it left, before it serves.
Restart ==
    /\ pc' = [p \in Pullers |-> "idle"]
    /\ body' = [p \in Pullers |-> NoBundle]
    /\ bundle' = Accepted(disk, today)
    /\ outdated' = {} /\ raced' = FALSE /\ spoiled' = FALSE
    /\ UNCHANGED <<today, published, disk>>

Next ==
    \/ Tick \/ Publish \/ Restart
    \/ \E p \in Pullers :
          \/ Fetch(p) \/ WriteBegins(p) \/ WriteEnds(p) \/ WriteFails(p)
          \/ LoadReads(p) \/ LoadInstalls(p)

Spec == Init /\ [][Next]_vars

-----------------------------------------------------------------------------
Quiet == \A p \in Pullers : pc[p] = "idle"

\* What is in force verifies.  Once pulls are over, however they overlapped, a
\* restart would enforce what is in force, except for a bundle that has become
\* stale since it was loaded and may be waived.  Two things part them, until
\* the next pull that is not disturbed: a write that failed, and a load that
\* read the file before another pull wrote it and installed its bundle last.
\* (Not claimed: that a bundle which does not verify leaves the last one.)
PolicySurvivesRestart ==
    /\ bundle # NoBundle => Verified(bundle)
    /\ Quiet /\ ~spoiled /\ ~raced =>
         \/ bundle = Accepted(disk, today)
         \/ bundle = disk /\ bundle.waivable /\ IsStale(bundle, today)
=============================================================================
