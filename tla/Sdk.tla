-------------------------------- MODULE Sdk ---------------------------------
(***************************************************************************)
(* The Python SDK: its audit file, governed calls, the caches of the local *)
(* PDP, execution tokens and the REST client; and the revocation cache of  *)
(* the Go SDK.  They share no state that one changes and another relies    *)
(* on, so a behaviour is one of any of them.                               *)
(***************************************************************************)
EXTENDS Integers, Sequences, FiniteSets

CONSTANTS
    Actors,               \* threads and calls
    FileMax,              \* a file of the emitter is full at this size
    DiskFails,            \* the disk may refuse an event
    Packs, Bundles,       \* what the evaluator may find cached
    PackTtl, FetchLag,    \* the cached pack lives, and a fetch takes, this long
    TokenTtls, Grace,     \* lifetimes of tokens, and the grace of their use
    ReplayLag,            \* no thread waits longer for the replay lock
    Retries,              \* attempts of the REST client
    Agents, Threads, Worker, Pollers, LocalOps,  \* agents, goroutines, calls, Go
    BothOps,              \* its host sets the flag and revokes agents too
    MaxEvents, MaxTime, MaxCalls, MaxBundles, MaxChanges, MaxIssued, MaxKeys,
    MaxTicks, MaxTokens, MaxClients, MaxVersion  \* bounds

\* part names the component a behaviour is of; the others' variables are Off.
VARIABLES
    part,
    clock, content, born, emitPath, rotated, lock, emitPc, event, name,
    open, emitted, written, refused,
    config, stack, active, begun, ran, ended, events,
    newest, bundleDisk, partial, bundleMemory, bundleStep, bundleHeld,
    overlap,
    pack, log, packDisk, packMemory, packStep, packHeld, age, last, poll,
    version, told, due, applied,
    now, signing, published, tokens, keys, cached, tokenStep, tokenToken,
    at, used, saved, unsaved, accepted, forgotten,
    m2m, issued, good, restToken, cache, http, header, closed, restPc,
    attempt, hand, own, rejected, stale, answer,
    history, mem, goPath, worker, goPc, reply, job, goHeld, hostKills,
    hostFlag, released

Off == "off"

-----------------------------------------------------------------------------
Emitter == INSTANCE AuditEmitter WITH
    path <- emitPath, pc <- emitPc, Threads <- Actors
Call == INSTANCE GovernedCall
Bundle == INSTANCE BundleCache WITH
    disk <- bundleDisk, memory <- bundleMemory, step <- bundleStep,
    held <- bundleHeld, Threads <- Actors, MaxVersion <- MaxBundles
Context == INSTANCE ContextPackCache WITH
    disk <- packDisk, memory <- packMemory, step <- packStep,
    held <- packHeld, Threads <- Actors, Ttl <- PackTtl, Lag <- FetchLag
Token == INSTANCE ExecutionToken WITH
    step <- tokenStep, token <- tokenToken, Threads <- Actors,
    Ttls <- TokenTtls, Lag <- ReplayLag, MaxTokens <- MaxIssued,
    MaxTime <- MaxTicks
Rest == INSTANCE RestClient WITH
    token <- restToken, pc <- restPc, Calls <- Actors
GoCache == INSTANCE RevocationSyncGo WITH
    path <- goPath, pc <- goPc, held <- goHeld

\* What a thread waits for the replay lock is less than the grace; the packs
\* and bundles are those the evaluator can find; who polls in Go is a goroutine.
ASSUME SdkAssumption ==
    /\ IsFiniteSet(Actors)
    /\ FileMax \in Nat /\ PackTtl \in Nat /\ FetchLag \in Nat
    /\ Packs \subseteq [tier : {"low", "medium"} \cup Call!High,
                        active : BOOLEAN, sensitive : BOOLEAN]
    /\ Bundles \subseteq [fresh : BOOLEAN,
                          enforce : {"permit", "forbid", "raises"}]
    /\ TokenTtls \subseteq Nat /\ Grace \in Nat \ {0}
    /\ ReplayLag \in Nat /\ ReplayLag <= Grace
    /\ Retries \in Nat \ {0}
    /\ Agents # {} /\ Pollers \subseteq Threads \cup {Worker}
    /\ MaxEvents \in Nat /\ MaxTime \in Nat /\ MaxCalls \in Nat
    /\ MaxBundles \in Nat \ {0} /\ MaxChanges \in Nat
    /\ MaxIssued \in Nat /\ MaxKeys \in Nat \ {0} /\ MaxTicks \in Nat
    /\ MaxTokens \in Nat \ {0} /\ MaxClients \in Nat /\ MaxVersion \in Nat \ {0}

emitVars == <<clock, content, born, emitPath, rotated, lock, emitPc, event, name,
    open, emitted, written, refused>>
callVars == <<config, stack, active, begun, ran, ended, events>>
bundleVars == <<newest, bundleDisk, partial, bundleMemory, bundleStep, bundleHeld,
    overlap>>
packVars == <<pack, log, packDisk, packMemory, packStep, packHeld, age, last, poll,
    version, told, due, applied>>
tokenVars == <<now, signing, published, tokens, keys, cached, tokenStep, tokenToken,
    at, used, saved, unsaved, accepted, forgotten>>
restVars == <<m2m, issued, good, restToken, cache, http, header, closed, restPc,
    attempt, hand, own, rejected, stale, answer>>
goVars == <<history, mem, goPath, worker, goPc, reply, job, goHeld, hostKills,
    hostFlag, released>>

EmitterOff ==
    /\ clock = Off /\ content = Off /\ born = Off /\ emitPath = Off
    /\ rotated = Off /\ lock = Off /\ emitPc = Off /\ event = Off
    /\ name = Off /\ open = Off /\ emitted = Off /\ written = Off
    /\ refused = Off
CallOff ==
    /\ config = Off /\ stack = Off /\ active = Off /\ begun = Off
    /\ ran = Off /\ ended = Off /\ events = Off
BundleOff ==
    /\ newest = Off /\ bundleDisk = Off /\ partial = Off
    /\ bundleMemory = Off /\ bundleStep = Off /\ bundleHeld = Off
    /\ overlap = Off
ContextOff ==
    /\ pack = Off /\ log = Off /\ packDisk = Off /\ packMemory = Off
    /\ packStep = Off /\ packHeld = Off /\ age = Off /\ last = Off
    /\ poll = Off /\ version = Off /\ told = Off /\ due = Off
    /\ applied = Off
TokenOff ==
    /\ now = Off /\ signing = Off /\ published = Off /\ tokens = Off
    /\ keys = Off /\ cached = Off /\ tokenStep = Off /\ tokenToken = Off
    /\ at = Off /\ used = Off /\ saved = Off /\ unsaved = Off
    /\ accepted = Off /\ forgotten = Off
RestOff ==
    /\ m2m = Off /\ issued = Off /\ good = Off /\ restToken = Off
    /\ cache = Off /\ http = Off /\ header = Off /\ closed = Off
    /\ restPc = Off /\ attempt = Off /\ hand = Off /\ own = Off
    /\ rejected = Off /\ stale = Off /\ answer = Off
GoCacheOff ==
    /\ history = Off /\ mem = Off /\ goPath = Off /\ worker = Off
    /\ goPc = Off /\ reply = Off /\ job = Off /\ goHeld = Off
    /\ hostKills = Off /\ hostFlag = Off /\ released = Off

\* Bound: the Go host sets the flag, or has revoked an agent, not both.
FlagOrKills == BothOps \/ ~(hostFlag' /\ hostKills' # {})

Init ==
    \/ part = "emit" /\ Emitter!Init /\ CallOff /\ BundleOff /\ ContextOff /\ TokenOff /\ RestOff /\ GoCacheOff
    \/ part = "call" /\ Call!Init /\ EmitterOff /\ BundleOff /\ ContextOff /\ TokenOff /\ RestOff /\ GoCacheOff
    \/ part = "bundle" /\ Bundle!Init /\ EmitterOff /\ CallOff /\ ContextOff /\ TokenOff /\ RestOff /\ GoCacheOff
    \/ part = "pack" /\ Context!Init /\ EmitterOff /\ CallOff /\ BundleOff /\ TokenOff /\ RestOff /\ GoCacheOff
    \/ part = "token" /\ Token!Init /\ EmitterOff /\ CallOff /\ BundleOff /\ ContextOff /\ RestOff /\ GoCacheOff
    \/ part = "rest" /\ Rest!Init /\ EmitterOff /\ CallOff /\ BundleOff /\ ContextOff /\ TokenOff /\ GoCacheOff
    \/ part = "go" /\ GoCache!Init /\ EmitterOff /\ CallOff /\ BundleOff /\ ContextOff /\ TokenOff /\ RestOff

Next ==
    \/ part = "emit" /\ Emitter!Next /\ UNCHANGED <<part, callVars, bundleVars, packVars, tokenVars, restVars, goVars>>
    \/ part = "call" /\ Call!Next /\ UNCHANGED <<part, emitVars, bundleVars, packVars, tokenVars, restVars, goVars>>
    \/ part = "bundle" /\ Bundle!Next /\ UNCHANGED <<part, emitVars, callVars, packVars, tokenVars, restVars, goVars>>
    \/ part = "pack" /\ Context!Next /\ UNCHANGED <<part, emitVars, callVars, bundleVars, tokenVars, restVars, goVars>>
    \/ part = "token" /\ Token!Next /\ UNCHANGED <<part, emitVars, callVars, bundleVars, packVars, restVars, goVars>>
    \/ part = "rest" /\ Rest!Next /\ UNCHANGED <<part, emitVars, callVars, bundleVars, packVars, tokenVars, goVars>>
    \/ part = "go" /\ GoCache!Next /\ FlagOrKills /\ UNCHANGED <<part, emitVars, callVars, bundleVars, packVars, tokenVars, restVars>>

vars == <<part, emitVars, callVars, bundleVars, packVars, tokenVars, restVars, goVars>>

Spec == Init /\ [][Next]_vars

-----------------------------------------------------------------------------
\* The typing of each component.
TypeOK ==
    /\ part = "emit" => Emitter!TypeOK
    /\ part = "call" => Call!TypeOK
    /\ part = "bundle" => Bundle!TypeOK
    /\ part = "pack" => Context!TypeOK
    /\ part = "token" => Token!TypeOK
    /\ part = "rest" => Rest!TypeOK
    /\ part = "go" => GoCache!TypeOK

\* emit: a file passes its limit by no more than an event of each thread.
FilesAreBounded == part = "emit" => Emitter!FilesAreBounded

\* evaluate: a call allowed locally is one that nothing ruled out throughout.
LocalAllowIsCurrent == part = "call" => Call!LocalAllowIsCurrent

\* check_and_invoke: the token a tool finds is that of its own call, an event
\* says how its call ended, and what was denied or blocked has not run.
CallsAreToldApart == part = "call" => Call!CallsAreToldApart

\* check_and_invoke: "Always emits audit event."
EveryRunIsRecorded == part = "call" => Call!EveryRunIsRecorded

\* validate: a single-use token is accepted once.
SingleUseHolds == part = "token" => Token!SingleUseHolds

\* _request: the token a 401 was for is not sent again by the call.
RetryIsNew == part = "rest" => Rest!RetryIsNew

\* What the host has stored is in force, and what the server has called back
\* is not.
CachesAreCurrent ==
    /\ part = "bundle" => Bundle!StoredIsInForce
    /\ part = "pack" => Context!InvalidatedPacksGo

\* Go: the cache holds what the server had at the version it records, but for
\* what the host has set or cleared and what was deleted as expired.
GoCacheFollowsVersion == part = "go" => GoCache!FollowsVersion
=============================================================================
