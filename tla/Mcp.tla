-------------------------------- MODULE Mcp ---------------------------------
(***************************************************************************)
(* The MCP servers: the governing proxy - its tool calls, audit log,       *)
(* start, policy bundle and token client - and the remote reads of the     *)
(* brain server.  They share no state that one changes and another relies  *)
(* on, so a behaviour is one of any of them.                               *)
(***************************************************************************)
EXTENDS Integers, Sequences, FiniteSets

CONSTANTS
    Actors,             \* calls, threads, pullers, subjects and sessions
    Asked, Modes,       \* what a tool call asks, and how L1 inspects
    ReachabilityTtl,    \* ReachabilityCache._ttl
    ProbeLag,           \* assumed: no probe and no check takes longer
    DiskFails,          \* writes of the local audit log may fail
    RotationSize,       \* _ROTATION_BYTES, in entries
    Crashes,            \* the process may crash
    Upstreams,          \* KSWITCH_PROXY_UPSTREAMS
    Listings,           \* the tool lists an upstream may answer with
    Approved, Alerting, \* the tools the control plane lets pass
    KeyPinned,          \* the key that signs bundles is there
    MaxAge,             \* MAX_BUNDLE_AGE_DAYS
    TokenFailures,      \* how the token endpoint fails
    ResultTtls,         \* lifetimes of the brain's results
    SidecarLag,         \* the brain's timeout for the sidecar
    MaxEntries, MaxTokens, MaxClients, MaxRequests, MaxVersion,
    MaxTime, MaxDay     \* bounds

\* part names the component a behaviour is of; the others' variables are Off.
VARIABLES
    part,
    clock, plane, lastUp, mode, online, checked, proxyPc, proxyRequest,
    since, probed, isOnline, unreached, result, localLog, unwritten,
    planeLog, ran,
    file, rotated, lock, logPc, snapshot, appended, confirmed, torn, damaged,
    at, startupPc, tools, actions, next, registered, open, contexts, known,
    raised, unchecked,
    today, published, disk, bundle, bundlePc, body, outdated, raced, spoiled,
    static, secret, issued, cache, client, header, closed, tokenPc, own,
    token, rejected, lent, answer,
    now, memory, ledger, dropped, brainRequest, trail, delivered

Off == "off"

-----------------------------------------------------------------------------
Proxy == INSTANCE McpProxy WITH
    pc <- proxyPc, request <- proxyRequest, Calls <- Actors,
    Requests <- Asked, Ttl <- ReachabilityTtl, Lag <- ProbeLag
Log == INSTANCE McpAuditLog WITH
    pc <- logPc, Threads <- Actors, FileMax <- RotationSize
Startup == INSTANCE McpStartup WITH
    pc <- startupPc
Bundle == INSTANCE McpPolicyCache WITH
    pc <- bundlePc, Pullers <- Actors, MaxTime <- MaxDay
Token == INSTANCE McpToken WITH
    pc <- tokenPc, Calls <- Actors, Failures <- TokenFailures
Brain == INSTANCE BrainRemote WITH
    request <- brainRequest, Principals <- Actors, Ttls <- ResultTtls,
    Lag <- SidecarLag

\* A probe and a check take less than the 30 seconds an answer is kept.  The
\* code does not enforce it: its timeouts, 3 and 10 seconds, are those of
\* single socket operations.  Upstreams and what they list are sequences.
ASSUME McpAssumption ==
    /\ ReachabilityTtl \in Nat /\ ProbeLag \in Nat /\ ProbeLag < ReachabilityTtl
    /\ RotationSize \in Nat /\ MaxAge \in Nat
    /\ ResultTtls \subseteq Nat /\ SidecarLag \in Nat
    /\ Upstreams \in Seq(Startup!Ids)
    /\ \A l \in Listings : l \in Seq(Startup!Tools)
    /\ MaxEntries \in Nat /\ MaxTokens \in Nat \ {0} /\ MaxClients \in Nat
    /\ MaxRequests \in Nat /\ MaxVersion \in Nat \ {0}
    /\ MaxTime \in Nat /\ MaxDay \in Nat

proxyVars == <<clock, plane, lastUp, mode, online, checked, proxyPc, proxyRequest,
    since, probed, isOnline, unreached, result, localLog, unwritten,
    planeLog, ran>>
logVars == <<file, rotated, lock, logPc, snapshot, appended, confirmed, torn,
    damaged>>
startupVars == <<at, startupPc, tools, actions, next, registered, open, contexts, known,
    raised, unchecked>>
bundleVars == <<today, published, disk, bundle, bundlePc, body, outdated, raced,
    spoiled>>
tokenVars == <<static, secret, issued, cache, client, header, closed, tokenPc, own,
    token, rejected, lent, answer>>
brainVars == <<now, memory, ledger, dropped, brainRequest, trail, delivered>>

ProxyOff ==
    /\ clock = Off /\ plane = Off /\ lastUp = Off /\ mode = Off
    /\ online = Off /\ checked = Off /\ proxyPc = Off /\ proxyRequest = Off
    /\ since = Off /\ probed = Off /\ isOnline = Off /\ unreached = Off
    /\ result = Off /\ localLog = Off /\ unwritten = Off /\ planeLog = Off
    /\ ran = Off
LogOff ==
    /\ file = Off /\ rotated = Off /\ lock = Off /\ logPc = Off
    /\ snapshot = Off /\ appended = Off /\ confirmed = Off /\ torn = Off
    /\ damaged = Off
StartupOff ==
    /\ at = Off /\ startupPc = Off /\ tools = Off /\ actions = Off
    /\ next = Off /\ registered = Off /\ open = Off /\ contexts = Off
    /\ known = Off /\ raised = Off /\ unchecked = Off
BundleOff ==
    /\ today = Off /\ published = Off /\ disk = Off /\ bundle = Off
    /\ bundlePc = Off /\ body = Off /\ outdated = Off /\ raced = Off
    /\ spoiled = Off
TokenOff ==
    /\ static = Off /\ secret = Off /\ issued = Off /\ cache = Off
    /\ client = Off /\ header = Off /\ closed = Off /\ tokenPc = Off
    /\ own = Off /\ token = Off /\ rejected = Off /\ lent = Off
    /\ answer = Off
BrainOff ==
    /\ now = Off /\ memory = Off /\ ledger = Off /\ dropped = Off
    /\ brainRequest = Off /\ trail = Off /\ delivered = Off

Init ==
    \/ part = "proxy" /\ Proxy!Init /\ LogOff /\ StartupOff /\ BundleOff /\ TokenOff /\ BrainOff
    \/ part = "log" /\ Log!Init /\ ProxyOff /\ StartupOff /\ BundleOff /\ TokenOff /\ BrainOff
    \/ part = "startup" /\ Startup!Init /\ ProxyOff /\ LogOff /\ BundleOff /\ TokenOff /\ BrainOff
    \/ part = "bundle" /\ Bundle!Init /\ ProxyOff /\ LogOff /\ StartupOff /\ TokenOff /\ BrainOff
    \/ part = "token" /\ Token!Init /\ ProxyOff /\ LogOff /\ StartupOff /\ BundleOff /\ BrainOff
    \/ part = "brain" /\ Brain!Init /\ ProxyOff /\ LogOff /\ StartupOff /\ BundleOff /\ TokenOff

Next ==
    \/ part = "proxy" /\ Proxy!Next /\ UNCHANGED <<part, logVars, startupVars, bundleVars, tokenVars, brainVars>>
    \/ part = "log" /\ Log!Next /\ UNCHANGED <<part, proxyVars, startupVars, bundleVars, tokenVars, brainVars>>
    \/ part = "startup" /\ Startup!Next /\ UNCHANGED <<part, proxyVars, logVars, bundleVars, tokenVars, brainVars>>
    \/ part = "bundle" /\ Bundle!Next /\ UNCHANGED <<part, proxyVars, logVars, startupVars, tokenVars, brainVars>>
    \/ part = "token" /\ Token!Next /\ UNCHANGED <<part, proxyVars, logVars, startupVars, bundleVars, brainVars>>
    \/ part = "brain" /\ Brain!Next /\ UNCHANGED <<part, proxyVars, logVars, startupVars, bundleVars, tokenVars>>

vars == <<part, proxyVars, logVars, startupVars, bundleVars, tokenVars, brainVars>>

Spec == Init /\ [][Next]_vars

-----------------------------------------------------------------------------
\* The typing of each component.
TypeOK ==
    /\ part = "proxy" => Proxy!TypeOK
    /\ part = "log" => Log!TypeOK
    /\ part = "startup" => Startup!TypeOK
    /\ part = "bundle" => Bundle!TypeOK
    /\ part = "token" => Token!TypeOK
    /\ part = "brain" => Brain!TypeOK

\* tool_fn: what is blocked before the upstream call does not run there.
BlockedStaysBlocked == part = "proxy" => Proxy!BlockedStaysBlocked

\* tool_fn: replies delivered late in an outage of the health endpoint leave
\* a trace.
LongOutagesLeaveTraces == part = "proxy" => Proxy!LongOutagesLeaveTraces

\* LocalAuditLog: the log is the newest part of what was written to it, as
\* long as no crash and no failed write has cut the file.
LogIsAWindow == part = "log" => Log!LogIsAWindow

\* _proxy_lifespan: tools served passed the drift check, sessions close.
ProxyServesSafely == part = "startup" => Startup!ProxyServesSafely

\* pull: what is in force verifies, and is what a restart would load, unless
\* loads overtook each other or a write failed.
PolicySurvivesRestart == part = "bundle" => Bundle!PolicySurvivesRestart

\* request: no request is repeated with the token it was rejected with.
RetryIsNew == part = "token" => Token!RetryIsNew

\* search and fetch: content goes to who searched for it, in time and on
\* record.
ReadsAreBound == part = "brain" => Brain!ReadsAreBound
=============================================================================
