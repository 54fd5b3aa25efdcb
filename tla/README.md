# KSwitch DevKit: specifications, model checking and proofs

This directory verifies the logic of the KSwitch DevKit: the SDKs in Python
(`python/kswitch`), TypeScript (`typescript/src`) and Go (`go/kswitch`), which
mirror each other, the MCP governing proxy (`mcp-server/kswitch_mcp`), the brain
server's remote reads (`mcp-server/kswitch_brain_mcp`) and the runtime around
them (`devkit/`). An agent's call of a tool is decided locally where possible,
from state that background workers keep in step with the KSwitch server; every
decision is to be audited; and a *kill* ordered at the server must reach every
process. The specifications are about that state: who may change it, in which
order, and what is true whatever fails in between.

The source is the reference. `PROJECT.json` maps every definition to the lines
it stands for, and lists what is hard to test (`hazards`) with the property that
watches it.

## 1. The system

| Part | State it keeps | Operations | What makes it hard | Correct when |
| --- | --- | --- | --- | --- |
| Revocation cache (`revocation/cache.*`) | set of killed agents with times, blanket flag, server version, time of last sync, `loaded`; `revoked.json` | lookup, revoke, clear, blanket, apply a server state, load, persist | host threads, workers, a file shared by all, expiry, restarts | it denies what the server's version it records kills; the file survives restarts |
| Revocation sync worker (`revocation/sync.*`) | singleton, thread or timer, a poll under way | start, stop, poll version, fast path, fetch state, apply | failing and slow requests, overlapping workers and polls | kills arrive; the window in which they are unknown is bounded in the strict stale modes |
| Policy bundle cache (`bundle/local_cache.*`) | bundle in memory, bundle file | load, store, invalidate | load against store | what is cached is what was stored last |
| Context pack cache (`context/`) | packs in memory and on disk, version of the invalidation feed | load, store, invalidate, poll the feed | loads against invalidations, compaction, a server that falls back | an invalidated pack is not used again |
| Local decision point (`local_pdp/`) | none (reads the three caches) | `evaluate` | the caches change between its reads | allows only what every check allows |
| Interceptor and runtime (`interceptor.*`, `invoke.py`) | the active token, its workers | check and invoke, start and stop workers | a failure at each step, nested calls | no tool without a decision, token and trail belong to the call |
| Audit emitter (`audit/emitter.*`) | JSONL file and its rotated files | emit | threads, rotation | no event is lost, files are bounded |
| Audit sender (`audit/sender.*`) | queue, thread, batch under way, counters | start, stop, shut down, enqueue, flush | a full queue, retries, stopping while sending | every event is sent, or counted as lost |
| Tokens (`tokens/`) | signing key, keys cached, replay store and its file | issue, validate | threads, restarts, the edge of the expiry | a single-use token is accepted once |
| REST client (`client.py`, `auth.py`) | shared HTTP client, token, token cache | request, refresh, close | threads that get a 401 at once | a refused token is not sent again |
| MCP proxy (`proxy.py` and its layers) | reachability, sessions, tools | governed call, start, teardown | the control plane out of reach at any step | a blocked call does not run upstream; calls leave a trace; only checked tools are served |
| MCP policy cache, audit log, token client | bundle, log and rotated log, token and client | pull, load; append, rotate, mark synced; request | overlapping pulls, crashes in a rewrite, coroutines | what is in force verifies; the log is the newest part; no refused token is repeated |
| Brain server, remote reads (`remote.py`) | ledger of results, audit events | search, fetch | the memory changes while the sidecar answers | content goes to who searched, unchanged and in time |
| API wrappers, adapters, DevKit scripts and gateway | none or configuration | requests | - | - |

How they interact: the decision point reads the caches directly; workers write
the revocation and context caches from HTTP answers; the host fetches bundles and
packs and stores them; the runtime starts the sender and hands events to the
emitter, which writes the file and passes them to the sender it is attached to;
the interceptor has a token issued and shows it to the tool it runs; all
singletons are shared by all runtimes of a process; a file is shared by all
processes of a user. The proxy repeats the pattern for MCP: local rules, the
signed bundle, the control plane, the upstream server, the local log.

## 2. Modules

| Module | Models | Its promise |
| --- | --- | --- |
| `RevocationCache` | data of `python/kswitch/revocation/cache.py`: one operator per critical section | - |
| `RevocationSync` | Python cache, workers, host threads, files, restarts | `DecisionsFollowVersion`, `NoInventedKill`, `FileIsWhole`, `BoundedExposure`, `Converges`, ... |
| `KillSwitch` | what the sync promises, without threads and files | refined by `RevocationSync` (`KeepsPromise`) |
| `RevocationSyncTS` | TypeScript cache and worker | `DecisionsFollowVersion`, `Converges` |
| `RevocationSyncGo` | Go cache and worker | `FollowsVersion` |
| `GoAuditSender` | `go/kswitch/audit/sender.go` | accounting, order, `StopIsClean`, `CallsReturn`, `QueueIsFlushed` |
| `PyAuditSender` | `python/kswitch/audit/sender.py`, step 2 of `emit`, start and stop in `invoke.py` | accounting, `OneInCharge`, `StopDrains`, `QueueIsForwarded` |
| `AuditEmitter` | step 1 of `emit` in `python/kswitch/audit/emitter.py` | `FilesAreBounded` |
| `GovernedCall` | `invoke`, `check_and_invoke`, `evaluate`, `enforce_mcp_call` | `LocalAllowIsCurrent`, `CallsAreToldApart` |
| `BundleCache` | `python/kswitch/bundle/local_cache.py` | `StoredIsInForce` |
| `ContextPackCache` | `python/kswitch/context/local_cache.py`, `invalidation_sync.py` | `InvalidatedPacksGo` |
| `ExecutionToken` | `python/kswitch/tokens/` | `SingleUseHolds` |
| `RestClient` | `python/kswitch/client.py`, `auth.py` | `RetryIsNew` |
| `McpProxy` | a tool call: `proxy.py`, `local_rules.py`, `local_inspection.py`, `enforcement_client.py`, the reachability cache | `BlockedStaysBlocked`, `LongOutagesLeaveTraces` |
| `McpStartup` | `_proxy_lifespan`, the drift check | `ProxyServesSafely` |
| `McpPolicyCache` | `policy_cache.py` | `PolicySurvivesRestart` |
| `McpAuditLog` | `local_audit.py` | `LogIsAWindow` |
| `McpToken` | `mcp-server/kswitch_mcp/client.py` | `RetryIsNew` |
| `BrainRemote` | `mcp-server/kswitch_brain_mcp/remote.py` | `ReadsAreBound` |
| `Sdk` | any of `AuditEmitter`, `GovernedCall`, `BundleCache`, `ContextPackCache`, `ExecutionToken`, `RestClient`, `RevocationSyncGo` | theirs |
| `Mcp` | any of the six modules before it, `McpProxy` ... `BrainRemote` | theirs |
| `MCRevocationSync`, `MCSyncLimits`, `MCSyncExposure`, `MCMcp`, `MCSdk` | instances for TLC; the first also says what refines `KillSwitch` | - |
| `RevocationSyncProofs`, `RevocationPromiseProofs`, `RevocationSyncTSProofs`, `GoAuditSenderProofs`, `PyAuditSenderProofs`, `SdkCacheProofs`, `SdkProofs`, `McpProofs` | theorems | section 4 |

An operator marked *Mutant* is the definition that follows it with a plausible
mistake; `PROJECT.json` pairs each with the property that notices it. They are
part of no specification.

### Revocation, Python

The cache is `mem`, `revoked.json` and its temporary file are `path` and `tmp`;
a file is absent, empty (opened for writing), broken or whole. The server is a
`history` of states, a version being a position in it. A poll is the sequence
`poll`, `compare`, `version`, `stamp` or `fetch`, `apply` (or `applyFast`) of
the worker's `pc`: the code takes the cache's lock anew to read the flag, to
read the version and to renew the time of the sync, and another worker may apply
its answer between any two. Then come the steps of `_persist`, which every
writer of the cache runs: snapshot under the lock, open, write, rename. A
decision is `stale` (step 0 of `evaluate`), `ensure`, `read`, `install` (the
load) and `act`. `StopWorker` leaves a worker that is in a request running, as
`join` with its timeout does; `StartWorker` makes a new worker. `Restart` may
come anywhere and keeps the files. `fd` says what has become of a temporary file
a thread has open: still that name, already renamed, or replaced.

The time an answer may take to be applied is `PollTicks`: `Tick` waits for
answers that are that old. This is an assumption. The code puts nothing blocking
between answer and application, and gives each request a timeout, but one of each
operation of the HTTP client, not of the whole; a thread may be held up as well.

`KillSwitch` is the abstract specification: a process enforces exactly one
version, moves to later ones only, and forgets at a restart. `KeepsPromise`
maps `view` to the recorded version and `denied` to the agents the cache denies,
and holds for one worker at a time: an overtaken answer goes back a version.

### Revocation, TypeScript and Go

JavaScript runs each piece between awaits to its end, so a cache operation with
its synchronous save is one step. What the timer adds is overlap: `BeginPoll`
needs no poll to have ended. `hostKills` and `hostFlag` remember what the host
has set itself, for the properties to except it.

In Go a step is one section under `mu`, one request or one file operation.
`StopWorker` and `WorkerStopped` are separate because `Stop` waits for the
goroutine. The file carries the version, so a load replaces cache *and* version.
`persist` marshals the cache's own map outside the lock: `held` is a snapshot
with the agents that are in the map all the time (`surely`) and some time
(`maybe`), `shared` until the cache gets another map; `Marshal` meets anything
in between. A write race that makes the runtime abort is a `Restart`. Goroutines
write one temporary file: what is renamed may be another's text, and a torn file
loads as none (`ReadFails`). A lookup that finds an entry expired deletes the
agent's entry whichever it is by then (`FindsExpired`, `DeleteExpired`).

### Audit, Go and Python

The fields `stopCh`, `doneCh`, `flushCh` are separate numbers because `Start`
assigns them one by one while `run`, `Enqueue` and `Shutdown` read them without
the lock. A read takes the value the field has at that moment; the three
assignments being separate steps, it may find some new and some old. Batches
are drained event by event. Each caller shuts down once, since a second call
on a stopped sender returns at once.

`PyAuditSender`: `_sender_lock` is held over the join, so `lock` is a variable.
`JoinTimesOut` lets a join end before the thread. The interval's deadline may be
over at any test. `AuditEmitter`: `exists`, `getsize`, `time()`, `rename` and
the locked `open` and `write` are separate steps; `SlowEnough` is the one
assumption on the environment: 50 MB are not written within one second.

### A governed call and the caches it reads

`GovernedCall` is a stack of frames, since a tool may make a governed call
itself. A read of the revocation cache, the pack or the bundle returns anything;
`held` is a fact that holds for the whole evaluation (the agent is killed, the
pack is suspended, ...), which constrains what reads return. So the model covers
any interleaving of the caches with `evaluate` without repeating them, and
`LocalAllowIsCurrent` says that no fact which held throughout is overlooked.
`active` is the ContextVar `_active_execution_token`. Each end of a call
(`Denied`, `Blocked`, `ToolRaises`, `Withholds`, `Returns`, `NoAnswer`) records
what the code records there.

`BundleCache` and `ContextPackCache` cut load and store at their file operations
and have no lock, as the code has none. In `ContextPackCache` the server's feed is
a `log` that may fall back by an event (a restored server) and be compacted or
paged; `due` and `applied` remember the newest pack whose invalidation the worker
has applied, and for how long. `Lag` (`FetchLag` in `Sdk`) bounds one load.

### Tokens and the REST client

`ExecutionToken`: `FindKey`, `CheckExpiry` and `CheckReplay` are the parts of
`validate` between which another thread can run; the replay lock is held over
`save` and `write`, the two halves of a `write_text`. `unsaved` says that the
file does not hold the store, `forgotten` that a restart has met that. `Lag`
(`ReplayLag`) bounds the wait for the replay lock.

`RestClient` cuts `_request` and the refresh at everything shared: `_token`, the
process-wide cache, `_http`. HTTP clients and tokens are numbered; `stale`
records whose refused token another call held while it refreshed.

### MCP proxy

`McpProxy` is `tool_fn` between its awaits, with the reachability probe in its
thread; `plane` is the control plane, `lastUp` when it last answered. `Requests`
combine the classes of tool names, arguments and replies the layers tell apart.
`McpStartup` connects the upstreams one after the other, each step of which may
raise, and closes them, which may raise too. `McpPolicyCache`: a pull truncates the
file, writes it, reads it back and installs what it accepts, in four steps, with
dates as days and a bundle reduced to version, whether it verifies, its dates and
whether it may be waived. What two writes have mixed or one has torn is `Mixed` and
loads as nothing; `outdated` and `raced` follow a load whose file is rewritten under
it. `_partial` is left out: nothing reads it. `McpAuditLog`: the log
as a sequence of lines; `append` and `mark_synced` hold the lock, readers do not.
A crash or a failing disk (`DiskFails`) may cut an append short, which leaves a
`torn` last line, or a rewrite, which leaves a prefix (`damaged`). `McpToken`:
coroutines that share a token cache and a client which a 401 changes under all of
them; that `close` awaits before it clears the client is not modelled.

### Brain server

`BrainRemote`: a request waits for the sidecar at most `Lag` (`SidecarLag`);
one `memory` changes, is quarantined and released meanwhile. `trail` is
`audit_events` by request ("degraded" counted as "denied"), and `delivered` what was
given to whom, when.

## 3. What the runs show

Runs that must pass:

| Run | Question |
| --- | --- |
| `sync_agreement` | warm start, one worker at a time: decisions follow the recorded version, the file is whole and follows, no kill is made up, the process implements `KillSwitch` |
| `sync_exposure` | `stale_mode=deny`, failing network, two workers: a killed agent passes for no longer than threshold + 2 `PollTicks`. The bound is tight: with one tick less TLC finds a pass, in which a worker finds its version unchanged, a stopped one applies an older state, and the first renews the time of the sync. And, without the clock, host edits among polls release nobody they do not name |
| `sync_overlap` | a worker stopped in a request may apply its answer after its successor's, a lookup may install an old file over a sync: the newest version wins in the end, and a blanket kill comes into force |
| `ts_sync` | TypeScript, overlapping polls among all host calls: `DecisionsFollowVersion` (`BlanketFollowsVersion` and `DeniesNoMoreThanVersion`), and overtaken polls are put right. So a blanket kill comes into force if the host does not set the flag |
| `sender_go` | accounting and order of events while two goroutines stop it and a third shuts it down; `StopIsClean` (`StopWaitsForExit` and `NeverPanics`); a flush whose context ends is given up though its POST hangs; if POSTs end, the queue is emptied and calls return |
| `sender_py` | accounting, draining, one sender in charge; its queue is forwarded |
| `mcp` | the six modules `McpProxy` ... `BrainRemote` |
| `sdk` | `AuditEmitter`, `GovernedCall`, `BundleCache`, `ContextPackCache`, `ExecutionToken`, `RestClient`, `RevocationSyncGo` |

`Mcp` and `Sdk` are unions: `part` names the component a behaviour is of, and the
variables of the others are `Off`. The components in one union share no state
that one changes and another relies on (where they meet, one is an input of the
other), so exploring them one per behaviour loses no interleaving; every
property is the component's own, guarded by `part`. The unions take every
parameter as a CONSTANT, and `MCMcp` and `MCSdk` only give values: what TLC checks
on two calls is the formula the theorems are about. `sync_overlap` is a union in
the same sense: `limit` is "one worker", whose writes succeed, or "broken disk",
two overlapping workers and no write. In
`sync_exposure` the server's first state decides (`Within`): if it kills another
agent than `Victim`, the host edits, time stands still and there is one worker at a
time; if not, time passes, two workers overlap and the host only asks for decisions
on `Victim`.

Together `DecisionsFollowVersion` and `Converges` say that every kill that stays
on comes into force: with no file loaded over a sync, `KillEnforced` needs no run
of its own.

Runs that must find a violation, each a statement of a comment in the code
(the findings in `PROJECT.json` quote it):

| Run | What the code does |
| --- | --- |
| `load_race` | a first lookup installs an old file over a sync; the version stays, so the kill is not fetched again |
| `ts_sync_erases` | TypeScript: the second poll of an unchanged version erases individual kills |
| `emitter_rotate` | two threads rotate: the old file is overwritten by the new |
| `call_unrecorded` | a tool raises, or its output is withheld: it has run, and no event says so |

Where a property is narrower than one might expect, the code is the reason, and
the model contains the behaviour that the property excepts:

* `Expiry` is never reached within a run of `RevocationSync`: an entry ends 24
  hours after the sync that stamped it, although polls go on confirming its
  version.
* `FileIsWhole` is claimed for one writer: two share one temporary file.
* `DiskForgetsOnlyOnCommand` is claimed without host edits: `clear_agent` and
  `set_blanket_kill` called first after a restart write what memory has, without
  having loaded the file.
* `FollowsVersion` (Go) excepts every agent whose entry a lookup has deleted: it
  may have been a newer entry than the one found expired.
* `QueueIsFlushed` and the second half of `CallsReturn` are claimed if POSTs end
  (`PostsEnd`). The default client has no timeout and the request the background
  context (`sender.go:95`, `222-229`, `286`): with an endpoint that never answers,
  `Shutdown` gives up its flush when its context is cancelled (`GivesUpFlush`,
  whatever a POST does), but then waits in `Stop` for the goroutine in that POST.
  The header promises more: it "returns when flush is complete or the context is
  cancelled" (`sender.go:13-14`, also `145`).
* `CallsReturn` of the Go sender is claimed for a context that ends, and
  `NeverPanics` for one `Start`: the restart of a sender whose goroutine has not
  ended yet mixes the channels of both.
* The Go sender drops the newest event when its queue is full (its header says the
  oldest), and a `Shutdown` sends two batches at most.
* `QueueIsForwarded` of the Python sender is claimed while the sender stays in
  charge: one runtime's stop ends the forwarding of all, and the emitter goes on
  filling the stopped sender's queue.
* `StoredIsInForce` excepts a load under way when a store replaces the file: it
  puts the old bundle back, for good. `InvalidatedPacksGo` excepts a store that
  had fetched its pack before, and a file that cannot be removed; and it speaks of
  invalidations the worker has applied: one that a server hides by falling back and
  catching up between two polls is skipped, and no property says otherwise.
* `LocalAllowIsCurrent` speaks of facts that hold throughout an evaluation: one
  that comes up after its read is missed. A stale bundle only matters at high and critical risk,
  and where the policy engine raises, a call at medium risk is allowed locally as
  one at low risk is, though `evaluator.py:247` speaks of low risk.
* `CallsAreToldApart` says that an event in the log is true, not that there is one:
  a call that is blocked by an obligation, withheld by the output policy, or whose
  tool raises has none, and an event that cannot be written is given up in silence
  (`audit/emitter.py:75`, `interceptor.py:784`, `812`). The docstrings say "Always
  emits audit event" (`interceptor.py:249`, `429`): `call_unrecorded`.
* `SingleUseHolds` is claimed for one process and excepts a restart that finds
  the replay file half-written: the file is emptied before it is written.
* `RetryIsNew` says nothing of the other ends: threads that refresh at once may
  meet a `KeyError`, an `AttributeError` or a closed client, and a client with a
  configured token loses it after one 401. In `McpToken` it excepts a refresh
  that raised while another's token was at hand.
* `PolicySurvivesRestart` does not say that the last good bundle survives: `pull`
  writes before it verifies, so a badly signed bundle replaces it on disk and in
  memory, against `mcp-server/README.md:475` ("the previous valid bundle remains in
  use"). It excepts a load that another pull has overtaken: `load` reads, verifies
  and assigns without a lock, so an older bundle can end up in force beside a newer
  file (`raced`), until the next undisturbed pull or restart.
* `LongOutagesLeaveTraces` is about an outage the proxy can notice, the health
  endpoint out of reach for the TTL and two waits. Before that, and for as long as
  a plane that answers the probe rejects the checks (an expired token, 5xx) or
  loses the answers, calls are delivered with no trace in either log, against
  `mcp-server/README.md:424` ("unreachable -> FAIL OPEN, logged") and `:498` ("Every
  enforcement decision is written").
* `LogIsAWindow`: what is rotated away twice is gone, though the class says that "no
  entries are dropped" (`local_audit.py:62-64`). Its first half ends with the first
  rewrite that is cut short after the truncation, by a crash or by a disk that
  refuses the rest (`write_text` at `222`; the exception is swallowed), which loses
  the log, and with the first entry appended behind a torn line, which is unreadable
  with it. The second, order and marks, holds on.
* `ProxyServesSafely` excepts, for what has been approved, upstreams that list a name
  twice: the answer for the second descriptor would let the first in. A session
  whose closing raises may stay open.
* `ReadsAreBound`: a request that raises on an unexpected answer has no event.

### Bounds

Revocation: two agents where sets matter, one where only a single kill does; two
workers or polls for anything about overtaking (the singleton keeps one in
charge, so one stopped and one current show every pair); one host thread, since
lookups only race with workers. Three server versions allow kill, clear, kill;
two where a change is all that matters: a kill and what was before it. Clock and
expiry are off (`MaxTime = 0`) except where time passes in `sync_exposure`: four
ticks, for a threshold, two answers and one beyond. There only `Victim` is
killed, and the host asks for no decision too early for `BoundedExposure` to say
anything of it, which takes nothing away from the property. The temporary file
and its writer are in play in `sync_agreement`, `load_race` and the "one worker"
half of `sync_overlap`; `sync_exposure` takes `DiskWritable = FALSE`, which the
code tolerates, to leave room for the threads: `NoInventedKill` is proved for
several writers with a disk, and watched with one only. Go cache: one agent, one
host goroutine beside the worker, two versions; `FlagOrKills` lets the host set
the flag or revoke, not both, unless `BothOps`: the theorem covers either. Go
sender: three events for a queue of two and batches of two, one retry, one
start; Python sender: two events for a queue of one, batches of two, one retry,
two senders. Emitter: a file of two events is too large; six events rotate it
twice.

In `sdk`, with two interchangeable threads or calls: two nested calls; three
bundle versions (one in memory, one in the file, one being stored); two changes
of an agent, a TTL and a lag of one tick each; two tokens, two keys, lifetime,
grace and lag of one tick, three ticks, so that a use is forgotten within the
run; three attempts, tokens and clients, so that both calls can be refused and
one can be refused again. In `mcp`, in four ticks: two calls against a TTL of
two ticks and a lag of one, so that an outage outlasts a reachability result; a
log that rotates above one entry, five entries, so that it rotates twice; two
upstreams, whose listings share a name; two bundle versions, a maximum age of
one day and two days (`MaxDay`), so that a bundle becomes stale; three tokens
and clients; three requests and two versions of the memory for a lifetime and a
lag of one tick. `sdk` and `mcp` have four million states each, the Go sender
211 thousand.

Actors are interchangeable in both unions (`SYMMETRY`): no definition orders them
or names one.

`CHECK_DEADLOCK FALSE` is given where a bound ends everything (the senders, the
emitter and the unions come to rest when no events, calls or versions are left).

### Fairness

Workers: a thread or timer that can go on does (`WF` on its steps), and a request
repeated for ever is answered now and then (`SF` on the answers), which is what
"the server can be reached again" means. Nothing is assumed of operators, hosts
or restarts: the premises of the liveness properties (`<>[]` of a running worker,
of a kill) say when they have to come to rest. Go sender: goroutines that can run
do, but a POST need not end: that it does is the premise `PostsEnd` of what depends
on it; a `select` with several ready cases takes one at random, so one that is ready
again and again is taken (`SF` on `Stopped` and `Asked`). Python sender: threads
run, joins return, and the interval's deadline passes (`SF` on flushing). The
modules of `mcp` and `sdk` state safety only: their operations are called by a
host that owes them nothing.

## 4. What is proved

Every safety property a passing run checks, the action properties and the
refinement of `KillSwitch`, by TLAPS, for all agents, workers, threads, calls,
events, tokens and bounds. Each argument is an inductive invariant; what
follows says which, and why the property alone is not enough. `FileInv` and
`VersionInv`, and those of the Go sender, TLC has also checked on the bounds of the
runs.

### From which assumptions

`SyncAssumption`, `SyncTSAssumption`, `GoSenderAssumption`,
`PySenderAssumption`, `SdkAssumption` and `McpAssumption` type the constants.
Those that say more: `ProbeLag < ReachabilityTtl`: a probe or a check takes at
most `ProbeLag`, against a TTL of 30 seconds. The code's timeouts, 3 and 10
seconds (`policy_cache.py:623`, `enforcement_client.py:45`), are of each
operation of the connection, so a slow answer may take longer: this is assumed,
as `PollTicks` is; `ReplayLag <= Grace`, as a thread waits for the replay lock
for less than the five seconds of grace; callers of the Go sender are none of
the reasons for which a goroutine drains the queue (`"tick"`, `"stop"`, ...),
which share a variable with them.

Some theorems have hypotheses the code does not guarantee. Each is needed: on the
bounds of the runs with the hypothesis dropped (a second worker or start, a tick
more, a cold start) TLC finds the property violated.

* `MaxTime <= Expiry`: no entry grows old enough to expire within the run. An
  entry that expires is released by nobody's command.
* `Sheltered`: this, no local edits, and no lookup loads the file over a sync,
  because the cache is warm when a worker starts or because the stale check
  precedes every lookup (`load_race` is what happens otherwise).
* `OneWriter`: one thread persists - one worker, or with local edits one thread in
  all. Two share one temporary file and can rename each other's half-written text.
* `MaxStarts = 1`: the Go sender is started once. A `Start` while the goroutine of
  the last one has not exited mixes the channels of both, and a restart puts
  events behind ones that are still in the old goroutine's batch.

### Revocation, Python

* `TypeCorrect`: `TypeOK` with `RepliesKnown` (what a poll holds are versions the
  server had), which `Compare` and `Apply` need to look `reply` up in `history`.
* `KillsAreTheServers`: without local edits, `NoInventedKill`. The invariant says
  of *every* place a kill can be on its way - memory, both files, the snapshot a
  thread is writing or installing - that each kill in it was the server's at some
  version: a file is written from a snapshot taken long before, by a thread whose
  worker may have been stopped, so memory and file alone are not inductive.
* `ReleasesAreCommands`: `ReleasedOnlyOnCommand` if `MaxTime <= Expiry`, for all
  edits and overlapping workers at once. Age being no matter (`Ageless`), the step
  has to change the flag or the agent's entry, and the proof goes through all that
  do; a lookup only deletes an entry of an agent it does not deny.
* `CacheAgrees`: under `Sheltered`, `DecisionsFollowVersion`. The invariant adds
  that no thread is in the middle of a load once a version is recorded (`NoRace`)
  and what each poll plans to apply on the fast path.
* `ExposureIsBounded`: under `Sheltered` and a strict stale mode,
  `BoundedExposure`. The invariant relates the time of the last sync to the time
  the server gave the state applied, that to what the server killed then, and a
  decision past the stale check to the sync it saw. The first is at most two
  `PollTicks` before: an answer is applied within one, and a stamp renews the time
  of the sync within one of the answer it compared, between which comparison and
  stamp a stopped worker may apply an answer one older.
* `FileStaysWhole`: under `OneWriter`, `FileIsWhole`. `FileInv` follows the
  temporary file through open, write and rename: who has it open is writing, it is
  empty then and whole when it is renamed, whatever failures and crashes have left
  in it before.
* `DiskForgetsInOrder` and `ProcessKeepsPromise`: under `Sheltered` and
  `OneWriter`, `DiskForgetsOnlyOnCommand` and `KeepsPromise`. `VersionInv` says
  that a poll's answer is no older than the version in force, that what a worker
  is saving kills what is in force, and that the file, and what a lookup has read
  of it, kills what *one* version kills. Then the rename that takes a kill out of
  the file follows the version in force; and a step of the process is, under the
  mapping of `KeepsPromise`, `Adopt` (an answer applied), `Recall` (the file
  installed, before the first sync by `NoRace`), `Restart`, `Change` or a stutter.

### Revocation, TypeScript and Go

* `SyncTyping` and `CacheFollowsVersion` (TypeScript): `TypeOK` and
  `DecisionsFollowVersion`. The latter is not inductive: a load could install any
  file, and an unchanged poll puts the flag back on a set it has emptied.
  `SyncedIsLoaded` (a cache with a version loads no file) and `SetFollowsVersion`
  (what is in the set is killed by the version, whatever the flag) close it.
* `GoCacheAgrees` (Go): `GoCacheFollowsVersion`, for any number of goroutines that
  poll, not only the worker and one `SyncOnce`. `Agrees` is required of the cache,
  the file and of every snapshot a goroutine has in hand, between `surely` and
  `maybe`, so that an edit of a map under marshalling keeps it, and an old file
  that is installed is right for the older version it brings along.

### The audit senders

* `SenderTyped`, `OneSenderInCharge`, `StopAlwaysDrains`, `EventsAreAccounted`
  (Python): typing with `RoomLeft` (a thread takes an event only into a batch with
  room); `LockHeldOverJoin` and `LastWhenStopped`, because who is in charge changes
  under the lock only, also while the stopping runtime joins; `InOnePlace` (queues,
  batches, sent and failed are disjoint, across senders), `Complete`, `Drained`.
* `SenderTyping`, `AcceptedAreAccounted` (Go), however often it is started and
  stopped: that batch and queue keep their limits and share no event holds across
  the goroutines of several `Start`s, which take from one queue.
* `StopsClean` (`MaxStarts = 1`): the fields, the channels, the goroutine and the
  caller inside `Start` are tied together (`StartInv`, `ChannelInv`,
  `GoroutineInv`), so that the channel closed is the one waited for, and closed by
  the one who found the sender running.
* `ArrivesInOrder` (`MaxStarts = 1`): what is queued is later than the batch, and
  that later than all that has arrived, *unless* an attempt of the batch has
  arrived whose answer was lost (`OrderInv`): then all of the batch has arrived,
  and its repetition is no first arrival. `HasFirst` and `NoneOvertaken` state the
  property on the sequence received, without a least index.

### The unions

The invariant of a union is that of the component `part` names, and `Off` for the
others; `SdkTyping` and `McpTyping` are its first part. In `Sdk`:

* `AuditFilesAreBounded`: `RoomIsLeft` counts what is in a file together with the
  threads past the size test or with the file open, since each of them will still
  append to it.
* `LocalAllowsAreCurrent`: `Passed` says of each frame which facts cannot have held
  throughout, given how far its evaluation has got.
* `CallsStayApart`: `Nested` (calls are on the stack in order, all but
  the innermost in their tools), `Chained` (each frame's `previous` is the token of
  the frame below, so that leaving a tool puts the right one back) and `Accounted`.
* `StoredIsInForceInTime`: for bundles `ReadsAreCurrent`, what a load has read is
  what the file holds unless it overlapped a replacement. For packs `OldPacksAge`:
  an invalidated pack is in no file and on its way to none, and who has read or
  cached it did so before the worker acted, and ages.
* `SingleUseIsSingle`: `ComparedInTime` (a thread that compared the expiry did so
  at most `ReplayLag` ago on a valid token), `UseIsKnown` and `UseIsSaved`: a
  consumed token is in the store, and in the file unless `unsaved`, or it is so late
  that no thread can find it valid any more (`Spent`); `OneSaves` and `PassesOnce`.
* `RetriesAreNew`: `RejectedIsGone`. Once a call has refreshed, nobody holds the
  token it was refused with (`Extinct`), and once it has dropped the HTTP client,
  nobody makes one that sends it; unless another call had it in hand (`stale`).

In `Mcp`:

* `BlockedCallsDoNotRun` and `LongOutagesAreLogged`: `RecordIsKept` ties what is
  recorded of a call, and where, to what it returned; `ClockIsKept` and `AgeIsKept`
  bound the age of what the reachability cache and each call know of the control
  plane at each of its awaits: the TTL, the probe, the check.
* `AuditLogIsAWindow`: the log counts as whole while a rewrite has cut the file
  (`Lines`); both files are increasing, one after the other (`LogInOrder`), and
  consecutive unless damaged.
* `ServedToolsAreApproved`: `ConnectsInOrder`, `CheckedActions` (what registration
  goes by is the answer for this upstream) and `SessionsAreKept`.
* `PolicyInForceIsOnDisk`: `DiskIsInForce` also while pulls wait for their answer.
* `RetriesUseNewTokens`: `TokensAreIssued`, `FetchedIsNewer`.
* `RemoteReadsAreBound`: `WaitingIsBound` (a waiting fetch was given an entry of
  its own that had not expired, at most `SidecarLag` ago), `NoTrailYet`; its typing
  needs that the ledger has an entry per answered search at most.

### What stays with TLC

Everything under fairness: `Converges` (Python and TypeScript),
`BlanketKillEnforced`, `QueueIsFlushed`, `CallsReturn`, `QueueIsForwarded`. The
prover has no rule for liveness under `WF` and `SF`. The violations are
counterexamples, not theorems.

## 5. Not modelled, and the plan

* The TypeScript audit sender (its flushes overlap at their awaits), and the Go
  and TypeScript ports of the emitter, the bundle and context caches, the
  interceptor, the decision point and the tokens: ports of the Python ones, where
  the differences that matter are noted in `PROJECT.json`. The time of the last
  sync and the stale modes are modelled for Python only.
* What starts the sync worker: `KSwitchRuntime._maybe_start_*` read
  `client._base_url`, which the client does not have, and the exception is
  swallowed; hosts call `start_sync_worker` themselves, as the model has it. In
  the same way a token issued for a call is always of tier "low", since
  `_local_to_decision` carries no tier, and the audit of an issued token is lost
  in a swallowed `TypeError`: single steps that always go wrong, for a test.
* `wimse.py`, `obo.py`, `pkce.py`: sequential and per object. Their one trap,
  `add_hop` counting a hop before it checks it, is noted with the component.
* API wrappers, adapters, `server.py` of both MCP servers: one request each, no
  state. Deployment files and scripts are configuration.
* Wording, formatting, transport, signing and cryptography (a signature holds or
  does not), patterns (a text matches or does not), and what a policy says of a
  request: inputs.

Next, in this order: the TypeScript audit sender; the staleness of the Go cache;
the Python promise under overlapping workers, as an abstract specification in
which versions may go back until the next poll. Liveness stays with TLC, as does
what recursive definitions compute for every input.
