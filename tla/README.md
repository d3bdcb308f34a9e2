# A TLA+ model of botwork

botwork runs MCP plugins in containers and puts itself between a client's
requests and those containers. This directory models the parts of it that are
concurrent and hard to test: how a plugin session comes to life, is announced to
the egress envoy, is routed to and is taken down; how the launcher builds and
removes its container; how a tenant registers, logs in and is logged out; how a
tenant's secrets are kept on disk; and how operators change the registry under
running sessions.

Run everything from this directory: `tlc -workers 2 -config X.cfg M` for a run,
`tlapm M.tla` for a proof module. `PROJECT.json` lists the runs, the mapping of
every definition to source lines, the hazards each property is aimed at and the
theorems.

## The system

| Component | State | Operations | Modelled in |
|---|---|---|---|
| control-plane session store and ack gate (`control-plane/src/sessions.rs`, `handler.rs`) | `SessionStore.inner`, generation, acked version, subscriber count | `POST /sessions`, `DELETE /sessions/<id>`, `wait_for_ack`, rollback | `XdsAckGate` |
| control-plane ADS stream (`xds.rs`) | one task per connection of envoy, its watch receivers | subscribe, push, ACK, NACK, close | `XdsAckGate` |
| control-plane recovery (`recovery.rs`) | the seeded store | `fetch_live_sessions`, `seed_store` | `XdsAckGate` (generation), `SessionRecords` (which sessions) |
| session-broker ext_proc (`session-broker/src/ext_proc.rs`) | `transport_sessions`, `pending_init`, `stream_liveness`, `tombstones`, `liveness_cache` | request/response headers and bodies, spawn, teardown, eviction, grace timers | `SessionLiveness` (one session in detail), `SessionRecords` (several containers, coarser) |
| session-broker exit listener and admin (`exit_listener.rs`, `admin.rs`) | as above | container exit callback, tenant eviction | both |
| session-broker rows (`agent_session.rs`, `session_worker.rs`) | `agent_session.state`, `session_worker` | bind, grace, inactive, spawn, name, reap | both |
| session-broker recovery (`recovery.rs`) | all maps, rebuilt | reconcile `docker ps` with live rows | `SessionRecords` |
| launcher server and docker driver (`launcher/src/server.rs`, `docker.rs`, `mount.rs`) | docker's containers, mounts on the staging path | `/launch`, `/bind-agent`, `/teardown` | `ContainerLaunch` |
| launcher events (`launcher/src/events.rs`) | events in flight | forward `die`, `destroy`, `oom` | `SessionLiveness`, `SessionRecords` |
| auth-broker rate limiter (`auth-broker/src/auth/rate_limit.rs`) | token bucket per tenant and address | `check`, prune | `RateLimiter`, against `TokenBucket` |
| auth-broker registration and login (`auth/endpoints.rs`, `invitation.rs`, `opaque.rs`, `pending.rs`) | invitation rows, password files, pending handshakes, lease rows | create/renew/revoke invitation, register, login start and finish, prune | `AuthHandshake` |
| auth-broker leases and capabilities (`handler.rs`, `cache.rs`, `caps.rs`, `auth/lease.rs`, `admin.rs`) | lease row, unlocked masters, session keys, capabilities | `/auth/check`, `/secrets/fetch`, logout, operator revocation, prune | `LeaseCache` |
| vault (`vault/src/vault.rs`, `lock.rs`, `atomic.rs`, `bin/botwork_vault.rs`; `auth-broker/src/secrets.rs`) | `vault.botwork`, its generation counter and lock, the tenant's write lock | open, put, delete, create, `init --force` | `VaultFile` |
| api writes and live gate (`api/src/write.rs`, `control_plane.rs`) | tenants, workspaces, plugins, bindings | create, update, delete; delete control-plane's records of a changed binding's sessions | `RegistryWrites` |
| bootstrap (`bootstrap/`), config-broker (`config-broker/`) | the same rows | seed from a manifest; resolve a path to a binding | `RegistryWrites` |
| control-plane policy, api-core, opaque-handshake, db, cli, ctl, ui, version, test-support | | | not modelled: translation, parsing, cryptography, schema, presentation |

How they interact. A first request carries a lease's bearer, which auth-broker
checks and turns into a short-lived capability for the plugin's secrets.
session-broker resolves the path through config-broker, launches a container
through the launcher's socket, probes it, `POST`s it to control-plane and waits
(five seconds). control-plane stores the record and itself waits (five seconds)
for envoy to acknowledge a Listener that contains it. Only then is the container
recorded in `session_worker`, put into `pending_init` and sent traffic. Its first
response names the session: the entry moves to `transport_sessions`, the row is
named, and the stream starts to be counted. The first call with an agent id mounts
the agent's directory and binds the session to an `agent_session` row. When the
last stream closes a grace timer starts, whose expiry tears the session down; a
DELETE, a dead container, a changed secret and the container's own exit do so too,
each in its own order of map, launcher and row updates. An operator's change of a
binding deletes the records control-plane lists for it before it is committed; it
tells nobody else, so the sessions themselves run on. A
restarted session-broker rebuilds its maps from docker and the rows, a restarted
control-plane its store from the rows, a restarted auth-broker starts empty.

What is hard here:

* every `await` is a step boundary: a value read before it may be stale after it
  (the version of a push, the transport an eviction cloned, the lease a request
  validated, the row a lock token was compared with);
* locks are short: the store's map and its generation, a stream counter and its
  timer handle, the cache and the capabilities are updated one by one; statements
  of one handler run outside a transaction, or in one that is READ COMMITTED;
* four teardown paths and their background tasks converge on one session and
  abort one another's timers; the launcher has no lock at all;
* the same fact is kept in docker, two brokers' memories, two tables and envoy,
  and each write may fail alone or be cut off by a crash; the vault is shared by
  a server and a command line tool, which agree on one of the two locks only;
* timeouts race late answers on both sides of the announcement and of a launch.

## Modules

* `XdsAckGate` - the acknowledgement gate. One action per step of the POST and
  DELETE handlers (`PostSession`, `DeleteSession`, `BumpAfterWrite`, `StartWait`,
  `AckChanged`, `AckTimeout`, `Undo`, `BumpAfterUndo`, `CallerGone`), of each stream task (`StreamStart`, `Inbound`,
  `GenerationChanged`, `SnapshotAndPush`, `StreamClosed`) and of envoy, which is
  external. `tokio::sync::watch` is modelled by the value and the value a
  receiver saw last. The history variables `written` and `learnt` record which
  requests' mutations a Listener envoy ran was built after. `Spec` is one process;
  `RestartingSpec` adds `Restart`.
* `SessionLiveness` - one session from the moment it is installed. Request
  streams, grace timers and the exit callback are actors with a program counter;
  `SessionLiveness` objects are explicit, because an entry can be replaced while
  streams still hold the old `Arc`. `liveness_bump`, `liveness_drop`,
  `schedule_grace_timer`, `teardown_session`, both evictions and
  `handle_container_exit` are split at every lock and `await`.
* `SessionRecords` - several containers and where their lives are written down.
  A teardown is four steps, an eviction two; the acknowledgement is one.
  `registry` keeps the kind of key a record is stored under, because the POST
  uses the container name and the DELETE the MCP session id. Both brokers restart,
  and the api's live gate may delete any record at any time
  (`TerminateLiveSession`; `gated` is the history of what it deleted).
* `ContainerLaunch` - what the launcher does to one session's container and
  staging directory. One action per docker call and per `mount`, `umount`, `rmdir`
  command of `/launch`, `/bind-agent` and `/teardown`, any of which may fail; the
  broker that calls them times out, ignores a teardown's result and restarts; the
  launcher is killed inside a handler. `mounts` is the stack on the staging path:
  a bind adds one, two rounds of `umount` remove two.
* `TokenBucket` - what a limiter promises: a bucket per key that is always there,
  with two bounded exceptions, for requests served late and keys long idle.
  `RateLimiter` - the code: buckets made on first use, refilled lazily, dropped
  when idle, lost in a restart. Callers read the clock before they wait for the
  lock, so every operation under the lock takes the age of what its caller read
  (`late`), and `last_access` moves back when an older reading is stored. It
  implements `TokenBucket` under a refinement mapping (`level` of a key is what
  `try_consume` would find in its bucket at the present instant).
* `AuthHandshake` - invitations, `register/finish` (SELECT, UPDATE, upsert),
  `login/start` and `login/finish` with the pending map and its pruner. OPAQUE is
  external: a login succeeds exactly with the password behind the file loaded at
  its start.
* `LeaseCache` - one lease row and what memory keeps of it. A check is SELECT,
  UPDATE, remember key, unlock or create the vault, cache the master, mint; logout
  and the operator's revocation, fetches, the pruner's two halves and a restart
  run in between. Times are ages that saturate at `Horizon`; a request keeps the
  instant it started at, as the code does (`now` is taken once).
* `VaultFile` - one vault: open (file, then counter), persist (lock, compare,
  rename, increment), create (check, write, reset counter), `init --force`, errors
  and kills at every step. A secret is the handle that wrote it. `owed` and
  `pending` are the history of acknowledged and unanswered writes, `overtaken` the
  names of the windows no lock covers that a writer has got into.
* `RegistryWrites` - the rows, a handler per request (load with lock token,
  preflight, gate, apply, mint), one `Bootstrap` transaction, and a session that is
  resolved, announced and ended. A session and control-plane's record of it are
  separate: the gate's DELETE takes the record out and waits for envoy's ack
  (`DeleteSession`, `SessionDeleted`), which leaves an orphan that runs on, or
  control-plane puts the record back and the write is refused (`DeleteRolledBack`).
  Row ids are uuids: an id that a request has used is
  not given to another row, also when the row is gone. `during` is the writers that committed since a
  request loaded, `missed` the requests whose gate had passed when a session was
  announced or its record put back.
* `MC*` - the same modules with symmetry sets (and, for `SessionLiveness`, a
  view that forgets the fields of objects nobody can reach).
* `*Proofs` - theorems.

`SessionLiveness` and `SessionRecords` overlap on purpose: the first has the
detail of one session's timers and locks and no restarts, the second the several
copies and the restarts. `ContainerLaunch` opens up the launch and teardown both
treat as one call, `LeaseCache` and `VaultFile` share the creation of a vault: the
first has the keys, the second the locks. Operators named `Mutant: ...` are
plausible bugs; they are not part of any specification, and exist to show that
each property can fail.

Abstractions: payloads, paths, headers and policies are left out; a malformed
request changes nothing. A session's agent is one agent in `SessionLiveness` (is
it bound or not) and a member of `Agents` in `SessionRecords`. Time is left out
where no property needs it: a grace timer may fire whenever it is armed. `docker`
reports `die` and `destroy` for one exit; the second finds no session and is the
same stutter as a late first. `ContainerLaunch` is a session with a workspace and
with secrets, whose token is launched once. In `RegistryWrites` `updated_at` is
the writer that set it: no two writers produce the same one; control-plane does not
restart there (a restart fills its records again from the rows of sessions that
run, deleted records included: `SessionRecords` has it).

## Runs

| Run | Bounds | Shows |
|---|---|---|
| `gate_safety` | 2 requests, 1 id, 2 connections, 1 NACK, 1 hang-up | no success before envoy ran the mutation, an announced record stays enforced, a removed one is in no Listener, while envoy disconnects, restarts empty, resubscribes with an old version or rejects |
| `gate_liveness` | 1 request, 2 connections, 2 responses in flight, 1 hang-up | the handler answers; a connected envoy ends up with exactly the store |
| `liveness` | 2 tasks, 2 timers, 2 objects, 1 request beyond the first stream, 1 oom or lost event, failing writes | no timer sleeps under a counted stream; a row is reaped only after the launcher was called or the container is gone; counters do not underflow |
| `liveness_progress` | 2 tasks, 1 timer, 1 object, 2 requests beyond the first stream, no agent named | a gone container's session is forgotten; an answered DELETE finishes, also against an eviction, a second DELETE or a reconnecting stream |
| `records` | 1 container, 2 agents, 2 crashes, 1 control-plane restart, faults | what is routed was announced, is not reaped, and, until control-plane restarts, is registered or was deleted by the api's gate |
| `launch` | 2 agents, 3 binds, 2 teardowns, 1 restart of each side | no container runs without its secrets; the recorded agent is the one the container sees, until two binds overlap; an undisturbed teardown leaves neither container nor mount |
| `limiter` | 2 keys, callers up to 2 units late, a token is 2 quanta, rate 1, burst 6, stale after 3 | the limiter is a bucket that is always there except that a late caller gains at most the units it was late by and a sweep refills only keys idle beyond the eviction age |
| `auth` | 1 tenant and an unknown one, 2 files, 2 invitations, 2 registrations, 1 handshake, 2 finishes | one invitation admits one registration, a 201 stays true, a lease needs the stored password and a handshake of its own, no pending handshake stays for good |
| `lease` | 1 lease (and a vault of an earlier one), 2 requests, all lifetimes expire | nothing undoes a revocation; a capability minted after it is as old as its request, so it is gone within a capability's lifetime; everything of a revoked lease leaves memory for good |
| `lease_relogin` | 1 lease, a vault of an earlier login | *violated*: the vault opens only with the session key of the login it was made under |
| `vault` | 2 requests, 1 command, 2 secrets | an acknowledged write survives errors, kills and other writers, outside the named windows; requests never run into one another; every operation ends |
| `registry` | 2 tenants, 1 workspace, 1 plugin, names `a` and `A`, 2 requests, 1 bootstrap, 1 session | a lock token protects the row its client saw, names stay unique without case, and an acknowledged change leaves control-plane no earlier record of the binding's sessions under the names its gate asked for, each up to the window it names |

Why the bounds are enough. In the gate, two requests on one id give every pair of
handlers that depend on each other, and a failed one makes two mutations by
itself; more ids only add independent records. Two connections are one
reconnection; a NACK only delays. For progress one POST with its rollback already
makes two pushes race one acknowledgement. In `SessionLiveness` two streams race
a bump with a drop, and two timers give one that is aborted and one that replaces
it; a second object is needed for a replaced entry, which the safety run has and
the progress run gives up for size. In the progress run two requests are a DELETE
and what races it (an eviction, another DELETE, a stream that comes back) on top of
the stream that opened the session or the timer recovery armed; what is routed does
not depend on whether an agent is bound, so no request names one (`AgentsBind`). In `SessionRecords` containers interact only
through the agent row and the control-plane restart, so the run on announced,
reaped and registered containers needs one. In `ContainerLaunch` three binds are
two that overlap and one after them, two teardowns two reapers. Buckets, tenants
and leases do not share state with one another: two keys show that they do not,
one tenant and one lease are enough for the rest, with two requests each for the
races; a lifetime of one unit is passed by every step. The limiter's burst
takes longer to come back than buckets are kept, so sweeps do give tokens away, and
two units of lateness let an older reading be stored over a younger one. In `VaultFile` two
requests and a command are every kind of writer against the others, and two
secrets let one writer's replacement lose another's. In `RegistryWrites` two
requests are the reader and the writer in its window; tenants are the kind with
two members because their names are global. The theorems below cover any number.
All bounds are constants named in the modules. `CHECK_DEADLOCK FALSE` is set
throughout: requests, connections and container names are finite, and the system
may come to rest.

Fairness. `XdsAckGate` assumes that the runtime polls ready tasks, that armed
timeouts fire and that envoy reads its stream (weak fairness of `HandlerStep`,
`StreamStep`, `EnvoyApply`); nothing is assumed of callers, disconnects and
restarts. `SessionLiveness` assumes that started tasks and armed timers run and
that exit events are delivered. `AuthHandshake` assumes that time passes and the
pruner loops (it is spawned at the start and never returns); `LeaseCache` the same,
and that started requests run on. `VaultFile` assumes that a handle that has begun
keeps running; `Fail` and `Crash` are owed to nobody. `SessionRecords`' fairness
(started tasks run, events are delivered or dropped, a crashed broker comes back, as
its unit's `Restart=always` says) serves `RecoveredIsReached` below only.

## Disagreements met while modelling

One is kept as a run, `lease_relogin`: the vault's master is derived from the
session key of the presented lease, which is new in every login, so after a
second login a valid bearer is answered 401 (`auth-broker/src/handler.rs:1083`;
`auth-broker/README.md:41-47` and `SECURITY.md:362-364` say otherwise).

The following statements are definitions or specifications of the modules that no
run checks, because the code does not meet them; each was seen to fail in TLC.

* `AckGate` under `RestartingSpec` (`control-plane/src/xds.rs:213`): after a restart
  the generation starts from the number of recovered sessions, envoy re-subscribes
  with the version of the previous process, and that is taken for an ACK: a 201
  before envoy has the policy, against `sessions.rs:48-50` ("a 201 means the policy
  is live in envoy").
* `Converges` under `FairRestartingSpec` (`xds.rs:261`): when envoy's old version
  equals the new generation by chance, nothing is pushed, against `xds.rs:246-249`.
* `SessionLiveness!IdleSessionsHaveATimer` (`ext_proc.rs:586`): a reconnecting
  stream aborts a timer that has fired and removed the map entry; when it closes,
  no timer is armed, against `ext_proc.rs:1979-1982`.
* `SessionRecords!RestartKeepsBound` (`control-plane/src/recovery.rs:253`):
  containers of one agent share its row; when one is torn down, control-plane's
  next restart drops the others, against `recovery.rs:70-73`.
* `SessionRecords!GoneIsUnregistered` (`exit_listener.rs:231`): a session is
  announced under its container's name (`ext_proc.rs:1047`) and deleted under its
  MCP session id, against `session-broker/README.md:132-134` and
  `control-plane/README.md:214-218`.
* `SessionRecords!StaleIsUnrouted` (`ext_proc.rs:897`): an eviction looks at routed
  sessions only; a spawn in flight keeps the old secrets, against `admin.rs:95-97`.
* `SessionRecords!RecoveredIsReached` (`session-broker/src/recovery.rs:352`): a
  container recovered before it was named is neither reached nor reaped, against
  `recovery.rs:36-38`.
* `SessionRecords!TerminatedIsUnrouted` and `RegistryWrites!ChangeEndsSessions`
  (`api/src/control_plane.rs:238-310`): the gate of a binding's change deletes
  control-plane's records and nothing else, so session-broker goes on routing to the
  container, which keeps the old configuration, and envoy no longer has its record,
  against `api/src/write.rs:1293-1295` ("a config change updates the policy
  control-plane has, so we tear down any live sessions for the triple. Next spawn
  picks up the new config."). The trace of the first: launch, probe, POST, ack,
  record, name, and the gate deletes the record. Of the second: a binding is to be
  changed or its workspace deleted, the names are resolved, a session of it is
  resolved and announced, the gate lists it and deletes its record, the change is
  applied.
* `VaultFile!CasDetectsStaleReads` (`vault/src/vault.rs:462`): opening reads the
  counter after the file, under no lock, so old contents can carry the new
  generation, against `vault/src/lock.rs:32-34`.

Noted and not stated, because they are about wording, one column or one answer:
a limiter caller that read the clock earlier than the one before it moves
`last_access` back, so the interval is refilled twice (`rate_limit.rs:181`; the
refinement bounds it);
`wait_for_ack`'s comment says a wait fails fast when envoy leaves, but nothing
wakes it before the deadline (`sessions.rs:256-284`); a stream that arrives between
the grace write and the arming of the timer leaves the row in `grace` under an open
stream (`ext_proc.rs:665`); an eviction's clone of the transport misses an agent
bound during its awaits (`ext_proc.rs:843`); a recovered session has no agent id, so
its row stays `active` (`recovery.rs:401`); recovery's comment that control-plane has
not been told of a container without a row is false between the 201 and the INSERT
(`recovery.rs:25-29`); a response without `Mcp-Session-Id` leaves its container to
nobody (`ext_proc.rs:1848`); the exit listener answers 404 for a container nobody
knows, which `ext_proc.rs:1104-1109` does not expect; two overlapping binds stack
three mounts and a teardown removes two (`launcher/src/docker.rs:621`); a crash in
the middle of creating a vault leaves a root for which create says already
initialised and unlock says not initialised (`vault/src/atomic.rs:8`); a pending
handshake keeps the id of a tenant without a file, which `pending.rs` says it does
not; `create_tenant` commits before it mints the invitation, so a failed answer
leaves a tenant without one, against `api/src/write.rs:359-360`; the api accepts
upper-case names that config-broker never resolves. A gate that lists, or is
answered 404, while another write's DELETE has the record out is done with it; when
that DELETE is rolled back (`control-plane/src/handler.rs:353-365`) the record is
there again after an acknowledged change (`GateClearsRecords` excludes it by name).

## What is proved

All proofs hold for any number of requests, ids, connections, tasks, timers,
objects, containers, agents, keys, tenants, invitations, handshakes and leases and
for any bounds and lifetimes; they assume only the named `ASSUME` of each module
(the constants' types, that `None`-like values are no members and that row ids,
writers and the seed of `RegistryWrites` are different things). None is about the
configuration beyond what the code enforces; `SweepsAreHarmless` has its condition
on the limiter's parameters as a hypothesis of its own.

* `XdsAckGateProofs`: `TypeCorrect`; `GateHolds`, `[]AckGate` for a process
  without restart (with one it is false, see above). `AckGate` is not
  inductive: nothing says that a version envoy acknowledges covers the mutation.
  `IInv` adds `VersionsExist` (every version anywhere is at most the generation),
  `WrittenFirst` (the map is written before the generation moves) and
  `VersionsCover` (every snapshot, Listener, message and recorded ACK with
  version v was built after each mutation whose handler v would let go).
  `AnnouncedStaysEnforced` and `RemovedStaysRemoved`, `[]AnnouncedIsEnforced` and
  `[]RemovedIsNotEnforced`: that some Listener reflected a mutation does not say
  that the present one does. `EInv` adds `Registered` (a record is under its own id
  and from a request that was served), `Exclusive` (a record is in the store or
  kept by exactly one DELETE, so no rollback brings back what another DELETE
  reported removed) and `Views`: every push in flight, and what envoy runs, agrees
  with the present about records no DELETE has touched and about those a DELETE
  keeps (`Faithful`), and pushes reach envoy in the order of what they know
  (`Queue`), so what envoy runs reflects all it ever learnt.
* `SessionLivenessProofs`: `TypeCorrect`, which needs `ArcHeld` (a task at a
  step that uses an object holds one); `TimersRespectStreams`,
  `[]ArmedOnlyWhenIdle`; `ReapsAreJustified`, `[]ReapedMeansTornDown`, which
  needs `CallsMade` (a task past its call to the launcher has made it).
* `SessionRecordsProofs`: `TypeCorrect`; `RecordsAgree`, the inductive
  invariant: for each container, whatever makes it reachable (a map entry, a
  spawn past the gate, a row recovery could adopt) implies it was announced and,
  until control-plane restarts, registered or deleted by the gate; a spawn in progress has neither
  teardown nor closed row; a teardown past the map update has left the map. From
  it `GateHolds`, `ReapsAreFinal` and `RoutesAreKnown`.
* `AuthBrokerProofs`: `LimiterTypeCorrect`; `LimiterImplementsTokenBucket`, the
  refinement, for every configuration: a caller `late` units behind finds no more
  than the bucket is worth and at most `late * Rate` less (`LateTokens`), a unit of
  time is worth `Rate` also where ages saturate (`AgingRefills`), and what a sweep
  drops was idle beyond the eviction age. `SweepsAreHarmless`: where
  `(StaleTtl + 1) * Rate >= Burst`, as with the defaults (20 tokens, 10 per second,
  300 s), a sweep changes no key's level; nothing in `from_lookup` enforces that.
  `HandshakeTypeCorrect`, `CreatedStaysStored`,
  `InvitationsAreSingleUse`, `LeasesAreAuthenticated`, from `HInv`, which ties what
  a request in flight believes to the database: past the UPDATE its invitation is
  marked by itself, a pending file is the stored one, a verified finish has taken
  its handshake out of the map.
* `LeaseCacheProofs`: `LeaseTypeCorrect`, `RevocationsAreFinal`,
  `RevocationReachesCaps`. A capability comes from a request in flight, so `LInv`
  adds that a validated request started no later than a revocation of its lease.
* `VaultFileProofs`: `VaultTypeCorrect`; `AckedWritesAreKept`, from `VInv`: what a
  matching generation is worth (`Current`), the lock holder's generation stays
  matched (`Held`), no handle is ahead of the counter (`Behind`), nothing replaces
  the file under the holder (`Written`). `RequestsAreSerial`, `[]RequestsSerialise`,
  from `SInv`: a storing or deleting request in progress has the tenant's lock
  (`Exclusive`), only stores and deletes come to the steps that replace the file
  (`WritersPersist`), and while no command has
  run and no creation got into a window, who is inside has read the counter as it
  is and nothing overtook its open (`Quiet => UpToDate /\ Undisturbed`).
* `ContainerLaunchProofs`: `LaunchTypeCorrect`, `SecretsComeFirst`,
  `AgentsAreVisible`, `TeardownsAreComplete`, from `CInv`: which handlers can be
  there together (`Ordered`), what a launch has done (`Delivered`), how many mounts
  there can be (`Stacked`), and the arguments about binds (`Bound`) and about a
  teardown no bind overlaps (`Cleared`).
* `RegistryWritesProofs`: `RegistryTypeCorrect` (types, and every row's owners are
  rows: `References`); `TokenGuards`, `FoldedNamesRace` and `GateIsThorough`
  (`[]GateClearsRecords`), the three properties of the run. `RInv` says what a request in flight knows: the row
  it loaded is the one it saw or was written by somebody in `during` (`Locked`), the
  name it checked is still free up to `during` (`Checked`), and every record its
  gate asked for is gone, is still to be listed or deleted, or came after the gate had
  passed (`missed`), until the write is refused (`Swept`). The
  proof also corrected the model: an earlier form let the id of a deleted row come
  back under another tenant, and counted as `missed` too few announcements in a
  workspace with several bindings; neither shows in the run's instance.

Only model-checked: everything about liveness and fairness, which is out of the
prover's reach (`HandlersAnswer`, `Converges`, `GoneIsForgotten`, `DeletesFinish`,
`PendingIsForgotten`, `RevokedIsForgotten`, `OperationsEnd`). Every safety property
of a passing run is also a theorem.

## Not modelled

* control-plane's translation of a policy into envoy configuration, api-core's
  names, packages and plugin specs, the parsing of requests, headers and labels:
  pure functions of text with no state, and unit tests reach them.
* opaque-handshake and the sealing of vault files: cryptography; the models state
  what their callers rely on.
* database entities and migrations: declarations; keys and constraints that matter
  appear in the actions that meet them.
* Read-only endpoints (api, control-plane, auth-broker), the command line tools'
  parsing and output, the web user interface: they change no modelled state.
* `botctl bootstrap`, which brings the registry in line with a file through the
  api: each of its writes is a request of `RegistryWrites`; their order, and that
  a failed import can be run again, is not modelled, because a third writer with a
  dozen steps takes the `registry` run past what TLC finishes in minutes.
* In modelled components: the gate's break-glass switch, the static cluster push,
  the repeated launch of a container that exists, `touch_last_used`, the removal of
  public keys, the server setup generated once, and `/metrics`.

## Plan

1. Done: the gate, one session's liveness, the records and restarts; the launcher;
   auth-broker's limiter, handshakes and leases; the vault; the registry; the
   refinement of the limiter; a theorem for every safety property.
2. An abstract announcement service (a registry with a promise) which `XdsAckGate`
   implements and `SessionRecords` uses; an abstract session lifecycle that
   `SessionLiveness` implements.
3. Policy translation and name validation as operators, against reference
   definitions over bounded inputs.
