---------------------------- MODULE SessionRecords ----------------------------
(***************************************************************************)
(* Where the life of a plugin container is written down, and whether the   *)
(* copies agree: docker, session-broker's pending_init and                 *)
(* transport_sessions maps, the session_worker and agent_session rows, and *)
(* control-plane's session registry.                                       *)
(*                                                                         *)
(* A container is spawned, probed, announced to control-plane, recorded,   *)
(* named by its first response, bound to an agent, and taken down by a     *)
(* teardown, an eviction or its own exit.  Both brokers may restart at any *)
(* point and rebuild their memory from docker and the rows.                *)
(*                                                                         *)
(* The api's live gate deletes records at control-plane when a binding     *)
(* changes, and tells session-broker nothing.                              *)
(*                                                                         *)
(* A teardown is coarser here than in SessionLiveness, and control-plane's *)
(* acknowledgement is one step: XdsAckGate has its detail.                 *)
(*                                                                         *)
(* Sources: session-broker/src/ext_proc.rs, exit_listener.rs, recovery.rs, *)
(* session_worker.rs, control_plane.rs; control-plane/src/handler.rs,      *)
(* recovery.rs; launcher/src/events.rs; api/src/control_plane.rs.         *)
(***************************************************************************)
EXTENDS Naturals, FiniteSets

CONSTANTS
    Containers,         \* container names, each used once (random tokens)
    Agents,             \* agent session ids of one workspace
    NoAgent,
    Faults,             \* database writes, docker and control-plane calls may fail
    MaxBrokerCrashes,   \* bound: crashes of session-broker
    MaxCpRestarts       \* bound: restarts of control-plane

ASSUME SessionRecordsAssumption ==
    /\ NoAgent \notin Agents
    /\ Faults \in BOOLEAN
    /\ MaxBrokerCrashes \in Nat /\ MaxCpRestarts \in Nat

VARIABLES
    docker,     \* "absent", "up" or "gone", for each container
    exits,      \* containers whose exit event is on its way
    up,         \* session-broker runs
    pc,         \* how far the stream that spawns the container has come
    transport,  \* transport_sessions, as the containers it routes to
    agentId,    \* agent_id of each transport entry
    teardowns,  \* tasks that take c of agent a down, and their next step
    binding,    \* tasks that bind a to c, and their next step
    worker,     \* session_worker row: "none", "live" or "reaped"
    named,      \* its mcp_session_id is set
    linked,     \* its agent_session_id
    row,        \* agent_session.state, "none" when there is no row
    registry,   \* control-plane's records, as <<kind of key, container>>
    announced,  \* history: control-plane has answered 201
    gated,      \* history: records the api deleted since control-plane started
    stale,      \* history: spawned before the tenant's secrets last changed
    crashes, restarts

world == <<docker, exits>>
memory == <<transport, agentId, teardowns, binding>>
database == <<worker, named, linked, row>>
history == <<announced, gated, stale, crashes, restarts>>
vars == <<world, up, pc, memory, database, registry, history>>

\* POST /sessions and the rows are keyed by the container name, the routing
\* table by the mcp session id the container chose.
ByName(c) == <<"name", c>>
ByMcpId(c) == <<"mcp", c>>

TypeOK ==
    /\ docker \in [Containers -> {"absent", "up", "gone"}]
    /\ exits \subseteq Containers
    /\ up \in BOOLEAN
    /\ pc \in [Containers -> {"none", "probe", "post", "waiting", "insert", "pending",
                              "name", "served", "discard", "ended"}]
    /\ transport \subseteq Containers
    /\ agentId \in [Containers -> Agents \cup {NoAgent}]
    /\ teardowns \subseteq Containers \X (Agents \cup {NoAgent}) \X {"forget", "call", "rows"}
    /\ binding \subseteq Containers \X Agents \X {"call", "rows"}
    /\ worker \in [Containers -> {"none", "live", "reaped"}]
    /\ named \subseteq Containers
    /\ linked \in [Containers -> Agents \cup {NoAgent}]
    /\ row \in [Agents -> {"none", "active", "inactive"}]
    /\ registry \subseteq {"name", "mcp"} \X Containers
    /\ announced \subseteq Containers
    /\ gated \subseteq {"name", "mcp"} \X Containers
    /\ stale \subseteq Containers
    /\ crashes \in Nat /\ restarts \in Nat

Init ==
    /\ docker = [c \in Containers |-> "absent"]
    /\ exits = {}
    /\ up = TRUE
    /\ pc = [c \in Containers |-> "none"]
    /\ transport = {}
    /\ agentId = [c \in Containers |-> NoAgent]
    /\ teardowns = {}
    /\ binding = {}
    /\ worker = [c \in Containers |-> "none"]
    /\ named = {}
    /\ linked = [c \in Containers |-> NoAgent]
    /\ row = [a \in Agents |-> "none"]
    /\ registry = {}
    /\ announced = {}
    /\ gated = {}
    /\ stale = {}
    /\ crashes = 0 /\ restarts = 0

Goto(c, l) == pc' = [pc EXCEPT ![c] = l]

\* A database write that makes the value new out of old.
Write(old, new) == IF Faults THEN {old, new} ELSE {new}

\* record_reap: a row that is missing or reaped already is left alone.
Reaped(c) == [worker EXCEPT ![c] = IF @ = "live" THEN "reaped" ELSE @]

\* Mutant: the write is not skipped for a session without an agent.
InactiveUnguarded(a) ==
    [x \in Agents \cup {a} |-> IF x = a THEN "inactive" ELSE row[x]]

\* record_inactive for the agent a task knows of.
Inactive(a) ==
    IF a # NoAgent /\ row[a] # "none" THEN [row EXCEPT ![a] = "inactive"] ELSE row

\* The launcher is asked to take c down, and does, or does not.
CallTeardown(c) ==
    \/ UNCHANGED world
    \/ /\ docker[c] = "up"
       /\ docker' = [docker EXCEPT ![c] = "gone"]
       /\ exits' = exits \cup {c}

-----------------------------------------------------------------------------
(* Spawning *)

LaunchSession(c) ==
    /\ up /\ pc[c] = "none"
    /\ docker' = [docker EXCEPT ![c] = "up"]
    /\ Goto(c, "probe")
    /\ UNCHANGED <<exits, up, memory, database, registry, history>>

ProbeReady(c) ==
    /\ up /\ pc[c] = "probe"
    /\ \/ docker[c] = "up" /\ Goto(c, "post")
       \/ Goto(c, "discard")
    /\ UNCHANGED <<world, up, memory, database, registry, history>>

\* control-plane takes the POST in ...
PostSession(c) ==
    /\ up /\ pc[c] = "post"
    /\ registry' = registry \cup {ByName(c)}
    /\ Goto(c, "waiting")
    /\ UNCHANGED <<world, up, memory, database, history>>

\* ... envoy acknowledges, and the 201 arrives in time, also when the api has
\* deleted the record in the meantime, ...
PostAcked(c) ==
    /\ up /\ pc[c] = "waiting"
    /\ ByName(c) \in registry \cup gated
    /\ announced' = announced \cup {c}
    /\ Goto(c, "insert")
    /\ UNCHANGED <<world, up, memory, database, registry, gated, stale, crashes, restarts>>

\* Mutant: the gate fails open.
PostFailsOpen(c) ==
    /\ up /\ pc[c] \in {"post", "waiting"}
    /\ registry' = registry \ {ByName(c)}
    /\ announced' = announced \cup {c}
    /\ Goto(c, "insert")
    /\ UNCHANGED <<world, up, memory, database, gated, stale, crashes, restarts>>

\* ... or control-plane is away, or answers with an error and rolls back, ...
PostFails(c) ==
    /\ up /\ pc[c] \in {"post", "waiting"}
    /\ registry' = registry \ {ByName(c)}
    /\ Goto(c, "discard")
    /\ UNCHANGED <<world, up, memory, database, history>>

\* ... or the broker's five seconds are over before control-plane's five
\* seconds are: the broker hangs up, which drops the handler and its rollback.
PostTimesOut(c) ==
    /\ up /\ pc[c] = "waiting"
    /\ Goto(c, "discard")
    /\ UNCHANGED <<world, up, memory, database, registry, history>>

\* teardown_unannounced_container, in the background.
TeardownUnannounced(c) ==
    /\ up /\ pc[c] = "discard"
    /\ CallTeardown(c)
    /\ Goto(c, "ended")
    /\ UNCHANGED <<up, memory, database, registry, history>>

\* record_spawn, and the container enters pending_init and is sent traffic.
RecordSpawn(c) ==
    /\ up /\ pc[c] = "insert"
    /\ worker' \in Write(worker, [worker EXCEPT ![c] = "live"])
    /\ Goto(c, "pending")
    /\ UNCHANGED <<world, up, memory, named, linked, row, registry, history>>

\* The initialize response names the session ...
InstallTransport(c) ==
    /\ up /\ pc[c] = "pending"
    /\ transport' = transport \cup {c}
    /\ agentId' = [agentId EXCEPT ![c] = NoAgent]
    /\ Goto(c, "name")
    /\ UNCHANGED <<world, up, teardowns, binding, database, registry, history>>

\* ... and record_mcp_session_id writes it down, if there is a row.
RecordMcpSessionId(c) ==
    /\ up /\ pc[c] = "name"
    /\ named' \in Write(named, IF worker[c] = "none" THEN named ELSE named \cup {c})
    /\ Goto(c, "served")
    /\ UNCHANGED <<world, up, memory, worker, linked, row, registry, history>>

\* A response without a session id, or a stream that ends before it: the
\* pending_init entry is dropped and nothing else is done.
PendingDropped(c) ==
    /\ up /\ pc[c] = "pending"
    /\ Goto(c, "ended")
    /\ UNCHANGED <<world, up, memory, database, registry, history>>

\* handle_request_body finds the session without an agent and asks the launcher
\* to bind a ...
ObserveAgent(c, a) ==
    /\ up /\ c \in transport
    /\ agentId[c] = NoAgent
    /\ binding' = binding \cup {<<c, a, "call">>}
    /\ UNCHANGED <<world, up, pc, transport, agentId, teardowns, database, registry, history>>

\* ... which fails, or succeeds: the entry, if it is still there and still has
\* no agent, gets a; the rows are written in any case ...
BindAgent(c, a) ==
    /\ up /\ <<c, a, "call">> \in binding
    /\ \/ /\ binding' = binding \ {<<c, a, "call">>}
          /\ UNCHANGED agentId
       \/ /\ binding' = (binding \ {<<c, a, "call">>}) \cup {<<c, a, "rows">>}
          /\ agentId' = IF c \in transport /\ agentId[c] = NoAgent
                        THEN [agentId EXCEPT ![c] = a] ELSE agentId
    /\ UNCHANGED <<world, up, pc, transport, teardowns, database, registry, history>>

\* ... by record_bind_agent and record_agent_binding.
RecordBinding(c, a) ==
    /\ up /\ <<c, a, "rows">> \in binding
    /\ binding' = binding \ {<<c, a, "rows">>}
    /\ row' \in Write(row, [row EXCEPT ![a] = "active"])
    /\ linked' \in Write(linked, IF worker[c] = "none" \/ row'[a] = "none" THEN linked
                                 ELSE [linked EXCEPT ![c] = a])
    /\ UNCHANGED <<world, up, pc, transport, agentId, teardowns, worker, named, registry,
                   history>>

-----------------------------------------------------------------------------
(* Taking a session down *)

Forget(cs) ==
    /\ transport' = transport \ cs
    /\ agentId' = [c \in Containers |-> IF c \in cs THEN NoAgent ELSE agentId[c]]

\* teardown_session, for a DELETE or a grace timer, reads the identity and calls
\* the launcher; ...
TeardownCalls(c) ==
    /\ up /\ c \in transport
    /\ CallTeardown(c)
    /\ teardowns' = teardowns \cup {<<c, agentId[c], "forget">>}
    /\ UNCHANGED <<up, pc, transport, agentId, binding, database, registry, history>>

\* ... the map is next, ...
TeardownForgets(c, a) ==
    /\ up /\ <<c, a, "forget">> \in teardowns
    /\ Forget({c})
    /\ teardowns' = (teardowns \ {<<c, a, "forget">>}) \cup {<<c, a, "rows">>}
    /\ UNCHANGED <<world, up, pc, binding, database, registry, history>>

\* ... and the rows are last.
TeardownRecords(c, a) ==
    /\ up /\ <<c, a, "rows">> \in teardowns
    /\ teardowns' = teardowns \ {<<c, a, "rows">>}
    /\ row' \in Write(row, Inactive(a))
    /\ worker' \in Write(worker, Reaped(c))
    /\ UNCHANGED <<world, up, pc, transport, agentId, binding, named, linked, registry, history>>

\* An eviction empties the map first and leaves the rest to background tasks.
Evict(cs) ==
    /\ Forget(cs)
    /\ teardowns' = teardowns \cup {<<c, agentId[c], "call">> : c \in cs}

\* evict_dead_session, when a request finds its container dead.
EvictDeadSession(c) ==
    /\ up /\ c \in transport /\ docker[c] # "up"
    /\ Evict({c})
    /\ UNCHANGED <<world, up, pc, binding, database, registry, history>>

\* A secret of the tenant changes and evict_sessions_for_tenant is called.
EvictSessionsForTenant ==
    /\ up
    /\ Evict(transport)
    /\ stale' = {c \in Containers : pc[c] # "none"}
    /\ UNCHANGED <<world, up, pc, binding, database, registry, announced, gated, crashes,
                   restarts>>

EvictionCalls(c, a) ==
    /\ up /\ <<c, a, "call">> \in teardowns
    /\ CallTeardown(c)
    /\ teardowns' = (teardowns \ {<<c, a, "call">>}) \cup {<<c, a, "rows">>}
    /\ UNCHANGED <<up, pc, transport, agentId, binding, database, registry, history>>

\* The container dies by itself, and docker reports die and destroy, ...
ContainerDies(c) ==
    /\ docker[c] = "up"
    /\ docker' = [docker EXCEPT ![c] = "gone"]
    /\ exits' = exits \cup {c}
    /\ UNCHANGED <<up, pc, memory, database, registry, history>>

\* ... or only a process in it is killed: the oom event is forwarded as an exit.
ContainerOom(c) ==
    /\ Faults /\ docker[c] = "up"
    /\ exits' = exits \cup {c}
    /\ UNCHANGED <<docker, up, pc, memory, database, registry, history>>

\* handle_container_exit: a session that is still routed is forgotten, reaped,
\* removed by the launcher and reported to control-plane under its mcp session
\* id, at best effort; any other event does nothing.
HandleContainerExit(c) ==
    /\ up /\ c \in exits
    /\ \/ /\ c \notin transport
          /\ exits' = exits \ {c}
          /\ UNCHANGED <<docker, transport, agentId, worker, registry>>
       \/ /\ c \in transport
          /\ Forget({c})
          /\ worker' \in Write(worker, Reaped(c))
          /\ \/ exits' = exits \ {c} /\ UNCHANGED docker
             \/ /\ docker[c] = "up"
                /\ docker' = [docker EXCEPT ![c] = "gone"]
                /\ UNCHANGED exits
          /\ registry' \in Write(registry, registry \ {ByMcpId(c)})
    /\ UNCHANGED <<up, pc, teardowns, binding, named, linked, row, history>>

\* forward_exit_event finds no broker, or fails otherwise, and drops the event.
LoseExit(c) ==
    /\ ~up \/ Faults
    /\ c \in exits
    /\ exits' = exits \ {c}
    /\ UNCHANGED <<docker, up, pc, memory, database, registry, history>>

-----------------------------------------------------------------------------
(* Restarts *)

\* session-broker stops: its maps and tasks are gone.
BrokerCrash ==
    /\ up /\ crashes < MaxBrokerCrashes
    /\ crashes' = crashes + 1
    /\ up' = FALSE
    /\ pc' = [c \in Containers |-> IF pc[c] = "none" THEN "none" ELSE "ended"]
    /\ Forget(Containers)
    /\ teardowns' = {}
    /\ binding' = {}
    /\ UNCHANGED <<world, database, registry, announced, gated, stale, restarts>>

\* docker ps, and list_live.
Running == {c \in Containers : docker[c] = "up"}
LiveRows == {c \in Containers : worker[c] = "live"}

\* One of several independent steps of recovery: any of them may fail.
Some(cs) == IF Faults THEN SUBSET cs ELSE {cs}

\* Mutant: recovery looks rows up by name and forgets reaped_at IS NULL.
BrokerRecoversReaped ==
    /\ ~up
    /\ up' = TRUE
    /\ transport' \in Some({c \in Running : worker[c] # "none" /\ c \in named})
    /\ UNCHANGED <<world, pc, agentId, teardowns, binding, database, registry, history>>

\* Mutant: every running container is adopted.
BrokerRecoversRunning ==
    /\ ~up
    /\ up' = TRUE
    /\ transport' \in Some(Running)
    /\ UNCHANGED <<world, pc, agentId, teardowns, binding, database, registry, history>>

\* recover_live_workers, before the broker serves anything: a running container
\* without a live row is removed, a live row without its container is closed,
\* the rest is routed again, without an agent, if its name is known.
BrokerRecovers ==
    /\ ~up
    /\ up' = TRUE
    /\ \E gone \in Some(Running \ LiveRows) :
          /\ docker' = [c \in Containers |-> IF c \in gone THEN "gone" ELSE docker[c]]
          /\ exits' = exits \cup gone
    /\ \E dead \in Some(LiveRows \ Running) :
          worker' = [c \in Containers |-> IF c \in dead THEN "reaped" ELSE worker[c]]
    /\ transport' \in Some(Running \cap LiveRows \cap named)
    /\ UNCHANGED <<pc, agentId, teardowns, binding, named, linked, row, registry, history>>

\* Docker or the database cannot be asked: recovery is skipped.
BrokerSkipsRecovery ==
    /\ ~up /\ Faults
    /\ up' = TRUE
    /\ UNCHANGED <<world, pc, memory, database, registry, history>>

\* fetch_live_sessions: the rows control-plane takes for live sessions.
LiveSessions ==
    {c \in LiveRows \cap named : linked[c] # NoAgent /\ row[linked[c]] = "active"}

\* control-plane restarts and seed_store fills its registry from the rows, by
\* mcp session id; the POSTs in flight find their connection broken.
ControlPlaneRestart ==
    /\ restarts < MaxCpRestarts
    /\ restarts' = restarts + 1
    /\ registry' = {ByMcpId(c) : c \in LiveSessions}
    /\ gated' = {}
    /\ UNCHANGED <<world, up, pc, memory, database, announced, stale, crashes>>

-----------------------------------------------------------------------------
(* The api *)

\* terminate_live_sessions: a binding of the tenant's workspace is changed or
\* deleted, and each record that control-plane lists for it is deleted there.
\* Nothing else is done: session-broker is not told, the container runs on.
TerminateLiveSession(r) ==
    /\ r \in registry
    /\ registry' = registry \ {r}
    /\ gated' = gated \cup {r}
    /\ UNCHANGED <<world, up, pc, memory, database, announced, stale, crashes, restarts>>

-----------------------------------------------------------------------------

\* The steps of tasks that session-broker has started on c.
TaskStep(c) ==
    \/ ProbeReady(c) \/ PostSession(c) \/ PostAcked(c) \/ PostFails(c) \/ PostTimesOut(c)
    \/ TeardownUnannounced(c) \/ RecordSpawn(c) \/ InstallTransport(c)
    \/ RecordMcpSessionId(c) \/ PendingDropped(c)
    \/ \E a \in Agents : BindAgent(c, a) \/ RecordBinding(c, a)
    \/ \E a \in Agents \cup {NoAgent} :
          TeardownForgets(c, a) \/ TeardownRecords(c, a) \/ EvictionCalls(c, a)

Delivery(c) == HandleContainerExit(c) \/ LoseExit(c)

Recovery == BrokerRecovers \/ BrokerSkipsRecovery

Next ==
    \/ \E c \in Containers :
          \/ TaskStep(c)
          \/ Delivery(c)
          \/ LaunchSession(c)
          \/ \E a \in Agents : ObserveAgent(c, a)
          \/ TeardownCalls(c)
          \/ EvictDeadSession(c)
          \/ ContainerDies(c) \/ ContainerOom(c)
    \/ EvictSessionsForTenant
    \/ Recovery
    \/ BrokerCrash
    \/ ControlPlaneRestart
    \/ \E r \in registry : TerminateLiveSession(r)

Spec == Init /\ [][Next]_vars

\* Tasks run on, the launcher delivers or drops events, a crashed broker is
\* started again (Restart=always), and a session that nobody uses is torn down
\* by its grace timer.
Fairness ==
    /\ \A c \in Containers : /\ WF_vars(TaskStep(c))
                             /\ WF_vars(Delivery(c))
                             /\ WF_vars(TeardownCalls(c))
    /\ WF_vars(Recovery)

FairSpec == Spec /\ Fairness

-----------------------------------------------------------------------------
(* Properties *)

\* session-broker/README.md: "no plugin container ever serves a single byte of
\* client traffic without being announced to control-plane".  Nothing pending or
\* routed, spawned by this broker or adopted by a restarted one, has missed its
\* 201.
AnnouncedBeforeTraffic ==
    transport \cup {c \in Containers : pc[c] = "pending"} \subseteq announced

\* session_worker.rs: a row is closed once.  A container whose row says reaped
\* is never routed to, by no slow task and by no recovery, even if it runs on.
ReapedStaysUnrouted == \A c \in transport : worker[c] # "reaped"

\* Until control-plane restarts it has a record of every session that is routed,
\* or the api's live gate has deleted it: no failed or hung-up announcement, no
\* exit callback and no crash of session-broker takes a routed session's record.
RoutedIsRegistered ==
    restarts = 0 => \A c \in transport : ByName(c) \in registry \cup gated

\* ---- Statements of the comments and docs that the code does not meet.  No run
\* checks these; the README gives the trace that breaks each.

\* Sessions with every row in place, that nothing is taking down.
Bound(c) ==
    /\ c \in transport \cap named /\ docker[c] = "up"
    /\ agentId[c] # NoAgent /\ linked[c] = agentId[c]
    /\ \A x \in teardowns : x[1] # c

\* control-plane/src/recovery.rs: the rows it reads are "the DB-side equivalent
\* of walk transport_sessions": a bound session is known after a restart.
RestartKeepsBound ==
    [][restarts' # restarts => \A c \in Containers : Bound(c) => ByMcpId(c) \in registry']_vars

\* session-broker/README.md: the exit of a container deletes its record at
\* control-plane.  When a container is gone and its exit and teardowns are
\* handled, no record of it is left.
GoneIsUnregistered ==
    \A c \in Containers :
        (/\ up /\ pc[c] = "served" /\ docker[c] = "gone"
         /\ c \notin exits \cup transport
         /\ \A x \in teardowns : x[1] # c)
        => {ByName(c), ByMcpId(c)} \cap registry = {}

\* admin.rs: after a secret has changed, the tenant's "next request re-enters
\* the spawn path and re-fetches secrets": no container with the old secrets
\* is routed to.
StaleIsUnrouted == transport \cap stale = {}

\* api/src/write.rs: at a change of a binding "we tear down any live sessions for
\* the triple": a session whose record the live gate has deleted is not routed to.
TerminatedIsUnrouted == \A c \in transport : ByName(c) \notin gated

\* session-broker/src/recovery.rs: a row without a session id "survives the
\* recovery (the next request against the container will surface its session id
\* and backfill)": its container is routed to, or goes.
RecoveredIsReached ==
    \A c \in Containers :
        (up /\ crashes > 0 /\ pc[c] = "ended" /\ docker[c] = "up" /\ worker[c] = "live")
            ~> (c \in transport \/ docker[c] = "gone")
=============================================================================
