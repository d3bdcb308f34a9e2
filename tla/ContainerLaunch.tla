--------------------------- MODULE ContainerLaunch ---------------------------
(***************************************************************************)
(* What botwork-launcher does to one session's container and staging       *)
(* directory, step by step, for session-broker: POST /launch stages a      *)
(* directory, creates the container, delivers its secrets and starts it;   *)
(* POST /bind-agent mounts an agent's directory over the staged one; POST  *)
(* /teardown removes the container and unmounts.                           *)
(*                                                                         *)
(* The launcher serves every connection in a task of its own and has no    *)
(* lock: the handlers interleave between their docker calls and commands,  *)
(* and see one another only through docker and the mounts on the staging   *)
(* path.  The broker times its calls out, ignores the result of a          *)
(* teardown, may restart and then has forgotten which agent was bound; the *)
(* launcher may be killed in the middle of its handlers.                   *)
(*                                                                         *)
(* Container and staging path carry a random token of one spawn, which is  *)
(* launched once: the launcher's answer to a repeated launch (the          *)
(* container exists already) is left out.                                  *)
(*                                                                         *)
(* Sources: launcher/src/server.rs, docker.rs, mount.rs, lib.rs;           *)
(* session-broker/src/launcher.rs, ext_proc.rs, exit_listener.rs,          *)
(* recovery.rs.                                                            *)
(***************************************************************************)
EXTENDS Naturals, Sequences

CONSTANTS
    Agents,         \* agent session ids of the session's workspace
    None,           \* no agent; also what the bare staging directory shows
    Binds,          \* requests that carry an agent session id
    Teardowns,      \* calls of /teardown, from whichever reaper
    MaxCrashes,     \* bound: restarts of session-broker
    MaxKills        \* bound: restarts of the launcher

ASSUME ContainerLaunchAssumption ==
    /\ None \notin Agents
    /\ MaxCrashes \in Nat /\ MaxKills \in Nat

VARIABLES
    container,  \* "none", "created" or "running", as docker has it
    secrets,    \* the secret files are in its tmpfs
    dir,        \* the staging directory exists
    mounts,     \* what is mounted on it, the last one on top; None is itself
    launch,     \* the next step of the /launch handler
    bind,       \* the next step of each /bind-agent handler
    asks,       \* the agent each of them is for
    teardown,   \* the next step of each /teardown handler
    session,    \* how far session-broker has come with the session
    agentId,    \* agent_id of its transport entry
    overlapped, \* history: two bind handlers were past their check at once
    sole,       \* history: teardowns no bind overlapped and no command failed
    crashes, kills

staging == <<dir, mounts>>
handlers == <<launch, bind, asks, teardown>>
broker == <<session, agentId>>
history == <<overlapped, sole, crashes, kills>>
vars == <<container, secrets, staging, handlers, broker, history>>

LaunchSteps == {"inspect", "stage", "create", "upload", "discard", "start", "address"}
BindSteps == {"check", "mount"}
TeardownSteps == {"remove", "umount", "again", "rmdir"}

TypeOK ==
    /\ container \in {"none", "created", "running"}
    /\ secrets \in BOOLEAN
    /\ dir \in BOOLEAN
    /\ mounts \in Seq(Agents \cup {None})
    /\ launch \in {"none", "ok", "error", "ended"} \cup LaunchSteps
    /\ bind \in [Binds -> {"none", "ok", "ended"} \cup BindSteps]
    /\ asks \in [Binds -> Agents \cup {None}]
    /\ teardown \in [Teardowns -> {"none", "ended"} \cup TeardownSteps]
    /\ session \in {"new", "waiting", "probing", "routed", "over"}
    /\ agentId \in Agents \cup {None}
    /\ overlapped \in BOOLEAN
    /\ sole \subseteq Teardowns
    /\ crashes \in Nat /\ kills \in Nat

Init ==
    /\ container = "none"
    /\ secrets = FALSE
    /\ dir = FALSE
    /\ mounts = <<>>
    /\ launch = "none"
    /\ bind = [b \in Binds |-> "none"]
    /\ asks = [b \in Binds |-> None]
    /\ teardown = [t \in Teardowns |-> "none"]
    /\ session = "new"
    /\ agentId = None
    /\ overlapped = FALSE
    /\ sole = {}
    /\ crashes = 0 /\ kills = 0

\* The directory a look at the staging path finds, and the container sees
\* through its slave mount.
Visible == IF mounts = <<>> THEN None ELSE mounts[Len(mounts)]

InTeardown(t) == teardown[t] \in TeardownSteps
Binding(b) == bind[b] \in BindSteps

-----------------------------------------------------------------------------
(* POST /launch *)

\* spawn_new_container asks for the container of a new token.
LaunchSession ==
    /\ session = "new"
    /\ session' = "waiting"
    /\ launch' = "inspect"
    /\ UNCHANGED <<container, secrets, staging, bind, asks, teardown, agentId, history>>

\* No container has the name, or docker does not answer.
Inspect ==
    /\ launch = "inspect"
    /\ launch' \in {"stage", "error"}
    /\ UNCHANGED <<container, secrets, staging, bind, asks, teardown, broker, history>>

\* setup_staging_dir, which never awaits: create the directory, bind it to
\* itself, make the mount shared; each may fail.
SetupStagingDir ==
    /\ launch = "stage"
    /\ \/ launch' = "error" /\ UNCHANGED staging
       \/ launch' = "error" /\ dir' = TRUE /\ UNCHANGED mounts
       \/ /\ launch' \in {"create", "error"}
          /\ dir' = TRUE
          /\ mounts' = Append(mounts, None)
    /\ UNCHANGED <<container, secrets, bind, asks, teardown, broker, history>>

CreateContainer ==
    /\ launch = "create"
    /\ \/ launch' = "error" /\ UNCHANGED <<container, secrets>>
       \/ /\ launch' = "upload"
          /\ container' = "created"
          /\ secrets' = FALSE
    /\ UNCHANGED <<staging, bind, asks, teardown, broker, history>>

\* Mutant: an upload that failed is only logged.
UploadSecretsOpen ==
    /\ launch = "upload"
    /\ launch' = "start"
    /\ secrets' \in {secrets, TRUE}
    /\ UNCHANGED <<container, staging, bind, asks, teardown, broker, history>>

UploadSecrets ==
    /\ launch = "upload"
    /\ \/ /\ container = "created"
          /\ launch' = "start"
          /\ secrets' = TRUE
       \/ launch' = "discard" /\ UNCHANGED secrets
    /\ UNCHANGED <<container, staging, bind, asks, teardown, broker, history>>

\* The container that could not receive its secrets is removed, if docker will.
DiscardContainer ==
    /\ launch = "discard"
    /\ launch' = "error"
    /\ container' \in {"none", container}
    /\ UNCHANGED <<secrets, staging, bind, asks, teardown, broker, history>>

StartContainer ==
    /\ launch = "start"
    /\ \/ launch' = "error" /\ UNCHANGED container
       \/ /\ container = "created"
          /\ container' = "running"
          /\ launch' = "address"
    /\ UNCHANGED <<secrets, staging, bind, asks, teardown, broker, history>>

\* The second inspect wants an address on the network.
InspectAddress ==
    /\ launch = "address"
    /\ \/ launch' = "ok" /\ container = "running"
       \/ launch' = "error"
    /\ UNCHANGED <<container, secrets, staging, bind, asks, teardown, broker, history>>

LaunchAnswered ==
    /\ session = "waiting" /\ launch = "ok"
    /\ session' = "probing"
    /\ launch' = "ended"
    /\ UNCHANGED <<container, secrets, staging, bind, asks, teardown, agentId, history>>

\* launch_session failed or its 15 s are over: the spawn fails, and nothing
\* is taken down.
LaunchFailed ==
    /\ session = "waiting"
    /\ session' = "over"
    /\ launch' = IF launch \in LaunchSteps THEN launch ELSE "ended"
    /\ UNCHANGED <<container, secrets, staging, bind, asks, teardown, agentId, history>>

\* The connection of a client that has gone is closed and its handler
\* dropped, in the middle of a docker call; setup_staging_dir has none.
LaunchDropped ==
    /\ session # "waiting"
    /\ launch \in (LaunchSteps \ {"stage"}) \cup {"ok", "error"}
    /\ launch' = "ended"
    /\ UNCHANGED <<container, secrets, staging, bind, asks, teardown, broker, history>>

\* Probed, announced, recorded and named by its first response
\* (SessionRecords has these steps): requests are routed to it.
Serve ==
    /\ session = "probing"
    /\ session' = "routed"
    /\ UNCHANGED <<container, secrets, staging, handlers, agentId, history>>

-----------------------------------------------------------------------------
(* POST /bind-agent *)

\* handle_request_body: a request of agent a finds the session unbound.
ObserveAgent(b, a) ==
    /\ session = "routed" /\ agentId = None
    /\ bind[b] = "none"
    /\ bind' = [bind EXCEPT ![b] = "check"]
    /\ asks' = [asks EXCEPT ![b] = a]
    /\ sole' = {t \in sole : ~InTeardown(t)}
    /\ UNCHANGED <<container, secrets, staging, launch, teardown, broker,
                   overlapped, crashes, kills>>

Refused(b) ==
    /\ bind' = [bind EXCEPT ![b] = "ended"]
    /\ UNCHANGED overlapped

\* Mutant: an agent bound before is not looked for.
CheckBindBlind(b) ==
    /\ bind[b] = "check"
    /\ \/ dir /\ Visible = asks[b]
          /\ bind' = [bind EXCEPT ![b] = "ok"]
          /\ UNCHANGED overlapped
       \/ dir /\ Visible # asks[b]
          /\ bind' = [bind EXCEPT ![b] = "mount"]
          /\ overlapped' = (overlapped \/ \E o \in Binds : bind[o] = "mount")
       \/ Refused(b)
    /\ UNCHANGED <<container, secrets, staging, launch, asks, teardown, broker,
                   sole, crashes, kills>>

\* bind_agent compares what the staging path shows with the agent's directory
\* and with its siblings: bound already, a conflict, or free.
CheckBind(b) ==
    /\ bind[b] = "check"
    /\ \/ dir /\ Visible = asks[b]
          /\ bind' = [bind EXCEPT ![b] = "ok"]
          /\ UNCHANGED overlapped
       \/ dir /\ Visible = None
          /\ bind' = [bind EXCEPT ![b] = "mount"]
          /\ overlapped' = (overlapped \/ \E o \in Binds : bind[o] = "mount")
       \/ Refused(b)
    /\ UNCHANGED <<container, secrets, staging, launch, asks, teardown, broker,
                   sole, crashes, kills>>

MountAgent(b) ==
    /\ bind[b] = "mount"
    /\ \/ /\ dir
          /\ mounts' = Append(mounts, asks[b])
          /\ bind' = [bind EXCEPT ![b] = "ok"]
       \/ bind' = [bind EXCEPT ![b] = "ended"] /\ UNCHANGED mounts
    /\ UNCHANGED <<container, secrets, dir, launch, asks, teardown, broker, history>>

\* The answer reaches the broker: the first one names the session's agent.
BindAnswered(b) ==
    /\ bind[b] = "ok"
    /\ bind' = [bind EXCEPT ![b] = "ended"]
    /\ agentId' = IF session = "routed" /\ agentId = None THEN asks[b] ELSE agentId
    /\ UNCHANGED <<container, secrets, staging, launch, asks, teardown, session, history>>

\* call_bind_agent gave up after 5 s, or the broker has restarted.
BindUnheard(b) ==
    /\ bind[b] = "ok"
    /\ bind' = [bind EXCEPT ![b] = "ended"]
    /\ UNCHANGED <<container, secrets, staging, launch, asks, teardown, broker, history>>

-----------------------------------------------------------------------------
(* POST /teardown *)

\* A reaper of the broker calls: at once for a container that failed its
\* probe or its announcement, before or after forgetting a routed session.
CallTeardown(t) ==
    /\ teardown[t] = "none"
    /\ session \in {"probing", "routed", "over"}
    /\ session = "over" => \E o \in Teardowns : teardown[o] # "none"
    /\ session' \in {"over"} \cup ({"routed"} \cap {session})
    /\ agentId' = IF session' = "over" THEN None ELSE agentId
    /\ teardown' = [teardown EXCEPT ![t] = "remove"]
    /\ sole' = IF \E b \in Binds : Binding(b) THEN sole ELSE sole \cup {t}
    /\ UNCHANGED <<container, secrets, staging, launch, bind, asks,
                   overlapped, crashes, kills>>

Moves(t, l) == teardown' = [teardown EXCEPT ![t] = l]

\* docker's refusal is logged, and the rest goes on.
RemoveContainer(t) ==
    /\ teardown[t] = "remove"
    /\ \/ container' = "none" /\ UNCHANGED sole
       \/ sole' = sole \ {t} /\ UNCHANGED container
    /\ Moves(t, "umount")
    /\ UNCHANGED <<secrets, staging, launch, bind, asks, broker,
                   overlapped, crashes, kills>>

\* Mutant: one umount is enough.
UmountOnce(t) ==
    /\ teardown[t] = "umount"
    /\ \/ /\ mounts # <<>>
          /\ mounts' = SubSeq(mounts, 1, Len(mounts) - 1)
          /\ Moves(t, "rmdir")
          /\ UNCHANGED sole
       \/ /\ Moves(t, "rmdir")
          /\ sole' = IF mounts = <<>> THEN sole ELSE sole \ {t}
          /\ UNCHANGED mounts
    /\ UNCHANGED <<container, secrets, dir, launch, bind, asks, broker,
                   overlapped, crashes, kills>>

\* The two rounds of umount: the first one that finds nothing mounted, or
\* fails, is the last; without an umount to run the handler ends.
Umount(t) ==
    /\ teardown[t] \in {"umount", "again"}
    /\ \/ /\ mounts # <<>>
          /\ mounts' = SubSeq(mounts, 1, Len(mounts) - 1)
          /\ Moves(t, IF teardown[t] = "umount" THEN "again" ELSE "rmdir")
          /\ UNCHANGED sole
       \/ /\ \E l \in {"rmdir", "ended"} :
                /\ Moves(t, l)
                /\ sole' = IF l = "rmdir" /\ mounts = <<>> THEN sole ELSE sole \ {t}
          /\ UNCHANGED mounts
    /\ UNCHANGED <<container, secrets, dir, launch, bind, asks, broker,
                   overlapped, crashes, kills>>

\* remove_dir: not while something is mounted or left inside.
RemoveDir(t) ==
    /\ teardown[t] = "rmdir"
    /\ dir' \in {dir, dir /\ mounts # <<>>}
    /\ Moves(t, "ended")
    /\ UNCHANGED <<container, secrets, mounts, launch, bind, asks, broker, history>>

-----------------------------------------------------------------------------
(* Faults *)

\* The plugin exits, and docker removes its container (auto_remove).
ContainerExits ==
    /\ container = "running"
    /\ container' = "none"
    /\ UNCHANGED <<secrets, staging, handlers, broker, history>>

\* session-broker restarts.  A container it finds running is adopted, with no
\* agent since no label names one, or skipped; one without a row is removed.
\* Nothing is unmounted.
BrokerRestarts ==
    /\ crashes < MaxCrashes
    /\ crashes' = crashes + 1
    /\ agentId' = None
    /\ session' \in IF session = "new" THEN {"new"}
                    ELSE IF session = "routed" /\ container = "running" THEN {"routed", "over"}
                    ELSE {"over"}
    /\ container' \in IF session \in {"waiting", "probing"} /\ container = "running"
                      THEN {"none", "running"} ELSE {container}
    /\ UNCHANGED <<secrets, staging, handlers, overlapped, sole, kills>>

\* The launcher is killed: its handlers stop where they are.
LauncherKilled ==
    /\ kills < MaxKills
    /\ kills' = kills + 1
    /\ launch' = IF launch \in LaunchSteps \cup {"ok"} THEN "error" ELSE launch
    /\ bind' = [b \in Binds |-> IF bind[b] = "none" THEN "none" ELSE "ended"]
    /\ teardown' = [t \in Teardowns |-> IF teardown[t] = "none" THEN "none" ELSE "ended"]
    /\ sole' = {t \in sole : ~InTeardown(t)}
    /\ UNCHANGED <<container, secrets, staging, asks, broker, overlapped, crashes>>

-----------------------------------------------------------------------------
Launching ==
    \/ LaunchSession \/ Inspect \/ SetupStagingDir \/ CreateContainer \/ UploadSecrets
    \/ DiscardContainer \/ StartContainer \/ InspectAddress
    \/ LaunchAnswered \/ LaunchFailed \/ LaunchDropped \/ Serve

BindingStep(b) ==
    \/ \E a \in Agents : ObserveAgent(b, a)
    \/ CheckBind(b) \/ MountAgent(b) \/ BindAnswered(b) \/ BindUnheard(b)

TeardownStep(t) ==
    CallTeardown(t) \/ RemoveContainer(t) \/ Umount(t) \/ RemoveDir(t)

Next ==
    \/ Launching
    \/ \E b \in Binds : BindingStep(b)
    \/ \E t \in Teardowns : TeardownStep(t)
    \/ ContainerExits \/ BrokerRestarts \/ LauncherKilled

Spec == Init /\ [][Next]_vars

-----------------------------------------------------------------------------
(* Properties *)

\* "Never start a container that could not receive its secrets": whatever
\* fails, is dropped or is torn down in between, a running container has them.
RunningHasSecrets == container = "running" => secrets

\* Until its teardown begins, a session's container shows the directory of
\* the agent the broker has recorded for it, lost answers, retries and
\* restarts of either side included; only two bind handlers that pass their
\* check together can break it, for nothing holds the path between check and
\* mount.
RecordedAgentIsVisible ==
    agentId # None /\ ~overlapped /\ (\A t \in Teardowns : teardown[t] = "none")
        => Visible = agentId

\* A teardown none of whose commands fails, that no bind overlaps, leaves no
\* container and nothing mounted: two rounds of umount are enough unless two
\* binds overlapped earlier.
TeardownIsComplete ==
    [][\A t \in Teardowns :
          teardown[t] = "rmdir" /\ teardown'[t] = "ended" /\ t \in sole /\ ~overlapped
              => container = "none" /\ mounts = <<>>]_vars
=============================================================================
