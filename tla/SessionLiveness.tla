--------------------------- MODULE SessionLiveness ---------------------------
(***************************************************************************)
(* How session-broker notices that one MCP session is no longer used, and  *)
(* every way it takes the session down: the stream counter and its grace   *)
(* timer, DELETE, the eviction of a dead container or of a whole tenant,   *)
(* and the container-exit callback.                                        *)
(*                                                                         *)
(* Every task below is a tokio task; its steps are separated where the     *)
(* code awaits or releases a lock, so the paths overlap in every order.    *)
(* A SessionLiveness object is an Arc: the map entry and the tasks that    *)
(* cloned it share it, and it outlives its removal from the map.           *)
(*                                                                         *)
(* Sources: session-broker/src/ext_proc.rs, exit_listener.rs,              *)
(* agent_session.rs, session_worker.rs, admin.rs; launcher/src/events.rs.  *)
(***************************************************************************)
EXTENDS Integers, FiniteSets

CONSTANTS
    Tasks,      \* slots for request streams and admin calls, each reused
    Listener,   \* the exit callback: the launcher delivers one at a time
    Timers,     \* bound: grace timer tasks alive at once
    Arcs,       \* SessionLiveness objects alive at once
    None,
    MaxRequests,    \* bound: requests that arrive
    MaxFaults,      \* bound: out-of-memory reports and lost exit events
    DbFaults,       \* database writes may fail; the broker logs it and goes on
    AgentsBind      \* bound: requests may name an agent; if not, no row is written

Actors == Tasks \cup {Listener} \cup Timers

ASSUME SessionLivenessAssumption ==
    /\ None \notin Actors /\ None \notin Arcs
    /\ Listener \notin Tasks /\ Listener \notin Timers
    /\ Tasks \cap Timers = {}
    /\ MaxRequests \in Nat /\ MaxFaults \in Nat
    /\ DbFaults \in BOOLEAN /\ AgentsBind \in BOOLEAN

VARIABLES
    transport,  \* transport_sessions holds the session
    bound,      \* its agent_id is set
    tombstone,  \* tombstones holds its id
    container,  \* "up" or "gone", as docker sees it
    exits,      \* exit events the launcher has still to deliver
    faults,     \* out-of-memory reports and lost events so far, up to the bound
    requests,   \* requests that arrived, up to the bound
    row,        \* agent_session.state, "none" when there is no row
    reaped,     \* session_worker.reaped_at is set
    called,     \* history: the launcher was asked to tear the container down
    entry,      \* the SessionLiveness in the stream_liveness map
    open,       \* open_streams of each
    handle,     \* grace_handle of each: the timer it can abort
    pc,         \* where a task is
    arc,        \* the SessionLiveness it holds
    ident       \* it has read the agent of the session: it will write its row

world == <<container, exits, faults, requests, called>>
routing == <<transport, bound, tombstone>>
database == <<row, reaped>>
liveness == <<entry, open, handle>>
locals == <<pc, arc, ident>>
vars == <<world, routing, database, liveness, locals>>

Labels == {"idle", "off", "bump", "count", "cancel", "rebind", "open",
           "bind", "bindRow", "drop", "uncount", "grace", "arm", "deleting",
           "asleep", "expired", "reap",
           "tdRemove", "tdAbort", "tdCall", "tdTombstone",
           "tdForget", "tdInactive", "tdReap",
           "evRemove", "evAbort", "evTombstone", "evForget", "evCall",
           "evInactive", "evReap",
           "exTombstone", "exForget", "exRemove", "exAbort", "exReap", "exCall"}

TypeOK ==
    /\ transport \in BOOLEAN
    /\ bound \in BOOLEAN
    /\ tombstone \in BOOLEAN
    /\ container \in {"up", "gone"}
    /\ exits \in Nat
    /\ faults \in Nat
    /\ requests \in Nat
    /\ row \in {"none", "active", "grace", "inactive"}
    /\ reaped \in BOOLEAN
    /\ called \in BOOLEAN
    /\ entry \in Arcs \cup {None}
    /\ open \in [Arcs -> Nat]
    /\ handle \in [Arcs -> Timers \cup {None}]
    /\ pc \in [Actors -> Labels]
    /\ arc \in [Actors -> Arcs \cup {None}]
    /\ ident \in [Actors -> BOOLEAN]

\* Objects somebody can still reach.
Held == {entry} \cup {arc[x] : x \in Actors}

\* Either the stream that carried the initialize response has just installed
\* the session (handle_response_headers), or a restarted broker recovered it
\* with no agent and seed_startup_liveness armed its timer.
Init ==
    /\ transport = TRUE
    /\ bound = FALSE
    /\ tombstone = FALSE
    /\ container = "up"
    /\ exits = 0
    /\ faults = 0
    /\ requests = 0
    /\ reaped = FALSE
    /\ called = FALSE
    /\ open = [a \in Arcs |-> 0]
    /\ arc = [x \in Actors |-> None]
    /\ ident = [x \in Actors |-> FALSE]
    /\ \/ /\ row = "none"
          /\ entry = None
          /\ handle = [a \in Arcs |-> None]
          /\ \E s \in Tasks :
                pc = [x \in Actors |-> IF x = s THEN "bump"
                                       ELSE IF x \in Timers THEN "off" ELSE "idle"]
       \/ /\ row \in IF AgentsBind THEN {"none", "active", "grace"} ELSE {"none"}
          /\ \E a \in Arcs, t \in Timers :
                /\ entry = a
                /\ handle = [b \in Arcs |-> IF b = a THEN t ELSE None]
                /\ pc = [x \in Actors |-> IF x = t THEN "asleep"
                                          ELSE IF x \in Timers THEN "off" ELSE "idle"]

Goto(x, l) == pc' = [pc EXCEPT ![x] = l]

\* A task ends: a stream or callback slot can be reused, a timer is spent.
Rest(x) == IF x \in Timers THEN "off" ELSE "idle"

\* A database write that makes the value new out of old.
Write(old, new) == IF DbFaults THEN {old, new} ELSE {new}

\* record_grace and record_inactive: without a row there is nothing to move.
MoveRow(state) == row' \in Write(row, IF row = "none" THEN "none" ELSE state)

\* What a task knows of the session's agent, read from the transport entry.
Identity == transport /\ bound

-----------------------------------------------------------------------------
(* The steps the teardown paths share.  Each goes from label l to label m. *)

\* liveness_remove, first half: the entry leaves the map.
RemoveEntry(x, l, m) ==
    /\ pc[x] = l
    /\ arc' = [arc EXCEPT ![x] = entry]
    /\ entry' = None
    /\ Goto(x, m)
    /\ UNCHANGED <<world, routing, database, open, handle, ident>>

\* Take the handle of the object x holds, let go of the object and abort the
\* timer, wherever it is: a task is cancelled at the await it is suspended in.
\* What the caller then reads of the session's agent is i.
TakeAndAbort(x, m, i) ==
    LET t == IF arc[x] = None THEN None ELSE handle[arc[x]] IN
    /\ pc' = [y \in Actors |-> IF y = t THEN "off" ELSE IF y = x THEN m ELSE pc[y]]
    /\ arc' = [y \in Actors |-> IF y \in {x, t} THEN None ELSE arc[y]]
    /\ ident' = [y \in Actors |-> IF y = t THEN FALSE ELSE IF y = x THEN i ELSE ident[y]]
    /\ handle' = [a \in Arcs |-> IF a = arc[x] THEN None ELSE handle[a]]

\* liveness_remove, second half.
AbortHandle(x, l, m, i) ==
    /\ pc[x] = l
    /\ TakeAndAbort(x, m, i)
    /\ UNCHANGED <<world, routing, database, entry, open>>

\* call_teardown: the result is not looked at, so the container may stay.
CallTeardown(x, l, m) ==
    /\ pc[x] = l
    /\ called' = TRUE
    /\ \/ UNCHANGED <<container, exits>>
       \/ /\ container = "up"
          /\ container' = "gone"
          /\ exits' = exits + 1
    /\ Goto(x, m)
    /\ UNCHANGED <<faults, requests, routing, database, liveness, arc, ident>>

InsertTombstone(x, l, m) ==
    /\ pc[x] = l
    /\ tombstone' = TRUE
    /\ Goto(x, m)
    /\ UNCHANGED <<world, transport, bound, database, liveness, arc, ident>>

ForgetTransport(x, l, m) ==
    /\ pc[x] = l
    /\ transport' = FALSE
    /\ bound' = FALSE
    /\ Goto(x, m)
    /\ UNCHANGED <<world, tombstone, database, liveness, arc, ident>>

RecordInactive(x, l, m) ==
    /\ pc[x] = l
    /\ IF ident[x] THEN MoveRow("inactive") ELSE UNCHANGED row
    /\ ident' = [ident EXCEPT ![x] = FALSE]
    /\ Goto(x, m)
    /\ UNCHANGED <<world, routing, reaped, liveness, arc>>

RecordReap(x, l, m) ==
    /\ pc[x] = l
    /\ reaped' \in Write(reaped, TRUE)
    /\ Goto(x, m)
    /\ UNCHANGED <<world, routing, row, liveness, arc, ident>>

\* Mutant: no liveness entry is taken to mean that somebody else has torn the
\* session down.
TeardownSessionIfWatched(x) ==
    \/ RemoveEntry(x, "tdRemove", IF entry = None THEN Rest(x) ELSE "tdAbort")
    \/ AbortHandle(x, "tdAbort", "tdCall", Identity)
    \/ CallTeardown(x, "tdCall", "tdTombstone")
    \/ InsertTombstone(x, "tdTombstone", "tdForget")
    \/ ForgetTransport(x, "tdForget", "tdInactive")
    \/ RecordInactive(x, "tdInactive", "tdReap")
    \/ RecordReap(x, "tdReap", Rest(x))

\* teardown_session.  The agent is read once the entry is gone, and before the
\* transport entry is.
TeardownSession(x) ==
    \/ RemoveEntry(x, "tdRemove", "tdAbort")
    \/ AbortHandle(x, "tdAbort", "tdCall", Identity)
    \/ CallTeardown(x, "tdCall", "tdTombstone")
    \/ InsertTombstone(x, "tdTombstone", "tdForget")
    \/ ForgetTransport(x, "tdForget", "tdInactive")
    \/ RecordInactive(x, "tdInactive", "tdReap")
    \/ RecordReap(x, "tdReap", Rest(x))

\* Mutant: the background task closes the worker row before it asks the launcher.
EvictSessionReapFirst(x) ==
    \/ RemoveEntry(x, "evRemove", "evAbort")
    \/ AbortHandle(x, "evAbort", "evTombstone", ident[x])
    \/ InsertTombstone(x, "evTombstone", "evForget")
    \/ ForgetTransport(x, "evForget", "evReap")
    \/ RecordReap(x, "evReap", "evCall")
    \/ CallTeardown(x, "evCall", "evInactive")
    \/ RecordInactive(x, "evInactive", "idle")

\* evict_dead_session and the loop body of evict_sessions_for_tenant.  The last
\* three steps are the spawned background task, played by the same slot.
EvictSession(x) ==
    \/ RemoveEntry(x, "evRemove", "evAbort")
    \/ AbortHandle(x, "evAbort", "evTombstone", ident[x])
    \/ InsertTombstone(x, "evTombstone", "evForget")
    \/ ForgetTransport(x, "evForget", "evCall")
    \/ CallTeardown(x, "evCall", "evInactive")
    \/ RecordInactive(x, "evInactive", "evReap")
    \/ RecordReap(x, "evReap", "idle")

-----------------------------------------------------------------------------
(* The exit callback *)

\* Mutant: a callback that leaves the routing table to the stream-close path.
HandleContainerExitTombstoneOnly ==
    \/ /\ pc[Listener] = "idle"
       /\ exits > 0
       /\ exits' = exits - 1
       /\ Goto(Listener, IF transport THEN "exTombstone" ELSE "idle")
       /\ UNCHANGED <<container, faults, requests, called, routing, database, liveness, arc, ident>>
    \/ InsertTombstone(Listener, "exTombstone", "exRemove")
    \/ RemoveEntry(Listener, "exRemove", "exAbort")
    \/ AbortHandle(Listener, "exAbort", "exReap", FALSE)
    \/ RecordReap(Listener, "exReap", "exCall")
    \/ CallTeardown(Listener, "exCall", "idle")

\* handle_container_exit: no transport entry, nothing to do.  It never writes
\* the agent_session row.  (The DELETE to control-plane is SessionRecords'.)
HandleContainerExit ==
    \/ /\ pc[Listener] = "idle"
       /\ exits > 0
       /\ exits' = exits - 1
       /\ Goto(Listener, IF transport THEN "exTombstone" ELSE "idle")
       /\ UNCHANGED <<container, faults, requests, called, routing, database, liveness, arc, ident>>
    \/ InsertTombstone(Listener, "exTombstone", "exForget")
    \/ ForgetTransport(Listener, "exForget", "exRemove")
    \/ RemoveEntry(Listener, "exRemove", "exAbort")
    \/ AbortHandle(Listener, "exAbort", "exReap", FALSE)
    \/ RecordReap(Listener, "exReap", "exCall")
    \/ CallTeardown(Listener, "exCall", "idle")

\* The container dies by itself: docker reports "die" and, once it is removed,
\* "destroy".
ContainerDies ==
    /\ container = "up"
    /\ container' = "gone"
    /\ exits' \in {exits + 1, exits + 2}
    /\ UNCHANGED <<faults, requests, called, routing, database, liveness, locals>>

\* A process in the container runs out of memory: the launcher forwards "oom"
\* like an exit, and the container may live on.
ContainerOom ==
    /\ container = "up"
    /\ faults < MaxFaults
    /\ faults' = faults + 1
    /\ exits' = exits + 1
    /\ UNCHANGED <<container, requests, called, routing, database, liveness, locals>>

\* forward_exit_event gives up when the broker cannot be reached, and nothing
\* replays an event docker sent while the subscription was down.
LoseExit ==
    /\ exits > 0
    /\ faults < MaxFaults
    /\ exits' = exits - 1
    /\ faults' = faults + 1
    /\ UNCHANGED <<container, requests, called, routing, database, liveness, locals>>

\* A tombstone outlives its TTL: is_tombstoned and the sweeper drop it.
TombstoneExpires ==
    /\ tombstone
    /\ tombstone' = FALSE
    /\ UNCHANGED <<world, transport, bound, database, liveness, locals>>

-----------------------------------------------------------------------------
(* Request streams *)

\* A slot takes a new request.
Arrives(s) ==
    /\ pc[s] = "idle"
    /\ requests < MaxRequests
    /\ requests' = requests + 1
    /\ UNCHANGED <<container, exits, faults, called>>

\* handle_request_headers of a GET or POST that names the session.
RouteKnown(s) ==
    /\ Arrives(s)
    /\ ~tombstone /\ transport
    /\ Goto(s, "bump")
    /\ UNCHANGED <<routing, database, liveness, arc, ident>>

\* A POST or DELETE whose check_container_liveness asked docker.
EvictDead(s) ==
    /\ Arrives(s)
    /\ ~tombstone /\ transport
    /\ container = "gone"
    /\ ident' = [ident EXCEPT ![s] = Identity]
    /\ Goto(s, "evRemove")
    /\ UNCHANGED <<routing, database, liveness, arc>>

\* POST /evict-tenant.
EvictTenant(s) ==
    /\ Arrives(s)
    /\ transport
    /\ ident' = [ident EXCEPT ![s] = Identity]
    /\ Goto(s, "evRemove")
    /\ UNCHANGED <<routing, database, liveness, arc>>

\* A DELETE is routed; its teardown waits for the response headers, and a stream
\* that ends without them tears nothing down.
RouteDelete(s) ==
    /\ Arrives(s)
    /\ ~tombstone /\ transport
    /\ Goto(s, "deleting")
    /\ UNCHANGED <<routing, database, liveness, arc, ident>>

DeleteAnswered(s) ==
    /\ pc[s] = "deleting"
    /\ \E l \in {"tdRemove", "idle"} : Goto(s, l)
    /\ UNCHANGED <<world, routing, database, liveness, arc, ident>>

\* liveness_bump: get or insert the entry, clone the Arc, ...
BumpEntry(s) ==
    /\ pc[s] = "bump"
    /\ \/ /\ entry # None
          /\ arc' = [arc EXCEPT ![s] = entry]
          /\ UNCHANGED liveness
       \/ /\ entry = None
          /\ \E a \in Arcs \ Held :
                /\ entry' = a
                /\ open' = [open EXCEPT ![a] = 0]
                /\ handle' = [handle EXCEPT ![a] = None]
                /\ arc' = [arc EXCEPT ![s] = a]
    /\ Goto(s, "count")
    /\ UNCHANGED <<world, routing, database, ident>>

\* ... add the stream, ...
BumpCount(s) ==
    /\ pc[s] = "count"
    /\ open' = [open EXCEPT ![arc[s]] = @ + 1]
    /\ Goto(s, "cancel")
    /\ UNCHANGED <<world, routing, database, entry, handle, arc, ident>>

\* ... and abort the pending timer, if there is one; then the row said "grace",
\* and the agent whose row it is is read ...
BumpCancel(s) ==
    /\ pc[s] = "cancel"
    /\ IF handle[arc[s]] = None
       THEN TakeAndAbort(s, "open", FALSE)
       ELSE TakeAndAbort(s, "rebind", Identity)
    /\ UNCHANGED <<world, routing, database, entry, open>>

\* ... and written back to "active".
BumpRebind(s) ==
    /\ pc[s] = "rebind"
    /\ IF ident[s] THEN row' \in Write(row, "active") ELSE UNCHANGED row
    /\ ident' = [ident EXCEPT ![s] = FALSE]
    /\ Goto(s, "open")
    /\ UNCHANGED <<world, routing, reaped, liveness, arc>>

\* handle_request_body with an agent id, on a session that has none yet.
ObserveAgent(s) ==
    /\ pc[s] = "open"
    /\ transport /\ ~bound /\ AgentsBind
    /\ Goto(s, "bind")
    /\ UNCHANGED <<world, routing, database, liveness, arc, ident>>

\* call_bind_agent fails, or succeeds and the transport entry, if it is still
\* there, is given the agent.
BindAgent(s) ==
    /\ pc[s] = "bind"
    /\ \/ /\ Goto(s, "open")
          /\ UNCHANGED bound
       \/ /\ Goto(s, "bindRow")
          /\ bound' = transport
    /\ UNCHANGED <<world, transport, tombstone, database, liveness, arc, ident>>

\* record_bind_agent: insert or update.
RecordBindAgent(s) ==
    /\ pc[s] = "bindRow"
    /\ row' \in Write(row, "active")
    /\ Goto(s, "open")
    /\ UNCHANGED <<world, routing, reaped, liveness, arc, ident>>

\* The stream ends, however it ends.
CloseStream(s) ==
    /\ pc[s] = "open"
    /\ Goto(s, "drop")
    /\ UNCHANGED <<world, routing, database, liveness, arc, ident>>

\* liveness_drop: look the entry up again, ...
DropEntry(s) ==
    /\ pc[s] = "drop"
    /\ arc' = [arc EXCEPT ![s] = entry]
    /\ Goto(s, IF entry = None THEN "idle" ELSE "uncount")
    /\ UNCHANGED <<world, routing, database, liveness, ident>>

\* Mutant: a plain fetch_sub, without the guard at zero.
DropCountUnguarded(s) ==
    /\ pc[s] = "uncount"
    /\ LET n == open[arc[s]] IN
       /\ open' = [open EXCEPT ![arc[s]] = n - 1]
       /\ Goto(s, IF n = 1 THEN "grace" ELSE "idle")
       /\ arc' = IF n = 1 THEN arc ELSE [arc EXCEPT ![s] = None]
       /\ ident' = [ident EXCEPT ![s] = n = 1 /\ Identity]
    /\ UNCHANGED <<world, routing, database, entry, handle>>

\* ... take the stream off its counter, unless the counter is at zero, read the
\* agent when it was the last one ...
DropCount(s) ==
    /\ pc[s] = "uncount"
    /\ LET n == open[arc[s]] IN
       /\ open' = IF n = 0 THEN open ELSE [open EXCEPT ![arc[s]] = n - 1]
       /\ Goto(s, IF n = 1 THEN "grace" ELSE "idle")
       /\ arc' = IF n = 1 THEN arc ELSE [arc EXCEPT ![s] = None]
       /\ ident' = [ident EXCEPT ![s] = n = 1 /\ Identity]
    /\ UNCHANGED <<world, routing, database, entry, handle>>

\* ... and move its row to "grace".
DropGrace(s) ==
    /\ pc[s] = "grace"
    /\ IF ident[s] THEN MoveRow("grace") ELSE UNCHANGED row
    /\ ident' = [ident EXCEPT ![s] = FALSE]
    /\ Goto(s, "arm")
    /\ UNCHANGED <<world, routing, reaped, liveness, arc>>

FreeTimers == {t \in Timers : pc[t] = "off" /\ \A a \in Arcs \cap Held : handle[a] # t}

\* Mutant: the counter is not looked at again under the handle lock.
ScheduleUnchecked(s) ==
    /\ pc[s] = "arm"
    /\ \E t \in FreeTimers :
          /\ handle' = [handle EXCEPT ![arc[s]] = t]
          /\ pc' = [pc EXCEPT ![s] = "idle", ![t] = "asleep"]
    /\ arc' = [arc EXCEPT ![s] = None]
    /\ UNCHANGED <<world, routing, database, entry, open, ident>>

\* schedule_grace_timer: check, spawn and store under the handle lock.
ScheduleGraceTimer(s) ==
    /\ pc[s] = "arm"
    /\ \/ /\ open[arc[s]] > 0
          /\ Goto(s, "idle")
          /\ UNCHANGED handle
       \/ /\ open[arc[s]] = 0
          /\ \E t \in FreeTimers :
                /\ handle' = [handle EXCEPT ![arc[s]] = t]
                /\ pc' = [pc EXCEPT ![s] = "idle", ![t] = "asleep"]
    /\ arc' = [arc EXCEPT ![s] = None]
    /\ UNCHANGED <<world, routing, database, entry, open, ident>>

-----------------------------------------------------------------------------
(* The grace timer *)

GraceExpires(t) ==
    /\ pc[t] = "asleep"
    /\ Goto(t, "expired")
    /\ UNCHANGED <<world, routing, database, liveness, arc, ident>>

\* The timer removes the entry itself, so that the teardown it starts does not
\* find, and abort, the timer it runs in.
TimerRemovesEntry(t) ==
    /\ pc[t] = "expired"
    /\ entry' = None
    /\ Goto(t, "reap")
    /\ UNCHANGED <<world, routing, database, open, handle, arc, ident>>

\* reap_session.
ReapSession(t) ==
    /\ pc[t] = "reap"
    /\ Goto(t, IF transport THEN "tdRemove" ELSE "off")
    /\ UNCHANGED <<world, routing, database, liveness, arc, ident>>

-----------------------------------------------------------------------------

\* Steps a task takes by itself once it runs.
StreamStep(s) ==
    \/ BumpEntry(s) \/ BumpCount(s) \/ BumpCancel(s) \/ BumpRebind(s)
    \/ BindAgent(s) \/ RecordBindAgent(s)
    \/ DropEntry(s) \/ DropCount(s) \/ DropGrace(s) \/ ScheduleGraceTimer(s)
    \/ TeardownSession(s) \/ EvictSession(s)

TimerStep(t) ==
    \/ GraceExpires(t)
    \/ TimerRemovesEntry(t)
    \/ ReapSession(t)
    \/ TeardownSession(t)

\* What clients, operators and the world may do and owe nobody.
Arrival(s) ==
    \/ RouteKnown(s) \/ EvictDead(s) \/ EvictTenant(s)
    \/ RouteDelete(s) \/ DeleteAnswered(s)
    \/ ObserveAgent(s) \/ CloseStream(s)

Next ==
    \/ \E s \in Tasks : StreamStep(s) \/ Arrival(s)
    \/ \E t \in Timers : TimerStep(t)
    \/ HandleContainerExit
    \/ ContainerDies
    \/ ContainerOom
    \/ LoseExit
    \/ TombstoneExpires

Spec == Init /\ [][Next]_vars

\* The runtime polls every ready task, the clock moves on, and the launcher
\* delivers the exit events that are not lost.
Fairness ==
    /\ \A s \in Tasks : WF_vars(StreamStep(s))
    /\ \A t \in Timers : WF_vars(TimerStep(t))
    /\ WF_vars(HandleContainerExit)

FairSpec == Spec /\ Fairness

-----------------------------------------------------------------------------
(* Properties *)

Asleep == {t \in Timers : pc[t] = "asleep"}

\* ext_proc.rs, schedule_grace_timer: "Hold the handle lock across spawn-and-
\* store so liveness_bump cannot observe no handle to abort".  A sleeping timer
\* that an object can abort means its counter is at zero, or that a stream that
\* has already been counted is about to abort it.
ArmedOnlyWhenIdle ==
    \A a \in Arcs \cap Held :
        /\ handle[a] \in Asleep
        /\ open[a] > 0
        => \E s \in Tasks : pc[s] = "cancel" /\ arc[s] = a

\* session_worker.rs: the worker row is closed only once the container is gone
\* or the launcher has been asked to take it down, or the exit callback that
\* closed it is about to ask: a reaped row hides the container from recovery.
ReapedMeansTornDown ==
    reaped => called \/ container = "gone" \/ pc[Listener] = "exCall"

\* A session whose container is gone leaves the routing table, whatever
\* teardown was aborted half way, as long as its exit events arrive.
GoneIsForgotten == (container = "gone") ~> ~transport

\* A DELETE that upstream answered takes the session down, also when it races
\* the grace timer, an eviction, a second DELETE or a stream that reconnects.
DeletesFinish == (\E s \in Tasks : pc[s] = "tdRemove") ~> (~transport /\ called)

\* ---- Statements of the comments and docs that the code does not meet.  No run
\* checks this one; the README gives the trace that breaks it.

\* ext_proc.rs, process: "the grace timer is always armed when the last stream
\* for a session closes".  With every task at rest, a session that is still
\* routed has a timer that will reap it.
IdleSessionsHaveATimer ==
    (transport /\ \A x \in Tasks \cup {Listener} : pc[x] = "idle")
        => \E t \in Timers : pc[t] # "off"
=============================================================================
