----------------------------- MODULE XdsAckGate -----------------------------
(***************************************************************************)
(* The synchronous xDS acknowledgement gate of botwork-control-plane.      *)
(*                                                                         *)
(* A `POST /sessions' or `DELETE /sessions/<id>' handler mutates the       *)
(* session store, bumps the store's generation, and answers 201 / 200 only *)
(* once the egress envoy has acknowledged a Listener whose version_info is *)
(* at least the generation the handler read after its mutation.  The ADS   *)
(* stream task pushes snapshots of the store under the generation as       *)
(* version, and publishes the versions envoy acknowledges.  Handlers,      *)
(* stream tasks, envoy and the network interleave freely: the handlers are *)
(* tasks of a multi-threaded runtime and every await is a step boundary.   *)
(*                                                                         *)
(* Sources: control-plane/src/sessions.rs (the store and its two watch     *)
(* channels), handler.rs (the HTTP handlers), xds.rs (the ADS stream),     *)
(* recovery.rs (what a restarted process is seeded with).                  *)
(***************************************************************************)
EXTENDS Integers, FiniteSets, Sequences

CONSTANTS
    Requests,     \* the HTTP requests of one behaviour, each used once
    Ids,          \* session ids
    None,         \* "no record"
    MaxStreams,   \* bound: how often envoy connects
    MaxInFlight,  \* bound: responses in flight on a stream
    MaxNacks,     \* bound: how many pushes envoy rejects
    MaxHangups,   \* bound: how many callers hang up
    MaxRestarts   \* bound: how often the control-plane process restarts

ASSUME XdsAckGateAssumption ==
    /\ None \notin Requests
    /\ None \notin Ids
    /\ MaxStreams \in Nat
    /\ MaxInFlight \in Nat \ {0}
    /\ MaxNacks \in Nat
    /\ MaxHangups \in Nat
    /\ MaxRestarts \in Nat

VARIABLES
    \* SessionStore
    store,      \* inner: for every id the request whose record it holds, or None
    gen,        \* generation_tx
    acked,      \* acked_version_tx
    \* one HTTP handler task per request
    pc,         \* where the handler is
    id,         \* the session id of the request
    target,     \* target_version of wait_for_ack
    saw,        \* the acked version the waiter's watch receiver saw last
    held,       \* delete_session: the record it removed and may re-insert
    answer,     \* what the caller was told, None while it waits
    \* one ADS stream task per connection of envoy
    task,       \* where the stream task is
    sawGen,     \* the generation its gen_rx saw last
    ver,        \* the version it is about to push
    toEnvoy,    \* DiscoveryResponses in flight
    toServer,   \* DiscoveryRequests in flight
    \* envoy, external
    conn,       \* the stream envoy is on, 0 when disconnected
    has,        \* the version_info of the Listener envoy runs
    enforced,   \* the records of that Listener
    nacks,
    restarts,
    \* history: what no code reads
    written,    \* the requests whose mutation has reached the store
    learnt      \* the requests whose mutation some Listener envoy ran reflects

storeVars   == <<store, gen, acked>>
handlerVars == <<pc, id, target, saw, held, answer>>
streamVars  == <<task, sawGen, ver, toEnvoy, toServer>>
envoyVars   == <<conn, has, enforced, nacks>>
historyVars == <<written, learnt>>
vars == <<storeVars, handlerVars, streamVars, envoyVars, historyVars, restarts>>

Streams == 1..MaxStreams

\* version_info of a first subscription; real versions are decimal u64s.
Empty == -1

Push == [ver: Nat, recs: [Ids -> Requests \cup {None}], seen: SUBSET Requests]
DiscoveryRequest == [ver: Nat \cup {Empty}, nack: BOOLEAN]

PcValues == {"idle", "written", "bumped", "waiting", "undo",
             "undone", "done"}
TaskValues == {"unused", "opening", "select", "snapshot", "closed"}

TypeOK ==
    /\ store \in [Ids -> Requests \cup {None}]
    /\ gen \in Nat
    /\ acked \in Nat
    /\ pc \in [Requests -> PcValues]
    /\ id \in [Requests -> Ids \cup {None}]
    /\ target \in [Requests -> Nat]
    /\ saw \in [Requests -> Nat]
    /\ held \in [Requests -> Requests \cup {None}]
    /\ answer \in [Requests -> {"none", "created", "conflict", "removed",
                                "notFound", "unavailable", "gone"}]
    /\ task \in [Streams -> TaskValues]
    /\ sawGen \in [Streams -> Nat]
    /\ ver \in [Streams -> Nat]
    /\ toEnvoy \in [Streams -> Seq(Push)]
    /\ toServer \in [Streams -> Seq(DiscoveryRequest)]
    /\ conn \in 0..MaxStreams
    /\ has \in Nat \cup {Empty}
    /\ enforced \in [Ids -> Requests \cup {None}]
    /\ nacks \in Nat
    /\ restarts \in Nat
    /\ written \subseteq Requests
    /\ learnt \subseteq Requests

NoRecords == [i \in Ids |-> None]

Init ==
    /\ store = NoRecords
    /\ gen = 0
    /\ acked = 0
    /\ pc = [r \in Requests |-> "idle"]
    /\ id = [r \in Requests |-> None]
    /\ target = [r \in Requests |-> 0]
    /\ saw = [r \in Requests |-> 0]
    /\ held = [r \in Requests |-> None]
    /\ answer = [r \in Requests |-> "none"]
    /\ task = [s \in Streams |-> "unused"]
    /\ sawGen = [s \in Streams |-> 0]
    /\ ver = [s \in Streams |-> 0]
    /\ toEnvoy = [s \in Streams |-> <<>>]
    /\ toServer = [s \in Streams |-> <<>>]
    /\ conn = 0
    /\ has = Empty
    /\ enforced = NoRecords
    /\ nacks = 0
    /\ restarts = 0
    /\ written = {}
    /\ learnt = {}

-----------------------------------------------------------------------------
(* The store *)

\* xds_subscriber_count: the guard lives from the opening of a stream to the
\* end of its task.
Subscribers == {s \in Streams : task[s] \in {"opening", "select", "snapshot"}}

\* bump: the map's write lock is already released.
Bump == gen' = gen + 1

\* Mutants: the version is stored without the comparison; the generation is
\* stored in place of the version envoy named.
RecordAckedVersionUnguarded(v) == acked' = v
RecordAckedGeneration(v) == acked' = gen

\* record_acked_version: only ever moves forward.
RecordAckedVersion(v) == acked' = IF v > acked THEN v ELSE acked

-----------------------------------------------------------------------------
(* The HTTP handlers *)

Goto(r, l) ==
    /\ pc' = [pc EXCEPT ![r] = l]
    /\ UNCHANGED answer

Answer(r, a) ==
    /\ pc' = [pc EXCEPT ![r] = "done"]
    /\ answer' = [answer EXCEPT ![r] = a]

\* The locals of wait_for_ack go when it returns or is dropped.
EndWait(r) ==
    /\ target' = [target EXCEPT ![r] = 0]
    /\ saw' = [saw EXCEPT ![r] = 0]

\* post_session_inner, up to the release of the write lock in insert.
PostSession(r, i) ==
    /\ pc[r] = "idle"
    /\ \/ /\ store[i] # None
          /\ Answer(r, "conflict")
          /\ UNCHANGED <<store, id, written>>
       \/ /\ store[i] = None
          /\ store' = [store EXCEPT ![i] = r]
          /\ id' = [id EXCEPT ![r] = i]
          /\ written' = written \cup {r}
          /\ Goto(r, "written")
    /\ UNCHANGED <<gen, acked, target, saw, held, streamVars, envoyVars, learnt,
                   restarts>>

\* Mutant: the 200 does not wait for the acknowledgement.
DeleteSessionUngated(r, i) ==
    /\ pc[r] = "idle"
    /\ store[i] # None
    /\ held' = [held EXCEPT ![r] = store[i]]
    /\ store' = [store EXCEPT ![i] = None]
    /\ written' = written \cup {r}
    /\ Bump
    /\ Answer(r, "removed")
    /\ UNCHANGED <<acked, id, target, saw, streamVars, envoyVars, learnt, restarts>>

\* delete_session, up to the release of the write lock in remove.
DeleteSession(r, i) ==
    /\ pc[r] = "idle"
    /\ \/ /\ store[i] = None
          /\ Answer(r, "notFound")
          /\ UNCHANGED <<store, id, held, written>>
       \/ /\ store[i] # None
          /\ held' = [held EXCEPT ![r] = store[i]]
          /\ store' = [store EXCEPT ![i] = None]
          /\ id' = [id EXCEPT ![r] = i]
          /\ written' = written \cup {r}
          /\ Goto(r, "written")
    /\ UNCHANGED <<gen, acked, target, saw, streamVars, envoyVars, learnt,
                   restarts>>

\* The bump that ends insert / remove: a step of its own, other tasks can see
\* the map changed and the generation not.
BumpAfterWrite(r) ==
    /\ pc[r] = "written"
    /\ Bump
    /\ Goto(r, "bumped")
    /\ UNCHANGED <<store, acked, id, target, saw, held, streamVars, envoyVars,
                   historyVars, restarts>>

\* What the caller hears once the acknowledgement is in.
Granted(r) == IF held[r] = None THEN "created" ELSE "removed"

\* Mutant: an off-by-one in the comparison with the target.
StartWaitOffByOne(r) ==
    /\ pc[r] = "bumped"
    /\ Subscribers # {}
    /\ acked + 1 >= gen
    /\ Answer(r, Granted(r))
    /\ UNCHANGED <<target, saw>>
    /\ UNCHANGED <<storeVars, id, held, streamVars, envoyVars, historyVars,
                   restarts>>

\* The handler reads its target_version and runs wait_for_ack up to the first
\* await: the subscriber check, then the fast path.  (Reading the target some
\* steps before the check has no other outcomes: an acknowledgement in between
\* is one that AckChanged finds, a lost subscriber one that AckTimeout finds.)
StartWait(r) ==
    /\ pc[r] = "bumped"
    /\ \/ /\ Subscribers = {}
          /\ Goto(r, "undo")
          /\ UNCHANGED <<target, saw>>
       \/ /\ Subscribers # {}
          /\ acked >= gen
          /\ Answer(r, Granted(r))
          /\ UNCHANGED <<target, saw>>
       \/ /\ Subscribers # {}
          /\ acked < gen
          /\ target' = [target EXCEPT ![r] = gen]
          /\ saw' = [saw EXCEPT ![r] = acked]
          /\ Goto(r, "waiting")
    /\ UNCHANGED <<storeVars, id, held, streamVars, envoyVars, historyVars,
                   restarts>>

\* One turn of wait_for_ack's loop: changed() resolves on a new acked version.
AckChanged(r) ==
    /\ pc[r] = "waiting"
    /\ acked # saw[r]
    /\ \/ /\ acked >= target[r]
          /\ Answer(r, Granted(r))
          /\ EndWait(r)
       \/ /\ acked < target[r]
          /\ Subscribers = {}
          /\ Goto(r, "undo")
          /\ EndWait(r)
       \/ /\ acked < target[r]
          /\ Subscribers # {}
          /\ saw' = [saw EXCEPT ![r] = acked]
          /\ UNCHANGED <<pc, answer, target>>
    /\ UNCHANGED <<storeVars, id, held, streamVars, envoyVars, historyVars,
                   restarts>>

\* Mutant: the deadline is armed only while envoy is attached.
AckTimeoutAttached(r) ==
    /\ pc[r] = "waiting"
    /\ acked = saw[r]
    /\ Subscribers # {}
    /\ Goto(r, "undo")
    /\ EndWait(r)
    /\ UNCHANGED <<storeVars, id, held, streamVars, envoyVars, historyVars,
                   restarts>>

\* The ack_wait deadline.  tokio's timeout polls the loop before the clock, so
\* a change already published is looked at first.
AckTimeout(r) ==
    /\ pc[r] = "waiting"
    /\ acked = saw[r]
    /\ Goto(r, "undo")
    /\ EndWait(r)
    /\ UNCHANGED <<storeVars, id, held, streamVars, envoyVars, historyVars,
                   restarts>>

\* rollback_after_ack_failure of a POST (remove by id), the re-insert of a
\* DELETE.  Both are best effort: a refused one is logged and 503 returned.
Undo(r) ==
    /\ pc[r] = "undo"
    /\ \/ /\ held[r] = None
          /\ store[id[r]] # None
          /\ store' = [store EXCEPT ![id[r]] = None]
          /\ Goto(r, "undone")
       \/ /\ held[r] # None
          /\ store[id[r]] = None
          /\ store' = [store EXCEPT ![id[r]] = held[r]]
          /\ Goto(r, "undone")
       \/ /\ (held[r] = None) <=> (store[id[r]] = None)
          /\ Answer(r, "unavailable")
          /\ UNCHANGED store
    /\ UNCHANGED <<gen, acked, id, target, saw, held, streamVars, envoyVars,
                   historyVars, restarts>>

\* Mutant: the rollback mutates the map without announcing it.
SilentUndo(r) ==
    /\ pc[r] = "undone"
    /\ Answer(r, "unavailable")
    /\ UNCHANGED <<storeVars, id, target, saw, held, streamVars, envoyVars,
                   historyVars, restarts>>

BumpAfterUndo(r) ==
    /\ pc[r] = "undone"
    /\ Bump
    /\ Answer(r, "unavailable")
    /\ UNCHANGED <<store, acked, id, target, saw, held, streamVars, envoyVars,
                   historyVars, restarts>>

\* The caller hangs up (session-broker's own request timeout): the server drops
\* the handler future at the await it is suspended in, and nothing is undone.
CallerGone(r) ==
    /\ pc[r] \in {"waiting", "undo"}
    /\ Cardinality({q \in Requests : answer[q] = "gone"}) < MaxHangups
    /\ Answer(r, "gone")
    /\ EndWait(r)
    /\ UNCHANGED <<storeVars, id, held, streamVars, envoyVars, historyVars,
                   restarts>>

HandlerStep(r) ==
    \/ BumpAfterWrite(r)
    \/ StartWait(r)
    \/ AckChanged(r)
    \/ AckTimeout(r)
    \/ Undo(r)
    \/ BumpAfterUndo(r)

-----------------------------------------------------------------------------
(* The ADS stream task *)

\* The body of try_stream! runs on first poll, after the subscriber guard was
\* taken: only then is the generation channel subscribed.
StreamStart(s) ==
    /\ task[s] = "opening"
    /\ sawGen' = [sawGen EXCEPT ![s] = gen]
    /\ task' = [task EXCEPT ![s] = "select"]
    /\ UNCHANGED <<storeVars, handlerVars, ver, toEnvoy, toServer, envoyVars,
                   historyVars, restarts>>

\* The task is back in select!: a yield resumes only when the transport has
\* room for another response.
Ready(s) ==
    /\ task[s] = "select"
    /\ Len(toEnvoy[s]) < MaxInFlight

\* The inbound branch of select!, for a Listener DiscoveryRequest.
Inbound(s) ==
    /\ Ready(s)
    /\ toServer[s] # <<>>
    /\ toServer' = [toServer EXCEPT ![s] = Tail(@)]
    /\ LET m == Head(toServer[s]) IN
       \/ /\ m.nack
          /\ UNCHANGED <<acked, task, ver>>
       \/ /\ ~m.nack
          /\ RecordAckedVersion(m.ver)
          /\ m.ver # gen
          /\ ver' = [ver EXCEPT ![s] = gen]
          /\ task' = [task EXCEPT ![s] = "snapshot"]
       \/ /\ ~m.nack
          /\ RecordAckedVersion(m.ver)
          /\ m.ver = gen
          /\ UNCHANGED <<task, ver>>
    /\ UNCHANGED <<store, gen, handlerVars, sawGen, toEnvoy, envoyVars,
                   historyVars, restarts>>

\* The gen_rx.changed() branch of select!.  (A task whose envoy has left may
\* still take it, but nobody reads what it pushes: such a task only drains its
\* inbound messages here, and ends.)
GenerationChanged(s) ==
    /\ Ready(s)
    /\ conn = s
    /\ sawGen[s] # gen
    /\ sawGen' = [sawGen EXCEPT ![s] = gen]
    /\ ver' = [ver EXCEPT ![s] = gen]
    /\ task' = [task EXCEPT ![s] = "snapshot"]
    /\ UNCHANGED <<storeVars, handlerVars, toEnvoy, toServer, envoyVars,
                   historyVars, restarts>>

\* sessions.list().await, then build and yield the response.
SnapshotAndPush(s) ==
    /\ task[s] = "snapshot"
    /\ conn = s
    /\ toEnvoy' = [toEnvoy EXCEPT ![s] =
                     Append(@, [ver |-> ver[s], recs |-> store, seen |-> written])]
    /\ task' = [task EXCEPT ![s] = "select"]
    /\ ver' = [ver EXCEPT ![s] = 0]
    /\ UNCHANGED <<storeVars, handlerVars, sawGen, toServer, envoyVars,
                   historyVars, restarts>>

\* The task ends once envoy has left; what it had not read is lost.
StreamClosed(s) ==
    /\ task[s] \in {"opening", "select", "snapshot"}
    /\ conn # s
    /\ task' = [task EXCEPT ![s] = "closed"]
    /\ toServer' = [toServer EXCEPT ![s] = <<>>]
    /\ toEnvoy' = [toEnvoy EXCEPT ![s] = <<>>]
    /\ sawGen' = [sawGen EXCEPT ![s] = 0]
    /\ ver' = [ver EXCEPT ![s] = 0]
    /\ UNCHANGED <<storeVars, handlerVars, envoyVars, historyVars, restarts>>

StreamStep(s) ==
    \/ StreamStart(s)
    \/ Inbound(s)
    \/ GenerationChanged(s)
    \/ SnapshotAndPush(s)
    \/ StreamClosed(s)

-----------------------------------------------------------------------------
(* Envoy and the network, external: state of the world xDS *)

\* Envoy (re)connects and re-states the version it runs in its subscription.
EnvoyConnect(s) ==
    /\ conn = 0
    /\ task[s] = "unused"
    /\ \A t \in Streams : t < s => task[t] # "unused"
    /\ conn' = s
    /\ task' = [task EXCEPT ![s] = "opening"]
    /\ toServer' = [toServer EXCEPT ![s] = <<[ver |-> has, nack |-> FALSE]>>]
    /\ UNCHANGED <<storeVars, handlerVars, sawGen, ver, toEnvoy, has, enforced,
                   nacks, historyVars, restarts>>

EnvoyDisconnect ==
    /\ conn # 0
    /\ toEnvoy' = [toEnvoy EXCEPT ![conn] = <<>>]
    /\ conn' = 0
    /\ UNCHANGED <<storeVars, handlerVars, task, sawGen, ver, toServer, has,
                   enforced, nacks, historyVars, restarts>>

\* A disconnected envoy comes back empty.
EnvoyRestart ==
    /\ conn = 0
    /\ has # Empty
    /\ has' = Empty
    /\ enforced' = NoRecords
    /\ UNCHANGED <<storeVars, handlerVars, streamVars, conn, nacks, historyVars,
                   restarts>>

EnvoyApply ==
    /\ conn # 0
    /\ toEnvoy[conn] # <<>>
    /\ LET p == Head(toEnvoy[conn]) IN
       /\ has' = p.ver
       /\ enforced' = p.recs
       /\ learnt' = learnt \cup p.seen
       /\ toServer' = [toServer EXCEPT ![conn] =
                         Append(@, [ver |-> p.ver, nack |-> FALSE])]
    /\ toEnvoy' = [toEnvoy EXCEPT ![conn] = Tail(@)]
    /\ UNCHANGED <<storeVars, handlerVars, task, sawGen, ver, conn, nacks,
                   written, restarts>>

EnvoyReject ==
    /\ conn # 0
    /\ toEnvoy[conn] # <<>>
    /\ nacks < MaxNacks
    /\ nacks' = nacks + 1
    /\ toServer' = [toServer EXCEPT ![conn] =
                      Append(@, [ver |-> has, nack |-> TRUE])]
    /\ toEnvoy' = [toEnvoy EXCEPT ![conn] = Tail(@)]
    /\ UNCHANGED <<storeVars, handlerVars, task, sawGen, ver, conn, has,
                   enforced, historyVars, restarts>>

-----------------------------------------------------------------------------
(* A new control-plane process *)

\* The process dies and comes back: recovery inserts, one bump each, the
\* sessions postgres lists as live, a subset of those announced with a 201;
\* only then are the HTTP and xDS ports bound.
Restart ==
    /\ restarts < MaxRestarts
    /\ restarts' = restarts + 1
    /\ \E live \in SUBSET {i \in Ids : store[i] # None /\ answer[store[i]] = "created"} :
          /\ store' = [i \in Ids |-> IF i \in live THEN store[i] ELSE None]
          /\ gen' = Cardinality(live)
    /\ acked' = 0
    /\ pc' = [r \in Requests |-> IF pc[r] = "idle" THEN "idle" ELSE "done"]
    /\ answer' = [r \in Requests |-> IF pc[r] \in {"idle", "done"} THEN answer[r] ELSE "gone"]
    /\ task' = [s \in Streams |-> IF task[s] = "unused" THEN "unused" ELSE "closed"]
    /\ toServer' = [s \in Streams |-> <<>>]
    /\ toEnvoy' = [s \in Streams |-> <<>>]
    /\ conn' = 0
    /\ target' = [r \in Requests |-> 0]
    /\ saw' = [r \in Requests |-> 0]
    /\ sawGen' = [s \in Streams |-> 0]
    /\ ver' = [s \in Streams |-> 0]
    /\ UNCHANGED <<id, held, has, enforced, nacks, historyVars>>

-----------------------------------------------------------------------------

Step ==
    \/ \E r \in Requests, i \in Ids : PostSession(r, i) \/ DeleteSession(r, i)
    \/ \E r \in Requests : HandlerStep(r) \/ CallerGone(r)
    \/ \E s \in Streams : StreamStep(s) \/ EnvoyConnect(s)
    \/ EnvoyDisconnect
    \/ EnvoyRestart
    \/ EnvoyApply
    \/ EnvoyReject

Next == Step \/ Restart

\* One control-plane process from start to end ...
Spec == Init /\ [][Step]_vars

\* ... and a deployment in which it is restarted, where neither AckGate nor
\* Converges holds: no run checks it, the README gives the traces.
RestartingSpec == Init /\ [][Next]_vars

\* The runtime polls every ready task and every armed timer fires; envoy reads
\* its stream.  Callers, disconnects and restarts are owed to nobody.
Fairness ==
    /\ \A r \in Requests : WF_vars(HandlerStep(r))
    /\ \A s \in Streams : WF_vars(StreamStep(s))
    /\ WF_vars(EnvoyApply)

FairSpec == Spec /\ Fairness
FairRestartingSpec == RestartingSpec /\ Fairness

-----------------------------------------------------------------------------
(* Properties *)

\* sessions.rs: "a 201 means the policy is live in envoy", and its mirror for
\* DELETE (handler.rs, delete_session).  A handler that reported success
\* mutated the store before envoy ran some Listener built after the mutation.
AckGate ==
    \A r \in Requests :
        answer[r] \in {"created", "removed"} => r \in learnt

\* What the gate buys the plugin: as long as its record stays in the store, an
\* announced session is part of whatever Listener a configured envoy runs, also
\* over reconnects and later pushes.  (A DELETE in flight holds the record.)
AnnouncedIsEnforced ==
    \A r \in Requests :
        /\ answer[r] = "created"
        /\ has # Empty
        /\ \E i \in Ids : store[i] = r
        /\ \A d \in Requests : held[d] # r
        => \E i \in Ids : enforced[i] = r

\* What the gate buys everybody else: after the 200 to a DELETE the record it
\* removed is in no Listener envoy runs, then or later.
RemovedIsNotEnforced ==
    \A d \in Requests :
        answer[d] = "removed" => \A i \in Ids : enforced[i] # held[d]

\* Every handler comes to an answer, envoy present or not.
HandlersAnswer ==
    \A r \in Requests : (pc[r] # "idle") ~> (pc[r] = "done")

\* Whatever rollbacks raced with pushes and acknowledgements, an envoy that
\* stays connected ends up running exactly the store.
Converges ==
    <>[](conn # 0) => <>[](conn # 0 => enforced = store)
=============================================================================
