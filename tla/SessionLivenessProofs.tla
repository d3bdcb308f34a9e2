------------------------ MODULE SessionLivenessProofs ------------------------
(***************************************************************************)
(* Proofs about SessionLiveness, for any number of tasks, timers, requests *)
(* and exit events:                                                        *)
(*   - Spec => []TypeOK, the counter never underflows;                     *)
(*   - Spec => []ArmedOnlyWhenIdle, the grace timer's locking is right;    *)
(*   - Spec => []ReapedMeansTornDown, no closed worker row hides a         *)
(*     container nobody asked to take down.                                *)
(* TypeOK needs that a task works on a counter only while it holds its     *)
(* object; the last needs that every other path to record_reap has passed  *)
(* the launcher.                                                           *)
(***************************************************************************)
EXTENDS SessionLiveness, TLAPS

\* Where a task reads or writes the object it holds.
HoldLabels == {"count", "cancel", "uncount", "grace", "arm"}

\* A task that is about to use a SessionLiveness object holds one.
ArcHeld == \A x \in Actors : pc[x] \in HoldLabels => arc[x] \in Arcs

\* Where a task has put its call_teardown behind it, and will write the rows.
CalledLabels == {"tdTombstone", "tdForget", "tdInactive", "tdReap",
                 "evInactive", "evReap"}

CallsMade == \A x \in Actors : pc[x] \in CalledLabels => called

-----------------------------------------------------------------------------
(* Types *)

LEMMA TypeInit == Init => TypeOK /\ ArcHeld
  <1> SUFFICES ASSUME Init PROVE TypeOK /\ ArcHeld
    OBVIOUS
  <1>1. pc \in [Actors -> {"idle", "off", "bump", "asleep"}]
    BY DEF Init
  <1>2. handle \in [Arcs -> Timers \cup {None}]
    BY DEF Init
  <1>3. TypeOK
    BY <1>1, <1>2 DEF Init, TypeOK, Labels
  <1>4. ArcHeld
    BY <1>1 DEF ArcHeld, HoldLabels
  <1> QED
    BY <1>3, <1>4

\* The steps of every teardown path, whatever labels they connect.
LEMMA SharedTypes ==
    ASSUME TypeOK, ArcHeld, NEW x \in Actors, NEW l \in Labels,
           NEW m \in Labels \ HoldLabels, NEW i \in BOOLEAN,
           \/ RemoveEntry(x, l, m)
           \/ AbortHandle(x, l, m, i)
           \/ CallTeardown(x, l, m)
           \/ InsertTombstone(x, l, m)
           \/ ForgetTransport(x, l, m)
           \/ RecordInactive(x, l, m)
           \/ RecordReap(x, l, m)
    PROVE  TypeOK' /\ ArcHeld'
  <1> USE SessionLivenessAssumption
  <1>1. CASE RemoveEntry(x, l, m)
    BY <1>1 DEF RemoveEntry, TypeOK, ArcHeld, Goto, world, routing, database
  <1>2. CASE AbortHandle(x, l, m, i)
    <2> DEFINE t == IF arc[x] = None THEN None ELSE handle[arc[x]]
    <2>1. /\ pc' = [y \in Actors |-> IF y = t THEN "off" ELSE IF y = x THEN m ELSE pc[y]]
          /\ arc' = [y \in Actors |-> IF y \in {x, t} THEN None ELSE arc[y]]
          /\ ident' = [y \in Actors |-> IF y = t THEN FALSE ELSE IF y = x THEN i ELSE ident[y]]
          /\ handle' = [a \in Arcs |-> IF a = arc[x] THEN None ELSE handle[a]]
          /\ UNCHANGED <<world, routing, database, entry, open>>
      BY <1>2 DEF AbortHandle, TakeAndAbort
    <2> HIDE DEF t
    <2>2. "off" \in Labels \ HoldLabels
      BY DEF Labels, HoldLabels
    <2>3. pc' \in [Actors -> Labels]
      BY <2>1, <2>2 DEF TypeOK
    <2>4. arc' \in [Actors -> Arcs \cup {None}] /\ ident' \in [Actors -> BOOLEAN]
      BY <2>1 DEF TypeOK
    <2>5. handle' \in [Arcs -> Timers \cup {None}]
      BY <2>1 DEF TypeOK
    <2>6. TypeOK'
      BY <2>1, <2>3, <2>4, <2>5 DEF TypeOK, world, routing, database
    <2>7. ASSUME NEW y \in Actors, pc'[y] \in HoldLabels
          PROVE  arc'[y] \in Arcs
      <3>1. y # t /\ y # x /\ pc[y] \in HoldLabels
        BY <2>1, <2>2, <2>7
      <3> QED
        BY <2>1, <3>1 DEF ArcHeld
    <2> QED
      BY <2>6, <2>7 DEF ArcHeld
  <1>3. CASE CallTeardown(x, l, m)
    BY <1>3 DEF CallTeardown, TypeOK, ArcHeld, Goto, routing, database, liveness
  <1>4. CASE InsertTombstone(x, l, m)
    BY <1>4 DEF InsertTombstone, TypeOK, ArcHeld, Goto, world, database, liveness
  <1>5. CASE ForgetTransport(x, l, m)
    BY <1>5 DEF ForgetTransport, TypeOK, ArcHeld, Goto, world, database, liveness
  <1>6. CASE RecordInactive(x, l, m)
    BY <1>6 DEF RecordInactive, MoveRow, Write, TypeOK, ArcHeld, Goto, world, routing, liveness
  <1>7. CASE RecordReap(x, l, m)
    BY <1>7 DEF RecordReap, Write, TypeOK, ArcHeld, Goto, world, routing, liveness
  <1> QED
    BY <1>1, <1>2, <1>3, <1>4, <1>5, <1>6, <1>7

\* The teardown paths are made of the shared steps, and of nothing that uses a
\* held object afterwards.
LEMMA TeardownTypes ==
    ASSUME TypeOK, ArcHeld, NEW x \in Actors,
           TeardownSession(x) \/ EvictSession(x) \/ HandleContainerExit
    PROVE  TypeOK' /\ ArcHeld'
  <1> USE SessionLivenessAssumption
  <1>1. {"tdRemove", "tdAbort", "tdCall", "tdTombstone", "tdForget", "tdInactive", "tdReap",
         "evRemove", "evAbort", "evTombstone", "evForget", "evCall", "evInactive", "evReap",
         "exTombstone", "exForget", "exRemove", "exAbort", "exReap", "exCall",
         "idle", "off"} \subseteq Labels \ HoldLabels
    BY DEF Labels, HoldLabels
  <1>2. Rest(x) \in Labels \ HoldLabels
    BY <1>1 DEF Rest
  <1>3. Identity \in BOOLEAN /\ ident[x] \in BOOLEAN
    BY DEF TypeOK, Identity
  <1>4. CASE TeardownSession(x)
    BY <1>1, <1>2, <1>3, <1>4, SharedTypes, Zenon DEF TeardownSession
  <1>5. CASE EvictSession(x)
    BY <1>1, <1>3, <1>5, SharedTypes, Zenon DEF EvictSession
  <1>6. CASE HandleContainerExit
    <2>1. Listener \in Actors
      BY DEF Actors
    <2>2. CASE /\ pc[Listener] = "idle"
               /\ exits > 0
               /\ exits' = exits - 1
               /\ Goto(Listener, IF transport THEN "exTombstone" ELSE "idle")
               /\ UNCHANGED <<container, faults, requests, called, routing, database,
                              liveness, arc, ident>>
      BY <1>1, <2>1, <2>2 DEF TypeOK, ArcHeld, Goto, routing, database, liveness
    <2>3. CASE \/ InsertTombstone(Listener, "exTombstone", "exForget")
               \/ ForgetTransport(Listener, "exForget", "exRemove")
               \/ RemoveEntry(Listener, "exRemove", "exAbort")
               \/ AbortHandle(Listener, "exAbort", "exReap", FALSE)
               \/ RecordReap(Listener, "exReap", "exCall")
               \/ CallTeardown(Listener, "exCall", "idle")
      BY <1>1, <2>1, <2>3, SharedTypes, Zenon
    <2> QED
      BY <1>6, <2>2, <2>3 DEF HandleContainerExit
  <1> QED
    BY <1>4, <1>5, <1>6

\* BumpCancel is AbortHandle with the label it goes to chosen by the handle.
LEMMA BumpCancelIsAbort ==
    ASSUME NEW s \in Tasks, BumpCancel(s)
    PROVE  \E m \in {"open", "rebind"}, i \in {FALSE, Identity} : AbortHandle(s, "cancel", m, i)
  BY Zenon DEF BumpCancel, AbortHandle

\* The steps of a stream.
LEMMA StreamTypes ==
    ASSUME TypeOK, ArcHeld, NEW s \in Tasks, StreamStep(s)
    PROVE  TypeOK' /\ ArcHeld'
  <1> USE SessionLivenessAssumption DEF Labels, HoldLabels
  <1>0. s \in Actors
    BY DEF Actors
  <1>1. CASE BumpEntry(s)
    <2>1. CASE entry # None /\ arc' = [arc EXCEPT ![s] = entry] /\ UNCHANGED liveness
      BY <1>0, <1>1, <2>1
         DEF BumpEntry, TypeOK, ArcHeld, Goto, world, routing, database, liveness
    <2>2. CASE \E a \in Arcs \ Held : /\ entry' = a
                                      /\ open' = [open EXCEPT ![a] = 0]
                                      /\ handle' = [handle EXCEPT ![a] = None]
                                      /\ arc' = [arc EXCEPT ![s] = a]
      BY <1>0, <1>1, <2>2
         DEF BumpEntry, TypeOK, ArcHeld, Goto, world, routing, database
    <2> QED
      BY <1>1, <2>1, <2>2 DEF BumpEntry
  <1>2. CASE BumpCount(s)
    BY <1>0, <1>2 DEF BumpCount, TypeOK, ArcHeld, Goto, world, routing, database
  <1>3. CASE BumpCancel(s)
    <2>1. PICK m \in {"open", "rebind"}, i \in {FALSE, Identity} : AbortHandle(s, "cancel", m, i)
      BY <1>3, BumpCancelIsAbort
    <2>2. m \in Labels \ HoldLabels /\ i \in BOOLEAN /\ "cancel" \in Labels
      BY <2>1 DEF TypeOK, Identity
    <2> HIDE DEF Labels, HoldLabels
    <2> QED
      BY <1>0, <2>1, <2>2, SharedTypes, Zenon
  <1>4. CASE BumpRebind(s)
    BY <1>0, <1>4 DEF BumpRebind, Write, TypeOK, ArcHeld, Goto, world, routing, liveness
  <1>5. CASE BindAgent(s)
    BY <1>0, <1>5 DEF BindAgent, TypeOK, ArcHeld, Goto, world, database, liveness
  <1>6. CASE RecordBindAgent(s)
    BY <1>0, <1>6 DEF RecordBindAgent, Write, TypeOK, ArcHeld, Goto, world, routing, liveness
  <1>7. CASE DropEntry(s)
    BY <1>0, <1>7 DEF DropEntry, TypeOK, ArcHeld, Goto, world, routing, database, liveness
  <1>8. CASE DropCount(s)
    <2>1. arc[s] \in Arcs /\ open[arc[s]] \in Nat
      BY <1>0, <1>8 DEF DropCount, TypeOK, ArcHeld
    <2>2. open' \in [Arcs -> Nat]
      BY <1>8, <2>1 DEF DropCount, TypeOK
    <2>3. arc' \in [Actors -> Arcs \cup {None}] /\ ident' \in [Actors -> BOOLEAN]
      BY <1>0, <1>8, <2>1 DEF DropCount, TypeOK, Identity
    <2>4. pc' \in [Actors -> Labels]
      BY <1>0, <1>8 DEF DropCount, TypeOK, Goto
    <2>5. ArcHeld'
      BY <1>0, <1>8, <2>1 DEF DropCount, TypeOK, ArcHeld, Goto
    <2> QED
      BY <1>8, <2>2, <2>3, <2>4, <2>5 DEF DropCount, TypeOK, world, routing, database
  <1>9. CASE DropGrace(s)
    BY <1>0, <1>9 DEF DropGrace, MoveRow, Write, TypeOK, ArcHeld, Goto, world, routing, liveness
  <1>10. CASE ScheduleGraceTimer(s)
    <2>1. arc' \in [Actors -> Arcs \cup {None}]
      BY <1>0, <1>10 DEF ScheduleGraceTimer, TypeOK
    <2>2. CASE Goto(s, "idle") /\ UNCHANGED handle
      BY <1>0, <1>10, <2>1, <2>2
         DEF ScheduleGraceTimer, TypeOK, ArcHeld, Goto, world, routing, database
    <2>3. CASE \E t \in FreeTimers :
                  /\ handle' = [handle EXCEPT ![arc[s]] = t]
                  /\ pc' = [pc EXCEPT ![s] = "idle", ![t] = "asleep"]
      <3>1. PICK t \in FreeTimers : /\ handle' = [handle EXCEPT ![arc[s]] = t]
                                    /\ pc' = [pc EXCEPT ![s] = "idle", ![t] = "asleep"]
        BY <2>3
      <3>2. t \in Timers /\ t \in Actors
        BY <3>1 DEF FreeTimers, Actors
      <3>3. handle' \in [Arcs -> Timers \cup {None}]
        BY <3>1, <3>2 DEF TypeOK
      <3>4. pc' \in [Actors -> Labels]
        BY <1>0, <3>1, <3>2 DEF TypeOK
      <3>5. TypeOK'
        BY <1>10, <2>1, <3>3, <3>4 DEF ScheduleGraceTimer, TypeOK, world, routing, database
      <3>6. \A y \in Actors : pc'[y] \in HoldLabels => y # s /\ pc[y] \in HoldLabels
        BY <1>0, <3>1, <3>2 DEF TypeOK
      <3>7. \A y \in Actors : y # s => arc'[y] = arc[y]
        BY <1>0, <1>10 DEF ScheduleGraceTimer, TypeOK
      <3> QED
        BY <3>5, <3>6, <3>7 DEF ArcHeld
    <2> QED
      BY <1>10, <2>2, <2>3, Zenon DEF ScheduleGraceTimer
  <1>11. CASE TeardownSession(s) \/ EvictSession(s)
    BY <1>0, <1>11, TeardownTypes
  <1> QED
    BY <1>1, <1>2, <1>3, <1>4, <1>5, <1>6, <1>7, <1>8, <1>9, <1>10, <1>11 DEF StreamStep

\* What clients, timers and the world do.
LEMMA OtherTypes ==
    ASSUME TypeOK, ArcHeld,
           \/ \E s \in Tasks : Arrival(s)
           \/ \E t \in Timers : TimerStep(t)
           \/ ContainerDies
           \/ ContainerOom
           \/ LoseExit
           \/ TombstoneExpires
           \/ UNCHANGED vars
    PROVE  TypeOK' /\ ArcHeld'
  <1> USE SessionLivenessAssumption DEF Labels, HoldLabels
  <1>1. ASSUME NEW s \in Tasks, Arrival(s)
        PROVE  TypeOK' /\ ArcHeld'
    <2>0. s \in Actors
      BY DEF Actors
    <2>1. CASE RouteKnown(s) \/ RouteDelete(s)
      BY <2>0, <2>1 DEF RouteKnown, RouteDelete, Arrives, TypeOK, ArcHeld, Goto,
                        routing, database, liveness
    <2>2. CASE EvictDead(s) \/ EvictTenant(s)
      BY <2>0, <2>2 DEF EvictDead, EvictTenant, Arrives, Identity, TypeOK, ArcHeld, Goto,
                        routing, database, liveness
    <2>3. CASE DeleteAnswered(s) \/ ObserveAgent(s) \/ CloseStream(s)
      BY <2>0, <2>3 DEF DeleteAnswered, ObserveAgent, CloseStream, TypeOK, ArcHeld, Goto,
                        world, routing, database, liveness
    <2> QED
      BY <1>1, <2>1, <2>2, <2>3 DEF Arrival
  <1>2. ASSUME NEW t \in Timers, TimerStep(t)
        PROVE  TypeOK' /\ ArcHeld'
    <2>0. t \in Actors
      BY DEF Actors
    <2>1. CASE GraceExpires(t) \/ ReapSession(t)
      BY <2>0, <2>1 DEF GraceExpires, ReapSession, TypeOK, ArcHeld, Goto,
                        world, routing, database, liveness
    <2>2. CASE TimerRemovesEntry(t)
      BY <2>0, <2>2 DEF TimerRemovesEntry, TypeOK, ArcHeld, Goto, world, routing, database
    <2>3. CASE TeardownSession(t)
      BY <2>0, <2>3, TeardownTypes
    <2> QED
      BY <1>2, <2>1, <2>2, <2>3 DEF TimerStep
  <1>3. CASE ContainerDies
    BY <1>3 DEF ContainerDies, TypeOK, ArcHeld, routing, database, liveness, locals
  <1>7. CASE ContainerOom
    BY <1>7 DEF ContainerOom, TypeOK, ArcHeld, routing, database, liveness, locals
  <1>4. CASE LoseExit
    BY <1>4 DEF LoseExit, TypeOK, ArcHeld, routing, database, liveness, locals
  <1>5. CASE TombstoneExpires
    <2>0. /\ tombstone' \in BOOLEAN
          /\ UNCHANGED <<transport, bound, container, exits, faults, requests, called,
                         row, reaped, entry, open, handle, pc, arc, ident>>
      BY <1>5 DEF TombstoneExpires, world, database, liveness, locals
    <2>1. TypeOK'
      BY <2>0 DEF TypeOK
    <2>2. ArcHeld'
      BY <2>0 DEF ArcHeld
    <2> QED
      BY <2>1, <2>2
  <1>6. CASE UNCHANGED vars
    BY <1>6 DEF vars, TypeOK, ArcHeld, world, routing, database, liveness, locals
  <1> QED
    BY <1>1, <1>2, <1>3, <1>4, <1>5, <1>6, <1>7

LEMMA TypeStep == TypeOK /\ ArcHeld /\ [Next]_vars => TypeOK' /\ ArcHeld'
  <1> SUFFICES ASSUME TypeOK, ArcHeld, [Next]_vars PROVE TypeOK' /\ ArcHeld'
    OBVIOUS
  <1>1. Listener \in Actors
    BY DEF Actors
  <1>2. CASE \E s \in Tasks : StreamStep(s)
    BY <1>2, StreamTypes
  <1>3. CASE HandleContainerExit
    BY <1>1, <1>3, TeardownTypes
  <1> QED
    BY <1>2, <1>3, OtherTypes, Zenon DEF Next

\* The type invariant of session-broker's liveness state, for every instance;
\* in particular open_streams never goes below zero (ext_proc.rs, liveness_drop).
THEOREM TypeCorrect == Spec => []TypeOK
  <1>1. Init => TypeOK /\ ArcHeld
    BY TypeInit
  <1>2. TypeOK /\ ArcHeld /\ [Next]_vars => (TypeOK /\ ArcHeld)'
    BY TypeStep
  <1> QED
    BY <1>1, <1>2, PTL DEF Spec

-----------------------------------------------------------------------------
(* ReapedMeansTornDown *)

ReapInv == CallsMade /\ ReapedMeansTornDown

\* Actor x goes from l to m, or is aborted; of the others, only timers move:
\* they are aborted or put to sleep.
Moves(x, l, m) ==
    /\ pc[x] = l
    /\ pc'[x] = m \/ (x \in Timers /\ pc'[x] = "off")
    /\ \A y \in Actors \ {x} :
          pc'[y] = pc[y] \/ (y \in Timers /\ pc'[y] \in {"off", "asleep"})

\* The launcher's call and the container's end are final.
Irrevocable ==
    /\ called => called'
    /\ container = "gone" => container' = "gone"

\* What a move from l to m must satisfy to keep ReapInv.
LEMMA ReapFromMove ==
    ASSUME ReapInv, Irrevocable, NEW x \in Actors, NEW l, NEW m, Moves(x, l, m),
           m \in CalledLabels => l \in CalledLabels \/ called',
           l = "exCall" => called',
           reaped' => reaped \/ l \in CalledLabels \/ (x = Listener /\ m = "exCall")
    PROVE  ReapInv'
  <1>1. CallsMade'
    BY DEF ReapInv, CallsMade, Irrevocable, Moves, CalledLabels
  <1>2. l \in CalledLabels => called
    BY DEF ReapInv, CallsMade, Moves
  <1>3. Listener \in Actors /\ Listener \notin Timers
    BY SessionLivenessAssumption DEF Actors
  <1>4. ASSUME pc[Listener] = "exCall" PROVE called' \/ pc'[Listener] = "exCall"
    BY <1>3, <1>4 DEF Moves
  <1>5. x = Listener => pc'[Listener] = m
    BY <1>3 DEF Moves
  <1>6. ReapedMeansTornDown'
    BY <1>2, <1>4, <1>5 DEF ReapInv, ReapedMeansTornDown, Irrevocable
  <1> QED
    BY <1>1, <1>6 DEF ReapInv

LEMMA SharedMoves ==
    ASSUME TypeOK, NEW x \in Actors, NEW l, NEW m, NEW i,
           \/ RemoveEntry(x, l, m)
           \/ AbortHandle(x, l, m, i)
           \/ CallTeardown(x, l, m)
           \/ InsertTombstone(x, l, m)
           \/ ForgetTransport(x, l, m)
           \/ RecordInactive(x, l, m)
    PROVE  /\ Moves(x, l, m)
           /\ Irrevocable
           /\ CallTeardown(x, l, m) => called'
           /\ reaped' = reaped
  <1>1. CASE RemoveEntry(x, l, m)
    BY <1>1 DEF RemoveEntry, CallTeardown, Goto, Moves, Irrevocable, TypeOK, world, database
  <1>2. CASE AbortHandle(x, l, m, i)
    <2> DEFINE t == IF arc[x] = None THEN None ELSE handle[arc[x]]
    <2>1. /\ pc[x] = l
          /\ pc' = [y \in Actors |-> IF y = t THEN "off" ELSE IF y = x THEN m ELSE pc[y]]
          /\ UNCHANGED <<called, container, reaped>>
      BY <1>2 DEF AbortHandle, TakeAndAbort, world, database
    <2>2. t \in Timers \/ t = None
      BY DEF TypeOK
    <2>3. t \in Actors => t \in Timers
      BY <2>2, SessionLivenessAssumption
    <2> HIDE DEF t
    <2>4. Moves(x, l, m)
      BY <2>1, <2>3 DEF Moves
    <2> QED
      BY <2>1, <2>4 DEF Irrevocable, CallTeardown
  <1>3. CASE CallTeardown(x, l, m)
    BY <1>3 DEF CallTeardown, Goto, Moves, Irrevocable, TypeOK, database
  <1>4. CASE InsertTombstone(x, l, m)
    BY <1>4 DEF InsertTombstone, CallTeardown, Goto, Moves, Irrevocable, TypeOK, world, database
  <1>5. CASE ForgetTransport(x, l, m)
    BY <1>5 DEF ForgetTransport, CallTeardown, Goto, Moves, Irrevocable, TypeOK, world, database
  <1>6. CASE RecordInactive(x, l, m)
    BY <1>6 DEF RecordInactive, CallTeardown, Goto, Moves, Irrevocable, TypeOK, world
  <1> QED
    BY <1>1, <1>2, <1>3, <1>4, <1>5, <1>6

\* The teardown paths: the launcher is called before the row is closed.
LEMMA TeardownReaps ==
    ASSUME TypeOK, ReapInv, NEW x \in Actors,
           TeardownSession(x) \/ EvictSession(x) \/ HandleContainerExit
    PROVE  ReapInv'
  <1> DEFINE Step(y, l, m, i) ==
                 \/ RemoveEntry(y, l, m)
                 \/ AbortHandle(y, l, m, i)
                 \/ CallTeardown(y, l, m)
                 \/ InsertTombstone(y, l, m)
                 \/ ForgetTransport(y, l, m)
                 \/ RecordInactive(y, l, m)
  <1>1. ASSUME NEW y \in Actors, NEW l, NEW m, NEW i, Step(y, l, m, i),
               m \in CalledLabels => l \in CalledLabels \/ CallTeardown(y, l, m),
               l = "exCall" => CallTeardown(y, l, m)
        PROVE  ReapInv'
    <2>1. /\ Moves(y, l, m)
          /\ Irrevocable
          /\ CallTeardown(y, l, m) => called'
          /\ reaped' = reaped
      BY <1>1, SharedMoves
    <2> QED
      BY <1>1, <2>1, ReapFromMove
  <1>2. ASSUME NEW y \in Actors, NEW l, NEW m, RecordReap(y, l, m),
               m \notin CalledLabels, l # "exCall",
               l \in CalledLabels \/ (y = Listener /\ m = "exCall")
        PROVE  ReapInv'
    <2>1. Moves(y, l, m) /\ Irrevocable
      BY <1>2 DEF RecordReap, Goto, Moves, Irrevocable, TypeOK, world
    <2> QED
      BY <1>2, <2>1, ReapFromMove
  <1> HIDE DEF Step
  <1>6. Rest(x) \notin CalledLabels
    BY DEF Rest, CalledLabels
  <1>3. CASE TeardownSession(x)
    <2>1. CASE RemoveEntry(x, "tdRemove", "tdAbort")
      <3>1. Step(x, "tdRemove", "tdAbort", FALSE)
        BY <2>1 DEF Step
      <3> QED
        BY <1>1, <3>1, <2>1 DEF CalledLabels
    <2>2. CASE AbortHandle(x, "tdAbort", "tdCall", Identity)
      <3>1. Step(x, "tdAbort", "tdCall", Identity)
        BY <2>2 DEF Step
      <3> QED
        BY <1>1, <3>1, <2>2 DEF CalledLabels
    <2>3. CASE CallTeardown(x, "tdCall", "tdTombstone")
      <3>1. Step(x, "tdCall", "tdTombstone", FALSE)
        BY <2>3 DEF Step
      <3> QED
        BY <1>1, <3>1, <2>3 DEF CalledLabels
    <2>4. CASE InsertTombstone(x, "tdTombstone", "tdForget")
      <3>1. Step(x, "tdTombstone", "tdForget", FALSE)
        BY <2>4 DEF Step
      <3> QED
        BY <1>1, <3>1, <2>4 DEF CalledLabels
    <2>5. CASE ForgetTransport(x, "tdForget", "tdInactive")
      <3>1. Step(x, "tdForget", "tdInactive", FALSE)
        BY <2>5 DEF Step
      <3> QED
        BY <1>1, <3>1, <2>5 DEF CalledLabels
    <2>6. CASE RecordInactive(x, "tdInactive", "tdReap")
      <3>1. Step(x, "tdInactive", "tdReap", FALSE)
        BY <2>6 DEF Step
      <3> QED
        BY <1>1, <3>1, <2>6 DEF CalledLabels
    <2>7. CASE RecordReap(x, "tdReap", Rest(x))
      BY <1>2, <1>6, <2>7 DEF CalledLabels
    <2> QED
      BY <1>3, <2>1, <2>2, <2>3, <2>4, <2>5, <2>6, <2>7 DEF TeardownSession
  <1>4. CASE EvictSession(x)
    <2>1. CASE RemoveEntry(x, "evRemove", "evAbort")
      <3>1. Step(x, "evRemove", "evAbort", FALSE)
        BY <2>1 DEF Step
      <3> QED
        BY <1>1, <3>1, <2>1 DEF CalledLabels
    <2>2. CASE AbortHandle(x, "evAbort", "evTombstone", ident[x])
      <3>1. Step(x, "evAbort", "evTombstone", ident[x])
        BY <2>2 DEF Step
      <3> QED
        BY <1>1, <3>1, <2>2 DEF CalledLabels
    <2>3. CASE InsertTombstone(x, "evTombstone", "evForget")
      <3>1. Step(x, "evTombstone", "evForget", FALSE)
        BY <2>3 DEF Step
      <3> QED
        BY <1>1, <3>1, <2>3 DEF CalledLabels
    <2>4. CASE ForgetTransport(x, "evForget", "evCall")
      <3>1. Step(x, "evForget", "evCall", FALSE)
        BY <2>4 DEF Step
      <3> QED
        BY <1>1, <3>1, <2>4 DEF CalledLabels
    <2>5. CASE CallTeardown(x, "evCall", "evInactive")
      <3>1. Step(x, "evCall", "evInactive", FALSE)
        BY <2>5 DEF Step
      <3> QED
        BY <1>1, <3>1, <2>5 DEF CalledLabels
    <2>6. CASE RecordInactive(x, "evInactive", "evReap")
      <3>1. Step(x, "evInactive", "evReap", FALSE)
        BY <2>6 DEF Step
      <3> QED
        BY <1>1, <3>1, <2>6 DEF CalledLabels
    <2>7. CASE RecordReap(x, "evReap", "idle")
      BY <1>2, <2>7 DEF CalledLabels
    <2> QED
      BY <1>4, <2>1, <2>2, <2>3, <2>4, <2>5, <2>6, <2>7 DEF EvictSession
  <1>5. CASE HandleContainerExit
    <2>0. Listener \in Actors
      BY DEF Actors
    <2>1. CASE /\ pc[Listener] = "idle"
               /\ exits > 0
               /\ exits' = exits - 1
               /\ Goto(Listener, IF transport THEN "exTombstone" ELSE "idle")
               /\ UNCHANGED <<container, faults, requests, called, routing, database,
                              liveness, arc, ident>>
      <3>1. Irrevocable /\ reaped' = reaped
        BY <2>1 DEF Irrevocable, database
      <3>2. Moves(Listener, "idle", IF transport THEN "exTombstone" ELSE "idle")
        BY <2>0, <2>1 DEF Moves, Goto, TypeOK
      <3> QED
        BY <2>0, <3>1, <3>2, ReapFromMove DEF CalledLabels
    <2>2. CASE InsertTombstone(Listener, "exTombstone", "exForget")
      <3>1. Step(Listener, "exTombstone", "exForget", FALSE)
        BY <2>2 DEF Step
      <3> QED
        BY <1>1, <2>0, <3>1, <2>2 DEF CalledLabels
    <2>3. CASE ForgetTransport(Listener, "exForget", "exRemove")
      <3>1. Step(Listener, "exForget", "exRemove", FALSE)
        BY <2>3 DEF Step
      <3> QED
        BY <1>1, <2>0, <3>1, <2>3 DEF CalledLabels
    <2>4. CASE RemoveEntry(Listener, "exRemove", "exAbort")
      <3>1. Step(Listener, "exRemove", "exAbort", FALSE)
        BY <2>4 DEF Step
      <3> QED
        BY <1>1, <2>0, <3>1, <2>4 DEF CalledLabels
    <2>5. CASE AbortHandle(Listener, "exAbort", "exReap", FALSE)
      <3>1. Step(Listener, "exAbort", "exReap", FALSE)
        BY <2>5 DEF Step
      <3> QED
        BY <1>1, <2>0, <3>1, <2>5 DEF CalledLabels
    <2>6. CASE RecordReap(Listener, "exReap", "exCall")
      BY <1>2, <2>0, <2>6 DEF CalledLabels
    <2>7. CASE CallTeardown(Listener, "exCall", "idle")
      <3>1. Step(Listener, "exCall", "idle", FALSE)
        BY <2>7 DEF Step
      <3> QED
        BY <1>1, <2>0, <3>1, <2>7 DEF CalledLabels
    <2> QED
      BY <1>5, <2>1, <2>2, <2>3, <2>4, <2>5, <2>6, <2>7 DEF HandleContainerExit
  <1> QED
    BY <1>3, <1>4, <1>5

\* A step that leaves the launcher, the container and the worker row alone.
LEMMA CalmReaps ==
    ASSUME TypeOK, ReapInv, NEW x \in Actors,
           NEW m \in Labels \ CalledLabels,
           pc[x] # "exCall", Moves(x, pc[x], m),
           UNCHANGED <<called, container, reaped>>
    PROVE  ReapInv'
  <1>1. Irrevocable
    BY DEF Irrevocable
  <1> QED
    BY <1>1, ReapFromMove

LEMMA StreamReaps ==
    ASSUME TypeOK, ReapInv, NEW s \in Tasks, StreamStep(s) \/ Arrival(s)
    PROVE  ReapInv'
  <1> DEFINE Quiet == Labels \ CalledLabels
  <1>0. s \in Actors
    BY DEF Actors
  <1>1. ASSUME NEW m \in Quiet, pc[s] # "exCall", pc' = [pc EXCEPT ![s] = m],
               UNCHANGED <<called, container, reaped>>
        PROVE  ReapInv'
    <2>1. Moves(s, pc[s], m)
      BY <1>0, <1>1 DEF Moves, TypeOK
    <2> QED
      BY <1>0, <1>1, <2>1, CalmReaps
  <1>2. {"idle", "bump", "count", "cancel", "rebind", "open", "bind", "bindRow", "drop",
         "uncount", "grace", "arm", "deleting", "tdRemove", "evRemove"} \subseteq Quiet
    BY DEF Labels, CalledLabels
  <1> HIDE DEF Quiet
  <1>3. CASE BumpEntry(s)
    BY <1>1, <1>2, <1>3 DEF BumpEntry, Goto, world, database
  <1>4. CASE BumpCount(s)
    BY <1>1, <1>2, <1>4 DEF BumpCount, Goto, world, database
  <1>5. CASE BumpCancel(s)
    <2>1. PICK m \in {"open", "rebind"}, i \in {FALSE, Identity} : AbortHandle(s, "cancel", m, i)
      BY <1>5, BumpCancelIsAbort
    <2>2. Moves(s, "cancel", m) /\ Irrevocable /\ reaped' = reaped
      BY <1>0, <2>1, SharedMoves
    <2> QED
      BY <1>0, <2>1, <2>2, ReapFromMove DEF CalledLabels
  <1>6. CASE BumpRebind(s)
    BY <1>1, <1>2, <1>6 DEF BumpRebind, Goto, world
  <1>7. CASE BindAgent(s)
    BY <1>1, <1>2, <1>7 DEF BindAgent, Goto, world, database
  <1>8. CASE RecordBindAgent(s)
    BY <1>1, <1>2, <1>8 DEF RecordBindAgent, Goto, world
  <1>9. CASE DropEntry(s)
    BY <1>1, <1>2, <1>9 DEF DropEntry, Goto, world, database
  <1>10. CASE DropCount(s)
    BY <1>1, <1>2, <1>10 DEF DropCount, Goto, world, database
  <1>11. CASE DropGrace(s)
    BY <1>1, <1>2, <1>11 DEF DropGrace, Goto, world
  <1>12. CASE ScheduleGraceTimer(s)
    <2>1. Moves(s, pc[s], "idle")
      BY <1>0, <1>12, SessionLivenessAssumption
         DEF ScheduleGraceTimer, FreeTimers, Goto, Moves, TypeOK, Actors
    <2>2. "idle" \in Labels \ CalledLabels
      BY <1>2 DEF Quiet
    <2>3. UNCHANGED <<called, container, reaped>>
      BY <1>12 DEF ScheduleGraceTimer, world, database
    <2>4. pc[s] # "exCall"
      BY <1>12 DEF ScheduleGraceTimer
    <2> QED
      BY <1>0, <2>1, <2>2, <2>3, <2>4, CalmReaps
  <1>13. CASE RouteKnown(s) \/ RouteDelete(s) \/ EvictDead(s) \/ EvictTenant(s)
    BY <1>1, <1>2, <1>13 DEF RouteKnown, RouteDelete, EvictDead, EvictTenant, Arrives, Goto, database
  <1>14. CASE DeleteAnswered(s) \/ ObserveAgent(s) \/ CloseStream(s)
    BY <1>1, <1>2, <1>14 DEF DeleteAnswered, ObserveAgent, CloseStream, Goto, world, database
  <1>15. CASE TeardownSession(s) \/ EvictSession(s)
    BY <1>0, <1>15, TeardownReaps
  <1> QED
    BY <1>3, <1>4, <1>5, <1>6, <1>7, <1>8, <1>9, <1>10, <1>11, <1>12, <1>13, <1>14, <1>15
       DEF StreamStep, Arrival

LEMMA TimerReaps ==
    ASSUME TypeOK, ReapInv, NEW t \in Timers, TimerStep(t)
    PROVE  ReapInv'
  <1>0. t \in Actors
    BY DEF Actors
  <1>1. {"expired", "reap", "tdRemove", "off"} \subseteq Labels \ CalledLabels
    BY DEF Labels, CalledLabels
  <1>2. CASE GraceExpires(t) \/ TimerRemovesEntry(t) \/ ReapSession(t)
    <2>1. pc[t] # "exCall" /\ \E m \in {"expired", "reap", "tdRemove", "off"} : Moves(t, pc[t], m)
      BY <1>0, <1>2 DEF GraceExpires, TimerRemovesEntry, ReapSession, Goto, Moves, TypeOK
    <2>2. UNCHANGED <<called, container, reaped>>
      BY <1>2 DEF GraceExpires, TimerRemovesEntry, ReapSession, world, database
    <2> QED
      BY <1>0, <1>1, <2>1, <2>2, CalmReaps
  <1>3. CASE TeardownSession(t)
    BY <1>0, <1>3, TeardownReaps
  <1> QED
    BY <1>2, <1>3 DEF TimerStep

LEMMA ReapStep == TypeOK /\ ReapInv /\ [Next]_vars => ReapInv'
  <1> SUFFICES ASSUME TypeOK, ReapInv, [Next]_vars PROVE ReapInv'
    OBVIOUS
  <1>1. CASE \E s \in Tasks : StreamStep(s) \/ Arrival(s)
    BY <1>1, StreamReaps
  <1>2. CASE \E t \in Timers : TimerStep(t)
    BY <1>2, TimerReaps
  <1>3. CASE HandleContainerExit
    <2>1. Listener \in Actors
      BY DEF Actors
    <2> QED
      BY <1>3, <2>1, TeardownReaps
  <1>4. CASE ContainerDies
    BY <1>4 DEF ContainerDies, ReapInv, CallsMade, ReapedMeansTornDown, database, locals
  <1>8. CASE ContainerOom
    BY <1>8 DEF ContainerOom, ReapInv, CallsMade, ReapedMeansTornDown, database, locals
  <1>5. CASE LoseExit
    BY <1>5 DEF LoseExit, TypeOK, ReapInv, CallsMade, ReapedMeansTornDown, database, locals
  <1>6. CASE TombstoneExpires
    BY <1>6 DEF TombstoneExpires, ReapInv, CallsMade, ReapedMeansTornDown, world, database, locals
  <1>7. CASE UNCHANGED vars
    BY <1>7 DEF vars, ReapInv, CallsMade, ReapedMeansTornDown, world, database, locals
  <1> QED
    BY <1>1, <1>2, <1>3, <1>4, <1>5, <1>6, <1>7, <1>8, Zenon DEF Next

\* A session_worker row is closed only when the container is gone or the
\* launcher was, or is just about to be, asked to remove it, whatever races
\* (ext_proc.rs, teardown_session and the evictions; exit_listener.rs).
THEOREM ReapsAreJustified == Spec => []ReapedMeansTornDown
  <1>1. Init => ReapInv
    BY DEF Init, ReapInv, CallsMade, ReapedMeansTornDown, CalledLabels
  <1>2. TypeOK /\ ReapInv /\ [Next]_vars => ReapInv'
    BY ReapStep
  <1>3. ReapInv => ReapedMeansTornDown
    BY DEF ReapInv
  <1> QED
    BY <1>1, <1>2, <1>3, TypeCorrect, PTL DEF Spec

-----------------------------------------------------------------------------
(* ArmedOnlyWhenIdle *)

\* A step that arms no timer: no object becomes reachable, handles are only
\* taken, a counter leaves zero only under a stream that goes on to abort, and
\* such a stream stays one until the handle is gone.
ArmsNothing ==
    /\ \A a \in Arcs : a \in Held' => a \in Held
    /\ \A a \in Arcs : handle'[a] \in {handle[a], None}
    /\ \A a \in Arcs : open'[a] > 0 => \/ open[a] > 0
                                      \/ \E s \in Tasks : pc'[s] = "cancel" /\ arc'[s] = a
    /\ \A t \in Timers : pc'[t] = "asleep" => pc[t] = "asleep"
    /\ \A s \in Tasks : pc[s] = "cancel" => \/ pc'[s] = "cancel" /\ arc'[s] = arc[s]
                                           \/ handle'[arc[s]] = None

LEMMA ArmsNothingKeeps ==
    ASSUME TypeOK, ArmedOnlyWhenIdle, ArmsNothing
    PROVE  ArmedOnlyWhenIdle'
  <1> SUFFICES ASSUME NEW a \in Arcs, a \in Held', handle'[a] \in Asleep', open'[a] > 0
               PROVE  \E s \in Tasks : pc'[s] = "cancel" /\ arc'[s] = a
    BY DEF ArmedOnlyWhenIdle
  <1>1. handle'[a] \in Timers /\ pc'[handle'[a]] = "asleep"
    BY DEF Asleep
  <1>2. handle'[a] # None
    BY <1>1, SessionLivenessAssumption DEF Actors
  <1>3. a \in Held /\ handle[a] = handle'[a] /\ handle[a] \in Asleep
    BY <1>1, <1>2 DEF ArmsNothing, Asleep
  <1>4. CASE open[a] > 0
    <2>1. PICK s \in Tasks : pc[s] = "cancel" /\ arc[s] = a
      BY <1>3, <1>4 DEF ArmedOnlyWhenIdle
    <2> QED
      BY <1>2, <2>1 DEF ArmsNothing
  <1> QED
    BY <1>4 DEF ArmsNothing

\* Held only shrinks when a task takes the entry, or lets go.
LEMMA HeldShrinks ==
    ASSUME TypeOK, NEW x \in Actors, NEW v \in {arc[x], entry, None},
           arc' = [arc EXCEPT ![x] = v], entry' \in {entry, None}
    PROVE  \A a \in Arcs : a \in Held' => a \in Held
  <1> SUFFICES ASSUME NEW a \in Arcs, a \in Held' PROVE a \in Held
    OBVIOUS
  <1>1. a # None
    BY SessionLivenessAssumption
  <1>2. CASE a = entry'
    BY <1>1, <1>2 DEF Held
  <1>3. CASE \E y \in Actors : a = arc'[y]
    BY <1>1, <1>3 DEF Held, TypeOK
  <1> QED
    BY <1>2, <1>3 DEF Held

\* A step of x, not at "cancel", that moves x alone and leaves counters and
\* handles alone.
LEMMA PlainMove ==
    ASSUME TypeOK, ArmedOnlyWhenIdle, NEW x \in Actors, NEW m \in Labels \ {"asleep"},
           NEW v \in {arc[x], entry, None},
           pc[x] # "cancel", pc' = [pc EXCEPT ![x] = m],
           arc' = [arc EXCEPT ![x] = v], entry' \in {entry, None},
           handle' = handle, open' = open
    PROVE  ArmedOnlyWhenIdle'
  <1>1. \A a \in Arcs : a \in Held' => a \in Held
    BY HeldShrinks
  <1>2. \A t \in Timers : pc'[t] = "asleep" => pc[t] = "asleep"
    BY DEF TypeOK, Actors
  <1>3. \A s \in Tasks : pc[s] = "cancel" => pc'[s] = "cancel" /\ arc'[s] = arc[s]
    BY DEF TypeOK, Actors
  <1>4. ArmsNothing
    BY <1>1, <1>2, <1>3 DEF ArmsNothing
  <1> QED
    BY <1>4, ArmsNothingKeeps

\* A handle that is taken cannot be in anybody's way, also when the task that
\* takes it is the stream the invariant speaks of.
LEMMA AbortKeeps ==
    ASSUME TypeOK, ArmedOnlyWhenIdle, NEW x \in Actors, NEW l, NEW m \in Labels \ {"asleep"},
           NEW i, AbortHandle(x, l, m, i)
    PROVE  ArmedOnlyWhenIdle'
  <1> DEFINE t == IF arc[x] = None THEN None ELSE handle[arc[x]]
  <1>1. /\ pc' = [y \in Actors |-> IF y = t THEN "off" ELSE IF y = x THEN m ELSE pc[y]]
        /\ arc' = [y \in Actors |-> IF y \in {x, t} THEN None ELSE arc[y]]
        /\ handle' = [a \in Arcs |-> IF a = arc[x] THEN None ELSE handle[a]]
        /\ UNCHANGED <<entry, open>>
    BY DEF AbortHandle, TakeAndAbort
  <1>2. t \notin Tasks
    BY SessionLivenessAssumption DEF TypeOK, Actors
  <1> HIDE DEF t
  <1>3. ASSUME NEW a \in Arcs, a \in Held' PROVE a \in Held
    <2>1. a # None
      BY SessionLivenessAssumption
    <2>2. CASE a = entry'
      BY <1>1, <2>2 DEF Held
    <2>3. CASE \E y \in Actors : a = arc'[y]
      BY <1>1, <2>1, <2>3 DEF Held
    <2> QED
      BY <1>3, <2>2, <2>3 DEF Held
  <1>4. \A a \in Arcs : handle'[a] \in {handle[a], None}
    BY <1>1
  <1>5. \A y \in Timers : pc'[y] = "asleep" => pc[y] = "asleep"
    BY <1>1 DEF Actors
  <1>6. ASSUME NEW s \in Tasks, pc[s] = "cancel", arc[s] \in Arcs
        PROVE  (pc'[s] = "cancel" /\ arc'[s] = arc[s]) \/ handle'[arc[s]] = None
    <2>1. s \in Actors /\ s # t
      BY <1>2 DEF Actors
    <2>2. CASE s = x
      BY <1>1, <1>6, <2>2
    <2>3. CASE s # x
      BY <1>1, <1>6, <2>1, <2>3
    <2> QED
      BY <2>2, <2>3
  <1> SUFFICES ASSUME NEW a \in Arcs, a \in Held', handle'[a] \in Asleep', open'[a] > 0
               PROVE  \E s \in Tasks : pc'[s] = "cancel" /\ arc'[s] = a
    BY DEF ArmedOnlyWhenIdle
  <1>7. handle'[a] # None /\ handle'[a] \in Timers /\ pc'[handle'[a]] = "asleep"
    BY SessionLivenessAssumption DEF Asleep, Actors
  <1>8. a \in Held /\ handle[a] \in Asleep /\ open[a] > 0
    BY <1>1, <1>3, <1>4, <1>5, <1>7 DEF Asleep
  <1>9. PICK s \in Tasks : pc[s] = "cancel" /\ arc[s] = a
    BY <1>8 DEF ArmedOnlyWhenIdle
  <1> QED
    BY <1>6, <1>7, <1>9

LEMMA TeardownArms ==
    ASSUME TypeOK, ArmedOnlyWhenIdle, NEW x \in Actors,
           TeardownSession(x) \/ EvictSession(x) \/ HandleContainerExit
    PROVE  ArmedOnlyWhenIdle'
  <1> DEFINE Awake == Labels \ {"asleep"}
  <1>1. ASSUME NEW y \in Actors, NEW l, NEW m \in Awake, l # "cancel",
               \/ RemoveEntry(y, l, m)
               \/ CallTeardown(y, l, m)
               \/ InsertTombstone(y, l, m)
               \/ ForgetTransport(y, l, m)
               \/ RecordInactive(y, l, m)
               \/ RecordReap(y, l, m)
        PROVE  ArmedOnlyWhenIdle'
    <2>1. pc[y] # "cancel" /\ pc' = [pc EXCEPT ![y] = m] /\ handle' = handle /\ open' = open
      BY <1>1 DEF RemoveEntry, CallTeardown, InsertTombstone, ForgetTransport,
                  RecordInactive, RecordReap, Goto, liveness
    <2>2. entry' \in {entry, None} /\ \E v \in {arc[y], entry, None} : arc' = [arc EXCEPT ![y] = v]
      <3>1. CASE RemoveEntry(y, l, m)
        BY <3>1 DEF RemoveEntry
      <3>2. CASE arc' = arc /\ entry' = entry
        <4>1. arc' = [arc EXCEPT ![y] = arc[y]]
          BY <3>2 DEF TypeOK
        <4> QED
          BY <3>2, <4>1
      <3> QED
        BY <1>1, <3>1, <3>2 DEF CallTeardown, InsertTombstone, ForgetTransport,
                                RecordInactive, RecordReap, liveness
    <2> QED
      BY <1>1, <2>1, <2>2, PlainMove
  <1>2. {"tdAbort", "tdCall", "tdTombstone", "tdForget", "tdInactive", "tdReap",
         "evAbort", "evTombstone", "evForget", "evCall", "evInactive", "evReap",
         "exTombstone", "exForget", "exRemove", "exAbort", "exReap", "exCall",
         "idle", "off"} \subseteq Awake
    BY DEF Labels
  <1>3. Rest(x) \in Awake
    BY <1>2 DEF Rest
  <1>4. {"tdRemove", "tdCall", "tdTombstone", "tdForget", "tdInactive", "tdReap",
         "evRemove", "evTombstone", "evForget", "evCall", "evInactive", "evReap",
         "exTombstone", "exForget", "exRemove", "exReap", "exCall"} \cap {"cancel"} = {}
    OBVIOUS
  <1>5. ASSUME NEW y \in Actors, NEW l, NEW m \in Awake, NEW i, AbortHandle(y, l, m, i)
        PROVE  ArmedOnlyWhenIdle'
    BY <1>5, AbortKeeps
  <1> HIDE DEF Awake
  <1>6. CASE TeardownSession(x)
    BY <1>1, <1>2, <1>3, <1>4, <1>5, <1>6, Zenon DEF TeardownSession
  <1>7. CASE EvictSession(x)
    BY <1>1, <1>2, <1>4, <1>5, <1>7, Zenon DEF EvictSession
  <1>8. CASE HandleContainerExit
    <2>0. Listener \in Actors
      BY DEF Actors
    <2>1. CASE /\ pc[Listener] = "idle"
               /\ exits > 0
               /\ exits' = exits - 1
               /\ Goto(Listener, IF transport THEN "exTombstone" ELSE "idle")
               /\ UNCHANGED <<container, faults, requests, called, routing, database,
                              liveness, arc, ident>>
      <3>1. arc' = [arc EXCEPT ![Listener] = arc[Listener]]
        BY <2>0, <2>1 DEF TypeOK
      <3>2. (IF transport THEN "exTombstone" ELSE "idle") \in Labels \ {"asleep"}
        BY <1>2 DEF Awake
      <3> QED
        BY <2>0, <2>1, <3>1, <3>2, PlainMove DEF Goto, liveness
    <2>2. CASE \/ InsertTombstone(Listener, "exTombstone", "exForget")
               \/ ForgetTransport(Listener, "exForget", "exRemove")
               \/ RemoveEntry(Listener, "exRemove", "exAbort")
               \/ AbortHandle(Listener, "exAbort", "exReap", FALSE)
               \/ RecordReap(Listener, "exReap", "exCall")
               \/ CallTeardown(Listener, "exCall", "idle")
      BY <1>1, <1>2, <1>4, <1>5, <2>0, <2>2, Zenon
    <2> QED
      BY <1>8, <2>1, <2>2 DEF HandleContainerExit
  <1> QED
    BY <1>6, <1>7, <1>8

\* Where the counter and the handle are really at stake.
LEMMA CounterArms ==
    ASSUME TypeOK, ArcHeld, ArmedOnlyWhenIdle, NEW s \in Tasks,
           BumpEntry(s) \/ BumpCount(s) \/ DropCount(s) \/ ScheduleGraceTimer(s)
    PROVE  ArmedOnlyWhenIdle'
  <1> USE SessionLivenessAssumption
  <1>0. s \in Actors /\ s \notin Timers
    BY DEF Actors
  <1>1. CASE BumpEntry(s)
    <2>1. CASE entry # None /\ arc' = [arc EXCEPT ![s] = entry] /\ UNCHANGED liveness
      BY <1>0, <1>1, <2>1, PlainMove DEF BumpEntry, Goto, liveness, Labels
    <2>2. CASE \E a \in Arcs \ Held : /\ entry' = a
                                      /\ open' = [open EXCEPT ![a] = 0]
                                      /\ handle' = [handle EXCEPT ![a] = None]
                                      /\ arc' = [arc EXCEPT ![s] = a]
      <3>1. PICK a \in Arcs \ Held : /\ entry' = a
                                     /\ open' = [open EXCEPT ![a] = 0]
                                     /\ handle' = [handle EXCEPT ![a] = None]
                                     /\ arc' = [arc EXCEPT ![s] = a]
        BY <2>2
      <3>2. pc' = [pc EXCEPT ![s] = "count"] /\ pc[s] = "bump"
        BY <1>1 DEF BumpEntry, Goto
      <3> SUFFICES ASSUME NEW b \in Arcs, b \in Held', handle'[b] \in Asleep', open'[b] > 0
                   PROVE  \E y \in Tasks : pc'[y] = "cancel" /\ arc'[y] = b
        BY DEF ArmedOnlyWhenIdle
      <3>3. b # a
        BY <3>1 DEF TypeOK
      <3>4. b \in Held
        <4>1. CASE b = entry'
          BY <3>1, <3>3, <4>1
        <4>2. CASE \E y \in Actors : b = arc'[y]
          BY <3>1, <3>3, <4>2 DEF Held, TypeOK
        <4> QED
          BY <4>1, <4>2 DEF Held
      <3>5. handle[b] \in Asleep /\ open[b] > 0
        BY <1>0, <3>1, <3>2, <3>3 DEF Asleep, TypeOK, Actors
      <3>6. PICK y \in Tasks : pc[y] = "cancel" /\ arc[y] = b
        BY <3>4, <3>5 DEF ArmedOnlyWhenIdle
      <3>7. y \in Actors /\ y # s
        BY <3>2, <3>6 DEF Actors
      <3> QED
        BY <3>1, <3>2, <3>6, <3>7 DEF TypeOK
    <2> QED
      BY <1>1, <2>1, <2>2 DEF BumpEntry
  <1>2. CASE BumpCount(s)
    <2>1. /\ pc[s] = "count" /\ pc' = [pc EXCEPT ![s] = "cancel"]
          /\ open' = [open EXCEPT ![arc[s]] = @ + 1]
          /\ UNCHANGED <<entry, handle, arc>>
      BY <1>2 DEF BumpCount, Goto
    <2>2. Held' = Held
      BY <2>1 DEF Held
    <2>3. \A t \in Timers : pc'[t] = "asleep" => pc[t] = "asleep"
      BY <1>0, <2>1 DEF TypeOK, Actors
    <2>4. \A y \in Tasks : pc[y] = "cancel" => pc'[y] = "cancel" /\ arc'[y] = arc[y]
      BY <1>0, <2>1 DEF TypeOK, Actors
    <2>5. pc'[s] = "cancel" /\ arc'[s] = arc[s]
      BY <1>0, <2>1 DEF TypeOK
    <2>6. \A a \in Arcs : a # arc[s] => open'[a] = open[a]
      BY <2>1 DEF TypeOK
    <2>7. ArmsNothing
      BY <2>1, <2>2, <2>3, <2>4, <2>5, <2>6 DEF ArmsNothing
    <2> QED
      BY <2>7, ArmsNothingKeeps
  <1>3. CASE DropCount(s)
    <2>1. /\ pc[s] = "uncount"
          /\ \E m \in {"grace", "idle"} : pc' = [pc EXCEPT ![s] = m]
          /\ UNCHANGED <<entry, handle>>
      BY <1>3 DEF DropCount, Goto
    <2>2. arc' = arc \/ arc' = [arc EXCEPT ![s] = None]
      BY <1>3 DEF DropCount
    <2>3. \A a \in Arcs : open'[a] > 0 => open[a] > 0
      BY <1>3 DEF DropCount, TypeOK
    <2>4. \A a \in Arcs : a \in Held' => a \in Held
      <3>1. CASE arc' = arc
        BY <2>1, <3>1 DEF Held
      <3>2. CASE arc' = [arc EXCEPT ![s] = None]
        BY <1>0, <2>1, <3>2, HeldShrinks
      <3> QED
        BY <2>2, <3>1, <3>2
    <2>5. \A t \in Timers : pc'[t] = "asleep" => pc[t] = "asleep"
      BY <1>0, <2>1 DEF TypeOK, Actors
    <2>6. \A y \in Tasks : pc[y] = "cancel" => pc'[y] = "cancel" /\ arc'[y] = arc[y]
      BY <1>0, <2>1, <2>2 DEF TypeOK, Actors
    <2>7. ArmsNothing
      BY <2>1, <2>3, <2>4, <2>5, <2>6 DEF ArmsNothing
    <2> QED
      BY <2>7, ArmsNothingKeeps
  <1>4. CASE ScheduleGraceTimer(s)
    <2>1. pc[s] = "arm" /\ arc' = [arc EXCEPT ![s] = None] /\ UNCHANGED <<entry, open>>
      BY <1>4 DEF ScheduleGraceTimer
    <2>2. arc[s] \in Arcs
      BY <1>0, <2>1 DEF ArcHeld, HoldLabels
    <2>3. \A b \in Arcs : b \in Held' => b \in Held
      BY <1>0, <2>1, HeldShrinks
    <2>4. CASE Goto(s, "idle") /\ UNCHANGED handle
      BY <1>0, <2>1, <2>4, PlainMove DEF Goto, Labels
    <2>5. CASE /\ open[arc[s]] = 0
               /\ \E t \in FreeTimers : /\ handle' = [handle EXCEPT ![arc[s]] = t]
                                        /\ pc' = [pc EXCEPT ![s] = "idle", ![t] = "asleep"]
      <3>1. PICK t \in FreeTimers : /\ handle' = [handle EXCEPT ![arc[s]] = t]
                                    /\ pc' = [pc EXCEPT ![s] = "idle", ![t] = "asleep"]
        BY <2>5
      <3>2. t \in Timers /\ t \in Actors /\ \A b \in Arcs : b \in Held => handle[b] # t
        BY <3>1 DEF FreeTimers, Actors
      <3> SUFFICES ASSUME NEW b \in Arcs, b \in Held', handle'[b] \in Asleep', open'[b] > 0
                   PROVE  \E y \in Tasks : pc'[y] = "cancel" /\ arc'[y] = b
        BY DEF ArmedOnlyWhenIdle
      <3>3. b # arc[s] /\ b \in Held
        BY <2>1, <2>3, <2>5
      <3>4. handle'[b] = handle[b] /\ handle[b] # t
        BY <2>2, <3>1, <3>2, <3>3 DEF TypeOK
      <3>5. handle[b] \in Asleep
        BY <1>0, <3>1, <3>2, <3>4 DEF Asleep, TypeOK, Actors
      <3>6. PICK y \in Tasks : pc[y] = "cancel" /\ arc[y] = b
        BY <2>1, <3>3, <3>5 DEF ArmedOnlyWhenIdle
      <3>7. y \in Actors /\ y # s /\ y # t
        BY <2>1, <3>2, <3>6 DEF Actors
      <3>8. pc'[y] = "cancel"
        BY <3>1, <3>6, <3>7 DEF TypeOK
      <3>9. arc'[y] = b
        BY <2>1, <3>6, <3>7 DEF TypeOK
      <3> QED
        BY <3>8, <3>9
    <2> QED
      BY <1>4, <2>4, <2>5, Zenon DEF ScheduleGraceTimer
  <1> QED
    BY <1>1, <1>2, <1>3, <1>4

LEMMA StreamArms ==
    ASSUME TypeOK, ArcHeld, ArmedOnlyWhenIdle, NEW s \in Tasks, StreamStep(s) \/ Arrival(s)
    PROVE  ArmedOnlyWhenIdle'
  <1>0. s \in Actors
    BY DEF Actors
  <1>1. ASSUME NEW m \in Labels \ {"asleep"}, pc[s] # "cancel",
               pc' = [pc EXCEPT ![s] = m], UNCHANGED <<entry, handle, open>>,
               arc' = arc \/ arc' = [arc EXCEPT ![s] = entry]
        PROVE  ArmedOnlyWhenIdle'
    <2>1. \E v \in {arc[s], entry, None} : arc' = [arc EXCEPT ![s] = v]
      <3>1. arc = [arc EXCEPT ![s] = arc[s]]
        BY <1>0 DEF TypeOK
      <3> QED
        BY <1>1, <3>1
    <2> QED
      BY <1>0, <1>1, <2>1, PlainMove
  <1>2. {"idle", "bump", "open", "bind", "bindRow", "drop", "uncount", "arm", "deleting",
         "tdRemove", "evRemove"} \subseteq Labels \ {"asleep"}
    BY DEF Labels
  <1>3. CASE BumpEntry(s) \/ BumpCount(s) \/ DropCount(s) \/ ScheduleGraceTimer(s)
    BY <1>3, CounterArms
  <1>4. CASE BumpCancel(s)
    <2>1. PICK m \in {"open", "rebind"}, i \in {FALSE, Identity} : AbortHandle(s, "cancel", m, i)
      BY <1>4, BumpCancelIsAbort
    <2>2. m \in Labels \ {"asleep"}
      BY <2>1 DEF Labels
    <2> QED
      BY <1>0, <2>1, <2>2, AbortKeeps
  <1>5. CASE BumpRebind(s) \/ DropGrace(s)
    BY <1>1, <1>2, <1>5 DEF BumpRebind, DropGrace, Goto, liveness
  <1>6. CASE BindAgent(s) \/ RecordBindAgent(s)
    BY <1>1, <1>2, <1>6 DEF BindAgent, RecordBindAgent, Goto, liveness
  <1>7. CASE DropEntry(s)
    BY <1>1, <1>2, <1>7 DEF DropEntry, Goto, liveness
  <1>8. CASE RouteKnown(s) \/ RouteDelete(s) \/ EvictDead(s) \/ EvictTenant(s)
    BY <1>1, <1>2, <1>8
       DEF RouteKnown, RouteDelete, EvictDead, EvictTenant, Arrives, Goto, liveness
  <1>9. CASE DeleteAnswered(s) \/ ObserveAgent(s) \/ CloseStream(s)
    BY <1>1, <1>2, <1>9 DEF DeleteAnswered, ObserveAgent, CloseStream, Goto, liveness
  <1>10. CASE TeardownSession(s) \/ EvictSession(s)
    BY <1>0, <1>10, TeardownArms
  <1> QED
    BY <1>3, <1>4, <1>5, <1>6, <1>7, <1>8, <1>9, <1>10 DEF StreamStep, Arrival

LEMMA TimerArms ==
    ASSUME TypeOK, ArmedOnlyWhenIdle, NEW t \in Timers, TimerStep(t)
    PROVE  ArmedOnlyWhenIdle'
  <1>0. t \in Actors
    BY DEF Actors
  <1>1. arc = [arc EXCEPT ![t] = arc[t]]
    BY <1>0 DEF TypeOK
  <1>2. {"expired", "reap", "tdRemove", "off"} \subseteq Labels \ {"asleep"}
    BY DEF Labels
  <1>3. CASE GraceExpires(t) \/ TimerRemovesEntry(t) \/ ReapSession(t)
    <2>1. /\ pc[t] # "cancel"
          /\ \E m \in {"expired", "reap", "tdRemove", "off"} : pc' = [pc EXCEPT ![t] = m]
          /\ entry' \in {entry, None}
          /\ UNCHANGED <<open, handle, arc>>
      BY <1>3 DEF GraceExpires, TimerRemovesEntry, ReapSession, Goto, liveness
    <2> QED
      BY <1>0, <1>1, <1>2, <2>1, PlainMove
  <1>4. CASE TeardownSession(t)
    BY <1>0, <1>4, TeardownArms
  <1> QED
    BY <1>3, <1>4 DEF TimerStep

LEMMA ArmedStep ==
    TypeOK /\ ArcHeld /\ ArmedOnlyWhenIdle /\ [Next]_vars => ArmedOnlyWhenIdle'
  <1> SUFFICES ASSUME TypeOK, ArcHeld, ArmedOnlyWhenIdle, [Next]_vars
               PROVE  ArmedOnlyWhenIdle'
    OBVIOUS
  <1>1. CASE \E s \in Tasks : StreamStep(s) \/ Arrival(s)
    BY <1>1, StreamArms
  <1>2. CASE \E t \in Timers : TimerStep(t)
    BY <1>2, TimerArms
  <1>3. CASE HandleContainerExit
    <2>1. Listener \in Actors
      BY DEF Actors
    <2> QED
      BY <1>3, <2>1, TeardownArms
  <1>4. CASE ContainerDies \/ ContainerOom \/ LoseExit \/ TombstoneExpires \/ UNCHANGED vars
    <2>1. UNCHANGED <<entry, open, handle, pc, arc>>
      BY <1>4 DEF ContainerDies, ContainerOom, LoseExit, TombstoneExpires, vars, liveness, locals
    <2> QED
      BY <2>1 DEF ArmedOnlyWhenIdle, Held, Asleep
  <1> QED
    BY <1>1, <1>2, <1>3, <1>4, Zenon DEF Next

\* The timer and counter protocol of liveness_bump, liveness_drop and
\* schedule_grace_timer: no timer sleeps under a counted stream, except one that
\* the stream is about to abort.
THEOREM TimersRespectStreams == Spec => []ArmedOnlyWhenIdle
  <1>1. Init => ArmedOnlyWhenIdle
    BY DEF Init, ArmedOnlyWhenIdle
  <1>2. Init => TypeOK /\ ArcHeld
    BY TypeInit
  <1>3. TypeOK /\ ArcHeld /\ [Next]_vars => (TypeOK /\ ArcHeld)'
    BY TypeStep
  <1>4. TypeOK /\ ArcHeld /\ ArmedOnlyWhenIdle /\ [Next]_vars => ArmedOnlyWhenIdle'
    BY ArmedStep
  <1> QED
    BY <1>1, <1>2, <1>3, <1>4, PTL DEF Spec
=============================================================================
