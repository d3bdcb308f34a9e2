------------------------- MODULE SessionRecordsProofs -------------------------
(***************************************************************************)
(* Proofs about SessionRecords, for any containers, agents, faults, crashes *)
(* and restarts.                                                           *)
(*                                                                         *)
(* None of the three invariants is inductive: recovery routes to what the  *)
(* rows say, so each must also hold of the rows, of the spawn that has not *)
(* written its row yet, and of the teardowns that have not closed it.      *)
(* Traced(c) says how the places where c is written down hang together.    *)
(***************************************************************************)
EXTENDS SessionRecords, TLAPS

Reachable(c) == c \in transport \/ pc[c] \in {"insert", "pending", "name", "served"}
                \/ worker[c] # "none"

\* The spawn of c has not installed its session yet.
Spawning(c) == pc[c] \in {"none", "probe", "post", "waiting", "discard", "insert", "pending"}

Traced(c) ==
    /\ Reachable(c) => c \in announced
    /\ Reachable(c) /\ restarts = 0 => ByName(c) \in registry \cup gated
    /\ Spawning(c) => /\ c \notin transport
                      /\ \A x \in teardowns : x[1] # c
                      /\ worker[c] # "reaped"
                      /\ pc[c] # "pending" => worker[c] = "none"
    /\ \A x \in teardowns : x[1] = c /\ x[3] # "forget" => c \notin transport
    /\ c \in transport => worker[c] # "reaped"
    /\ ~up => pc[c] \in {"none", "ended"} /\ c \notin transport
    /\ ~up => \A x \in teardowns : x[1] # c

IInv == TypeOK /\ \A c \in Containers : Traced(c)

-----------------------------------------------------------------------------

\* Every step of both brokers, docker and the launcher keeps the state typed.
LEMMA TypeStep ==
    ASSUME TypeOK, [Next]_vars
    PROVE  TypeOK'
<1> USE SessionRecordsAssumption
<1>1. ASSUME NEW k \in Containers, ProbeReady(k)
      PROVE  TypeOK'
  BY <1>1 DEF ProbeReady, Goto, TypeOK, world, memory, database, history
<1>2. ASSUME NEW k \in Containers, PostSession(k)
      PROVE  TypeOK'
  BY <1>2 DEF PostSession, Goto, ByName, TypeOK, world, memory, database, history
<1>3. ASSUME NEW k \in Containers, PostAcked(k)
      PROVE  TypeOK'
  BY <1>3 DEF PostAcked, Goto, TypeOK, world, memory, database, history
<1>4. ASSUME NEW k \in Containers, PostFails(k)
      PROVE  TypeOK'
  BY <1>4 DEF PostFails, Goto, ByName, TypeOK, world, memory, database, history
<1>5. ASSUME NEW k \in Containers, PostTimesOut(k)
      PROVE  TypeOK'
  BY <1>5 DEF PostTimesOut, Goto, TypeOK, world, memory, database, history
<1>6. ASSUME NEW k \in Containers, TeardownUnannounced(k)
      PROVE  TypeOK'
  BY <1>6 DEF TeardownUnannounced, Goto, CallTeardown, TypeOK, world, memory, database,
          history
<1>7. ASSUME NEW k \in Containers, RecordSpawn(k)
      PROVE  TypeOK'
  BY <1>7 DEF RecordSpawn, Goto, Write, TypeOK, world, memory, database, history
<1>8. ASSUME NEW k \in Containers, InstallTransport(k)
      PROVE  TypeOK'
  BY <1>8 DEF InstallTransport, Goto, TypeOK, world, memory, database, history
<1>9. ASSUME NEW k \in Containers, RecordMcpSessionId(k)
      PROVE  TypeOK'
  BY <1>9 DEF RecordMcpSessionId, Goto, Write, TypeOK, world, memory, database, history
<1>10. ASSUME NEW k \in Containers, PendingDropped(k)
      PROVE  TypeOK'
  BY <1>10 DEF PendingDropped, Goto, TypeOK, world, memory, database, history
<1>11. ASSUME NEW k \in Containers, HandleContainerExit(k)
      PROVE  TypeOK'
  BY <1>11 DEF HandleContainerExit, Forget, Write, Reaped, ByMcpId, TypeOK, world, memory,
          database, history
<1>12. ASSUME NEW k \in Containers, LoseExit(k)
      PROVE  TypeOK'
  BY <1>12 DEF LoseExit, TypeOK, world, memory, database, history
<1>13. ASSUME NEW k \in Containers, LaunchSession(k)
      PROVE  TypeOK'
  BY <1>13 DEF LaunchSession, Goto, TypeOK, world, memory, database, history
<1>14. ASSUME NEW k \in Containers, TeardownCalls(k)
      PROVE  TypeOK'
  BY <1>14 DEF TeardownCalls, CallTeardown, TypeOK, world, memory, database, history
<1>15. ASSUME NEW k \in Containers, EvictDeadSession(k)
      PROVE  TypeOK'
  BY <1>15 DEF EvictDeadSession, Evict, Forget, TypeOK, world, memory, database, history
<1>16. ASSUME NEW k \in Containers, ContainerDies(k)
      PROVE  TypeOK'
  BY <1>16 DEF ContainerDies, TypeOK, world, memory, database, history
<1>17. ASSUME NEW k \in Containers, ContainerOom(k)
      PROVE  TypeOK'
  BY <1>17 DEF ContainerOom, TypeOK, world, memory, database, history
<1>18. ASSUME NEW k \in Containers, NEW a \in Agents, BindAgent(k, a)
      PROVE  TypeOK'
  BY <1>18 DEF BindAgent, TypeOK, world, memory, database, history
<1>19. ASSUME NEW k \in Containers, NEW a \in Agents, RecordBinding(k, a)
      PROVE  TypeOK'
  BY <1>19 DEF RecordBinding, Write, TypeOK, world, memory, database, history
<1>20. ASSUME NEW k \in Containers, NEW a \in Agents, ObserveAgent(k, a)
      PROVE  TypeOK'
  BY <1>20 DEF ObserveAgent, TypeOK, world, memory, database, history
<1>21. ASSUME NEW k \in Containers, NEW a \in Agents \cup {NoAgent}, TeardownForgets(k, a)
      PROVE  TypeOK'
  BY <1>21 DEF TeardownForgets, Forget, TypeOK, world, memory, database, history
<1>22. ASSUME NEW k \in Containers, NEW a \in Agents \cup {NoAgent}, TeardownRecords(k, a)
      PROVE  TypeOK'
  BY <1>22 DEF TeardownRecords, Write, Inactive, Reaped, TypeOK, world, memory, database,
          history
<1>23. ASSUME NEW k \in Containers, NEW a \in Agents \cup {NoAgent}, EvictionCalls(k, a)
      PROVE  TypeOK'
  BY <1>23 DEF EvictionCalls, CallTeardown, TypeOK, world, memory, database, history
<1>24. CASE EvictSessionsForTenant
  BY <1>24 DEF EvictSessionsForTenant, Evict, Forget, TypeOK, world, memory, database,
          history
<1>25. CASE BrokerRecovers
  BY <1>25 DEF BrokerRecovers, Some, Running, LiveRows, TypeOK, world, memory, database,
          history
<1>26. CASE BrokerSkipsRecovery
  BY <1>26 DEF BrokerSkipsRecovery, TypeOK, world, memory, database, history
<1>27. CASE BrokerCrash
  <2>1. pc' \in [Containers -> {"none", "ended"}]
    BY <1>27 DEF BrokerCrash, TypeOK
  <2>2. transport' = {} /\ agentId' \in [Containers -> Agents \cup {NoAgent}]
    BY <1>27 DEF BrokerCrash, Forget, TypeOK
  <2>3. crashes \in Nat /\ crashes' = crashes + 1
    BY <1>27, Zenon DEF BrokerCrash, TypeOK
  <2>4. crashes' \in Nat
    BY <2>3
  <2>5. up' \in BOOLEAN
    BY <1>27, Zenon DEF BrokerCrash
  <2> QED
    BY <1>27, <2>1, <2>2, <2>4, <2>5 DEF BrokerCrash, TypeOK, world, database
<1>28. CASE ControlPlaneRestart
  BY <1>28 DEF ControlPlaneRestart, LiveSessions, LiveRows, ByMcpId, TypeOK, world, memory,
          database, history
<1>29. CASE UNCHANGED vars
  BY <1>29 DEF TypeOK, vars, world, memory, database, history
<1>30. ASSUME NEW r \in registry, TerminateLiveSession(r)
      PROVE  TypeOK'
  BY <1>30 DEF TerminateLiveSession, TypeOK, world, memory, database, history
<1> QED
  BY <1>1, <1>2, <1>3, <1>4, <1>5, <1>6, <1>7, <1>8, <1>9, <1>10, <1>11, <1>12,
     <1>13, <1>14, <1>15, <1>16, <1>17, <1>18, <1>19, <1>20, <1>21, <1>22,
     <1>23, <1>24, <1>25, <1>26, <1>27, <1>28, <1>29, <1>30
  DEF Next, TaskStep, Delivery, Recovery

\* The state of every component stays within its type: no write names an agent
\* or a container that is not one.
THEOREM TypeCorrect == Spec => []TypeOK
<1>1. Init => TypeOK
  BY SessionRecordsAssumption DEF Init, TypeOK
<1> QED
  BY <1>1, TypeStep, PTL DEF Spec

-----------------------------------------------------------------------------

\* What is written about a container hangs together after every step, whichever
\* container the step is about.
LEMMA TracedStep ==
    ASSUME TypeOK, \A c \in Containers : Traced(c), [Next]_vars,
           NEW c \in Containers
    PROVE  Traced(c)'
<1> Traced(c)
  OBVIOUS
<1> USE SessionRecordsAssumption
<1>1. ASSUME NEW k \in Containers, ProbeReady(k)
      PROVE  Traced(c)'
  BY <1>1 DEF ProbeReady, Goto, TypeOK, Traced, Reachable, Spawning, world, memory,
          database, history
<1>2. ASSUME NEW k \in Containers, PostSession(k)
      PROVE  Traced(c)'
  BY <1>2 DEF PostSession, Goto, ByName, TypeOK, Traced, Reachable, Spawning, world,
          memory, database, history
<1>3. ASSUME NEW k \in Containers, PostAcked(k)
      PROVE  Traced(c)'
  BY <1>3 DEF PostAcked, Goto, ByName, TypeOK, Traced, Reachable, Spawning, world, memory,
          database, history
<1>4. ASSUME NEW k \in Containers, PostFails(k)
      PROVE  Traced(c)'
  BY <1>4 DEF PostFails, Goto, ByName, TypeOK, Traced, Reachable, Spawning, world, memory,
          database, history
<1>5. ASSUME NEW k \in Containers, PostTimesOut(k)
      PROVE  Traced(c)'
  BY <1>5 DEF PostTimesOut, Goto, TypeOK, Traced, Reachable, Spawning, world, memory,
          database, history
<1>6. ASSUME NEW k \in Containers, TeardownUnannounced(k)
      PROVE  Traced(c)'
  BY <1>6 DEF TeardownUnannounced, Goto, CallTeardown, TypeOK, Traced, Reachable,
          Spawning, world, memory, database, history
<1>7. ASSUME NEW k \in Containers, RecordSpawn(k)
      PROVE  Traced(c)'
  BY <1>7 DEF RecordSpawn, Goto, Write, TypeOK, Traced, Reachable, Spawning, world,
          memory, database, history
<1>8. ASSUME NEW k \in Containers, InstallTransport(k)
      PROVE  Traced(c)'
  BY <1>8 DEF InstallTransport, Goto, TypeOK, Traced, Reachable, Spawning, world, memory,
          database, history
<1>9. ASSUME NEW k \in Containers, RecordMcpSessionId(k)
      PROVE  Traced(c)'
  BY <1>9 DEF RecordMcpSessionId, Goto, Write, TypeOK, Traced, Reachable, Spawning, world,
          memory, database, history
<1>10. ASSUME NEW k \in Containers, PendingDropped(k)
      PROVE  Traced(c)'
  BY <1>10 DEF PendingDropped, Goto, TypeOK, Traced, Reachable, Spawning, world, memory,
          database, history
<1>11. ASSUME NEW k \in Containers, HandleContainerExit(k)
      PROVE  Traced(c)'
  BY <1>11 DEF HandleContainerExit, Forget, Write, Reaped, ByMcpId, ByName, TypeOK, Traced,
          Reachable, Spawning, world, memory, database, history
<1>12. ASSUME NEW k \in Containers, LoseExit(k)
      PROVE  Traced(c)'
  BY <1>12 DEF LoseExit, TypeOK, Traced, Reachable, Spawning, world, memory, database,
          history
<1>13. ASSUME NEW k \in Containers, LaunchSession(k)
      PROVE  Traced(c)'
  BY <1>13 DEF LaunchSession, Goto, TypeOK, Traced, Reachable, Spawning, world, memory,
          database, history
<1>14. ASSUME NEW k \in Containers, TeardownCalls(k)
      PROVE  Traced(c)'
  BY <1>14 DEF TeardownCalls, CallTeardown, TypeOK, Traced, Reachable, Spawning, world,
          memory, database, history
<1>15. ASSUME NEW k \in Containers, EvictDeadSession(k)
      PROVE  Traced(c)'
  BY <1>15 DEF EvictDeadSession, Evict, Forget, TypeOK, Traced, Reachable, Spawning, world,
          memory, database, history
<1>16. ASSUME NEW k \in Containers, ContainerDies(k)
      PROVE  Traced(c)'
  BY <1>16 DEF ContainerDies, TypeOK, Traced, Reachable, Spawning, world, memory, database,
          history
<1>17. ASSUME NEW k \in Containers, ContainerOom(k)
      PROVE  Traced(c)'
  BY <1>17 DEF ContainerOom, TypeOK, Traced, Reachable, Spawning, world, memory, database,
          history
<1>18. ASSUME NEW k \in Containers, NEW a \in Agents, BindAgent(k, a)
      PROVE  Traced(c)'
  BY <1>18 DEF BindAgent, TypeOK, Traced, Reachable, Spawning, world, memory, database,
          history
<1>19. ASSUME NEW k \in Containers, NEW a \in Agents, RecordBinding(k, a)
      PROVE  Traced(c)'
  BY <1>19 DEF RecordBinding, Write, TypeOK, Traced, Reachable, Spawning, world, memory,
          database, history
<1>20. ASSUME NEW k \in Containers, NEW a \in Agents, ObserveAgent(k, a)
      PROVE  Traced(c)'
  BY <1>20 DEF ObserveAgent, TypeOK, Traced, Reachable, Spawning, world, memory, database,
          history
<1>21. ASSUME NEW k \in Containers, NEW a \in Agents \cup {NoAgent}, TeardownForgets(k, a)
      PROVE  Traced(c)'
  BY <1>21 DEF TeardownForgets, Forget, TypeOK, Traced, Reachable, Spawning, world, memory,
          database, history
<1>22. ASSUME NEW k \in Containers, NEW a \in Agents \cup {NoAgent}, TeardownRecords(k, a)
      PROVE  Traced(c)'
  BY <1>22 DEF TeardownRecords, Write, Inactive, Reaped, TypeOK, Traced, Reachable,
          Spawning, world, memory, database, history
<1>23. ASSUME NEW k \in Containers, NEW a \in Agents \cup {NoAgent}, EvictionCalls(k, a)
      PROVE  Traced(c)'
  BY <1>23 DEF EvictionCalls, CallTeardown, TypeOK, Traced, Reachable, Spawning, world,
          memory, database, history
<1>24. CASE EvictSessionsForTenant
  BY <1>24 DEF EvictSessionsForTenant, Evict, Forget, TypeOK, Traced, Reachable, Spawning,
          world, memory, database, history
<1>25. CASE BrokerRecovers
  BY <1>25 DEF BrokerRecovers, Some, Running, LiveRows, TypeOK, Traced, Reachable,
          Spawning, world, memory, database, history
<1>26. CASE BrokerSkipsRecovery
  BY <1>26 DEF BrokerSkipsRecovery, TypeOK, Traced, Reachable, Spawning, world, memory,
          database, history
<1>27. CASE BrokerCrash
  BY <1>27 DEF BrokerCrash, Forget, TypeOK, Traced, Reachable, Spawning, world, memory,
          database, history
<1>28. CASE ControlPlaneRestart
  BY <1>28 DEF ControlPlaneRestart, LiveSessions, LiveRows, ByMcpId, TypeOK, Traced,
          Reachable, Spawning, world, memory, database, history
<1>29. CASE UNCHANGED vars
  BY <1>29 DEF TypeOK, Traced, Reachable, Spawning, vars, world, memory, database, history
<1>30. ASSUME NEW r \in registry, TerminateLiveSession(r)
      PROVE  Traced(c)'
  BY <1>30 DEF TerminateLiveSession, TypeOK, Traced, Reachable, Spawning, world, memory,
          database, history
<1> QED
  BY <1>1, <1>2, <1>3, <1>4, <1>5, <1>6, <1>7, <1>8, <1>9, <1>10, <1>11, <1>12,
     <1>13, <1>14, <1>15, <1>16, <1>17, <1>18, <1>19, <1>20, <1>21, <1>22,
     <1>23, <1>24, <1>25, <1>26, <1>27, <1>28, <1>29, <1>30
  DEF Next, TaskStep, Delivery, Recovery

\* The rows, the memory, the registry and the tasks of every container agree.
THEOREM RecordsAgree == Spec => []IInv
<1>1. Init => IInv
  BY SessionRecordsAssumption DEF Init, IInv, TypeOK, Traced, Reachable, Spawning
<1>2. IInv /\ [Next]_vars => IInv'
  BY TypeStep, TracedStep DEF IInv
<1> QED
  BY <1>1, <1>2, PTL DEF Spec

\* No container is pending or routed, by the broker that spawned it or by one
\* that adopted it after a crash, before control-plane has answered 201.
THEOREM GateHolds == Spec => []AnnouncedBeforeTraffic
<1>1. IInv => AnnouncedBeforeTraffic
  BY DEF IInv, TypeOK, Traced, Reachable, AnnouncedBeforeTraffic
<1> QED
  BY <1>1, RecordsAgree, PTL

\* A container whose row is closed is not routed to again, whatever teardowns,
\* callbacks, crashes and recoveries there are.
THEOREM ReapsAreFinal == Spec => []ReapedStaysUnrouted
<1>1. IInv => ReapedStaysUnrouted
  BY DEF IInv, TypeOK, Traced, ReapedStaysUnrouted
<1> QED
  BY <1>1, RecordsAgree, PTL

\* Until control-plane restarts, every routed session has its record there, or
\* the api's live gate has deleted it.
THEOREM RoutesAreKnown == Spec => []RoutedIsRegistered
<1>1. IInv => RoutedIsRegistered
  BY DEF IInv, TypeOK, Traced, Reachable, RoutedIsRegistered
<1> QED
  BY <1>1, RecordsAgree, PTL
=============================================================================
