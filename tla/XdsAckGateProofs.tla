------------------------- MODULE XdsAckGateProofs -------------------------
(***************************************************************************)
(* Proofs about XdsAckGate: one control-plane process, any number of       *)
(* requests, session ids, connections, rejected pushes and hang-ups.       *)
(*                                                                         *)
(* The gate compares two numbers, so AckGate is not inductive: what must   *)
(* be carried along is which mutations a version number stands for.        *)
(***************************************************************************)
EXTENDS XdsAckGate, TLAPS

\* A Listener of version v is late enough to reflect the mutation of r: v is not
\* below the target r waits for, or below any target r can still capture.
Stands(v, r) ==
    \/ pc[r] = "bumped" /\ v >= gen
    \/ pc[r] = "waiting" /\ v >= target[r]

\* Version v promises no more than the mutations in X.
Covers(X, v) == \A r \in Requests : Stands(v, r) => r \in X

\* Only the generation is ever used as a version.
VersionsExist ==
    /\ acked <= gen
    /\ has <= gen
    /\ \A s \in Streams : ver[s] <= gen
    /\ \A s \in Streams : \A k \in 1..Len(toEnvoy[s]) : toEnvoy[s][k].ver <= gen
    /\ \A s \in Streams : \A k \in 1..Len(toServer[s]) : toServer[s][k].ver <= gen

\* The map is written before the generation moves.
WrittenFirst ==
    \A r \in Requests : pc[r] \in {"written", "bumped", "waiting"} => r \in written

\* Whatever carries a version carries what the version stands for.
VersionsCover ==
    /\ Covers(learnt, acked)
    /\ Covers(learnt, has)
    /\ \A s \in Streams : \A k \in 1..Len(toEnvoy[s]) :
          Covers(toEnvoy[s][k].seen, toEnvoy[s][k].ver)
    /\ \A s \in Streams : \A k \in 1..Len(toServer[s]) :
          Covers(learnt, toServer[s][k].ver)

IInv ==
    /\ TypeOK
    /\ VersionsExist
    /\ WrittenFirst
    /\ VersionsCover
    /\ AckGate

-----------------------------------------------------------------------------

\* A queue read from the front holds nothing new.
LEMMA TailElements ==
    ASSUME NEW S, NEW q \in Seq(S), q # <<>>
    PROVE  /\ Head(q) \in S
           /\ Tail(q) \in Seq(S)
           /\ Len(q) \in Nat /\ 1 \in 1..Len(q) /\ q[1] = Head(q)
           /\ \A k \in 1..Len(Tail(q)) : k + 1 \in 1..Len(q) /\ Tail(q)[k] = q[k + 1]
  OBVIOUS

\* A queue written at the back holds one new message.
LEMMA AppendElements ==
    ASSUME NEW S, NEW q \in Seq(S), NEW m \in S
    PROVE  /\ Append(q, m) \in Seq(S)
           /\ \A k \in 1..Len(Append(q, m)) :
                \/ k \in 1..Len(q) /\ Append(q, m)[k] = q[k]
                \/ Append(q, m)[k] = m
  OBVIOUS

\* The types are invariant under every step of a running process.
LEMMA TypeStep == TypeOK /\ [Step]_vars => TypeOK'
<1> SUFFICES ASSUME TypeOK, [Step]_vars PROVE TypeOK'
  OBVIOUS
<1> USE XdsAckGateAssumption DEF TypeOK, PcValues, TaskValues
<1>1. ASSUME NEW r \in Requests, NEW i \in Ids, PostSession(r, i) PROVE TypeOK'
  <2>1. UNCHANGED <<gen, acked, target, saw, held, streamVars, envoyVars, learnt,
                   restarts>>
    BY <1>1 DEF PostSession
  <2>2. CASE store[i] # None
    <3>1. /\ pc' = [pc EXCEPT ![r] = "done"]
          /\ answer' = [answer EXCEPT ![r] = "conflict"]
          /\ UNCHANGED <<store, id, written>>
      BY <1>1, <2>2 DEF PostSession, Answer
    <3> QED
      BY <2>1, <3>1 DEF streamVars, envoyVars
  <2>3. CASE store[i] = None
    <3>1. /\ store' = [store EXCEPT ![i] = r]
          /\ id' = [id EXCEPT ![r] = i]
          /\ written' = written \cup {r}
          /\ pc' = [pc EXCEPT ![r] = "written"]
          /\ UNCHANGED answer
      BY <1>1, <2>3 DEF PostSession, Goto
    <3> QED
      BY <2>1, <3>1 DEF streamVars, envoyVars
  <2> QED
    BY <1>1, <2>2, <2>3 DEF PostSession
<1>2. ASSUME NEW r \in Requests, NEW i \in Ids, DeleteSession(r, i) PROVE TypeOK'
  <2>1. UNCHANGED <<gen, acked, target, saw, streamVars, envoyVars, learnt,
                   restarts>>
    BY <1>2 DEF DeleteSession
  <2>2. CASE store[i] = None
    <3>1. /\ pc' = [pc EXCEPT ![r] = "done"]
          /\ answer' = [answer EXCEPT ![r] = "notFound"]
          /\ UNCHANGED <<store, id, held, written>>
      BY <1>2, <2>2 DEF DeleteSession, Answer
    <3> QED
      BY <2>1, <3>1 DEF streamVars, envoyVars
  <2>3. CASE store[i] # None
    <3>1. /\ store' = [store EXCEPT ![i] = None]
          /\ held' = [held EXCEPT ![r] = store[i]]
          /\ id' = [id EXCEPT ![r] = i]
          /\ written' = written \cup {r}
          /\ pc' = [pc EXCEPT ![r] = "written"]
          /\ UNCHANGED answer
      BY <1>2, <2>3 DEF DeleteSession, Goto
    <3> QED
      BY <2>1, <3>1 DEF streamVars, envoyVars
  <2> QED
    BY <1>2, <2>2, <2>3 DEF DeleteSession
<1>3. ASSUME NEW r \in Requests, BumpAfterWrite(r) PROVE TypeOK'
  BY <1>3 DEF BumpAfterWrite, Bump, Goto, streamVars, envoyVars, historyVars
<1>4. ASSUME NEW r \in Requests, StartWait(r) PROVE TypeOK'
  <2>1. UNCHANGED <<storeVars, id, held, streamVars, envoyVars, historyVars,
                   restarts>>
    BY <1>4 DEF StartWait
  <2>2. CASE Subscribers = {}
    <3>1. /\ pc' = [pc EXCEPT ![r] = "undo"]
          /\ UNCHANGED <<answer, target, saw>>
      BY <1>4, <2>2 DEF StartWait, Goto
    <3> QED
      BY <2>1, <3>1 DEF storeVars, streamVars, envoyVars, historyVars, Granted
  <2>3. CASE Subscribers # {} /\ acked >= gen
    <3>1. /\ pc' = [pc EXCEPT ![r] = "done"]
          /\ answer' = [answer EXCEPT ![r] = Granted(r)]
          /\ UNCHANGED <<target, saw>>
      BY <1>4, <2>3 DEF StartWait, Answer
    <3> QED
      BY <2>1, <3>1 DEF storeVars, streamVars, envoyVars, historyVars, Granted
  <2>4. CASE Subscribers # {} /\ acked < gen
    <3>1. /\ pc' = [pc EXCEPT ![r] = "waiting"]
          /\ UNCHANGED answer
          /\ target' = [target EXCEPT ![r] = gen]
          /\ saw' = [saw EXCEPT ![r] = acked]
      BY <1>4, <2>4 DEF StartWait, Goto
    <3> QED
      BY <2>1, <3>1 DEF storeVars, streamVars, envoyVars, historyVars, Granted
  <2> QED
    BY <1>4, <2>2, <2>3, <2>4 DEF StartWait
<1>5. ASSUME NEW r \in Requests, AckChanged(r) PROVE TypeOK'
  <2>1. UNCHANGED <<storeVars, id, held, streamVars, envoyVars, historyVars,
                   restarts>>
    BY <1>5 DEF AckChanged
  <2>2. CASE acked >= target[r]
    <3>1. /\ pc' = [pc EXCEPT ![r] = "done"]
          /\ answer' = [answer EXCEPT ![r] = Granted(r)]
          /\ target' = [target EXCEPT ![r] = 0]
          /\ saw' = [saw EXCEPT ![r] = 0]
      BY <1>5, <2>2 DEF AckChanged, Answer, EndWait
    <3> QED
      BY <2>1, <3>1 DEF storeVars, streamVars, envoyVars, historyVars, Granted
  <2>3. CASE acked < target[r] /\ Subscribers = {}
    <3>1. /\ pc' = [pc EXCEPT ![r] = "undo"]
          /\ UNCHANGED answer
          /\ target' = [target EXCEPT ![r] = 0]
          /\ saw' = [saw EXCEPT ![r] = 0]
      BY <1>5, <2>3 DEF AckChanged, Goto, EndWait
    <3> QED
      BY <2>1, <3>1 DEF storeVars, streamVars, envoyVars, historyVars, Granted
  <2>4. CASE acked < target[r] /\ Subscribers # {}
    <3>1. /\ UNCHANGED <<pc, answer, target>>
          /\ saw' = [saw EXCEPT ![r] = acked]
      BY <1>5, <2>4 DEF AckChanged
    <3> QED
      BY <2>1, <3>1 DEF storeVars, streamVars, envoyVars, historyVars, Granted
  <2> QED
    BY <1>5, <2>2, <2>3, <2>4 DEF AckChanged
<1>6. ASSUME NEW r \in Requests, AckTimeout(r) PROVE TypeOK'
  BY <1>6 DEF AckTimeout, Goto, EndWait, storeVars, streamVars, envoyVars, historyVars
<1>7. ASSUME NEW r \in Requests, Undo(r) PROVE TypeOK'
  <2>1. UNCHANGED <<gen, acked, id, target, saw, held, streamVars, envoyVars,
                   historyVars, restarts>>
    BY <1>7 DEF Undo
  <2>2. CASE held[r] = None /\ store[id[r]] # None
    <3>1. /\ store' = [store EXCEPT ![id[r]] = None]
          /\ pc' = [pc EXCEPT ![r] = "undone"]
          /\ UNCHANGED answer
      BY <1>7, <2>2 DEF Undo, Goto
    <3> QED
      BY <2>1, <3>1 DEF streamVars, envoyVars, historyVars
  <2>3. CASE held[r] # None /\ store[id[r]] = None
    <3>1. /\ store' = [store EXCEPT ![id[r]] = held[r]]
          /\ pc' = [pc EXCEPT ![r] = "undone"]
          /\ UNCHANGED answer
      BY <1>7, <2>3 DEF Undo, Goto
    <3> QED
      BY <2>1, <3>1 DEF streamVars, envoyVars, historyVars
  <2>4. CASE (held[r] = None) <=> (store[id[r]] = None)
    <3>1. /\ pc' = [pc EXCEPT ![r] = "done"]
          /\ answer' = [answer EXCEPT ![r] = "unavailable"]
          /\ UNCHANGED store
      BY <1>7, <2>4 DEF Undo, Answer
    <3> QED
      BY <2>1, <3>1 DEF streamVars, envoyVars, historyVars
  <2> QED
    BY <1>7, <2>2, <2>3, <2>4 DEF Undo
<1>8. ASSUME NEW r \in Requests, BumpAfterUndo(r) PROVE TypeOK'
  BY <1>8 DEF BumpAfterUndo, Bump, Answer, streamVars, envoyVars, historyVars
<1>9. ASSUME NEW r \in Requests, CallerGone(r) PROVE TypeOK'
  BY <1>9 DEF CallerGone, Answer, EndWait, storeVars, streamVars, envoyVars, historyVars
<1>10. ASSUME NEW s \in Streams, StreamStart(s) PROVE TypeOK'
  BY <1>10 DEF StreamStart, storeVars, handlerVars, envoyVars, historyVars
<1>11. ASSUME NEW s \in Streams, Inbound(s) PROVE TypeOK'
  <2>1. toServer[s] \in Seq(DiscoveryRequest) /\ toServer[s] # <<>>
    BY <1>11 DEF Inbound
  <2>2. Head(toServer[s]) \in DiscoveryRequest /\ Tail(toServer[s]) \in Seq(DiscoveryRequest)
    BY <2>1, TailElements
  <2>3. toServer' \in [Streams -> Seq(DiscoveryRequest)]
    BY <1>11, <2>2 DEF Inbound
  <2>4. acked' \in Nat
    BY <1>11, <2>2 DEF Inbound, RecordAckedVersion, DiscoveryRequest, Empty
  <2>5. \/ UNCHANGED <<task, ver>>
        \/ /\ task' = [task EXCEPT ![s] = "snapshot"]
           /\ ver' = [ver EXCEPT ![s] = gen]
    BY <1>11 DEF Inbound
  <2>6. UNCHANGED <<store, gen, handlerVars, sawGen, toEnvoy, envoyVars, historyVars, restarts>>
    BY <1>11 DEF Inbound
  <2>7. CASE UNCHANGED <<task, ver>>
    BY <2>3, <2>4, <2>6, <2>7 DEF handlerVars, envoyVars, historyVars
  <2>8. CASE /\ task' = [task EXCEPT ![s] = "snapshot"]
             /\ ver' = [ver EXCEPT ![s] = gen]
    <3>1. task' \in [Streams -> TaskValues] /\ ver' \in [Streams -> Nat]
      BY <2>8
    <3> QED
      BY <2>3, <2>4, <2>6, <3>1 DEF handlerVars, envoyVars, historyVars
  <2> QED
    BY <2>5, <2>7, <2>8
<1>12. ASSUME NEW s \in Streams, GenerationChanged(s) PROVE TypeOK'
  BY <1>12 DEF GenerationChanged, storeVars, handlerVars, envoyVars, historyVars
<1>13. ASSUME NEW s \in Streams, SnapshotAndPush(s) PROVE TypeOK'
  <2>1. [ver |-> ver[s], recs |-> store, seen |-> written] \in Push
    BY DEF Push
  <2>2. toEnvoy' \in [Streams -> Seq(Push)]
    BY <1>13, <2>1, AppendElements DEF SnapshotAndPush
  <2> QED
    BY <1>13, <2>2 DEF SnapshotAndPush, storeVars, handlerVars, envoyVars, historyVars
<1>14. ASSUME NEW s \in Streams, StreamClosed(s) PROVE TypeOK'
  BY <1>14 DEF StreamClosed, storeVars, handlerVars, envoyVars, historyVars
<1>15. ASSUME NEW s \in Streams, EnvoyConnect(s) PROVE TypeOK'
  <2>1. <<[ver |-> has, nack |-> FALSE]>> \in Seq(DiscoveryRequest)
    BY DEF DiscoveryRequest
  <2>2. /\ toServer' \in [Streams -> Seq(DiscoveryRequest)]
        /\ task' \in [Streams -> TaskValues]
    BY <1>15, <2>1 DEF EnvoyConnect
  <2>3. conn' \in 0..MaxStreams
    BY <1>15 DEF EnvoyConnect, Streams
  <2>4. UNCHANGED <<storeVars, handlerVars, sawGen, ver, toEnvoy, has, enforced,
                   nacks, historyVars, restarts>>
    BY <1>15 DEF EnvoyConnect
  <2> QED
    BY <2>2, <2>3, <2>4 DEF storeVars, handlerVars, historyVars
<1>16. CASE EnvoyDisconnect
  <2>1. toEnvoy' \in [Streams -> Seq(Push)] /\ conn' \in 0..MaxStreams
    <3>1. toEnvoy' = [toEnvoy EXCEPT ![conn] = <<>>] /\ conn' = 0
      BY <1>16 DEF EnvoyDisconnect
    <3>2. <<>> \in Seq(Push) /\ 0 \in 0..MaxStreams
      OBVIOUS
    <3> QED
      BY <3>1, <3>2
  <2>2. UNCHANGED <<storeVars, handlerVars, task, sawGen, ver, toServer, has,
                   enforced, nacks, historyVars, restarts>>
    BY <1>16 DEF EnvoyDisconnect
  <2> QED
    BY <2>1, <2>2 DEF storeVars, handlerVars, historyVars
<1>17. CASE EnvoyRestart
  BY <1>17 DEF EnvoyRestart, NoRecords, storeVars, handlerVars, streamVars, historyVars
<1>18. CASE EnvoyApply
  <2> DEFINE p == Head(toEnvoy[conn])
  <2>1. conn \in Streams /\ toEnvoy[conn] \in Seq(Push) /\ toEnvoy[conn] # <<>>
    BY <1>18 DEF EnvoyApply, Streams
  <2>2. p \in Push /\ Tail(toEnvoy[conn]) \in Seq(Push)
    BY <2>1, TailElements
  <2>3. [ver |-> p.ver, nack |-> FALSE] \in DiscoveryRequest
    BY <2>2 DEF Push, DiscoveryRequest
  <2>4. toServer' \in [Streams -> Seq(DiscoveryRequest)]
    BY <1>18, <2>1, <2>3, AppendElements DEF EnvoyApply
  <2>5. toEnvoy' \in [Streams -> Seq(Push)]
    BY <1>18, <2>1, <2>2 DEF EnvoyApply
  <2>6. has' \in Nat \cup {Empty} /\ enforced' \in [Ids -> Requests \cup {None}] /\ learnt' \subseteq Requests
    BY <1>18, <2>2 DEF EnvoyApply, Push
  <2> QED
    BY <1>18, <2>4, <2>5, <2>6 DEF EnvoyApply, storeVars, handlerVars
<1>19. CASE EnvoyReject
  <2>1. conn \in Streams /\ toEnvoy[conn] \in Seq(Push) /\ toEnvoy[conn] # <<>>
    BY <1>19 DEF EnvoyReject, Streams
  <2>2. Tail(toEnvoy[conn]) \in Seq(Push)
    BY <2>1, TailElements
  <2>3. [ver |-> has, nack |-> TRUE] \in DiscoveryRequest
    BY DEF DiscoveryRequest
  <2>4. toServer' \in [Streams -> Seq(DiscoveryRequest)]
    BY <1>19, <2>1, <2>3, AppendElements DEF EnvoyReject
  <2>5. toEnvoy' \in [Streams -> Seq(Push)]
    BY <1>19, <2>1, <2>2 DEF EnvoyReject
  <2> QED
    BY <1>19, <2>4, <2>5 DEF EnvoyReject, storeVars, handlerVars, historyVars
<1>20. CASE UNCHANGED vars
  BY <1>20 DEF vars, storeVars, handlerVars, streamVars, envoyVars, historyVars
<1> QED
  BY <1>1, <1>2, <1>3, <1>4, <1>5, <1>6, <1>7, <1>8, <1>9, <1>10, <1>11, <1>12,
     <1>13, <1>14, <1>15, <1>16, <1>17, <1>18, <1>19, <1>20
     DEF Step, HandlerStep, StreamStep

\* Type correctness of every behaviour of a control-plane process: in particular
\* versions stay natural numbers whatever envoy sends back.
THEOREM TypeCorrect == Spec => []TypeOK
<1>1. Init => TypeOK
  BY XdsAckGateAssumption DEF Init, TypeOK, PcValues, TaskValues, NoRecords
<1> QED
  BY <1>1, TypeStep, PTL DEF Spec

-----------------------------------------------------------------------------

\* The versions in flight are integers.
LEMMA VersionTypes ==
    ASSUME TypeOK
    PROVE  /\ gen \in Nat /\ acked \in Int /\ has \in Int
           /\ \A s \in Streams : ver[s] \in Nat
           /\ \A s \in Streams : \A k \in 1..Len(toEnvoy[s]) :
                 toEnvoy[s][k].ver \in Int /\ toEnvoy[s][k].seen \subseteq Requests
           /\ \A s \in Streams : \A k \in 1..Len(toServer[s]) : toServer[s][k].ver \in Int
<1>1. ASSUME NEW s \in Streams, NEW k \in 1..Len(toEnvoy[s])
      PROVE  toEnvoy[s][k] \in Push
  BY <1>1 DEF TypeOK
<1>2. ASSUME NEW s \in Streams, NEW k \in 1..Len(toServer[s])
      PROVE  toServer[s][k] \in DiscoveryRequest
  BY <1>2 DEF TypeOK
<1>3. gen \in Nat /\ acked \in Int /\ has \in Int /\ \A s \in Streams : ver[s] \in Nat
  BY DEF TypeOK, Empty
<1> QED
  BY <1>1, <1>2, <1>3 DEF Push, DiscoveryRequest, Empty

\* The facts every handler step shares: it carries no version anywhere, and it
\* lets no version that exists stand for a mutation it did not stand for.
LEMMA HandlerFrame ==
    ASSUME TypeOK, TypeOK', VersionsExist, VersionsCover,
           gen <= gen',
           UNCHANGED <<acked, has, ver, toEnvoy, toServer, learnt>>,
           \A r \in Requests : \A v \in Int :
               v <= gen /\ Stands(v, r)' => Stands(v, r)
    PROVE  VersionsExist' /\ VersionsCover'
<1> USE VersionTypes
<1>1. VersionsExist'
  <2>1. gen' \in Nat
    BY DEF TypeOK
  <2>2. \A s \in Streams : \A k \in 1..Len(toEnvoy[s]) : toEnvoy[s][k].ver <= gen'
    BY <2>1 DEF VersionsExist
  <2>3. \A s \in Streams : \A k \in 1..Len(toServer[s]) : toServer[s][k].ver <= gen'
    BY <2>1 DEF VersionsExist
  <2>4. acked <= gen' /\ has <= gen' /\ \A s \in Streams : ver[s] <= gen'
    BY <2>1 DEF VersionsExist
  <2> QED
    BY <2>2, <2>3, <2>4 DEF VersionsExist
<1>2. Covers(learnt, acked)' /\ Covers(learnt, has)'
  BY DEF Covers, VersionsExist, VersionsCover
<1>3. ASSUME NEW s \in Streams, NEW k \in 1..Len(toEnvoy[s])
      PROVE  Covers(toEnvoy[s][k].seen, toEnvoy[s][k].ver)'
  BY <1>3 DEF Covers, VersionsExist, VersionsCover
<1>4. ASSUME NEW s \in Streams, NEW k \in 1..Len(toServer[s])
      PROVE  Covers(learnt, toServer[s][k].ver)'
  BY <1>4 DEF Covers, VersionsExist, VersionsCover
<1> QED
  BY <1>1, <1>2, <1>3, <1>4 DEF VersionsCover

\* A handler that is told "acknowledged" has been learnt by envoy.
LEMMA GrantIsLearnt ==
    ASSUME IInv, NEW r \in Requests,
           \/ pc[r] = "bumped" /\ acked >= gen
           \/ pc[r] = "waiting" /\ acked >= target[r]
    PROVE  r \in learnt
  BY DEF IInv, VersionsCover, Covers, Stands

Success(a) == a \in {"created", "removed"}

\* An answer other than success obliges envoy to nothing.
LEMMA Refusal ==
    ASSUME TypeOK, NEW r \in Requests, NEW a,
           answer' = [answer EXCEPT ![r] = a],
           Success(a) => r \in learnt
    PROVE  \A q \in Requests : Success(answer'[q]) => Success(answer[q]) \/ q \in learnt
  BY DEF TypeOK

\* What the steps of a handler have in common, whatever label l they go to:
\* an answer of success is backed by envoy, a mutation is in the map before the
\* handler waits, and a target is the generation of the moment it is read.
LEMMA HandlerEffect ==
    ASSUME IInv, TypeOK', NEW r \in Requests, NEW l \in PcValues,
           UNCHANGED <<acked, has, ver, toEnvoy, toServer, learnt>>,
           pc' = [pc EXCEPT ![r] = l],
           \A q \in Requests : Success(answer'[q]) => Success(answer[q]) \/ q \in learnt,
           written \subseteq written',
           l \in {"written", "bumped", "waiting"} => r \in written',
           \/ /\ UNCHANGED gen
              /\ l \notin {"bumped", "waiting"}
              /\ \A q \in Requests \ {r} : target'[q] = target[q]
           \/ /\ UNCHANGED <<gen, target>>
              /\ l = pc[r]
           \/ /\ UNCHANGED gen
              /\ pc[r] = "bumped" /\ l = "waiting"
              /\ target' = [target EXCEPT ![r] = gen]
           \/ /\ gen' = gen + 1
              /\ UNCHANGED target
              /\ l # "waiting"
    PROVE  IInv'
<1>1. /\ TypeOK /\ VersionsExist /\ VersionsCover /\ WrittenFirst /\ AckGate
      /\ gen \in Nat /\ target \in [Requests -> Nat] /\ pc \in [Requests -> PcValues]
  BY DEF IInv, TypeOK
<1>2. ASSUME NEW q \in Requests, NEW v \in Int, v <= gen, Stands(v, q)'
      PROVE  Stands(v, q)
  <2>1. CASE q = r
    BY <1>1, <1>2, <2>1 DEF Stands
  <2>2. CASE q # r
    BY <1>1, <1>2, <2>2 DEF Stands
  <2> QED
    BY <2>1, <2>2
<1>3. gen <= gen'
  BY <1>1
<1>4. VersionsExist' /\ VersionsCover'
  BY <1>1, <1>2, <1>3, HandlerFrame
<1>5. WrittenFirst'
  BY <1>1 DEF WrittenFirst
<1>6. AckGate'
  BY <1>1 DEF AckGate, Success
<1> QED
  BY <1>4, <1>5, <1>6 DEF IInv

\* Every step of a handler preserves the inductive invariant.
LEMMA HandlerPreserves ==
    ASSUME IInv, TypeOK', NEW r \in Requests,
           \/ \E i \in Ids : PostSession(r, i) \/ DeleteSession(r, i)
           \/ HandlerStep(r)
           \/ CallerGone(r)
    PROVE  IInv'
<1> USE DEF streamVars, envoyVars, historyVars, storeVars, PcValues
<1>1. ASSUME NEW i \in Ids, PostSession(r, i) PROVE IInv'
  <2>1. CASE store[i] # None
    <3>1. /\ pc' = [pc EXCEPT ![r] = "done"]
          /\ answer' = [answer EXCEPT ![r] = "conflict"]
          /\ UNCHANGED <<acked, has, ver, toEnvoy, toServer, learnt, written, gen, target>>
      BY <1>1, <2>1 DEF PostSession, Answer
    <3>3. \A q \in Requests : Success(answer'[q]) => Success(answer[q]) \/ q \in learnt
      BY <3>1, Refusal DEF Success, IInv
    <3> QED
      BY <3>1, <3>3, HandlerEffect
  <2>2. CASE store[i] = None
    <3>1. /\ pc' = [pc EXCEPT ![r] = "written"]
          /\ written' = written \cup {r}
          /\ UNCHANGED <<acked, has, ver, toEnvoy, toServer, learnt, gen, target, answer>>
      BY <1>1, <2>2 DEF PostSession, Goto
    <3> QED
      BY <3>1, HandlerEffect
  <2> QED
    BY <2>1, <2>2
<1>2. ASSUME NEW i \in Ids, DeleteSession(r, i) PROVE IInv'
  <2>1. CASE store[i] = None
    <3>1. /\ pc' = [pc EXCEPT ![r] = "done"]
          /\ answer' = [answer EXCEPT ![r] = "notFound"]
          /\ UNCHANGED <<acked, has, ver, toEnvoy, toServer, learnt, written, gen, target>>
      BY <1>2, <2>1 DEF DeleteSession, Answer
    <3>3. \A q \in Requests : Success(answer'[q]) => Success(answer[q]) \/ q \in learnt
      BY <3>1, Refusal DEF Success, IInv
    <3> QED
      BY <3>1, <3>3, HandlerEffect
  <2>2. CASE store[i] # None
    <3>1. /\ pc' = [pc EXCEPT ![r] = "written"]
          /\ written' = written \cup {r}
          /\ UNCHANGED <<acked, has, ver, toEnvoy, toServer, learnt, gen, target, answer>>
      BY <1>2, <2>2 DEF DeleteSession, Goto
    <3> QED
      BY <3>1, HandlerEffect
  <2> QED
    BY <2>1, <2>2
<1>3. CASE BumpAfterWrite(r)
  <2>1. /\ pc' = [pc EXCEPT ![r] = "bumped"]
        /\ gen' = gen + 1
        /\ UNCHANGED <<acked, has, ver, toEnvoy, toServer, learnt, written, target, answer>>
        /\ pc[r] = "written"
    BY <1>3 DEF BumpAfterWrite, Bump, Goto
  <2>2. r \in written
    BY <2>1 DEF IInv, WrittenFirst
  <2> QED
    BY <2>1, <2>2, HandlerEffect
<1>4. CASE StartWait(r)
  <2>1. pc[r] = "bumped" /\ r \in written
    BY <1>4 DEF StartWait, IInv, WrittenFirst
  <2>2. CASE Subscribers = {}
    <3>1. /\ pc' = [pc EXCEPT ![r] = "undo"]
          /\ UNCHANGED <<acked, has, ver, toEnvoy, toServer, learnt, written, gen, target, answer>>
      BY <1>4, <2>2 DEF StartWait, Goto
    <3> QED
      BY <3>1, HandlerEffect
  <2>3. CASE Subscribers # {} /\ acked >= gen
    <3>1. /\ pc' = [pc EXCEPT ![r] = "done"]
          /\ answer' = [answer EXCEPT ![r] = Granted(r)]
          /\ UNCHANGED <<acked, has, ver, toEnvoy, toServer, learnt, written, gen, target>>
      BY <1>4, <2>3 DEF StartWait, Answer, IInv, TypeOK
    <3>2. r \in learnt
      BY <2>1, <2>3, GrantIsLearnt
    <3>3. \A q \in Requests : Success(answer'[q]) => Success(answer[q]) \/ q \in learnt
      BY <3>1, <3>2, Refusal DEF Success, IInv
    <3> QED
      BY <3>1, <3>3, <3>2, HandlerEffect
  <2>4. CASE Subscribers # {} /\ acked < gen
    <3>1. /\ pc' = [pc EXCEPT ![r] = "waiting"]
          /\ target' = [target EXCEPT ![r] = gen]
          /\ UNCHANGED <<acked, has, ver, toEnvoy, toServer, learnt, written, gen, answer>>
      BY <1>4, <2>4 DEF StartWait, Goto, IInv, TypeOK
    <3> QED
      BY <2>1, <3>1, HandlerEffect
  <2> QED
    BY <1>4, <2>2, <2>3, <2>4 DEF StartWait
<1>5. CASE AckChanged(r)
  <2>1. pc[r] = "waiting" /\ r \in written
    BY <1>5 DEF AckChanged, IInv, WrittenFirst
  <2>2. gen \in Nat /\ acked \in Nat /\ target \in [Requests -> Nat] /\ pc \in [Requests -> PcValues]
    BY DEF IInv, TypeOK
  <2>3. CASE acked >= target[r]
    <3>1. /\ pc' = [pc EXCEPT ![r] = "done"]
          /\ answer' = [answer EXCEPT ![r] = Granted(r)]
          /\ target' = [target EXCEPT ![r] = 0]
          /\ UNCHANGED <<acked, has, ver, toEnvoy, toServer, learnt, written, gen>>
      BY <1>5, <2>2, <2>3 DEF AckChanged, Answer, EndWait
    <3>2. r \in learnt
      BY <2>1, <2>3, GrantIsLearnt
    <3>3. \A q \in Requests : Success(answer'[q]) => Success(answer[q]) \/ q \in learnt
      BY <3>1, <3>2, Refusal DEF Success, IInv
    <3> QED
      BY <2>2, <3>1, <3>3, <3>2, HandlerEffect
  <2>4. CASE acked < target[r] /\ Subscribers = {}
    <3>1. /\ pc' = [pc EXCEPT ![r] = "undo"]
          /\ target' = [target EXCEPT ![r] = 0]
          /\ UNCHANGED <<acked, has, ver, toEnvoy, toServer, learnt, written, gen, answer>>
      BY <1>5, <2>2, <2>4 DEF AckChanged, Goto, EndWait
    <3> QED
      BY <2>2, <3>1, HandlerEffect
  <2>5. CASE acked < target[r] /\ Subscribers # {}
    <3>1. /\ UNCHANGED <<acked, has, ver, toEnvoy, toServer, learnt, written, gen, answer, pc, target>>
          /\ pc' = [pc EXCEPT ![r] = "waiting"]
      BY <1>5, <2>1, <2>2, <2>5 DEF AckChanged
    <3> QED
      BY <2>1, <3>1, HandlerEffect
  <2> QED
    BY <1>5, <2>2, <2>3, <2>4, <2>5 DEF AckChanged
<1>6. CASE AckTimeout(r)
  <2>1. /\ pc' = [pc EXCEPT ![r] = "undo"]
        /\ target' = [target EXCEPT ![r] = 0]
        /\ UNCHANGED <<acked, has, ver, toEnvoy, toServer, learnt, written, gen, answer>>
        /\ target \in [Requests -> Nat]
    BY <1>6 DEF AckTimeout, Goto, EndWait, IInv, TypeOK
  <2> QED
    BY <2>1, HandlerEffect
<1>7. CASE Undo(r)
  <2>1. UNCHANGED <<acked, has, ver, toEnvoy, toServer, learnt, written, gen, target>>
    BY <1>7 DEF Undo
  <2>2. CASE pc' = [pc EXCEPT ![r] = "undone"] /\ UNCHANGED answer
    BY <2>1, <2>2, HandlerEffect
  <2>3. CASE /\ pc' = [pc EXCEPT ![r] = "done"]
             /\ answer' = [answer EXCEPT ![r] = "unavailable"]
    <3>1. \A q \in Requests : Success(answer'[q]) => Success(answer[q]) \/ q \in learnt
      BY <2>3, Refusal DEF Success, IInv
    <3> QED
      BY <2>1, <2>3, <3>1, HandlerEffect
  <2> QED
    BY <1>7, <2>2, <2>3 DEF Undo, Goto, Answer
<1>8. CASE BumpAfterUndo(r)
  <2>1. /\ pc' = [pc EXCEPT ![r] = "done"]
        /\ answer' = [answer EXCEPT ![r] = "unavailable"]
        /\ gen' = gen + 1
        /\ UNCHANGED <<acked, has, ver, toEnvoy, toServer, learnt, written, target>>
    BY <1>8 DEF BumpAfterUndo, Bump, Answer
  <2>3. \A q \in Requests : Success(answer'[q]) => Success(answer[q]) \/ q \in learnt
    BY <2>1, Refusal DEF Success, IInv
  <2> QED
    BY <2>1, <2>3, HandlerEffect
<1>9. CASE CallerGone(r)
  <2>1. /\ pc' = [pc EXCEPT ![r] = "done"]
        /\ answer' = [answer EXCEPT ![r] = "gone"]
        /\ target' = [target EXCEPT ![r] = 0]
        /\ UNCHANGED <<acked, has, ver, toEnvoy, toServer, learnt, written, gen>>
        /\ target \in [Requests -> Nat]
    BY <1>9 DEF CallerGone, Answer, EndWait, IInv, TypeOK
  <2>3. \A q \in Requests : Success(answer'[q]) => Success(answer[q]) \/ q \in learnt
    BY <2>1, Refusal DEF Success, IInv
  <2> QED
    BY <2>1, <2>3, HandlerEffect
<1> QED
  BY <1>1, <1>2, <1>3, <1>4, <1>5, <1>6, <1>7, <1>8, <1>9 DEF HandlerStep

\* A version that exists and promises no more than the mutations in X.
Sound(X, v) == v <= gen /\ Covers(X, v)

\* What the steps of the stream tasks and of envoy have in common: no handler
\* moves, and every version they leave behind is sound.
LEMMA OthersEffect ==
    ASSUME IInv, TypeOK', UNCHANGED <<gen, handlerVars, written>>,
           learnt \subseteq learnt',
           Sound(learnt', acked'), Sound(learnt', has'),
           \A s \in Streams : ver'[s] <= gen,
           \A s \in Streams : \A k \in 1..Len(toEnvoy'[s]) :
               Sound(toEnvoy'[s][k].seen, toEnvoy'[s][k].ver),
           \A s \in Streams : \A k \in 1..Len(toServer'[s]) :
               Sound(learnt', toServer'[s][k].ver)
    PROVE  IInv'
<1>1. WrittenFirst' /\ AckGate'
  BY DEF IInv, WrittenFirst, AckGate, handlerVars
<1>2. VersionsExist'
  BY DEF Sound, VersionsExist
<1>3. /\ pc' = pc /\ gen' = gen /\ target' = target
  BY DEF handlerVars
<1>4. VersionsCover'
  BY <1>3 DEF Sound, VersionsCover, Covers, Stands
<1> QED
  BY <1>1, <1>2, <1>4 DEF IInv

\* What was sound before the step still is when envoy has learnt more.
LEMMA SoundBefore ==
    ASSUME IInv, NEW L, learnt \subseteq L
    PROVE  /\ Sound(L, acked) /\ Sound(L, has)
           /\ \A s \in Streams : ver[s] <= gen
           /\ \A s \in Streams : \A k \in 1..Len(toEnvoy[s]) :
                 Sound(toEnvoy[s][k].seen, toEnvoy[s][k].ver)
           /\ \A s \in Streams : \A k \in 1..Len(toServer[s]) :
                 Sound(L, toServer[s][k].ver)
  BY DEF IInv, VersionsExist, VersionsCover, Sound, Covers

\* The map is read after the generation the push is labelled with: a snapshot
\* taken now is sound under any version that exists.
LEMMA SnapshotIsSound ==
    ASSUME IInv, NEW v, v <= gen
    PROVE  Sound(written, v)
  BY DEF IInv, WrittenFirst, Sound, Covers, Stands

\* Every step of a stream task, or of envoy connecting, preserves IInv.
LEMMA StreamPreserves ==
    ASSUME IInv, TypeOK', NEW s \in Streams, StreamStep(s) \/ EnvoyConnect(s)
    PROVE  IInv'
<1> USE DEF envoyVars, historyVars, storeVars
<1>1. UNCHANGED <<gen, handlerVars, written, learnt>>
  BY DEF StreamStep, StreamStart, Inbound, GenerationChanged, SnapshotAndPush,
         StreamClosed, EnvoyConnect
<1>2. /\ Sound(learnt', acked) /\ Sound(learnt', has)
      /\ \A t \in Streams : ver[t] <= gen
      /\ \A t \in Streams : \A k \in 1..Len(toEnvoy[t]) :
            Sound(toEnvoy[t][k].seen, toEnvoy[t][k].ver)
      /\ \A t \in Streams : \A k \in 1..Len(toServer[t]) :
            Sound(learnt', toServer[t][k].ver)
  BY <1>1, SoundBefore
<1>3. /\ gen \in Nat
      /\ ver \in [Streams -> Nat]
      /\ toEnvoy \in [Streams -> Seq(Push)]
      /\ toServer \in [Streams -> Seq(DiscoveryRequest)]
  BY DEF IInv, TypeOK
<1>4. CASE StreamStart(s)
  <2>1. UNCHANGED <<acked, has, ver, toEnvoy, toServer>>
    BY <1>4 DEF StreamStart
  <2> QED
    BY <1>1, <1>2, <2>1, OthersEffect
<1>5. CASE Inbound(s)
  <2>1. toServer[s] \in Seq(DiscoveryRequest) /\ toServer[s] # <<>>
    BY <1>3, <1>5 DEF Inbound
  <2>2. /\ 1 \in 1..Len(toServer[s]) /\ toServer[s][1] = Head(toServer[s])
        /\ \A k \in 1..Len(Tail(toServer[s])) :
              /\ k + 1 \in 1..Len(toServer[s])
              /\ Tail(toServer[s])[k] = toServer[s][k + 1]
    BY <2>1, TailElements
  <2>3. acked' = acked \/ acked' = Head(toServer[s]).ver
    BY <1>5 DEF Inbound, RecordAckedVersion
  <2>4. Sound(learnt', acked')
    BY <1>2, <2>2, <2>3
  <2>5. UNCHANGED <<has, toEnvoy>>
    BY <1>5 DEF Inbound
  <2>6. toServer' = [toServer EXCEPT ![s] = Tail(toServer[s])]
    BY <1>5 DEF Inbound
  <2>7. \A t \in Streams : \A k \in 1..Len(toServer'[t]) : Sound(learnt', toServer'[t][k].ver)
    BY <1>2, <1>3, <2>2, <2>6
  <2>8. ver' = ver \/ ver' = [ver EXCEPT ![s] = gen]
    BY <1>5 DEF Inbound
  <2>9. \A t \in Streams : ver'[t] <= gen
    BY <1>2, <1>3, <2>8
  <2> QED
    BY <1>1, <1>2, <2>4, <2>5, <2>7, <2>9, OthersEffect
<1>6. CASE GenerationChanged(s)
  <2>1. UNCHANGED <<acked, has, toEnvoy, toServer>> /\ ver' = [ver EXCEPT ![s] = gen]
    BY <1>6 DEF GenerationChanged
  <2>2. \A t \in Streams : ver'[t] <= gen
    BY <1>2, <1>3, <2>1
  <2> QED
    BY <1>1, <1>2, <2>1, <2>2, OthersEffect
<1>7. CASE SnapshotAndPush(s)
  <2> DEFINE p == [ver |-> ver[s], recs |-> store, seen |-> written]
  <2>1. /\ UNCHANGED <<acked, has, toServer>>
        /\ ver' = [ver EXCEPT ![s] = 0]
        /\ toEnvoy' = [toEnvoy EXCEPT ![s] = Append(toEnvoy[s], p)]
    BY <1>7 DEF SnapshotAndPush
  <2>2. p \in Push
    BY DEF IInv, TypeOK, Push
  <2>3. Sound(p.seen, p.ver)
    BY <1>2, SnapshotIsSound
  <2>4. \A k \in 1..Len(Append(toEnvoy[s], p)) :
           \/ k \in 1..Len(toEnvoy[s]) /\ Append(toEnvoy[s], p)[k] = toEnvoy[s][k]
           \/ Append(toEnvoy[s], p)[k] = p
    BY <1>3, <2>2, AppendElements
  <2> HIDE DEF p
  <2>5. \A t \in Streams : \A k \in 1..Len(toEnvoy'[t]) :
           Sound(toEnvoy'[t][k].seen, toEnvoy'[t][k].ver)
    BY <1>2, <1>3, <2>1, <2>3, <2>4
  <2>6. \A t \in Streams : ver'[t] <= gen
    BY <1>2, <1>3, <2>1
  <2> QED
    BY <1>1, <1>2, <2>1, <2>5, <2>6, OthersEffect
<1>8. CASE StreamClosed(s)
  <2>1. /\ UNCHANGED <<acked, has>>
        /\ ver' = [ver EXCEPT ![s] = 0]
        /\ toEnvoy' = [toEnvoy EXCEPT ![s] = <<>>]
        /\ toServer' = [toServer EXCEPT ![s] = <<>>]
    BY <1>8 DEF StreamClosed
  <2>2. \A t \in Streams : ver'[t] <= gen
    BY <1>2, <1>3, <2>1
  <2>3. \A t \in Streams : \A k \in 1..Len(toEnvoy'[t]) :
           Sound(toEnvoy'[t][k].seen, toEnvoy'[t][k].ver)
    BY <1>2, <1>3, <2>1
  <2>4. \A t \in Streams : \A k \in 1..Len(toServer'[t]) : Sound(learnt', toServer'[t][k].ver)
    BY <1>2, <1>3, <2>1
  <2> QED
    BY <1>1, <1>2, <2>1, <2>2, <2>3, <2>4, OthersEffect
<1>9. CASE EnvoyConnect(s)
  <2>1. /\ UNCHANGED <<acked, has, ver, toEnvoy>>
        /\ toServer' = [toServer EXCEPT ![s] = <<[ver |-> has, nack |-> FALSE]>>]
    BY <1>9 DEF EnvoyConnect
  <2>2. \A t \in Streams : \A k \in 1..Len(toServer'[t]) : Sound(learnt', toServer'[t][k].ver)
    BY <1>2, <1>3, <2>1
  <2> QED
    BY <1>1, <1>2, <2>1, <2>2, OthersEffect
<1> QED
  BY <1>4, <1>5, <1>6, <1>7, <1>8, <1>9 DEF StreamStep

\* Every other step of envoy preserves IInv.  Applying a push is the one that
\* teaches: its acknowledgement is sound because the push was.
LEMMA EnvoyPreserves ==
    ASSUME IInv, TypeOK', EnvoyDisconnect \/ EnvoyRestart \/ EnvoyApply \/ EnvoyReject
    PROVE  IInv'
<1> USE DEF historyVars, storeVars, streamVars
<1>1. UNCHANGED <<gen, acked, handlerVars, written, ver>> /\ learnt \subseteq learnt'
  BY DEF EnvoyDisconnect, EnvoyRestart, EnvoyApply, EnvoyReject
<1>2. /\ Sound(learnt', acked) /\ Sound(learnt', has)
      /\ \A t \in Streams : ver[t] <= gen
      /\ \A t \in Streams : \A k \in 1..Len(toEnvoy[t]) :
            Sound(toEnvoy[t][k].seen, toEnvoy[t][k].ver)
      /\ \A t \in Streams : \A k \in 1..Len(toServer[t]) :
            Sound(learnt', toServer[t][k].ver)
  BY <1>1, SoundBefore
<1>3. /\ gen \in Nat
      /\ conn \in 0..MaxStreams
      /\ has \in Nat \cup {Empty}
      /\ toEnvoy \in [Streams -> Seq(Push)]
      /\ toServer \in [Streams -> Seq(DiscoveryRequest)]
  BY DEF IInv, TypeOK
<1>4. CASE EnvoyDisconnect
  <2>1. /\ UNCHANGED <<has, toServer>>
        /\ toEnvoy' = [toEnvoy EXCEPT ![conn] = <<>>]
    BY <1>4 DEF EnvoyDisconnect
  <2>2. \A t \in Streams : \A k \in 1..Len(toEnvoy'[t]) :
           Sound(toEnvoy'[t][k].seen, toEnvoy'[t][k].ver)
    BY <1>2, <1>3, <2>1
  <2> QED
    BY <1>1, <1>2, <2>1, <2>2, OthersEffect
<1>5. CASE EnvoyRestart
  <2>1. UNCHANGED <<toEnvoy, toServer>> /\ has' = Empty
    BY <1>5 DEF EnvoyRestart
  <2>2. Sound(learnt', has')
    BY <1>3, <2>1 DEF Sound, Covers, Stands, Empty, IInv, TypeOK
  <2> QED
    BY <1>1, <1>2, <2>1, <2>2, OthersEffect
<1>6. ASSUME EnvoyApply \/ EnvoyReject
      PROVE  /\ conn \in Streams /\ toEnvoy[conn] # <<>>
             /\ Head(toEnvoy[conn]) \in Push
             /\ Sound(Head(toEnvoy[conn]).seen, Head(toEnvoy[conn]).ver)
             /\ \A t \in Streams : \A k \in 1..Len(toEnvoy'[t]) :
                   Sound(toEnvoy'[t][k].seen, toEnvoy'[t][k].ver)
  <2>1. /\ conn \in Streams /\ toEnvoy[conn] # <<>>
        /\ toEnvoy' = [toEnvoy EXCEPT ![conn] = Tail(toEnvoy[conn])]
    BY <1>3, <1>6 DEF EnvoyApply, EnvoyReject, Streams
  <2>2. /\ Head(toEnvoy[conn]) \in Push
        /\ 1 \in 1..Len(toEnvoy[conn]) /\ toEnvoy[conn][1] = Head(toEnvoy[conn])
        /\ \A k \in 1..Len(Tail(toEnvoy[conn])) :
              /\ k + 1 \in 1..Len(toEnvoy[conn])
              /\ Tail(toEnvoy[conn])[k] = toEnvoy[conn][k + 1]
    BY <1>3, <2>1, TailElements
  <2> QED
    BY <1>2, <1>3, <2>1, <2>2
<1>7. ASSUME NEW m \in DiscoveryRequest, conn \in Streams, Sound(learnt', m.ver),
             toServer' = [toServer EXCEPT ![conn] = Append(toServer[conn], m)]
      PROVE  \A t \in Streams : \A k \in 1..Len(toServer'[t]) :
                Sound(learnt', toServer'[t][k].ver)
  <2>1. \A k \in 1..Len(Append(toServer[conn], m)) :
           \/ k \in 1..Len(toServer[conn]) /\ Append(toServer[conn], m)[k] = toServer[conn][k]
           \/ Append(toServer[conn], m)[k] = m
    BY <1>3, <1>7, AppendElements
  <2> QED
    BY <1>2, <1>3, <1>7, <2>1
<1>8. CASE EnvoyApply
  <2> DEFINE p == Head(toEnvoy[conn])
  <2> DEFINE m == [ver |-> p.ver, nack |-> FALSE]
  <2>1. /\ has' = p.ver
        /\ learnt' = learnt \cup p.seen
        /\ toServer' = [toServer EXCEPT ![conn] = Append(toServer[conn], m)]
    BY <1>8 DEF EnvoyApply
  <2>2. p \in Push /\ Sound(p.seen, p.ver) /\ conn \in Streams
    BY <1>6, <1>8
  <2>3. Sound(learnt', p.ver)
    BY <2>1, <2>2 DEF Sound, Covers
  <2>4. m \in DiscoveryRequest /\ m.ver = p.ver
    BY <2>2 DEF Push, DiscoveryRequest
  <2>5. \A t \in Streams : \A k \in 1..Len(toServer'[t]) : Sound(learnt', toServer'[t][k].ver)
    BY <1>7, <2>1, <2>2, <2>3, <2>4
  <2>6. \A t \in Streams : \A k \in 1..Len(toEnvoy'[t]) :
           Sound(toEnvoy'[t][k].seen, toEnvoy'[t][k].ver)
    BY <1>6, <1>8
  <2> HIDE DEF p, m
  <2> QED
    BY <1>1, <1>2, <2>1, <2>3, <2>5, <2>6, OthersEffect
<1>9. CASE EnvoyReject
  <2> DEFINE m == [ver |-> has, nack |-> TRUE]
  <2>1. /\ UNCHANGED has
        /\ toServer' = [toServer EXCEPT ![conn] = Append(toServer[conn], m)]
    BY <1>9 DEF EnvoyReject
  <2>2. m \in DiscoveryRequest /\ m.ver = has /\ conn \in Streams
    BY <1>3, <1>6, <1>9 DEF DiscoveryRequest
  <2>3. \A t \in Streams : \A k \in 1..Len(toServer'[t]) : Sound(learnt', toServer'[t][k].ver)
    BY <1>2, <1>7, <2>1, <2>2
  <2>4. \A t \in Streams : \A k \in 1..Len(toEnvoy'[t]) :
           Sound(toEnvoy'[t][k].seen, toEnvoy'[t][k].ver)
    BY <1>6, <1>9
  <2> QED
    BY <1>1, <1>2, <2>1, <2>3, <2>4, OthersEffect
<1> QED
  BY <1>4, <1>5, <1>8, <1>9

\* IInv is inductive.
LEMMA Induction == IInv /\ [Step]_vars => IInv'
<1> SUFFICES ASSUME IInv, [Step]_vars PROVE IInv'
  OBVIOUS
<1>1. TypeOK'
  BY TypeStep DEF IInv
<1>2. CASE UNCHANGED vars
  BY <1>2, <1>1, SoundBefore, OthersEffect
     DEF vars, storeVars, handlerVars, streamVars, envoyVars, historyVars
<1>3. CASE Step
  <2>1. \/ \E r \in Requests :
              \/ \E i \in Ids : PostSession(r, i) \/ DeleteSession(r, i)
              \/ HandlerStep(r)
              \/ CallerGone(r)
        \/ \E s \in Streams : StreamStep(s) \/ EnvoyConnect(s)
        \/ EnvoyDisconnect \/ EnvoyRestart \/ EnvoyApply \/ EnvoyReject
    BY <1>3 DEF Step
  <2> QED
    BY <1>1, <2>1, HandlerPreserves, StreamPreserves, EnvoyPreserves
<1> QED
  BY <1>2, <1>3

\* A process that has just started satisfies it.
LEMMA InitiallySound == Init => IInv
<1>1. Init => TypeOK
  BY XdsAckGateAssumption DEF Init, TypeOK, PcValues, TaskValues, NoRecords
<1>2. Init => VersionsExist /\ WrittenFirst /\ VersionsCover /\ AckGate
  BY DEF Init, VersionsExist, WrittenFirst, VersionsCover, Covers, Stands, AckGate, Empty
<1> QED
  BY <1>1, <1>2 DEF IInv

\* No handler of a control-plane process reports success before envoy has run a
\* Listener that reflects its mutation: for any number of concurrent handlers,
\* rollbacks, hang-ups, rejected pushes, disconnects and restarts of envoy.
THEOREM GateHolds == Spec => []AckGate
<1>1. IInv => AckGate
  BY DEF IInv
<1> QED
  BY <1>1, InitiallySound, Induction, PTL DEF Spec

-----------------------------------------------------------------------------
(* What the acknowledgement is worth.  AckGate says that some Listener envoy *)
(* ran reflects a mutation; whether the one it runs now does depends on what *)
(* the handlers have done to the record since, and on the order in which     *)
(* snapshots reach envoy.                                                    *)

\* The DELETE d is the last that heard of the record it removed: it has not put
\* it back, and unless it still may, nobody ever will.
Keeps(d) ==
    /\ held[d] # None
    /\ \/ pc[d] \in {"written", "bumped", "waiting", "undo"}
       \/ answer[d] = "removed"

\* A record is found under its own id, and comes from a request that was served.
Registered ==
    /\ \A i \in Ids : store[i] # None => store[i] \in written /\ id[store[i]] = i
    /\ \A r \in written : id[r] \in Ids /\ pc[r] # "idle"
    /\ \A r \in Requests : pc[r] = "undo" => r \in written
    /\ \A d \in Requests : held[d] # None =>
          d \in written /\ held[d] \in written /\ id[held[d]] = id[d]
    /\ \A d \in Requests : answer[d] = "removed" => held[d] # None /\ pc[d] = "done"

\* A record is in the store or kept by one DELETE, never both: without this a
\* rollback could bring back what another DELETE has reported removed.
Exclusive ==
    \A d \in Requests : Keeps(d) =>
        /\ \A i \in Ids : store[i] # held[d]
        /\ \A e \in Requests : Keeps(e) /\ held[e] = held[d] => e = d

\* An older snapshot recs, of the time the mutations in X had been made, agrees
\* with the present about the records no DELETE has touched and about those that
\* are kept.
Faithful(recs, X) ==
    /\ \A r \in X :
          (store[id[r]] = r /\ \A d \in Requests : held[d] # r) => recs[id[r]] = r
    /\ \A d \in X : Keeps(d) => \A i \in Ids : recs[i] # held[d]

\* The pushes in flight to an envoy that has learnt L are faithful, and each
\* knows at least what those before it know.
Queue(q, L) ==
    /\ \A k \in 1..Len(q) :
          /\ L \subseteq q[k].seen
          /\ q[k].seen \subseteq written
          /\ Faithful(q[k].recs, q[k].seen)
    /\ \A j, k \in 1..Len(q) : j <= k => q[j].seen \subseteq q[k].seen

\* What a configured envoy runs is faithful with respect to all it has learnt.
Views ==
    /\ learnt \subseteq written
    /\ \A s \in Streams : Queue(toEnvoy[s], learnt)
    /\ \A s \in Streams : s # conn => toEnvoy[s] = <<>>
    /\ has = Empty => enforced = NoRecords
    /\ has # Empty => Faithful(enforced, learnt)

EInv == IInv /\ Registered /\ Exclusive /\ Views

\* What no handler does to the requests served before: rename them, take up a
\* record they gave up, or bring back a record other than by a re-insert.
Onward ==
    /\ written \subseteq written' /\ written' \subseteq Requests
    /\ \A r \in written : id'[r] = id[r] /\ held'[r] = held[r]
    /\ \A d \in written : Keeps(d)' => Keeps(d)
    /\ \A r \in written :
          store'[id[r]] = r => store[id[r]] = r \/ \E d \in Requests : held[d] = r

\* A snapshot that was faithful stays so whatever the handlers do.
LEMMA FaithfulStays ==
    ASSUME TypeOK, Registered, Onward, NEW recs, NEW X \in SUBSET written, Faithful(recs, X)
    PROVE  /\ \A r \in X :
                 (store'[id'[r]] = r /\ \A d \in Requests : held'[d] # r) => recs[id'[r]] = r
           /\ \A d \in X : Keeps(d)' => \A i \in Ids : recs[i] # held'[d]
<1>1. \A d \in Requests : held[d] # None => held'[d] = held[d]
  BY DEF Registered, Onward
<1>2. ASSUME NEW r \in X, store'[id'[r]] = r, \A d \in Requests : held'[d] # r
      PROVE  recs[id'[r]] = r
  <2>1. r \in written /\ r \in Requests /\ id'[r] = id[r]
    BY DEF Onward, TypeOK
  <2>2. \A d \in Requests : held[d] # r
    BY <1>1, <1>2, <2>1, XdsAckGateAssumption
  <2>3. store[id[r]] = r
    BY <1>2, <2>1, <2>2 DEF Onward
  <2> QED
    BY <2>1, <2>2, <2>3 DEF Faithful
<1>3. ASSUME NEW d \in X, Keeps(d)', NEW i \in Ids
      PROVE  recs[i] # held'[d]
  <2>1. d \in written /\ held'[d] = held[d] /\ Keeps(d)
    BY <1>3 DEF Onward
  <2> QED
    BY <2>1 DEF Faithful
<1> QED
  BY <1>2, <1>3

\* Hence the handlers leave every view intact.
LEMMA HandlersKeepViews ==
    ASSUME TypeOK, Registered, Views, Onward,
           UNCHANGED <<toEnvoy, conn, has, enforced, learnt>>
    PROVE  Views'
<1>1. ASSUME NEW s \in Streams, NEW k \in 1..Len(toEnvoy[s])
      PROVE  Faithful(toEnvoy[s][k].recs, toEnvoy[s][k].seen)'
  <2>1. /\ toEnvoy[s][k].seen \in SUBSET written
        /\ Faithful(toEnvoy[s][k].recs, toEnvoy[s][k].seen)
    BY <1>1 DEF Views, Queue
  <2>2. /\ \A r \in toEnvoy[s][k].seen :
              (store'[id'[r]] = r /\ \A d \in Requests : held'[d] # r)
                 => toEnvoy[s][k].recs[id'[r]] = r
        /\ \A d \in toEnvoy[s][k].seen :
              Keeps(d)' => \A i \in Ids : toEnvoy[s][k].recs[i] # held'[d]
    BY <2>1, FaithfulStays
  <2>3. toEnvoy' = toEnvoy
    OBVIOUS
  <2> QED
    BY <2>2, <2>3 DEF Faithful
<1>2. ASSUME has # Empty PROVE Faithful(enforced, learnt)'
  <2>1. learnt \in SUBSET written /\ Faithful(enforced, learnt)
    BY <1>2 DEF Views
  <2> QED
    BY <2>1, FaithfulStays DEF Faithful
<1>3. \A s \in Streams : Queue(toEnvoy[s], learnt)'
  <2>1. \A s \in Streams : Queue(toEnvoy[s], learnt) /\ written \subseteq written'
    BY DEF Views, Onward
  <2> QED
    BY <1>1, <2>1 DEF Queue
<1>4. /\ (learnt \subseteq written)'
      /\ \A s \in Streams : s # conn' => toEnvoy'[s] = <<>>
      /\ has' = Empty => enforced' = NoRecords
  BY DEF Views, Onward, NoRecords
<1> QED
  BY <1>2, <1>3, <1>4 DEF Views, NoRecords

\* What the handlers do to the records, step by step.
\* A step that leaves the map alone, and takes up no record.
LEMMA QuietStep ==
    ASSUME EInv, TypeOK', NEW r \in Requests, NEW l \in PcValues,
           UNCHANGED <<store, id, held, written, toEnvoy, conn, has, enforced, learnt>>,
           pc' = [pc EXCEPT ![r] = l],
           l # "idle", pc[r] # "done",
           l \in {"written", "bumped", "waiting", "undo"} =>
               pc[r] \in {"written", "bumped", "waiting", "undo"} /\ r \in written,
           \A q \in Requests : answer'[q] = "removed" =>
               \/ answer[q] = "removed"
               \/ /\ q = r /\ l = "done" /\ held[r] # None
                  /\ pc[r] \in {"written", "bumped", "waiting", "undo"}
    PROVE  Registered' /\ Exclusive' /\ Views'
<1>1. TypeOK /\ Registered /\ Exclusive /\ Views /\ pc \in [Requests -> PcValues]
      /\ answer \in [Requests -> {"none", "created", "conflict", "removed",
                                  "notFound", "unavailable", "gone"}]
  BY DEF EInv, IInv, TypeOK
<1>2. \A d \in Requests : Keeps(d)' => Keeps(d)
  BY <1>1 DEF Keeps
<1>3. Registered'
  <2>1. \A q \in written : id'[q] \in Ids /\ pc'[q] # "idle"
    BY <1>1 DEF Registered, TypeOK
  <2>2. \A q \in Requests : pc'[q] = "undo" => q \in written
    BY <1>1 DEF Registered
  <2>3. \A d \in Requests : answer'[d] = "removed" => held[d] # None /\ pc'[d] = "done"
    BY <1>1 DEF Registered
  <2> QED
    BY <1>1, <2>1, <2>2, <2>3 DEF Registered
<1>4. Exclusive'
  BY <1>1, <1>2 DEF Exclusive
<1>5. Onward
  BY <1>1, <1>2 DEF Onward, TypeOK
<1> QED
  BY <1>1, <1>3, <1>4, <1>5, HandlersKeepViews

\* A POST inserts its record: nobody can have held it before.
LEMMA InsertStep ==
    ASSUME EInv, TypeOK', NEW r \in Requests, NEW i \in Ids,
           PostSession(r, i), store[i] = None
    PROVE  Registered' /\ Exclusive' /\ Views'
<1>1. TypeOK /\ Registered /\ Exclusive /\ Views
  BY DEF EInv, IInv
<1>2. /\ pc[r] = "idle" /\ pc' = [pc EXCEPT ![r] = "written"]
      /\ store' = [store EXCEPT ![i] = r]
      /\ id' = [id EXCEPT ![r] = i]
      /\ written' = written \cup {r}
      /\ UNCHANGED <<held, answer>>
      /\ UNCHANGED <<toEnvoy, conn, has, enforced, learnt>>
  BY DEF PostSession, Goto, streamVars, envoyVars
<1>3. /\ store \in [Ids -> Requests \cup {None}] /\ id \in [Requests -> Ids \cup {None}]
      /\ pc \in [Requests -> PcValues] /\ written \subseteq Requests
      /\ None \notin Requests /\ None \notin Ids
  BY <1>1, XdsAckGateAssumption DEF TypeOK
<1>4. r \notin written /\ held[r] = None /\ \A d \in Requests : held[d] # r
  BY <1>1, <1>2, <1>3 DEF Registered
<1>5. \A d \in Requests : Keeps(d)' => Keeps(d) /\ held'[d] = held[d]
  BY <1>2, <1>3, <1>4 DEF Keeps
<1>6. Registered'
  <2>1. \A k \in Ids : store'[k] # None => store'[k] \in written' /\ id'[store'[k]] = k
    BY <1>1, <1>2, <1>3, <1>4 DEF Registered
  <2>2. \A q \in written' : id'[q] \in Ids /\ pc'[q] # "idle"
    BY <1>1, <1>2, <1>3 DEF Registered
  <2>3. \A d \in Requests : held'[d] # None =>
           d \in written' /\ held'[d] \in written' /\ id'[held'[d]] = id'[d]
    BY <1>1, <1>2, <1>3, <1>4 DEF Registered
  <2>4. \A q \in Requests : pc'[q] = "undo" => q \in written'
    BY <1>1, <1>2, <1>3 DEF Registered
  <2>5. \A d \in Requests : answer'[d] = "removed" => held'[d] # None /\ pc'[d] = "done"
    BY <1>1, <1>2, <1>3 DEF Registered
  <2> QED
    BY <2>1, <2>2, <2>3, <2>4, <2>5 DEF Registered
<1>7. Exclusive'
  BY <1>1, <1>2, <1>3, <1>4, <1>5 DEF Exclusive
<1>8. Onward
  <2>1. \A q \in written : id'[q] = id[q] /\ held'[q] = held[q]
    BY <1>2, <1>3, <1>4
  <2>2. \A q \in written : store'[id[q]] = q => store[id[q]] = q
    BY <1>1, <1>2, <1>3, <1>4 DEF Registered
  <2> QED
    BY <1>2, <1>3, <1>5, <2>1, <2>2 DEF Onward
<1> QED
  BY <1>1, <1>2, <1>6, <1>7, <1>8, HandlersKeepViews

\* A DELETE takes a record out of the store: as it was there, no other DELETE
\* keeps it.
LEMMA RemoveStep ==
    ASSUME EInv, TypeOK', NEW r \in Requests, NEW i \in Ids,
           DeleteSession(r, i), store[i] # None
    PROVE  Registered' /\ Exclusive' /\ Views'
<1>1. TypeOK /\ Registered /\ Exclusive /\ Views
  BY DEF EInv, IInv
<1>2. /\ pc[r] = "idle" /\ pc' = [pc EXCEPT ![r] = "written"]
      /\ store' = [store EXCEPT ![i] = None]
      /\ held' = [held EXCEPT ![r] = store[i]]
      /\ id' = [id EXCEPT ![r] = i]
      /\ written' = written \cup {r}
      /\ UNCHANGED answer
      /\ UNCHANGED <<toEnvoy, conn, has, enforced, learnt>>
  BY DEF DeleteSession, Goto, streamVars, envoyVars
<1>3. /\ store \in [Ids -> Requests \cup {None}] /\ id \in [Requests -> Ids \cup {None}]
      /\ held \in [Requests -> Requests \cup {None}]
      /\ pc \in [Requests -> PcValues] /\ written \subseteq Requests
      /\ None \notin Requests /\ None \notin Ids
  BY <1>1, XdsAckGateAssumption DEF TypeOK
<1>4. /\ r \notin written /\ held[r] = None
      /\ store[i] \in written /\ id[store[i]] = i /\ store[i] # r
      /\ answer[r] # "removed"
  BY <1>1, <1>2, <1>3 DEF Registered
<1>5. \A d \in Requests \ {r} : held'[d] = held[d] /\ pc'[d] = pc[d] /\ (Keeps(d)' => Keeps(d))
  BY <1>2, <1>3 DEF Keeps
<1>6. Registered'
  <2>1. \A k \in Ids : store'[k] # None => store'[k] \in written' /\ id'[store'[k]] = k
    BY <1>1, <1>2, <1>3, <1>4 DEF Registered
  <2>2. \A q \in written' : id'[q] \in Ids /\ pc'[q] # "idle"
    BY <1>1, <1>2, <1>3 DEF Registered
  <2>3. \A d \in Requests : held'[d] # None =>
           d \in written' /\ held'[d] \in written' /\ id'[held'[d]] = id'[d]
    BY <1>1, <1>2, <1>3, <1>4 DEF Registered
  <2>4. \A q \in Requests : pc'[q] = "undo" => q \in written'
    BY <1>1, <1>2, <1>3 DEF Registered
  <2>5. \A d \in Requests : answer'[d] = "removed" => held'[d] # None /\ pc'[d] = "done"
    BY <1>1, <1>2, <1>3, <1>4 DEF Registered
  <2> QED
    BY <2>1, <2>2, <2>3, <2>4, <2>5 DEF Registered
<1>7. Exclusive'
  <2>1. \A k \in Ids : store'[k] # store[i]
    BY <1>1, <1>2, <1>3 DEF Registered
  <2>2. \A d \in Requests \ {r} : Keeps(d)' => held[d] # store[i]
    BY <1>1, <1>5 DEF Exclusive
  <2>3. ASSUME NEW d \in Requests, Keeps(d)'
        PROVE  /\ \A k \in Ids : store'[k] # held'[d]
               /\ \A e \in Requests : Keeps(e)' /\ held'[e] = held'[d] => e = d
    <3>1. CASE d = r
      BY <1>2, <1>3, <1>5, <2>1, <2>2, <3>1
    <3>2. CASE d # r
      <4>1. Keeps(d) /\ held'[d] = held[d] /\ held[d] # store[i]
        BY <1>5, <2>2, <2>3, <3>2
      <4>2. held[d] # None
        BY <4>1 DEF Keeps
      <4> QED
        BY <1>1, <1>2, <1>3, <1>5, <3>2, <4>1, <4>2 DEF Exclusive
    <3> QED
      BY <3>1, <3>2
  <2> QED
    BY <2>3 DEF Exclusive
<1>8. Onward
  <2>1. \A q \in written : id'[q] = id[q] /\ held'[q] = held[q] /\ (Keeps(q)' => Keeps(q))
    BY <1>2, <1>3, <1>4, <1>5
  <2>2. \A q \in written : store'[id[q]] = q => store[id[q]] = q
    BY <1>1, <1>2, <1>3, <1>4 DEF Registered
  <2> QED
    BY <1>2, <1>3, <2>1, <2>2 DEF Onward
<1> QED
  BY <1>1, <1>2, <1>6, <1>7, <1>8, HandlersKeepViews

\* A rollback empties or fills the slot of its id.  What it fills it with is the
\* record it kept, and it keeps it no longer.
LEMMA UndoStep ==
    ASSUME EInv, TypeOK', NEW r \in Requests, Undo(r),
           (held[r] = None) # (store[id[r]] = None)
    PROVE  Registered' /\ Exclusive' /\ Views'
<1>1. TypeOK /\ Registered /\ Exclusive /\ Views
  BY DEF EInv, IInv
<1>2. /\ pc[r] = "undo" /\ pc' = [pc EXCEPT ![r] = "undone"]
      /\ store' = [store EXCEPT ![id[r]] = held[r]]
      /\ UNCHANGED <<id, held, answer, written>>
      /\ UNCHANGED <<toEnvoy, conn, has, enforced, learnt>>
  BY DEF Undo, Goto, streamVars, envoyVars, historyVars
<1>3. /\ store \in [Ids -> Requests \cup {None}] /\ id \in [Requests -> Ids \cup {None}]
      /\ held \in [Requests -> Requests \cup {None}]
      /\ pc \in [Requests -> PcValues] /\ written \subseteq Requests
      /\ None \notin Requests /\ None \notin Ids
  BY <1>1, XdsAckGateAssumption DEF TypeOK
<1>4. r \in written /\ id[r] \in Ids
  BY <1>1, <1>2 DEF Registered
<1>5. \A d \in Requests : Keeps(d)' => Keeps(d)
  BY <1>2, <1>3 DEF Keeps
<1>6. Registered'
  <2>1. \A k \in Ids : store'[k] # None => store'[k] \in written' /\ id'[store'[k]] = k
    BY <1>1, <1>2, <1>3, <1>4 DEF Registered
  <2>2. \A q \in written' : id'[q] \in Ids /\ pc'[q] # "idle"
    BY <1>1, <1>2, <1>3 DEF Registered
  <2>3. \A q \in Requests : pc'[q] = "undo" => q \in written'
    BY <1>1, <1>2, <1>3 DEF Registered
  <2>4. \A d \in Requests : answer'[d] = "removed" => held'[d] # None /\ pc'[d] = "done"
    BY <1>1, <1>2, <1>3 DEF Registered
  <2> QED
    BY <1>1, <1>2, <2>1, <2>2, <2>3, <2>4 DEF Registered
<1>7. Exclusive'
  <2>1. ASSUME NEW d \in Requests, Keeps(d)'
        PROVE  \A k \in Ids : store'[k] # held'[d]
    <3>1. Keeps(d) /\ d # r /\ held[d] # None
      BY <1>1, <1>2, <1>3, <1>5, <2>1 DEF Keeps, Registered
    <3>2. held[r] # None => Keeps(r)
      BY <1>2 DEF Keeps
    <3>3. held[d] # held[r]
      BY <1>1, <3>1, <3>2 DEF Exclusive
    <3> QED
      BY <1>1, <1>2, <1>3, <1>4, <3>1, <3>3 DEF Exclusive
  <2> QED
    BY <1>1, <1>2, <1>5, <2>1 DEF Exclusive
<1>8. Onward
  <2>1. \A q \in written : store'[id[q]] = q =>
                              store[id[q]] = q \/ \E d \in Requests : held[d] = q
    BY <1>2, <1>3, <1>4
  <2> QED
    BY <1>2, <1>3, <1>5, <2>1 DEF Onward
<1> QED
  BY <1>1, <1>2, <1>6, <1>7, <1>8, HandlersKeepViews

\* A refused or dropped handler, or one that goes on, is a quiet step; a granted
\* DELETE is one that keeps its record for good.
LEMMA HandlersKeepRecords ==
    ASSUME EInv, TypeOK', NEW r \in Requests,
           \/ \E i \in Ids : PostSession(r, i) \/ DeleteSession(r, i)
           \/ HandlerStep(r)
           \/ CallerGone(r)
    PROVE  Registered' /\ Exclusive' /\ Views'
<1> USE DEF PcValues, streamVars, envoyVars, historyVars, storeVars
<1>0. ASSUME NEW a, answer' = [answer EXCEPT ![r] = a], a # "removed"
      PROVE  \A q \in Requests : answer'[q] = "removed" => answer[q] = "removed"
  BY <1>0 DEF EInv, IInv, TypeOK
<1>1. ASSUME NEW i \in Ids, PostSession(r, i) PROVE Registered' /\ Exclusive' /\ Views'
  <2>1. CASE store[i] # None
    <3>1. /\ pc[r] = "idle" /\ pc' = [pc EXCEPT ![r] = "done"]
          /\ answer' = [answer EXCEPT ![r] = "conflict"]
          /\ UNCHANGED <<store, id, held, written, toEnvoy, conn, has, enforced, learnt>>
      BY <1>1, <2>1 DEF PostSession, Answer
    <3> QED
      BY <1>0, <3>1, QuietStep
  <2> QED
    BY <1>1, <2>1, InsertStep
<1>2. ASSUME NEW i \in Ids, DeleteSession(r, i) PROVE Registered' /\ Exclusive' /\ Views'
  <2>1. CASE store[i] = None
    <3>1. /\ pc[r] = "idle" /\ pc' = [pc EXCEPT ![r] = "done"]
          /\ answer' = [answer EXCEPT ![r] = "notFound"]
          /\ UNCHANGED <<store, id, held, written, toEnvoy, conn, has, enforced, learnt>>
      BY <1>2, <2>1 DEF DeleteSession, Answer
    <3> QED
      BY <1>0, <3>1, QuietStep
  <2> QED
    BY <1>2, <2>1, RemoveStep
<1>3. ASSUME pc[r] \in {"written", "bumped", "waiting"} PROVE r \in written
  BY <1>3 DEF EInv, IInv, WrittenFirst
<1>4. pc \in [Requests -> PcValues]
  BY DEF EInv, IInv, TypeOK
<1>5. CASE BumpAfterWrite(r)
  <2>1. /\ pc[r] = "written" /\ pc' = [pc EXCEPT ![r] = "bumped"]
        /\ UNCHANGED <<store, id, held, written, toEnvoy, conn, has, enforced, learnt, answer>>
    BY <1>5 DEF BumpAfterWrite, Goto
  <2> QED
    BY <1>3, <2>1, QuietStep
<1>6. ASSUME pc[r] \in {"bumped", "waiting"},
             UNCHANGED <<store, id, held, written, toEnvoy, conn, has, enforced, learnt>>,
             \/ Goto(r, "undo")
             \/ Answer(r, Granted(r))
             \/ Goto(r, "waiting")
             \/ UNCHANGED <<pc, answer>>
      PROVE  Registered' /\ Exclusive' /\ Views'
  <2>1. CASE Goto(r, "undo")
    BY <1>3, <1>6, <2>1, QuietStep DEF Goto
  <2>2. CASE Answer(r, Granted(r))
    <3>1. /\ pc' = [pc EXCEPT ![r] = "done"]
          /\ answer' = [answer EXCEPT ![r] = Granted(r)]
          /\ answer \in [Requests -> {"none", "created", "conflict", "removed",
                                      "notFound", "unavailable", "gone"}]
      BY <2>2 DEF Answer, EInv, IInv, TypeOK
    <3>2. \A q \in Requests : answer'[q] = "removed" =>
             \/ answer[q] = "removed"
             \/ /\ q = r /\ held[r] # None
                /\ pc[r] \in {"written", "bumped", "waiting", "undo"}
      BY <1>6, <3>1 DEF Granted
    <3>3. pc[r] # "done" /\ "done" \in PcValues
      BY <1>6
    <3> HIDE DEF PcValues
    <3> QED
      BY <1>6, <3>1, <3>2, <3>3, QuietStep
  <2>3. CASE Goto(r, "waiting")
    BY <1>3, <1>6, <2>3, QuietStep DEF Goto
  <2>4. CASE UNCHANGED <<pc, answer>>
    <3>1. /\ pc' = [pc EXCEPT ![r] = pc[r]] /\ pc[r] \in PcValues
          /\ pc[r] # "idle" /\ pc[r] # "done"
          /\ pc[r] \in {"written", "bumped", "waiting", "undo"}
          /\ r \in written
      BY <1>3, <1>4, <1>6, <2>4
    <3>2. \A q \in Requests : answer'[q] = "removed" => answer[q] = "removed"
      BY <2>4
    <3> HIDE DEF PcValues
    <3> QED
      BY <1>6, <3>1, <3>2, QuietStep
  <2> QED
    BY <1>6, <2>1, <2>2, <2>3, <2>4
<1>7. CASE StartWait(r)
  BY <1>6, <1>7 DEF StartWait
<1>8. CASE AckChanged(r)
  BY <1>6, <1>8 DEF AckChanged
<1>9. CASE AckTimeout(r)
  BY <1>6, <1>9 DEF AckTimeout
<1>10. CASE Undo(r)
  <2>1. CASE (held[r] = None) <=> (store[id[r]] = None)
    <3>1. /\ pc[r] = "undo" /\ pc' = [pc EXCEPT ![r] = "done"]
          /\ answer' = [answer EXCEPT ![r] = "unavailable"]
          /\ UNCHANGED <<store, id, held, written, toEnvoy, conn, has, enforced, learnt>>
      BY <1>10, <2>1 DEF Undo, Answer
    <3> QED
      BY <1>0, <3>1, QuietStep
  <2> QED
    BY <1>10, <2>1, UndoStep
<1>11. CASE BumpAfterUndo(r)
  <2>1. /\ pc[r] = "undone" /\ pc' = [pc EXCEPT ![r] = "done"]
        /\ answer' = [answer EXCEPT ![r] = "unavailable"]
        /\ UNCHANGED <<store, id, held, written, toEnvoy, conn, has, enforced, learnt>>
    BY <1>11 DEF BumpAfterUndo, Answer
  <2> QED
    BY <1>0, <2>1, QuietStep
<1>12. CASE CallerGone(r)
  <2>1. /\ pc[r] \in {"waiting", "undo"} /\ pc' = [pc EXCEPT ![r] = "done"]
        /\ answer' = [answer EXCEPT ![r] = "gone"]
        /\ UNCHANGED <<store, id, held, written, toEnvoy, conn, has, enforced, learnt>>
    BY <1>12 DEF CallerGone, Answer
  <2> QED
    BY <1>0, <2>1, QuietStep
<1> QED
  BY <1>1, <1>2, <1>5, <1>7, <1>8, <1>9, <1>10, <1>11, <1>12 DEF HandlerStep

\* A push built now knows everything and agrees with everything.
LEMMA SnapshotIsFaithful ==
    ASSUME EInv
    PROVE  Faithful(store, written)
  BY DEF EInv, Exclusive, Faithful, IInv, TypeOK

\* A faithful push may be queued behind others, and the head of a queue may be
\* applied or rejected: those behind it know all that it knows.
LEMMA QueueSteps ==
    ASSUME NEW q \in Seq(Push), NEW L, Queue(q, L)
    PROVE  /\ Queue(<<>>, L)
           /\ \A p \in Push :
                 p.seen = written /\ L \subseteq written /\ Faithful(p.recs, p.seen)
                    => Queue(Append(q, p), L)
           /\ q # <<>> => /\ Queue(Tail(q), L)
                          /\ Queue(Tail(q), L \cup Head(q).seen)
                          /\ L \subseteq Head(q).seen
                          /\ Head(q).seen \subseteq written
                          /\ Faithful(Head(q).recs, Head(q).seen)
<1>1. Queue(<<>>, L)
  BY DEF Queue
<1>2. ASSUME NEW p \in Push, p.seen = written, L \subseteq written, Faithful(p.recs, p.seen)
      PROVE  Queue(Append(q, p), L)
  <2>1. /\ Len(Append(q, p)) = Len(q) + 1 /\ Len(q) \in Nat
        /\ \A k \in 1..Len(q) : Append(q, p)[k] = q[k]
        /\ Append(q, p)[Len(q) + 1] = p
    OBVIOUS
  <2>2. ASSUME NEW k \in 1..Len(Append(q, p))
        PROVE  /\ L \subseteq Append(q, p)[k].seen
               /\ Append(q, p)[k].seen \subseteq written
               /\ Faithful(Append(q, p)[k].recs, Append(q, p)[k].seen)
    <3>1. CASE k \in 1..Len(q)
      BY <2>1, <3>1 DEF Queue
    <3>2. CASE k = Len(q) + 1
      BY <1>2, <2>1, <3>2
    <3> QED
      BY <2>1, <3>1, <3>2
  <2>3. ASSUME NEW j \in 1..Len(Append(q, p)), NEW k \in 1..Len(Append(q, p)), j <= k
        PROVE  Append(q, p)[j].seen \subseteq Append(q, p)[k].seen
    <3>1. CASE k \in 1..Len(q)
      <4>1. j \in 1..Len(q)
        BY <2>1, <2>3, <3>1
      <4> QED
        BY <2>1, <2>3, <3>1, <4>1 DEF Queue
    <3>2. CASE k = Len(q) + 1
      BY <1>2, <2>1, <2>2, <3>2
    <3> QED
      BY <2>1, <3>1, <3>2
  <2> QED
    BY <2>2, <2>3 DEF Queue
<1>3. ASSUME q # <<>>
      PROVE  /\ Queue(Tail(q), L)
             /\ Queue(Tail(q), L \cup Head(q).seen)
             /\ L \subseteq Head(q).seen
             /\ Head(q).seen \subseteq written
             /\ Faithful(Head(q).recs, Head(q).seen)
  <2>1. /\ Len(q) \in Nat /\ 1 \in 1..Len(q) /\ q[1] = Head(q)
        /\ \A k \in 1..Len(Tail(q)) : k + 1 \in 1..Len(q) /\ Tail(q)[k] = q[k + 1]
    BY <1>3, TailElements
  <2>2. \A k \in 1..Len(Tail(q)) :
          /\ L \cup Head(q).seen \subseteq Tail(q)[k].seen
          /\ Tail(q)[k].seen \subseteq written
          /\ Faithful(Tail(q)[k].recs, Tail(q)[k].seen)
    <3>1. \A k \in 1..Len(Tail(q)) : q[1].seen \subseteq q[k + 1].seen
      BY <2>1 DEF Queue
    <3> QED
      BY <2>1, <3>1 DEF Queue
  <2>3. \A j, k \in 1..Len(Tail(q)) : j <= k => Tail(q)[j].seen \subseteq Tail(q)[k].seen
    <3> SUFFICES ASSUME NEW j \in 1..Len(Tail(q)), NEW k \in 1..Len(Tail(q)), j <= k
                 PROVE  Tail(q)[j].seen \subseteq Tail(q)[k].seen
      OBVIOUS
    <3>1. j + 1 <= k + 1 /\ j + 1 \in 1..Len(q) /\ k + 1 \in 1..Len(q)
      BY <2>1
    <3> QED
      BY <2>1, <3>1 DEF Queue
  <2>4. Queue(Tail(q), L) /\ Queue(Tail(q), L \cup Head(q).seen)
    BY <2>2, <2>3 DEF Queue
  <2> QED
    BY <2>1, <2>4 DEF Queue
<1> QED
  BY <1>1, <1>2, <1>3

\* What the steps of the stream tasks and of envoy have in common: they touch no
\* record, and leave faithful views behind.
LEMMA OthersKeepRecords ==
    ASSUME EInv, UNCHANGED <<store, handlerVars, written>>,
           learnt' \subseteq written,
           \A s \in Streams : Queue(toEnvoy'[s], learnt'),
           \A s \in Streams : s # conn' => toEnvoy'[s] = <<>>,
           has' = Empty => enforced' = NoRecords,
           has' # Empty => Faithful(enforced', learnt')
    PROVE  Registered' /\ Exclusive' /\ Views'
<1>1. /\ store' = store /\ written' = written /\ pc' = pc /\ id' = id /\ held' = held
      /\ answer' = answer
  BY DEF handlerVars
<1>2. Registered' /\ Exclusive'
  BY <1>1 DEF EInv, Registered, Exclusive, Keeps
<1>3. \A s \in Streams : Queue(toEnvoy[s], learnt)'
  BY <1>1 DEF Queue, Faithful, Keeps
<1>4. has' # Empty => Faithful(enforced, learnt)'
  BY <1>1 DEF Faithful, Keeps
<1> QED
  BY <1>1, <1>2, <1>3, <1>4 DEF Views, NoRecords, Empty

\* A snapshot is queued behind the pushes before it; a stream that closes has
\* lost its envoy.
LEMMA StreamsKeepRecords ==
    ASSUME EInv, NEW s \in Streams, StreamStep(s) \/ EnvoyConnect(s)
    PROVE  Registered' /\ Exclusive' /\ Views'
<1> USE DEF envoyVars, historyVars, storeVars
<1>1. UNCHANGED <<store, handlerVars, written, learnt, has, enforced>>
  BY DEF StreamStep, StreamStart, Inbound, GenerationChanged, SnapshotAndPush,
         StreamClosed, EnvoyConnect
<1>2. /\ learnt \subseteq written
      /\ \A t \in Streams : Queue(toEnvoy[t], learnt)
      /\ \A t \in Streams : t # conn => toEnvoy[t] = <<>>
      /\ has = Empty => enforced = NoRecords
      /\ has # Empty => Faithful(enforced, learnt)
      /\ toEnvoy \in [Streams -> Seq(Push)]
  BY DEF EInv, Views, IInv, TypeOK
<1>3. CASE UNCHANGED <<toEnvoy, conn>>
  BY <1>1, <1>2, <1>3, OthersKeepRecords
<1>4. CASE SnapshotAndPush(s)
  <2> DEFINE p == [ver |-> ver[s], recs |-> store, seen |-> written]
  <2>1. /\ UNCHANGED conn /\ conn = s
        /\ toEnvoy' = [toEnvoy EXCEPT ![s] = Append(toEnvoy[s], p)]
    BY <1>4 DEF SnapshotAndPush
  <2>2. p \in Push /\ p.seen = written /\ p.recs = store
    BY DEF EInv, IInv, TypeOK, Push
  <2>3. Faithful(p.recs, p.seen)
    BY <2>2, SnapshotIsFaithful
  <2> HIDE DEF p
  <2>4. Queue(Append(toEnvoy[s], p), learnt)
    BY <1>2, <2>2, <2>3, QueueSteps
  <2>5. \A t \in Streams : Queue(toEnvoy'[t], learnt')
    BY <1>1, <1>2, <2>1, <2>4
  <2>6. \A t \in Streams : t # conn' => toEnvoy'[t] = <<>>
    BY <1>2, <2>1
  <2> QED
    BY <1>1, <1>2, <2>5, <2>6, OthersKeepRecords
<1>5. CASE StreamClosed(s)
  <2>1. /\ UNCHANGED conn
        /\ toEnvoy' = [toEnvoy EXCEPT ![s] = <<>>]
    BY <1>5 DEF StreamClosed
  <2>2. Queue(<<>>, learnt)
    BY <1>2, QueueSteps
  <2>3. \A t \in Streams : Queue(toEnvoy'[t], learnt')
    BY <1>1, <1>2, <2>1, <2>2
  <2>4. \A t \in Streams : t # conn' => toEnvoy'[t] = <<>>
    BY <1>2, <2>1
  <2> QED
    BY <1>1, <1>2, <2>3, <2>4, OthersKeepRecords
<1>6. CASE EnvoyConnect(s)
  <2>1. toEnvoy' = toEnvoy /\ conn = 0
    BY <1>6 DEF EnvoyConnect
  <2>2. \A t \in Streams : t # conn
    BY <2>1, XdsAckGateAssumption DEF Streams
  <2> QED
    BY <1>1, <1>2, <2>1, <2>2, OthersKeepRecords
<1> QED
  BY <1>3, <1>4, <1>5, <1>6 DEF StreamStep, StreamStart, Inbound, GenerationChanged

\* Envoy applies pushes in the order they were taken, so what it comes to run
\* knows all it ever learnt; an envoy that restarts runs nothing.
LEMMA EnvoyKeepsRecords ==
    ASSUME EInv, EnvoyDisconnect \/ EnvoyRestart \/ EnvoyApply \/ EnvoyReject
    PROVE  Registered' /\ Exclusive' /\ Views'
<1> USE DEF historyVars, storeVars, streamVars
<1>1. UNCHANGED <<store, handlerVars, written>>
  BY DEF EnvoyDisconnect, EnvoyRestart, EnvoyApply, EnvoyReject
<1>2. /\ learnt \subseteq written
      /\ \A t \in Streams : Queue(toEnvoy[t], learnt)
      /\ \A t \in Streams : t # conn => toEnvoy[t] = <<>>
      /\ has = Empty => enforced = NoRecords
      /\ has # Empty => Faithful(enforced, learnt)
      /\ toEnvoy \in [Streams -> Seq(Push)]
      /\ conn \in 0..MaxStreams
  BY DEF EInv, Views, IInv, TypeOK
<1>3. CASE EnvoyDisconnect
  <2>1. /\ UNCHANGED <<learnt, has, enforced>> /\ conn # 0
        /\ toEnvoy' = [toEnvoy EXCEPT ![conn] = <<>>]
    BY <1>3 DEF EnvoyDisconnect
  <2>2. conn \in Streams
    BY <1>2, <2>1, XdsAckGateAssumption DEF Streams
  <2>3. Queue(<<>>, learnt)
    BY <1>2, <2>2, QueueSteps
  <2>4. \A t \in Streams : Queue(toEnvoy'[t], learnt')
    BY <1>2, <2>1, <2>2, <2>3
  <2>5. \A t \in Streams : toEnvoy'[t] = <<>>
    BY <1>2, <2>1
  <2> QED
    BY <1>1, <1>2, <2>1, <2>4, <2>5, OthersKeepRecords
<1>4. CASE EnvoyRestart
  <2>1. /\ UNCHANGED <<learnt, toEnvoy, conn>>
        /\ has' = Empty /\ enforced' = NoRecords
    BY <1>4 DEF EnvoyRestart
  <2> QED
    BY <1>1, <1>2, <2>1, OthersKeepRecords
<1>5. ASSUME EnvoyApply \/ EnvoyReject
      PROVE  /\ conn' = conn /\ conn \in Streams /\ toEnvoy[conn] # <<>>
             /\ toEnvoy' = [toEnvoy EXCEPT ![conn] = Tail(toEnvoy[conn])]
             /\ \A t \in Streams : t # conn' => toEnvoy'[t] = <<>>
             /\ Queue(toEnvoy[conn], learnt)
             /\ toEnvoy[conn] \in Seq(Push)
  <2>1. /\ conn' = conn /\ conn # 0 /\ toEnvoy[conn] # <<>>
        /\ toEnvoy' = [toEnvoy EXCEPT ![conn] = Tail(toEnvoy[conn])]
    BY <1>5 DEF EnvoyApply, EnvoyReject
  <2>2. conn \in Streams
    BY <1>2, <2>1, XdsAckGateAssumption DEF Streams
  <2> QED
    BY <1>2, <2>1, <2>2
<1>6. CASE EnvoyApply
  <2> DEFINE p == Head(toEnvoy[conn])
  <2>1. /\ has' = p.ver /\ enforced' = p.recs
        /\ learnt' = learnt \cup p.seen
    BY <1>6 DEF EnvoyApply
  <2>2. /\ Queue(Tail(toEnvoy[conn]), learnt \cup p.seen)
        /\ learnt \subseteq p.seen /\ p.seen \subseteq written
        /\ Faithful(p.recs, p.seen)
    BY <1>5, <1>6, QueueSteps
  <2>3. p \in Push
    BY <1>5, <1>6, TailElements
  <2>4. has' # Empty
    BY <2>1, <2>3 DEF Push, Empty
  <2> HIDE DEF p
  <2>5. learnt' = p.seen
    BY <2>1, <2>2
  <2>6. \A t \in Streams : Queue(toEnvoy'[t], learnt')
    <3> SUFFICES ASSUME NEW t \in Streams PROVE Queue(toEnvoy'[t], learnt')
      OBVIOUS
    <3>1. CASE t = conn
      BY <1>2, <1>5, <1>6, <2>1, <2>2, <3>1
    <3>2. CASE t # conn
      <4>1. toEnvoy'[t] = <<>>
        BY <1>5, <1>6, <3>2
      <4> QED
        BY <4>1 DEF Queue
    <3> QED
      BY <3>1, <3>2
  <2> QED
    BY <1>1, <1>5, <1>6, <2>1, <2>2, <2>4, <2>5, <2>6, OthersKeepRecords
<1>7. CASE EnvoyReject
  <2>1. UNCHANGED <<learnt, has, enforced>>
    BY <1>7 DEF EnvoyReject
  <2>2. Queue(Tail(toEnvoy[conn]), learnt)
    BY <1>5, <1>7, QueueSteps
  <2>3. \A t \in Streams : Queue(toEnvoy'[t], learnt')
    BY <1>2, <1>5, <1>7, <2>1, <2>2
  <2> QED
    BY <1>1, <1>2, <1>5, <1>7, <2>1, <2>3, OthersKeepRecords
<1> QED
  BY <1>3, <1>4, <1>6, <1>7

\* EInv is inductive.
LEMMA RecordsInduction == EInv /\ [Step]_vars => EInv'
<1> SUFFICES ASSUME EInv, [Step]_vars PROVE EInv'
  OBVIOUS
<1>1. IInv' /\ TypeOK'
  BY Induction, TypeStep DEF EInv, IInv
<1>2. CASE UNCHANGED vars
  <2>1. /\ UNCHANGED <<store, handlerVars, written, learnt, toEnvoy, conn, has, enforced>>
    BY <1>2 DEF vars, storeVars, streamVars, envoyVars, historyVars
  <2>2. Registered' /\ Exclusive' /\ Views'
    BY <2>1, OthersKeepRecords DEF EInv, Views
  <2> QED
    BY <1>1, <2>2 DEF EInv
<1>3. CASE Step
  <2>1. \/ \E r \in Requests :
              \/ \E i \in Ids : PostSession(r, i) \/ DeleteSession(r, i)
              \/ HandlerStep(r)
              \/ CallerGone(r)
        \/ \E s \in Streams : StreamStep(s) \/ EnvoyConnect(s)
        \/ EnvoyDisconnect \/ EnvoyRestart \/ EnvoyApply \/ EnvoyReject
    BY <1>3 DEF Step
  <2>2. Registered' /\ Exclusive' /\ Views'
    BY <1>1, <2>1, HandlersKeepRecords, StreamsKeepRecords, EnvoyKeepsRecords
  <2> QED
    BY <1>1, <2>2 DEF EInv
<1> QED
  BY <1>2, <1>3

\* The invariant holds of every behaviour of a control-plane process.
LEMMA RecordsInvariant == Spec => []EInv
<1>1. Init => EInv
  <2> SUFFICES ASSUME Init PROVE EInv
    OBVIOUS
  <2>1. IInv
    BY InitiallySound
  <2>2. Registered /\ Exclusive
    BY DEF Init, Registered, Exclusive, Keeps, NoRecords
  <2>3. Views
    BY DEF Init, Views, Queue, Empty
  <2> QED
    BY <2>1, <2>2, <2>3 DEF EInv
<1> QED
  BY <1>1, RecordsInduction, PTL DEF Spec

\* A session whose creation was reported is part of whatever Listener a
\* configured envoy runs, as long as its record stays in the store and no DELETE
\* has taken it up: for any number of requests, ids and connections.
THEOREM AnnouncedStaysEnforced == Spec => []AnnouncedIsEnforced
<1>1. EInv => AnnouncedIsEnforced
  <2> SUFFICES ASSUME EInv, NEW r \in Requests, NEW i \in Ids,
                      answer[r] = "created", has # Empty, store[i] = r,
                      \A d \in Requests : held[d] # r
               PROVE  \E k \in Ids : enforced[k] = r
    BY DEF AnnouncedIsEnforced
  <2>1. r \in learnt /\ Faithful(enforced, learnt)
    BY DEF EInv, IInv, AckGate, Views
  <2>2. id[r] = i
    BY XdsAckGateAssumption DEF EInv, Registered
  <2> QED
    BY <2>1, <2>2 DEF Faithful
<1> QED
  BY <1>1, RecordsInvariant, PTL

\* After the 200 to a DELETE no Listener envoy runs holds the record it removed,
\* whatever rollbacks, reconnects and late pushes follow.
THEOREM RemovedStaysRemoved == Spec => []RemovedIsNotEnforced
<1>1. EInv => RemovedIsNotEnforced
  <2> SUFFICES ASSUME EInv, NEW d \in Requests, NEW i \in Ids, answer[d] = "removed"
               PROVE  enforced[i] # held[d]
    BY DEF RemovedIsNotEnforced
  <2>1. d \in learnt /\ Keeps(d) /\ held[d] # None
    BY DEF EInv, IInv, AckGate, Registered, Keeps
  <2>2. CASE has = Empty
    BY <2>1, <2>2 DEF EInv, Views, NoRecords
  <2>3. CASE has # Empty
    BY <2>1, <2>3 DEF EInv, Views, Faithful
  <2> QED
    BY <2>2, <2>3
<1> QED
  BY <1>1, RecordsInvariant, PTL
=============================================================================
