------------------------ MODULE ContainerLaunchProofs ------------------------
(***************************************************************************)
(* For any number of agents, bind requests, reapers and restarts: a        *)
(* running container has its secrets, the recorded agent is the one the    *)
(* container sees, and a teardown left alone is complete.                  *)
(*                                                                         *)
(* The inductive invariant relates the handlers to what they have done to  *)
(* the container and the mounts.  Ordered says which handlers can be there *)
(* together; Delivered follows the launch; Stacked bounds the mounts by    *)
(* what the check of a bind saw; Bound and Cleared are the two arguments   *)
(* proper, about binds before the first teardown and about a teardown no   *)
(* bind overlaps.                                                          *)
(***************************************************************************)
EXTENDS ContainerLaunch, TLAPS

Ordered ==
    /\ launch \in LaunchSteps =>
         session \in {"waiting", "over"} /\ agentId = None /\ \A b \in Binds : bind[b] = "none"
    /\ launch = "none" => session = "new"
    /\ session = "new" => launch = "none" /\ agentId = None
    /\ session \in {"new", "waiting"} =>
         /\ agentId = None
         /\ \A b \in Binds : bind[b] = "none"
         /\ \A t \in Teardowns : teardown[t] = "none"
    /\ session \in {"probing", "routed"} => launch = "ended"
    /\ (\E t \in Teardowns : teardown[t] # "none") => launch = "ended"

Delivered ==
    /\ launch \in {"none", "inspect", "stage"} => container = "none" /\ mounts = <<>>
    /\ launch = "create" => container = "none"
    /\ launch \in {"upload", "discard"} => container # "running"
    /\ launch = "start" => secrets
    /\ container = "running" => secrets

Asking ==
    \A b \in Binds : bind[b] \in {"check", "mount", "ok"} => asks[b] \in Agents

Stacked ==
    /\ Len(mounts) <= 2
    /\ Len(mounts) = 2 => mounts[2] \in Agents
    /\ \A b \in Binds : bind[b] = "mount" => Len(mounts) <= 1
    /\ \A b, o \in Binds : bind[b] = "mount" /\ bind[o] = "mount" => b = o

Bound ==
    (\A t \in Teardowns : teardown[t] = "none") =>
        /\ \A b \in Binds : bind[b] = "mount" => Visible = None
        /\ \A b \in Binds : bind[b] = "ok" => Visible = asks[b]
        /\ agentId # None => Visible = agentId

Cleared ==
    \A t \in sole :
        /\ teardown[t] # "none"
        /\ InTeardown(t) => \A b \in Binds : ~Binding(b)
        /\ teardown[t] \in {"umount", "again", "rmdir"} => container = "none"
        /\ teardown[t] = "again" => Len(mounts) <= 1
        /\ teardown[t] = "rmdir" => mounts = <<>>

CInv ==
    /\ TypeOK /\ Ordered /\ Delivered /\ Asking
    /\ ~overlapped => Stacked /\ Bound /\ Cleared

LEMMA InitCInv == Init => CInv
<1> SUFFICES ASSUME Init PROVE CInv
  OBVIOUS
<1>1. TypeOK
  <2>1. mounts \in Seq(Agents \cup {None})
    BY DEF Init
  <2>2. secrets \in BOOLEAN /\ dir \in BOOLEAN /\ overlapped \in BOOLEAN
    BY DEF Init
  <2> QED
    BY <2>1, <2>2 DEF Init, TypeOK
<1>2. Ordered /\ Delivered /\ Asking
  BY DEF Init, Ordered, Delivered, Asking, LaunchSteps
<1>3. Stacked /\ Bound /\ Cleared
  BY DEF Init, Stacked, Bound, Cleared
<1> QED
  BY <1>1, <1>2, <1>3 DEF CInv

-----------------------------------------------------------------------------

\* A step of the launch before the session can be bound or torn down: only
\* the launch's own conjuncts are at stake.
LEMMA LaunchStep ==
    ASSUME CInv,
           \/ LaunchSession \/ Inspect \/ CreateContainer \/ UploadSecrets
           \/ DiscardContainer \/ StartContainer \/ InspectAddress
           \/ LaunchAnswered \/ LaunchFailed \/ LaunchDropped
    PROVE  CInv'
<1> USE DEF staging, broker, history, LaunchSteps
<1>1. UNCHANGED <<dir, mounts, bind, asks, teardown, agentId, overlapped, sole, crashes, kills>>
  BY DEF LaunchSession, Inspect, CreateContainer, UploadSecrets, DiscardContainer,
         StartContainer, InspectAddress, LaunchAnswered, LaunchFailed, LaunchDropped
<1>2. TypeOK'
  <2>1. secrets' \in BOOLEAN
    BY DEF LaunchSession, Inspect, CreateContainer, UploadSecrets, DiscardContainer,
         StartContainer, InspectAddress, LaunchAnswered, LaunchFailed, LaunchDropped, CInv, TypeOK
  <2>2. container' \in {"none", "created", "running"}
    BY DEF LaunchSession, Inspect, CreateContainer, UploadSecrets, DiscardContainer,
         StartContainer, InspectAddress, LaunchAnswered, LaunchFailed, LaunchDropped, CInv, TypeOK
  <2>3. launch' \in {"none", "ok", "error", "ended"} \cup LaunchSteps
    BY DEF LaunchSession, Inspect, CreateContainer, UploadSecrets, DiscardContainer,
         StartContainer, InspectAddress, LaunchAnswered, LaunchFailed, LaunchDropped, CInv, TypeOK
  <2>4. session' \in {"new", "waiting", "probing", "routed", "over"}
    BY DEF LaunchSession, Inspect, CreateContainer, UploadSecrets, DiscardContainer,
         StartContainer, InspectAddress, LaunchAnswered, LaunchFailed, LaunchDropped, CInv, TypeOK
  <2> QED
    BY <1>1, <2>1, <2>2, <2>3, <2>4 DEF CInv, TypeOK
<1>3. Ordered'
  BY <1>1 DEF LaunchSession, Inspect, CreateContainer, UploadSecrets, DiscardContainer,
         StartContainer, InspectAddress, LaunchAnswered, LaunchFailed, LaunchDropped,
         CInv, TypeOK, Ordered
<1>4. Delivered'
  BY <1>1 DEF LaunchSession, Inspect, CreateContainer, UploadSecrets, DiscardContainer,
         StartContainer, InspectAddress, LaunchAnswered, LaunchFailed, LaunchDropped,
         CInv, TypeOK, Delivered, Ordered
<1>5. Asking' /\ (Stacked => Stacked') /\ (Bound => Bound')
  BY <1>1 DEF CInv, Asking, Stacked, Bound, Visible
<1>6. Cleared => Cleared'
  <2>1. CASE container' # container
    <3>1. launch # "ended"
      BY <2>1 DEF LaunchSession, Inspect, CreateContainer, UploadSecrets, DiscardContainer,
         StartContainer, InspectAddress, LaunchAnswered, LaunchFailed, LaunchDropped
    <3> QED
      BY <3>1, <1>1 DEF CInv, Ordered, Cleared, InTeardown, Binding, TypeOK, TeardownSteps
  <2>2. CASE container' = container
    BY <2>2, <1>1 DEF Cleared, InTeardown, Binding
  <2> QED
    BY <2>1, <2>2
<1> QED
  BY <1>1, <1>2, <1>3, <1>4, <1>5, <1>6 DEF CInv

LEMMA StageStep ==
    ASSUME CInv, SetupStagingDir
    PROVE  CInv'
<1> USE DEF staging, broker, history, LaunchSteps
<1>1. /\ UNCHANGED <<container, secrets, bind, asks, teardown, session, agentId,
                     overlapped, sole, crashes, kills>>
      /\ mounts' = mounts \/ mounts' = Append(mounts, None)
      /\ launch = "stage" /\ launch' \in {"create", "error"}
  BY DEF SetupStagingDir
<1>0. Len(mounts) = 0
  BY <1>1 DEF CInv, Delivered
<1>2. TypeOK'
  <2>1. dir' \in BOOLEAN
    BY DEF SetupStagingDir, CInv, TypeOK
  <2>2. mounts' \in Seq(Agents \cup {None})
    BY <1>1 DEF CInv, TypeOK
  <2> QED
    BY <1>1, <2>1, <2>2 DEF CInv, TypeOK
<1>5. Ordered' /\ Delivered' /\ Asking'
  BY <1>1 DEF CInv, TypeOK, Ordered, Delivered, Asking
<1>3. /\ \A b \in Binds : bind[b] = "none"
      /\ \A t \in Teardowns : teardown[t] = "none"
      /\ agentId = None
  BY <1>1 DEF CInv, Ordered
<1>4. Stacked' /\ Bound' /\ (Cleared => Cleared')
  <2>1. Len(mounts') <= 1 /\ Len(mounts') \in Nat
    <3>1. mounts \in Seq(Agents \cup {None})
      BY DEF CInv, TypeOK
    <3>2. mounts' = mounts \/ mounts' = Append(mounts, None)
      BY <1>1
    <3>3. Len(Append(mounts, None)) = Len(mounts) + 1
      BY <3>1
    <3> QED
      BY <3>2, <3>3, <1>0
  <2> QED
    BY <1>1, <1>3, <2>1 DEF CInv, TypeOK, Stacked, Bound, Cleared, InTeardown, TeardownSteps
<1> QED
  BY <1>1, <1>2, <1>4, <1>5 DEF CInv

LEMMA ServeStep ==
    ASSUME CInv, Serve
    PROVE  CInv'
BY DEF Serve, staging, handlers, history, CInv, TypeOK, Ordered, Delivered, Asking, Stacked,
       Bound, Visible, Cleared, InTeardown, Binding, LaunchSteps

-----------------------------------------------------------------------------

LEMMA ObserveStep ==
    ASSUME CInv, NEW b \in Binds, NEW a \in Agents, ObserveAgent(b, a)
    PROVE  CInv'
<1> USE DEF staging, broker
<1>1. UNCHANGED <<container, secrets, dir, mounts, launch, teardown, session, agentId,
                  overlapped, crashes, kills>>
  BY DEF ObserveAgent
<1>2. /\ bind' = [bind EXCEPT ![b] = "check"] /\ asks' = [asks EXCEPT ![b] = a]
      /\ sole' = {t \in sole : ~InTeardown(t)} /\ bind[b] = "none" /\ session = "routed"
  BY DEF ObserveAgent
<1>3. TypeOK'
  BY <1>1, <1>2 DEF CInv, TypeOK, BindSteps
<1>4. Ordered' /\ Delivered' /\ Asking'
  BY <1>1, <1>2 DEF CInv, TypeOK, Ordered, Delivered, Asking, LaunchSteps
<1>5. (Stacked => Stacked') /\ (Bound => Bound') /\ (Cleared => Cleared')
  BY <1>1, <1>2 DEF CInv, TypeOK, Stacked, Bound, Visible, Cleared, InTeardown, TeardownSteps
<1> QED
  BY <1>1, <1>3, <1>4, <1>5 DEF CInv

\* What a step of bind handler b leaves alone.
LEMMA BindFrame ==
    ASSUME NEW b \in Binds,
           CheckBind(b) \/ MountAgent(b) \/ BindAnswered(b) \/ BindUnheard(b)
    PROVE  /\ UNCHANGED <<container, secrets, dir, launch, asks, teardown, session,
                          sole, crashes, kills>>
           /\ bind[b] \in {"check", "mount", "ok"}
           /\ \E l \in {"mount", "ok", "ended"} : bind' = [bind EXCEPT ![b] = l]
BY DEF CheckBind, MountAgent, BindAnswered, BindUnheard, Refused, staging, broker, history

LEMMA BindOrdered ==
    ASSUME CInv, NEW b \in Binds,
           CheckBind(b) \/ MountAgent(b) \/ BindAnswered(b) \/ BindUnheard(b)
    PROVE  Ordered' /\ Delivered' /\ Asking'
<1>1. PICK l \in {"mount", "ok", "ended"} : bind' = [bind EXCEPT ![b] = l]
  BY BindFrame
<1>2. session \notin {"new", "waiting"} /\ launch \notin LaunchSteps /\ launch # "none"
  BY BindFrame DEF CInv, Ordered
<1>3. Ordered'
  BY <1>1, <1>2, BindFrame DEF CInv, TypeOK, Ordered
<1>4. Delivered'
  BY <1>2, BindFrame DEF CInv, Delivered, LaunchSteps
<1>5. Asking'
  BY <1>1, BindFrame DEF CInv, TypeOK, Asking
<1> QED
  BY <1>3, <1>4, <1>5

LEMMA CheckStep ==
    ASSUME CInv, NEW b \in Binds, CheckBind(b)
    PROVE  CInv'
<1>1. /\ UNCHANGED <<container, secrets, dir, mounts, launch, asks, teardown, session, agentId,
                     sole, crashes, kills>>
      /\ bind[b] = "check"
  BY DEF CheckBind, staging, broker
<1>2. PICK l \in {"mount", "ok", "ended"} :
        /\ bind' = [bind EXCEPT ![b] = l]
        /\ l = "ok" => Visible = asks[b]
        /\ l = "mount" => Visible = None
        /\ l = "mount" /\ ~overlapped' => \A o \in Binds : bind[o] # "mount"
  BY DEF CheckBind, Refused
<1>3. overlapped' \in BOOLEAN /\ (~overlapped' => ~overlapped)
  BY DEF CheckBind, Refused, CInv, TypeOK
<1>4. TypeOK'
  <2>1. bind' \in [Binds -> {"none", "ok", "ended"} \cup BindSteps]
    BY <1>2 DEF CInv, TypeOK, BindSteps
  <2> QED
    BY <1>1, <1>3, <2>1 DEF CInv, TypeOK
<1>5. ASSUME ~overlapped' PROVE ~overlapped /\ (l = "mount" => \A o \in Binds : bind[o] # "mount")
  BY <1>2, <1>3, <1>5
<1>6. ASSUME ~overlapped', Stacked PROVE Stacked'
  <2>1. CASE l = "mount"
    <3>1. Len(mounts) <= 1
      <4>1. Visible = None
        BY <2>1, <1>2
      <4>2. mounts \in Seq(Agents \cup {None}) /\ None \notin Agents
        BY ContainerLaunchAssumption DEF CInv, TypeOK
      <4>3. Len(mounts) \in Nat /\ Len(mounts) <= 2 /\ (Len(mounts) = 2 => mounts[2] \in Agents)
        BY <4>2, <1>6 DEF Stacked
      <4>4. Len(mounts) = 2 => mounts # <<>>
        OBVIOUS
      <4>5. ASSUME Len(mounts) = 2 PROVE FALSE
        <5>1. Visible = mounts[2]
          BY <4>4, <4>5 DEF Visible
        <5> QED
          BY <5>1, <4>1, <4>2, <4>3, <4>5
      <4>6. Len(mounts) # 2
        BY <4>5
      <4>7. \A n \in Nat : n <= 2 /\ n # 2 => n <= 1
        OBVIOUS
      <4> QED
        BY <4>3, <4>6, <4>7
    <3> QED
      BY <2>1, <3>1, <1>1, <1>2, <1>5, <1>6 DEF CInv, TypeOK, Stacked
  <2>2. CASE l # "mount"
    BY <2>2, <1>1, <1>2, <1>6 DEF CInv, TypeOK, Stacked
  <2> QED
    BY <2>1, <2>2
<1>7. Bound => Bound'
  BY <1>1, <1>2 DEF CInv, TypeOK, Bound, Visible
<1>8. Cleared => Cleared'
  BY <1>1, <1>2 DEF CInv, TypeOK, Cleared, InTeardown, Binding, BindSteps
<1> QED
  BY <1>4, <1>5, <1>6, <1>7, <1>8, BindOrdered DEF CInv

LEMMA MountStep ==
    ASSUME CInv, NEW b \in Binds, MountAgent(b)
    PROVE  CInv'
<1>1. /\ UNCHANGED <<container, secrets, dir, launch, asks, teardown, session, agentId,
                     overlapped, sole, crashes, kills>>
      /\ bind[b] = "mount"
      /\ \/ bind' = [bind EXCEPT ![b] = "ok"] /\ mounts' = Append(mounts, asks[b])
         \/ bind' = [bind EXCEPT ![b] = "ended"] /\ mounts' = mounts
  BY DEF MountAgent, staging, broker, history
<1>2. asks[b] \in Agents
  BY <1>1 DEF CInv, Asking
<1>3. TypeOK'
  <2>1. mounts' \in Seq(Agents \cup {None})
    BY <1>1, <1>2 DEF CInv, TypeOK
  <2>2. bind' \in [Binds -> {"none", "ok", "ended"} \cup BindSteps]
    BY <1>1 DEF CInv, TypeOK
  <2> QED
    BY <1>1, <2>1, <2>2 DEF CInv, TypeOK
<1>4. CASE mounts' = mounts /\ bind' = [bind EXCEPT ![b] = "ended"]
  <2>1. (Stacked => Stacked') /\ (Bound => Bound') /\ (Cleared => Cleared')
    BY <1>1, <1>4 DEF CInv, TypeOK, Stacked, Bound, Visible, Cleared, InTeardown, Binding, BindSteps
  <2> QED
    BY <2>1, <1>1, <1>3, BindOrdered DEF CInv
<1>5. CASE mounts' = Append(mounts, asks[b]) /\ bind' = [bind EXCEPT ![b] = "ok"]
  <2>1. /\ Len(mounts') = Len(mounts) + 1 /\ mounts'[Len(mounts')] = asks[b]
        /\ Len(mounts) \in Nat /\ Visible' = asks[b]
    BY <1>2, <1>5 DEF CInv, TypeOK, Visible
  <2>2. Stacked => Stacked'
    BY <1>1, <1>2, <1>5, <2>1 DEF CInv, TypeOK, Stacked
  <2>3. Stacked /\ Bound => Bound'
    <3> SUFFICES ASSUME Stacked, Bound, \A t \in Teardowns : teardown[t] = "none"
                 PROVE  Bound'
      BY <1>1 DEF Bound
    <3>1. Visible = None /\ agentId = None
      BY <1>1, ContainerLaunchAssumption DEF Bound, CInv, TypeOK
    <3>2. \A o \in Binds : o # b => bind[o] # "mount" /\ bind[o] # "ok"
      BY <1>1, <3>1, ContainerLaunchAssumption DEF Bound, Stacked, CInv, Asking
    <3> QED
      BY <1>1, <1>5, <2>1, <3>1, <3>2 DEF Bound, CInv, TypeOK
  <2>4. Cleared => Cleared'
    BY <1>1, <1>5 DEF CInv, TypeOK, Cleared, InTeardown, Binding, BindSteps, TeardownSteps
  <2> QED
    BY <2>2, <2>3, <2>4, <1>1, <1>3, BindOrdered DEF CInv
<1> QED
  BY <1>1, <1>4, <1>5

LEMMA AnswerStep ==
    ASSUME CInv, NEW b \in Binds, BindAnswered(b) \/ BindUnheard(b)
    PROVE  CInv'
<1>1. /\ UNCHANGED <<container, secrets, dir, mounts, launch, asks, teardown, session,
                     overlapped, sole, crashes, kills>>
      /\ bind[b] = "ok"
      /\ bind' = [bind EXCEPT ![b] = "ended"]
      /\ agentId' = agentId \/ (agentId' = asks[b] /\ agentId = None)
  BY DEF BindAnswered, BindUnheard, staging, broker, history
<1>2. asks[b] \in Agents
  BY <1>1 DEF CInv, Asking
<1>3. TypeOK'
  BY <1>1, <1>2 DEF CInv, TypeOK
<1>4. (Stacked => Stacked') /\ (Bound => Bound') /\ (Cleared => Cleared')
  BY <1>1 DEF CInv, TypeOK, Stacked, Bound, Visible, Cleared, InTeardown, Binding, BindSteps
<1> QED
  BY <1>1, <1>3, <1>4, BindOrdered DEF CInv

-----------------------------------------------------------------------------

LEMMA CallStep ==
    ASSUME CInv, NEW t \in Teardowns, CallTeardown(t)
    PROVE  CInv'
<1>1. /\ UNCHANGED <<container, secrets, dir, mounts, launch, bind, asks,
                     overlapped, crashes, kills>>
      /\ teardown[t] = "none" /\ teardown' = [teardown EXCEPT ![t] = "remove"]
      /\ agentId' \in {agentId, None}
      /\ session' \in {"routed", "over"} /\ (session' = "routed" => session = "routed")
  BY DEF CallTeardown, staging
<1>2. launch = "ended" /\ session \notin {"new", "waiting"}
  BY DEF CallTeardown, CInv, Ordered
<1>3. sole' \subseteq sole \cup {t} /\ (t \in sole' /\ t \notin sole => \A b \in Binds : ~Binding(b))
  BY DEF CallTeardown
<1>4. TypeOK'
  BY <1>1, <1>3 DEF CInv, TypeOK, TeardownSteps
<1>5. Ordered' /\ Delivered' /\ Asking'
  BY <1>1, <1>2 DEF CInv, TypeOK, Ordered, Delivered, Asking, LaunchSteps
<1>6. (Stacked => Stacked') /\ Bound'
  BY <1>1 DEF Stacked, Bound, CInv, TypeOK
<1>7. Cleared => Cleared'
  <2> SUFFICES ASSUME Cleared, NEW s \in sole'
               PROVE  /\ teardown'[s] # "none"
                      /\ InTeardown(s)' => \A b \in Binds : ~Binding(b)'
                      /\ teardown'[s] \in {"umount", "again", "rmdir"} => container' = "none"
                      /\ teardown'[s] = "again" => Len(mounts') <= 1
                      /\ teardown'[s] = "rmdir" => mounts' = <<>>
    BY DEF Cleared
  <2>1. CASE s = t
    <3>1. \A b \in Binds : ~Binding(b)
      BY <2>1, <1>1, <1>3 DEF Cleared
    <3> QED
      BY <2>1, <3>1, <1>1 DEF Binding, CInv, TypeOK
  <2>2. CASE s # t
    BY <2>2, <1>1, <1>3 DEF Cleared, InTeardown, Binding, CInv, TypeOK
  <2> QED
    BY <2>1, <2>2
<1> QED
  BY <1>1, <1>4, <1>5, <1>6, <1>7 DEF CInv

\* What a step of teardown handler t leaves alone.
LEMMA TeardownFrame ==
    ASSUME NEW t \in Teardowns, RemoveContainer(t) \/ Umount(t) \/ RemoveDir(t)
    PROVE  /\ UNCHANGED <<secrets, launch, bind, asks, session, agentId, overlapped, crashes, kills>>
           /\ teardown[t] \in TeardownSteps /\ sole' \subseteq sole
           /\ container' \in {container, "none"}
           /\ \E l \in {"umount", "again", "rmdir", "ended"} : teardown' = [teardown EXCEPT ![t] = l]
BY DEF RemoveContainer, Umount, RemoveDir, Moves, staging, broker, history, TeardownSteps

LEMMA TeardownOrdered ==
    ASSUME CInv, NEW t \in Teardowns, RemoveContainer(t) \/ Umount(t) \/ RemoveDir(t)
    PROVE  Ordered' /\ Delivered' /\ Asking' /\ Bound'
<1>1. PICK l \in {"umount", "again", "rmdir", "ended"} : teardown' = [teardown EXCEPT ![t] = l]
  BY TeardownFrame
<1>2. session \notin {"new", "waiting"} /\ launch = "ended"
  BY TeardownFrame DEF CInv, Ordered, TeardownSteps
<1>3. Ordered'
  BY <1>1, <1>2, TeardownFrame DEF CInv, TypeOK, Ordered, LaunchSteps
<1>4. Delivered' /\ Asking'
  BY <1>2, TeardownFrame DEF CInv, Delivered, Asking
<1>5. Bound'
  BY <1>1 DEF Bound, CInv, TypeOK
<1> QED
  BY <1>3, <1>4, <1>5

LEMMA RemoveStep ==
    ASSUME CInv, NEW t \in Teardowns, RemoveContainer(t)
    PROVE  CInv'
<1>1. /\ UNCHANGED <<dir, mounts, bind>>
      /\ teardown[t] = "remove" /\ teardown' = [teardown EXCEPT ![t] = "umount"]
      /\ t \in sole' => container' = "none"
  BY DEF RemoveContainer, Moves, staging
<1>2. TypeOK'
  BY <1>1, TeardownFrame DEF CInv, TypeOK, TeardownSteps
<1>3. Stacked => Stacked'
  BY <1>1, TeardownFrame DEF Stacked
<1>4. Cleared => Cleared'
  BY <1>1, TeardownFrame DEF CInv, TypeOK, Cleared, InTeardown, Binding, TeardownSteps
<1> QED
  BY <1>2, <1>3, <1>4, TeardownFrame, TeardownOrdered DEF CInv

LEMMA PrefixFacts ==
    ASSUME NEW S, NEW s \in Seq(S), NEW n \in Nat, n <= Len(s)
    PROVE  SubSeq(s, 1, n) \in Seq(S) /\ Len(SubSeq(s, 1, n)) = n
<1>1. SubSeq(s, 1, n) \in Seq(S)
  OBVIOUS
<1>2. Len(SubSeq(s, 1, n)) = n
  OBVIOUS
<1> QED
  BY <1>1, <1>2

LEMMA EmptyFacts ==
    ASSUME NEW S, NEW s \in Seq(S)
    PROVE  Len(s) \in Nat /\ (s = <<>> <=> Len(s) = 0)
OBVIOUS

\* Taking the last mount off.
LEMMA PopFacts ==
    ASSUME mounts \in Seq(Agents \cup {None}), mounts # <<>>
    PROVE  LET m == SubSeq(mounts, 1, Len(mounts) - 1)
           IN  /\ m \in Seq(Agents \cup {None})
               /\ Len(m) \in Nat /\ Len(m) + 1 = Len(mounts)
               /\ Len(mounts) <= 1 => m = <<>>
<1> DEFINE n == Len(mounts) - 1
           m == SubSeq(mounts, 1, n)
<1>1. Len(mounts) \in Nat /\ Len(mounts) # 0
  BY EmptyFacts
<1>2. n \in Nat /\ n <= Len(mounts) /\ n + 1 = Len(mounts) /\ (Len(mounts) <= 1 => n = 0)
  <2>1. \A k \in Nat : k # 0 =>
          /\ k - 1 \in Nat /\ k - 1 <= k /\ (k - 1) + 1 = k
          /\ k <= 1 => k - 1 = 0
    OBVIOUS
  <2> QED
    BY <1>1, <2>1
<1>3. m \in Seq(Agents \cup {None}) /\ Len(m) = n
  <2> HIDE DEF n
  <2> QED
    BY <1>2, PrefixFacts
<1>4. m = <<>> <=> Len(m) = 0
  <2> HIDE DEF m
  <2> QED
    BY <1>3, EmptyFacts
<1> HIDE DEF n, m
<1>5. m \in Seq(Agents \cup {None}) /\ Len(m) \in Nat /\ Len(m) + 1 = Len(mounts)
  BY <1>2, <1>3
<1>6. Len(mounts) <= 1 => m = <<>>
  BY <1>2, <1>3, <1>4
<1> QED
  BY <1>5, <1>6 DEF m, n

LEMMA UmountStep ==
    ASSUME CInv, NEW t \in Teardowns, Umount(t)
    PROVE  CInv'
<1>1. PICK l \in {"again", "rmdir", "ended"} :
        /\ UNCHANGED <<container, dir, bind>>
        /\ teardown[t] \in {"umount", "again"}
        /\ teardown' = [teardown EXCEPT ![t] = l]
        /\ \/ /\ mounts # <<>> /\ mounts' = SubSeq(mounts, 1, Len(mounts) - 1)
              /\ teardown[t] = "umount" => l = "again"
              /\ teardown[t] = "again" => l = "rmdir"
           \/ mounts' = mounts /\ l # "again" /\ (t \in sole' => l = "rmdir" /\ mounts = <<>>)
  BY DEF Umount, Moves
<1>2. mounts \in Seq(Agents \cup {None})
  BY DEF CInv, TypeOK
<1>3. /\ mounts' \in Seq(Agents \cup {None})
      /\ Len(mounts') \in Nat /\ Len(mounts) \in Nat
      /\ mounts' = mounts \/ Len(mounts') + 1 = Len(mounts)
      /\ mounts = <<>> => mounts' = <<>>
      /\ Len(mounts) <= 1 /\ mounts' # mounts => mounts' = <<>>
  BY <1>1, <1>2, PopFacts
<1>4. TypeOK'
  BY <1>1, <1>3, TeardownFrame DEF CInv, TypeOK, TeardownSteps
<1>5. Stacked => Stacked'
  BY <1>1, <1>3, TeardownFrame DEF Stacked
<1>6. Stacked /\ Cleared => Cleared'
  <2> SUFFICES ASSUME Stacked, Cleared, NEW s \in sole'
               PROVE  /\ teardown'[s] # "none"
                      /\ InTeardown(s)' => \A b \in Binds : ~Binding(b)'
                      /\ teardown'[s] \in {"umount", "again", "rmdir"} => container' = "none"
                      /\ teardown'[s] = "again" => Len(mounts') <= 1
                      /\ teardown'[s] = "rmdir" => mounts' = <<>>
    BY DEF Cleared
  <2>0. s \in sole /\ s \in Teardowns
    BY TeardownFrame DEF CInv, TypeOK
  <2>1. CASE s # t
    BY <2>0, <2>1, <1>1, <1>3 DEF Cleared, InTeardown, Binding, CInv, TypeOK
  <2>2. CASE s = t
    <3>1. teardown'[t] = l
      BY <1>1 DEF CInv, TypeOK
    <3>2. container = "none" /\ \A b \in Binds : ~Binding(b)
      BY <2>0, <2>2, <1>1 DEF Cleared, InTeardown, TeardownSteps
    <3>3. l = "again" => Len(mounts') <= 1
      BY <1>1, <1>3 DEF Stacked
    <3>4. l = "rmdir" => mounts' = <<>>
      BY <2>0, <2>2, <1>1, <1>2, <1>3, PopFacts DEF Cleared
    <3> QED
      BY <2>2, <3>1, <3>2, <3>3, <3>4, <1>1 DEF Binding
  <2> QED
    BY <2>1, <2>2
<1> QED
  BY <1>4, <1>5, <1>6, TeardownFrame, TeardownOrdered DEF CInv

LEMMA RemoveDirStep ==
    ASSUME CInv, NEW t \in Teardowns, RemoveDir(t)
    PROVE  CInv'
<1>1. /\ UNCHANGED <<container, mounts, bind, sole>>
      /\ teardown[t] = "rmdir" /\ teardown' = [teardown EXCEPT ![t] = "ended"]
  BY DEF RemoveDir, Moves, history
<1>2. dir' \in BOOLEAN
  BY DEF RemoveDir, CInv, TypeOK
<1>3. TypeOK'
  BY <1>1, <1>2, TeardownFrame DEF CInv, TypeOK, TeardownSteps
<1>4. (Stacked => Stacked') /\ (Cleared => Cleared')
  BY <1>1, TeardownFrame DEF CInv, TypeOK, Stacked, Cleared, InTeardown, Binding, TeardownSteps
<1> QED
  BY <1>3, <1>4, TeardownFrame, TeardownOrdered DEF CInv

-----------------------------------------------------------------------------

LEMMA ExitStep ==
    ASSUME CInv, ContainerExits
    PROVE  CInv'
<1>1. /\ UNCHANGED <<secrets, staging, handlers, broker, history>>
      /\ container = "running" /\ container' = "none"
  BY DEF ContainerExits
<1>2. TypeOK' /\ Ordered' /\ Asking'
  BY <1>1 DEF CInv, TypeOK, Ordered, Asking, staging, handlers, broker, history
<1>3. Delivered'
  BY <1>1 DEF CInv, Delivered, staging, handlers
<1>4. (Stacked => Stacked') /\ (Bound => Bound') /\ (Cleared => Cleared')
  BY <1>1 DEF Stacked, Bound, Visible, Cleared, InTeardown, Binding, staging, handlers,
              broker, history
<1> QED
  BY <1>1, <1>2, <1>3, <1>4 DEF CInv, history

LEMMA RestartStep ==
    ASSUME CInv, BrokerRestarts
    PROVE  CInv'
<1>1. /\ UNCHANGED <<secrets, staging, handlers, overlapped, sole, kills>>
      /\ crashes' = crashes + 1
      /\ agentId' = None
      /\ session' \in {"new", "routed", "over"}
      /\ session' = "new" => session = "new"
      /\ session' = "routed" => session = "routed"
      /\ session = "new" => session' = "new"
      /\ container' \in {container, "none"}
  BY DEF BrokerRestarts
<1>2. TypeOK'
  BY <1>1 DEF CInv, TypeOK, staging, handlers
<1>3. Ordered' /\ Asking'
  BY <1>1 DEF CInv, TypeOK, Ordered, Asking, handlers
<1>4. Delivered'
  BY <1>1 DEF CInv, Delivered, staging, handlers
<1>5. (Stacked => Stacked') /\ (Bound => Bound') /\ (Cleared => Cleared')
  BY <1>1 DEF Stacked, Bound, Visible, Cleared, InTeardown, Binding, staging, handlers
<1> QED
  BY <1>1, <1>2, <1>3, <1>4, <1>5 DEF CInv

LEMMA KillStep ==
    ASSUME CInv, LauncherKilled
    PROVE  CInv'
<1>1. /\ UNCHANGED <<container, secrets, staging, asks, broker, overlapped, crashes>>
      /\ kills' = kills + 1
      /\ launch' = IF launch \in LaunchSteps \cup {"ok"} THEN "error" ELSE launch
      /\ bind' = [b \in Binds |-> IF bind[b] = "none" THEN "none" ELSE "ended"]
      /\ teardown' = [t \in Teardowns |-> IF teardown[t] = "none" THEN "none" ELSE "ended"]
      /\ sole' = {t \in sole : ~InTeardown(t)}
  BY DEF LauncherKilled
<1>2. TypeOK'
  BY <1>1 DEF CInv, TypeOK, staging, broker
<1>3. Ordered'
  BY <1>1 DEF CInv, TypeOK, Ordered, LaunchSteps, broker
<1>4. Delivered' /\ Asking'
  BY <1>1 DEF CInv, Delivered, Asking, LaunchSteps, staging
<1>5. (Stacked => Stacked') /\ (Bound => Bound') /\ (Cleared => Cleared')
  BY <1>1 DEF CInv, TypeOK, Stacked, Bound, Visible, Cleared, InTeardown, Binding,
              TeardownSteps, staging, broker
<1> QED
  BY <1>1, <1>2, <1>3, <1>4, <1>5 DEF CInv

LEMMA NextCInv == CInv /\ [Next]_vars => CInv'
<1> SUFFICES ASSUME CInv, [Next]_vars PROVE CInv'
  OBVIOUS
<1>1. CASE Launching
  BY <1>1, LaunchStep, StageStep, ServeStep DEF Launching
<1>2. ASSUME NEW b \in Binds, BindingStep(b) PROVE CInv'
  BY <1>2, ObserveStep, CheckStep, MountStep, AnswerStep DEF BindingStep
<1>3. ASSUME NEW t \in Teardowns, TeardownStep(t) PROVE CInv'
  BY <1>3, CallStep, RemoveStep, UmountStep, RemoveDirStep DEF TeardownStep
<1>4. CASE UNCHANGED vars
  <2>1. UNCHANGED <<container, secrets, dir, mounts, launch, bind, asks, teardown, session,
                    agentId, overlapped, sole, crashes, kills>>
    BY <1>4 DEF vars, staging, handlers, broker, history
  <2> QED
    BY <2>1 DEF CInv, TypeOK, Ordered, Delivered, Asking, Stacked, Bound, Visible, Cleared,
                InTeardown, Binding
<1> QED
  BY <1>1, <1>2, <1>3, <1>4, ExitStep, RestartStep, KillStep DEF Next

-----------------------------------------------------------------------------

\* The launcher's handlers and what they have done to container and mounts
\* agree at every step.
THEOREM LauncherInvariant == Spec => []CInv
BY InitCInv, NextCInv, PTL DEF Spec

\* The state is well typed.
THEOREM LaunchTypeCorrect == Spec => []TypeOK
<1>1. CInv => TypeOK
  BY DEF CInv
<1> QED
  BY <1>1, LauncherInvariant, PTL

\* Fail closed: no container runs without the secrets it was launched with.
THEOREM SecretsComeFirst == Spec => []RunningHasSecrets
<1>1. CInv => RunningHasSecrets
  BY DEF CInv, Delivered, RunningHasSecrets
<1> QED
  BY <1>1, LauncherInvariant, PTL

\* Binds that do not overlap never leave the broker with another agent than
\* the one whose directory the container has.
THEOREM AgentsAreVisible == Spec => []RecordedAgentIsVisible
<1>1. CInv => RecordedAgentIsVisible
  BY DEF CInv, Bound, RecordedAgentIsVisible
<1> QED
  BY <1>1, LauncherInvariant, PTL

\* A teardown that runs undisturbed removes the container and every mount.
THEOREM TeardownsAreComplete == Spec => TeardownIsComplete
<1>1. CInv => \A t \in Teardowns :
                 teardown[t] = "rmdir" /\ teardown'[t] = "ended" /\ t \in sole /\ ~overlapped
                     => container = "none" /\ mounts = <<>>
  BY DEF CInv, Cleared
<1> QED
  BY <1>1, LauncherInvariant, PTL DEF Spec, TeardownIsComplete
=============================================================================
