--------------------------- MODULE VaultFileProofs ---------------------------
(***************************************************************************)
(* Proofs about VaultFile, for any number of requests, commands and        *)
(* secrets.  AckedWritesSurvive is not inductive: what makes it so is what *)
(* a matching generation is worth (Current), that the lock holder's        *)
(* generation stays matched (Held), that no handle is ahead of the counter *)
(* (Behind), and that nothing replaces the file under the holder (Written).*)
(***************************************************************************)
EXTENDS VaultFile, TLAPS

Opened == {"peek", "acquire", "replace", "bump"}
Allowed(k) == {owed[k]} \cup pending[k]

Keyed ==
    \A h \in Handles :
      /\ pc[h] \in Opened \cup {"read"} => op[h] # "init"
      /\ pc[h] \in Steps /\ op[h] # "init" => key[h] \in Keys

Behind == \A h \in Handles : pc[h] \in Opened => file # None /\ generation[h] <= gen

Current ==
    \A h \in Handles : pc[h] \in Opened /\ generation[h] = gen =>
      \A k \in Keys : contents[h][k] \in Allowed(k) \/ (k = key[h] /\ pc[h] # "peek")

Held == \A h \in Handles : pc[h] \in {"replace", "bump"} => flock = h /\ generation[h] = gen

Written == \A h \in Handles : pc[h] = "bump" => file = contents[h]

Safe ==
    /\ file # None => \A k \in Keys : file[k] \in Allowed(k)
    /\ file = None => owed = Empty

Core == Behind /\ Current /\ Held /\ Written /\ Safe

VInv == TypeOK /\ Keyed /\ (overtaken = {} => Core)

USE VaultFileAssumption

LEMMA EmptyType == Empty \in [Keys -> Values]
BY DEF Empty, Values

LEMMA InitInv == Init => VInv
<1> SUFFICES ASSUME Init PROVE VInv
  OBVIOUS
<1>1. TypeOK
  BY EmptyType DEF Init, TypeOK, Values
<1>2. Keyed
  BY DEF Init, Keyed, Opened, Steps
<1>3. Safe
  BY DEF Init, Safe, Allowed, Empty
<1>4. Behind /\ Current /\ Held /\ Written
  BY DEF Init, Behind, Current, Held, Written, Opened
<1> QED
  BY <1>1, <1>2, <1>3, <1>4 DEF VInv, Core

\* A handle that ends leaves what the others rely on.
LEMMA EndStep ==
    ASSUME VInv, NEW h \in Handles, NEW result \in Ended, End(h, result),
           root' \in {"absent", "empty", "used"}, UNCHANGED <<file, gen, history>>
    PROVE  VInv'
<1>1. TypeOK'
  <2>1. /\ pc' \in [Handles -> {"idle"} \cup Steps \cup Ended]
        /\ op' \in [Handles -> Ops \cup {None}]
        /\ key' \in [Handles -> Keys \cup {None}]
    BY DEF VInv, TypeOK, End, Goto
  <2>2. contents' \in [Handles -> [Keys -> Values]]
    BY EmptyType DEF VInv, TypeOK, End
  <2>3. generation' \in [Handles -> Nat] /\ flock' \in Values /\ tenantLock' \in Values
    BY DEF VInv, TypeOK, End, Values
  <2> QED
    BY <2>1, <2>2, <2>3 DEF VInv, TypeOK, history
<1>2. /\ pc'[h] \in Ended
      /\ \A i \in Handles \ {h} : /\ pc'[i] = pc[i] /\ op'[i] = op[i] /\ key'[i] = key[i]
                                  /\ contents'[i] = contents[i] /\ generation'[i] = generation[i]
                                  /\ flock = i => flock' = i
  BY DEF VInv, TypeOK, End, Goto
<1>3. Ended \cap (Opened \cup Steps) = {}
  BY DEF Ended, Opened, Steps
<1>4. Keyed'
  BY <1>2, <1>3 DEF VInv, Keyed, Ended, Opened, Steps
<1>5. ASSUME overtaken' = {} PROVE Core'
  <2> Core
    BY <1>5 DEF VInv, history
  <2>1. Behind' /\ Held' /\ Written'
    BY <1>2, <1>3 DEF Core, Behind, Held, Written, Opened, Ended
  <2>2. Current'
    BY <1>2, <1>3 DEF Core, Current, Opened, Ended, Allowed, history
  <2>3. Safe'
    BY DEF Core, Safe, Allowed, history
  <2> QED
    BY <2>1, <2>2, <2>3 DEF Core
<1> QED
  BY <1>1, <1>4, <1>5 DEF VInv

\* A handle that moves on without opening, replacing or ending.
LEMMA GotoStep ==
    ASSUME VInv, NEW h \in Handles, NEW p \in {"read", "check", "write"}, Goto(h, p),
           NEW o \in Ops, NEW k \in Keys \cup {None},
           op' = [op EXCEPT ![h] = o], key' = [key EXCEPT ![h] = k],
           o # "init" => k \in Keys, p = "read" => o # "init",
           root' \in {"absent", "empty", "used"}, tenantLock' \in Values,
           UNCHANGED <<file, gen, flock, state, history>>
    PROVE  VInv'
<1>1. TypeOK'
  BY DEF VInv, TypeOK, Goto, Steps, state, history
<1>2. /\ pc'[h] = p /\ op'[h] = o /\ key'[h] = k
      /\ \A i \in Handles \ {h} : pc'[i] = pc[i] /\ op'[i] = op[i] /\ key'[i] = key[i]
  BY DEF VInv, TypeOK, Goto
<1>3. Keyed'
  BY <1>2 DEF VInv, Keyed, Opened, Steps
<1>4. ASSUME overtaken' = {} PROVE Core'
  <2> Core
    BY <1>4 DEF VInv, history
  <2>1. Behind' /\ Held' /\ Written'
    BY <1>2 DEF Core, Behind, Held, Written, Opened, state
  <2>2. Current'
    BY <1>2 DEF Core, Current, Opened, Allowed, history, state
  <2>3. Safe'
    BY DEF Core, Safe, Allowed, history
  <2> QED
    BY <2>1, <2>2, <2>3 DEF Core
<1> QED
  BY <1>1, <1>3, <1>4 DEF VInv

LEMMA BeginStep ==
    ASSUME VInv, NEW h \in Handles, NEW o \in Ops, NEW k \in Keys, Begin(h, o, k)
    PROVE  VInv'
<1> DEFINE p == IF o = "init" THEN "check" ELSE "read"
<1>1. Goto(h, p) /\ p \in {"read", "check", "write"} /\ (p = "read" => o # "init")
  BY DEF Begin
<1>2. /\ op' = [op EXCEPT ![h] = o] /\ key' = [key EXCEPT ![h] = k]
      /\ root' \in {"absent", "empty", "used"} /\ tenantLock' \in Values
      /\ UNCHANGED <<file, gen, flock, state, history>>
  BY DEF Begin, disk, VInv, TypeOK, Values
<1> HIDE DEF p
<1> QED
  BY <1>1, <1>2, GotoStep

\* With nobody else at work, removing the directory disturbs nobody.
LEMMA ForceStep == ASSUME VInv, NEW h \in Handles, BeginForce(h) PROVE VInv'
<1>1. TypeOK'
  BY EmptyType DEF VInv, TypeOK, BeginForce, Goto, Steps, Ops, Values, state
<1>2. /\ pc'[h] = "check" /\ op'[h] = "init"
      /\ \A i \in Handles \ {h} : pc'[i] = pc[i] /\ op'[i] = op[i]
      /\ key' = key
  BY DEF VInv, TypeOK, BeginForce, Goto
<1>3. Keyed'
  BY <1>2 DEF VInv, Keyed, Opened, Steps
<1>4. ASSUME overtaken' = {} PROVE Core'
  <2>1. \A i \in Handles \ {h} : pc[i] \notin Steps
    BY <1>4 DEF BeginForce
  <2>2. \A i \in Handles : pc'[i] \notin Opened
    BY <1>2, <2>1 DEF Opened, Steps
  <2>3. Behind' /\ Current' /\ Held' /\ Written'
    BY <2>2 DEF Behind, Current, Held, Written, Opened
  <2>4. Safe'
    BY DEF Safe, BeginForce
  <2> QED
    BY <2>3, <2>4 DEF Core
<1> QED
  BY <1>1, <1>3, <1>4 DEF VInv

LEMMA PubkeyStep == ASSUME VInv, NEW h \in Handles, PubkeyAdd(h) PROVE VInv'
<1>1. TypeOK'
  BY DEF VInv, TypeOK, PubkeyAdd, Goto, Ended, locks, state, history
<1>2. /\ pc'[h] = "done"
      /\ \A i \in Handles \ {h} : pc'[i] = pc[i]
      /\ UNCHANGED <<file, gen, locks, op, key, state, history>>
  BY DEF VInv, TypeOK, PubkeyAdd, Goto
<1>3. Keyed'
  BY <1>2 DEF VInv, Keyed, Opened, Steps
<1>4. ASSUME overtaken' = {} PROVE Core'
  <2> Core
    BY <1>2, <1>4 DEF VInv, history
  <2>1. Behind' /\ Held' /\ Written'
    BY <1>2 DEF Core, Behind, Held, Written, Opened, state, locks
  <2>2. Current' /\ Safe'
    BY <1>2 DEF Core, Current, Safe, Opened, Allowed, history, state
  <2> QED
    BY <2>1, <2>2 DEF Core
<1> QED
  BY <1>1, <1>3, <1>4 DEF VInv

LEMMA ReadStep == ASSUME VInv, NEW h \in Handles, Read(h) PROVE VInv'
<1>1. CASE file # None /\ contents' = [contents EXCEPT ![h] = file]
                       /\ generation' = [generation EXCEPT ![h] = gen]
                       /\ Goto(h, "peek") /\ UNCHANGED <<locks, op, key>>
  <2>1. UNCHANGED <<disk, history>> /\ pc[h] = "read"
    BY DEF Read
  <2>2. TypeOK'
    BY <1>1, <2>1 DEF VInv, TypeOK, Goto, Steps, locks, disk, history
  <2>3. /\ pc'[h] = "peek" /\ contents'[h] = file /\ generation'[h] = gen
        /\ \A i \in Handles \ {h} : /\ pc'[i] = pc[i] /\ contents'[i] = contents[i]
                                    /\ generation'[i] = generation[i]
    BY <1>1 DEF VInv, TypeOK, Goto
  <2>4. Keyed'
    BY <1>1, <2>1, <2>3 DEF VInv, Keyed, Opened, Steps
  <2>5. ASSUME overtaken' = {} PROVE Core'
    <3> Core
      BY <2>1, <2>5 DEF VInv, history
    <3>1. Behind' /\ Held' /\ Written' /\ Safe'
      BY <1>1, <2>1, <2>3 DEF Core, Behind, Held, Written, Safe, Allowed, Opened, locks, disk,
                              history, VInv, TypeOK
    <3>2. Current'
      BY <1>1, <2>1, <2>3 DEF Core, Current, Safe, Opened, Allowed, history, disk
    <3> QED
      BY <3>1, <3>2 DEF Core
  <2> QED
    BY <2>2, <2>4, <2>5 DEF VInv
<1>2. CASE op[h] = "check" /\ Goto(h, "check") /\ UNCHANGED <<locks, op, key, state>>
  <2>1. op' = [op EXCEPT ![h] = op[h]] /\ key' = [key EXCEPT ![h] = key[h]]
    BY <1>2 DEF VInv, TypeOK
  <2>2. op[h] \in Ops /\ key[h] \in Keys
    BY <1>2 DEF VInv, TypeOK, Keyed, Read, Steps, Ops
  <2>3. /\ root' \in {"absent", "empty", "used"} /\ tenantLock' \in Values
        /\ UNCHANGED <<file, gen, flock, state, history>>
    BY <1>2 DEF Read, disk, locks, VInv, TypeOK
  <2> QED
    BY <1>2, <2>1, <2>2, <2>3, GotoStep
<1>3. CASE End(h, "done")
  <2>1. root' \in {"absent", "empty", "used"} /\ UNCHANGED <<file, gen, history>> /\ "done" \in Ended
    BY DEF Read, disk, VInv, TypeOK, Ended
  <2> QED
    BY <1>3, <2>1, EndStep
<1> QED
  BY <1>1, <1>2, <1>3 DEF Read

LEMMA PeekStep == ASSUME VInv, NEW h \in Handles, Peek(h) PROVE VInv'
<1>1. CASE /\ op[h] \in Writes
           /\ generation' = [generation EXCEPT ![h] = gen]
           /\ contents' = [contents EXCEPT ![h] = Mutated(h)]
           /\ overtaken' = IF generation[h] # gen /\ contents[h] # file
                             THEN overtaken \cup {"open"} ELSE overtaken
           /\ Goto(h, "acquire") /\ UNCHANGED <<locks, op, key>>
  <2>1. UNCHANGED <<disk, owed, pending>> /\ pc[h] = "peek"
    BY DEF Peek
  <2>2. key[h] \in Keys /\ op[h] # "init"
    BY <2>1 DEF VInv, Keyed, Steps, Opened
  <2>3. /\ Mutated(h) \in [Keys -> Values]
        /\ \A k \in Keys : k # key[h] => Mutated(h)[k] = contents[h][k]
    BY <2>2 DEF Mutated, VInv, TypeOK, Values
  <2>4. TypeOK'
    BY <1>1, <2>1, <2>3 DEF VInv, TypeOK, Goto, Steps, locks, disk
  <2>5. /\ pc'[h] = "acquire" /\ contents'[h] = Mutated(h) /\ generation'[h] = gen
        /\ \A i \in Handles \ {h} : /\ pc'[i] = pc[i] /\ contents'[i] = contents[i]
                                    /\ generation'[i] = generation[i]
    BY <1>1 DEF VInv, TypeOK, Goto
  <2>6. Keyed'
    BY <1>1, <2>1, <2>2, <2>5 DEF VInv, Keyed, Opened, Steps
  <2>7. ASSUME overtaken' = {} PROVE Core'
    <3>1. overtaken = {} /\ (generation[h] = gen \/ contents[h] = file)
      BY <1>1, <2>7
    <3> Core
      BY <3>1 DEF VInv
    <3>2. \A k \in Keys : contents[h][k] \in Allowed(k)
      <4>1. CASE generation[h] = gen
        BY <2>1, <4>1 DEF Core, Current, Opened
      <4>2. CASE contents[h] = file
        BY <2>1, <4>2 DEF Core, Safe, Behind, Opened
      <4> QED
        BY <3>1, <4>1, <4>2
    <3>3. Behind' /\ Held' /\ Written' /\ Safe'
      BY <1>1, <2>1, <2>5 DEF Core, Behind, Held, Written, Safe, Allowed, Opened, locks, disk, VInv, TypeOK
    <3>4. Current'
      <4> SUFFICES ASSUME NEW i \in Handles, pc'[i] \in Opened, generation'[i] = gen', NEW k \in Keys
                   PROVE  contents'[i][k] \in Allowed(k)' \/ (k = key'[i] /\ pc'[i] # "peek")
        BY DEF Current
      <4>1. CASE i = h
        BY <1>1, <2>1, <2>3, <2>5, <3>2, <4>1 DEF Allowed
      <4>2. CASE i # h
        BY <1>1, <2>1, <2>5, <4>2 DEF Core, Current, Allowed, disk
      <4> QED
        BY <4>1, <4>2
    <3> QED
      BY <3>3, <3>4 DEF Core
  <2> QED
    BY <2>4, <2>6, <2>7 DEF VInv
<1>2. CASE End(h, "done") /\ UNCHANGED overtaken
  <2>1. root' \in {"absent", "empty", "used"} /\ UNCHANGED <<file, gen, history>> /\ "done" \in Ended
    BY <1>2 DEF Peek, disk, VInv, TypeOK, Ended, history
  <2> QED
    BY <1>2, <2>1, EndStep
<1> QED
  BY <1>1, <1>2 DEF Peek

LEMMA AcquireStep == ASSUME VInv, NEW h \in Handles, Acquire(h) PROVE VInv'
<1>1. CASE generation[h] = gen
  <2>1. /\ pc[h] = "acquire" /\ flock = None /\ flock' = h /\ Goto(h, "replace") /\ root' = "used"
        /\ UNCHANGED <<file, gen, tenantLock, op, key, state, history>>
    BY <1>1 DEF Acquire
  <2>2. TypeOK'
    BY <2>1 DEF VInv, TypeOK, Goto, Steps, Values, state, history
  <2>3. pc'[h] = "replace" /\ \A i \in Handles \ {h} : pc'[i] = pc[i]
    BY <2>1 DEF VInv, TypeOK, Goto
  <2>4. Keyed'
    BY <2>1, <2>3 DEF VInv, Keyed, Opened, Steps
  <2>5. ASSUME overtaken' = {} PROVE Core'
    <3> Core
      BY <2>1, <2>5 DEF VInv, history
    <3>1. \A i \in Handles : pc[i] \notin {"replace", "bump"}
      BY <2>1 DEF Core, Held
    <3>2. Behind' /\ Held' /\ Written' /\ Safe'
      BY <1>1, <2>1, <2>3, <3>1 DEF Core, Behind, Held, Written, Safe, Allowed, Opened, state, history
    <3>3. Current'
      BY <2>1, <2>3 DEF Core, Current, Allowed, Opened, state, history
    <3> QED
      BY <3>2, <3>3 DEF Core
  <2> QED
    BY <2>2, <2>4, <2>5 DEF VInv
<1>2. CASE generation[h] # gen
  <2>1. /\ End(h, "conflict") /\ "conflict" \in Ended /\ root' \in {"absent", "empty", "used"}
        /\ UNCHANGED <<file, gen, history>>
    BY <1>2 DEF Acquire, Ended
  <2> QED
    BY <2>1, EndStep
<1> QED
  BY <1>1, <1>2

LEMMA ReplaceStep == ASSUME VInv, NEW h \in Handles, Replace(h) PROVE VInv'
<1>1. /\ pc[h] = "replace" /\ root' = "used" /\ file' = contents[h]
      /\ pending' = [pending EXCEPT ![key[h]] = @ \cup {contents[h][key[h]]}]
      /\ Goto(h, "bump")
      /\ UNCHANGED <<gen, locks, op, key, state, owed, overtaken>>
  BY DEF Replace
<1>2. key[h] \in Keys /\ contents[h] \in [Keys -> Values]
  BY <1>1 DEF VInv, TypeOK, Keyed, Steps, Opened
<1>3. /\ pending' \in [Keys -> SUBSET Values]
      /\ \A k \in Keys : pending[k] \subseteq pending'[k]
      /\ contents[h][key[h]] \in pending'[key[h]]
  <2>1. contents[h][key[h]] \in Values /\ pending \in [Keys -> SUBSET Values]
    BY <1>2 DEF VInv, TypeOK
  <2> QED
    BY <1>1, <1>2, <2>1
<1>4. TypeOK'
  BY <1>1, <1>2, <1>3 DEF VInv, TypeOK, Goto, Steps, locks, state
<1>5. pc'[h] = "bump" /\ \A i \in Handles \ {h} : pc'[i] = pc[i]
  BY <1>1 DEF VInv, TypeOK, Goto
<1>6. Keyed'
  BY <1>1, <1>5 DEF VInv, Keyed, Opened, Steps
<1>7. ASSUME overtaken' = {} PROVE Core'
  <2> Core
    BY <1>1, <1>7 DEF VInv
  <2>1. flock = h /\ generation[h] = gen
    BY <1>1 DEF Core, Held
  <2>2. \A i \in Handles \ {h} : pc[i] \notin {"replace", "bump"}
    BY <2>1 DEF Core, Held
  <2>3. \A k \in Keys : Allowed(k) \subseteq Allowed(k)'
    BY <1>1, <1>3 DEF Allowed
  <2>4. Safe'
    <3> SUFFICES ASSUME NEW k \in Keys PROVE contents[h][k] \in Allowed(k)'
      BY <1>1, <1>2 DEF Safe, Values
    <3>1. CASE k = key[h]
      BY <1>3, <3>1 DEF Allowed
    <3>2. CASE k # key[h]
      BY <1>1, <2>1, <2>3, <3>2 DEF Core, Current, Opened
    <3> QED
      BY <3>1, <3>2
  <2>5. file' # None
    BY <1>1, <1>2 DEF Values
  <2>6. Behind' /\ Held' /\ Written'
    BY <1>1, <1>5, <2>1, <2>2, <2>5 DEF Core, Behind, Held, Written, Opened, locks, state
  <2>7. Current'
    BY <1>1, <1>5, <2>3 DEF Core, Current, Opened, state
  <2> QED
    BY <2>4, <2>6, <2>7 DEF Core
<1> QED
  BY <1>4, <1>6, <1>7 DEF VInv

LEMMA BumpStep == ASSUME VInv, NEW h \in Handles, Bump(h) PROVE VInv'
<1>1. /\ pc[h] = "bump" /\ gen' = IF flock = h THEN gen + 1 ELSE gen
      /\ \/ /\ owed' = [owed EXCEPT ![key[h]] = contents[h][key[h]]]
            /\ pending' = [pending EXCEPT ![key[h]] = {}]
         \/ owed' = owed /\ pending' = pending
      /\ End(h, "done")
      /\ UNCHANGED <<root, file, overtaken>>
  BY DEF Bump
<1>2. key[h] \in Keys /\ contents[h] \in [Keys -> Values]
  BY <1>1 DEF VInv, TypeOK, Keyed, Steps, Opened
<1>3. owed' \in [Keys -> Values] /\ pending' \in [Keys -> SUBSET Values] /\ gen' \in Nat
  <2>1. owed \in [Keys -> Values] /\ pending \in [Keys -> SUBSET Values] /\ gen \in Nat
    BY DEF VInv, TypeOK
  <2>2. contents[h][key[h]] \in Values /\ {} \in SUBSET Values
    BY <1>2
  <2>3. owed' \in [Keys -> Values]
    BY <1>1, <1>2, <2>1, <2>2
  <2>5. gen' \in Nat
    BY <1>1, <2>1
  <2>4. pending' \in [Keys -> SUBSET Values]
    BY <1>1, <2>1, <2>2
  <2> QED
    BY <2>3, <2>4, <2>5
<1>4. /\ pc' \in [Handles -> {"idle"} \cup Steps \cup Ended]
      /\ op' \in [Handles -> Ops \cup {None}]
      /\ key' \in [Handles -> Keys \cup {None}]
      /\ contents' \in [Handles -> [Keys -> Values]]
      /\ generation' \in [Handles -> Nat]
      /\ flock' \in Values /\ tenantLock' \in Values
  <2>1. contents' \in [Handles -> [Keys -> Values]]
    BY <1>1, EmptyType DEF VInv, TypeOK, End
  <2> QED
    BY <1>1, <2>1 DEF VInv, TypeOK, End, Goto, Ended, Values
<1>5. TypeOK'
  BY <1>1, <1>3, <1>4 DEF VInv, TypeOK
<1>6. /\ pc'[h] = "done"
      /\ \A i \in Handles \ {h} : /\ pc'[i] = pc[i] /\ op'[i] = op[i] /\ key'[i] = key[i]
                                  /\ generation'[i] = generation[i]
  BY <1>1 DEF VInv, TypeOK, End, Goto
<1>7. Keyed'
  BY <1>6 DEF VInv, Keyed, Opened, Steps
<1>8. ASSUME overtaken' = {} PROVE Core'
  <2> Core
    BY <1>1, <1>8 DEF VInv
  <2>1. flock = h /\ gen' = gen + 1 /\ gen \in Nat
    BY <1>1 DEF Core, Held, VInv, TypeOK
  <2>2. \A i \in Handles : pc'[i] \notin {"replace", "bump"}
    BY <1>6, <2>1 DEF Core, Held
  <2>3. \A i \in Handles : pc'[i] \in Opened => generation'[i] \in Nat /\ generation'[i] <= gen /\ file # None
    BY <1>6 DEF Core, Behind, Opened, VInv, TypeOK
  <2>4. Behind' /\ Held' /\ Written' /\ Current'
    BY <1>1, <2>1, <2>2, <2>3 DEF Behind, Held, Written, Current
  <2>5. Safe'
    <3>1. file = contents[h] /\ file # None
      BY <1>1 DEF Core, Written, Behind, Opened
    <3> SUFFICES ASSUME NEW k \in Keys PROVE file[k] \in Allowed(k)'
      BY <1>1, <3>1 DEF Safe
    <3>0. file[k] \in Allowed(k)
      BY <3>1 DEF Core, Safe
    <3>2. CASE k = key[h] /\ ~(owed' = owed /\ pending' = pending)
      BY <1>1, <3>1, <3>2 DEF Allowed, VInv, TypeOK
    <3>3. CASE k # key[h] /\ ~(owed' = owed /\ pending' = pending)
      BY <1>1, <3>0, <3>3 DEF Allowed, VInv, TypeOK
    <3>4. CASE owed' = owed /\ pending' = pending
      BY <3>0, <3>4 DEF Allowed
    <3> QED
      BY <3>2, <3>3, <3>4
  <2> QED
    BY <2>4, <2>5 DEF Core
<1> QED
  BY <1>5, <1>7, <1>8 DEF VInv

LEMMA CheckRootStep == ASSUME VInv, NEW h \in Handles, CheckRoot(h) PROVE VInv'
<1>1. CASE root = "used" \/ file # None
  <2>1. /\ End(h, "done") /\ "done" \in Ended /\ root' \in {"absent", "empty", "used"}
        /\ UNCHANGED <<file, gen, history>>
    BY <1>1 DEF CheckRoot, Ended, VInv, TypeOK
  <2> QED
    BY <2>1, EndStep
<1>2. CASE ~(root = "used" \/ file # None)
  <2>1. /\ pc[h] = "check" /\ Goto(h, "write") /\ root' \in {"absent", "empty", "used"}
        /\ UNCHANGED <<file, gen, locks, op, key, state, history>>
    BY <1>2 DEF CheckRoot
  <2>2. TypeOK'
    BY <2>1 DEF VInv, TypeOK, Goto, Steps, locks, state, history
  <2>3. pc'[h] = "write" /\ \A i \in Handles \ {h} : pc'[i] = pc[i]
    BY <2>1 DEF VInv, TypeOK, Goto
  <2>4. Keyed'
    BY <2>1, <2>3 DEF VInv, Keyed, Opened, Steps
  <2>5. ASSUME overtaken' = {} PROVE Core'
    <3> Core
      BY <2>1, <2>5 DEF VInv, history
    <3>1. Behind' /\ Held' /\ Written'
      BY <2>1, <2>3 DEF Core, Behind, Held, Written, Opened, state, locks
    <3>2. Current' /\ Safe'
      BY <2>1, <2>3 DEF Core, Current, Safe, Opened, Allowed, history, state
    <3> QED
      BY <3>1, <3>2 DEF Core
  <2> QED
    BY <2>2, <2>4, <2>5 DEF VInv
<1> QED
  BY <1>1, <1>2

\* A new file where there was none: nobody has one open.
LEMMA WriteNewStep == ASSUME VInv, NEW h \in Handles, WriteNew(h) PROVE VInv'
<1>1. /\ pc[h] = "write" /\ file' = Empty /\ Goto(h, "init")
      /\ overtaken' = IF file # None THEN overtaken \cup {"create"} ELSE overtaken
      /\ UNCHANGED <<root, gen, locks, op, key, state, owed, pending>>
  BY DEF WriteNew
<1>2. TypeOK'
  BY <1>1, EmptyType DEF VInv, TypeOK, Goto, Steps, locks, state
<1>3. pc'[h] = "init" /\ \A i \in Handles \ {h} : pc'[i] = pc[i]
  BY <1>1 DEF VInv, TypeOK, Goto
<1>4. Keyed'
  BY <1>1, <1>3 DEF VInv, Keyed, Opened, Steps
<1>5. ASSUME overtaken' = {} PROVE Core'
  <2>1. file = None /\ overtaken = {}
    BY <1>1, <1>5
  <2> Core
    BY <2>1 DEF VInv
  <2>2. \A i \in Handles : pc'[i] \notin Opened
    BY <1>3, <2>1 DEF Core, Behind, Opened
  <2>3. Behind' /\ Current' /\ Held' /\ Written'
    BY <2>2 DEF Behind, Current, Held, Written, Opened
  <2>4. Safe'
    BY <1>1, <2>1 DEF Core, Safe, Allowed, Empty
  <2> QED
    BY <2>3, <2>4 DEF Core
<1> QED
  BY <1>2, <1>4, <1>5 DEF VInv

LEMMA InitGenerationStep == ASSUME VInv, NEW h \in Handles, InitGeneration(h) PROVE VInv'
<1>1. /\ pc[h] = "init" /\ root' = "used" /\ gen' = 0
      /\ overtaken' = IF gen # 0 THEN overtaken \cup {"reset"} ELSE overtaken
      /\ UNCHANGED <<file, owed, pending>>
  BY DEF InitGeneration
<1>2. CASE gen = 0
  <2>1. UNCHANGED <<file, gen, history>> /\ root' \in {"absent", "empty", "used"}
    BY <1>1, <1>2 DEF history
  <2>2. CASE op[h] = "check"
    <3>1. Goto(h, "read") /\ UNCHANGED <<locks, op, key, state>>
      BY <2>2 DEF InitGeneration
    <3>2. op[h] \in Ops /\ key[h] \in Keys
      BY <1>1, <2>2 DEF VInv, Keyed, Steps, Ops
    <3>3. op' = [op EXCEPT ![h] = op[h]] /\ key' = [key EXCEPT ![h] = key[h]] /\ op[h] # "init"
      BY <2>2, <3>1 DEF VInv, TypeOK
    <3>4. tenantLock' \in Values /\ UNCHANGED flock
      BY <3>1 DEF VInv, TypeOK, locks
    <3> QED
      BY <2>1, <3>1, <3>2, <3>3, <3>4, GotoStep
  <2>3. CASE op[h] # "check"
    BY <2>1, <2>3, EndStep DEF InitGeneration, Ended
  <2> QED
    BY <2>2, <2>3
<1>3. CASE gen # 0
  <2>1. overtaken' # {} /\ overtaken' \subseteq {"open", "create", "reset", "force"}
    BY <1>1, <1>3 DEF VInv, TypeOK
  <2>2. CASE op[h] = "check"
    <3>1. Goto(h, "read") /\ UNCHANGED <<locks, op, key, state>>
      BY <2>2 DEF InitGeneration
    <3>2. TypeOK'
      BY <1>1, <2>1, <3>1 DEF VInv, TypeOK, Goto, Steps, locks, state
    <3>3. Keyed'
      BY <1>1, <2>2, <3>1 DEF VInv, TypeOK, Keyed, Goto, Opened, Steps
    <3> QED
      BY <2>1, <3>2, <3>3 DEF VInv
  <2>3. CASE op[h] # "check"
    <3>1. End(h, "done")
      BY <2>3 DEF InitGeneration
    <3>2. contents' \in [Handles -> [Keys -> Values]]
      BY <3>1, EmptyType DEF VInv, TypeOK, End
    <3>3. TypeOK'
      BY <1>1, <2>1, <3>1, <3>2 DEF VInv, TypeOK, End, Goto, Ended, Values
    <3>4. /\ pc'[h] = "done"
          /\ \A i \in Handles \ {h} : pc'[i] = pc[i] /\ op'[i] = op[i] /\ key'[i] = key[i]
      BY <3>1 DEF VInv, TypeOK, End, Goto
    <3>5. Keyed'
      BY <3>4 DEF VInv, Keyed, Opened, Steps
    <3> QED
      BY <2>1, <3>3, <3>5 DEF VInv
  <2> QED
    BY <2>2, <2>3
<1> QED
  BY <1>2, <1>3

LEMMA FailStep == ASSUME VInv, NEW h \in Handles, Fail(h) \/ Vanished(h) PROVE VInv'
<1>1. /\ End(h, "done") /\ "done" \in Ended /\ root' \in {"absent", "empty", "used"}
      /\ UNCHANGED <<file, gen, history>>
  BY DEF Fail, Vanished, disk, VInv, TypeOK, Ended
<1> QED
  BY <1>1, EndStep

LEMMA KilledStep == ASSUME VInv, NEW hs \in SUBSET Handles, Killed(hs) PROVE VInv'
<1>1. contents' \in [Handles -> [Keys -> Values]]
  BY EmptyType DEF VInv, TypeOK, Killed
<1>2. TypeOK'
  BY <1>1 DEF VInv, TypeOK, Killed, Ended, Values, history
<1>3. \A i \in Handles :
        \/ pc'[i] \in Ended \cup {"idle"}
        \/ /\ i \notin hs /\ pc'[i] = pc[i] /\ op'[i] = op[i] /\ key'[i] = key[i]
           /\ contents'[i] = contents[i] /\ generation'[i] = generation[i] /\ (flock = i => flock' = i)
  BY DEF VInv, TypeOK, Killed, Ended, Steps
<1>4. (Ended \cup {"idle"}) \cap (Opened \cup Steps) = {} /\ UNCHANGED <<file, gen, history>>
  BY DEF Ended, Opened, Steps, Killed
<1>5. Keyed'
  BY <1>3 DEF VInv, Keyed, Ended, Opened, Steps
<1>6. ASSUME overtaken' = {} PROVE Core'
  <2> Core
    BY <1>4, <1>6 DEF VInv, history
  <2>1. Behind' /\ Held' /\ Written'
    BY <1>3, <1>4 DEF Core, Behind, Held, Written, Opened, Steps
  <2>2. Current'
    BY <1>3, <1>4 DEF Core, Current, Allowed, history
  <2>3. Safe'
    BY <1>4 DEF Core, Safe, Allowed, history
  <2> QED
    BY <2>1, <2>2, <2>3 DEF Core
<1> QED
  BY <1>2, <1>5, <1>6 DEF VInv

LEMMA StutterStep == VInv /\ UNCHANGED vars => VInv'
<1> SUFFICES ASSUME VInv, UNCHANGED vars PROVE VInv'
  OBVIOUS
<1>1. TypeOK' /\ Keyed'
  BY DEF VInv, TypeOK, Keyed, vars, disk, locks, state, history
<1>2. (overtaken = {} => Core)'
  BY DEF VInv, Core, Behind, Current, Held, Written, Safe, Allowed, vars, disk, locks, state, history
<1> QED
  BY <1>1, <1>2 DEF VInv

LEMMA NextStep == VInv /\ [Next]_vars => VInv'
<1> SUFFICES ASSUME VInv, [Next]_vars PROVE VInv'
  OBVIOUS
<1>1. ASSUME NEW h \in Handles, NEW o \in Ops, NEW k \in Keys, Begin(h, o, k) PROVE VInv'
  BY <1>1, BeginStep
<1>2. ASSUME NEW h \in Handles, BeginForce(h) \/ PubkeyAdd(h) PROVE VInv'
  BY <1>2, ForceStep, PubkeyStep
<1>3. ASSUME NEW h \in Handles, Work(h) \/ Fail(h) PROVE VInv'
  BY <1>3, ReadStep, PeekStep, AcquireStep, ReplaceStep, BumpStep, CheckRootStep, WriteNewStep,
     InitGenerationStep, FailStep DEF Work
<1>4. ASSUME Crash PROVE VInv'
  <2>1. Requests \in SUBSET Handles /\ \A h \in Commands : {h} \in SUBSET Handles
    BY DEF Handles
  <2> QED
    BY <1>4, <2>1, KilledStep DEF Crash
<1>5. CASE UNCHANGED vars
  BY <1>5, StutterStep
<1> QED
  BY <1>1, <1>2, <1>3, <1>4, <1>5 DEF Next

\* The inductive invariant holds in every reachable state.
THEOREM VaultInvariant == Spec => []VInv
BY InitInv, NextStep, PTL DEF Spec

\* Every variable keeps its type, for any requests, commands and secrets.
THEOREM VaultTypeCorrect == Spec => []TypeOK
<1>1. VInv => TypeOK
  BY DEF VInv
<1> QED
  BY <1>1, VaultInvariant, PTL

\* The generation protocol of persist loses no acknowledged store or delete,
\* through any errors and crashes, as long as no writer gets into one of the
\* four windows that no lock covers.
THEOREM AckedWritesAreKept == Spec => []AckedWritesSurvive
<1>1. VInv => AckedWritesSurvive
  BY DEF VInv, Core, Safe, Allowed, AckedWritesSurvive
<1> QED
  BY <1>1, VaultInvariant, PTL

-----------------------------------------------------------------------------
(* Requests against one another.  A storing or deleting request has the    *)
(* tenant's lock from before it reads to the end, so while no command has  *)
(* run the counter it read is the counter still.                           *)
Quiet ==
    (\A h \in Commands : pc[h] = "idle") /\ overtaken \cap {"create", "reset"} = {}

Persists == {"acquire", "replace", "bump"}

Exclusive ==
    \A h \in Requests : op[h] \in Writes /\ pc[h] \in Steps => tenantLock = h
WritersPersist == \A h \in Handles : pc[h] \in Persists => op[h] \in Writes
UpToDate ==
    \A h \in Requests :
        op[h] \in Writes /\ pc[h] \in {"peek", "acquire", "replace"} => generation[h] = gen
Undisturbed == "open" \notin overtaken /\ \A h \in Requests : pc[h] # "conflict"

SInv == Exclusive /\ WritersPersist /\ (Quiet => UpToDate /\ Undisturbed)

\* A command that has begun is never idle again, and history is kept.
LEMMA QuietBefore ==
    ASSUME NEW h \in Handles, \A i \in Handles \ {h} : pc'[i] = pc[i],
           pc[h] # "idle" => pc'[h] # "idle", overtaken \subseteq overtaken', Quiet'
    PROVE  Quiet /\ (h \in Commands => pc'[h] = "idle")
BY DEF Quiet, Handles

\* What a step of one handle must observe for the others' sake.
LEMMA SerialStep ==
    ASSUME TypeOK, SInv, NEW h \in Handles,
           \A i \in Handles \ {h} :
               /\ pc'[i] = pc[i] /\ op'[i] = op[i] /\ generation'[i] = generation[i]
               /\ tenantLock = i => tenantLock' = i,
           h \in Requests /\ op'[h] \in Writes /\ pc'[h] \in Steps => tenantLock' = h,
           pc'[h] \in Persists => op'[h] \in Writes,
           pc[h] # "idle" => pc'[h] # "idle", overtaken \subseteq overtaken',
           Quiet' => gen' = gen \/ tenantLock = h,
           Quiet' /\ h \in Requests =>
               /\ op'[h] \in Writes /\ pc'[h] \in {"peek", "acquire", "replace"} => generation'[h] = gen'
               /\ pc'[h] # "conflict",
           Quiet' => "open" \notin overtaken'
    PROVE  SInv'
<1>1. Requests \subseteq Handles /\ {"peek", "acquire", "replace"} \subseteq Steps
  BY DEF Handles, Steps
<1>2. Exclusive' /\ WritersPersist'
  BY <1>1 DEF SInv, Exclusive, WritersPersist
<1>3. ASSUME Quiet' PROVE UpToDate' /\ Undisturbed'
  <2>1. Quiet
    BY <1>3, QuietBefore
  <2>2. ASSUME NEW i \in Requests, op'[i] \in Writes, pc'[i] \in {"peek", "acquire", "replace"}
        PROVE  generation'[i] = gen'
    <3>1. CASE i # h
      <4>1. tenantLock = i /\ generation[i] = gen
        BY <1>1, <2>1, <2>2, <3>1 DEF SInv, Exclusive, UpToDate
      <4> QED
        BY <1>1, <1>3, <3>1, <4>1
    <3> QED
      BY <1>3, <2>2, <3>1
  <2>3. Undisturbed'
    BY <1>1, <1>3, <2>1 DEF SInv, Undisturbed
  <2> QED
    BY <2>2, <2>3 DEF UpToDate
<1> QED
  BY <1>2, <1>3 DEF SInv

\* A handle that ends disturbs nobody; its own bump is the only one.
LEMMA EndSerial ==
    ASSUME TypeOK, SInv, NEW h \in Handles, NEW result \in Ended, End(h, result),
           overtaken \subseteq overtaken', pc[h] # "idle",
           Quiet' => overtaken' = overtaken /\ (gen' = gen \/ tenantLock = h),
           Quiet' /\ h \in Requests => result # "conflict"
    PROVE  SInv'
<1>1. /\ pc'[h] = result
      /\ \A i \in Handles \ {h} :
               /\ pc'[i] = pc[i] /\ op'[i] = op[i] /\ generation'[i] = generation[i]
               /\ tenantLock = i => tenantLock' = i
  BY DEF End, Goto, TypeOK
<1>2. result \notin Steps /\ result \notin Persists /\ result # "idle"
      /\ result \notin {"peek", "acquire", "replace"}
  BY DEF Ended, Steps, Persists
<1>3. Quiet' => "open" \notin overtaken'
  BY <1>1, <1>2, QuietBefore DEF SInv, Undisturbed
<1> QED
  BY <1>1, <1>2, <1>3, SerialStep

LEMMA SerialInit == Init => SInv
BY DEF Init, SInv, Exclusive, WritersPersist, UpToDate, Undisturbed, Steps, Persists, Handles

LEMMA SerialBegin ==
    ASSUME TypeOK, SInv, NEW h \in Handles, NEW o \in Ops, NEW k \in Keys, Begin(h, o, k)
    PROVE  SInv'
<1>1. /\ pc'[h] \in {"read", "check"} /\ op'[h] = o /\ pc[h] = "idle"
      /\ \A i \in Handles \ {h} :
            pc'[i] = pc[i] /\ op'[i] = op[i] /\ generation'[i] = generation[i]
      /\ gen' = gen /\ overtaken' = overtaken
      /\ IF h \in Requests /\ o \in Writes THEN tenantLock = None /\ tenantLock' = h
         ELSE tenantLock' = tenantLock
  BY DEF Begin, Goto, TypeOK, disk, state, history
<1>2. {"read", "check"} \cap (Persists \cup {"peek", "acquire", "replace", "conflict", "idle"}) = {}
  BY DEF Persists
<1>3. Quiet' => Quiet
  BY <1>1, QuietBefore
<1>4. \A i \in Handles \ {h} : tenantLock = i => tenantLock' = i
  BY <1>1
<1>5. Quiet' => "open" \notin overtaken'
  BY <1>1, <1>3 DEF SInv, Undisturbed
<1> QED
  BY <1>1, <1>2, <1>4, <1>5, SerialStep

\* A command that starts or is done ends the quiet.
LEMMA SerialCommand ==
    ASSUME TypeOK, SInv, NEW h \in Handles, BeginForce(h) \/ PubkeyAdd(h)
    PROVE  SInv'
<1>1. /\ pc'[h] \in {"check", "done"} /\ h \in Commands
      /\ \A i \in Handles \ {h} :
            pc'[i] = pc[i] /\ op'[i] = op[i] /\ generation'[i] = generation[i]
      /\ overtaken \subseteq overtaken' /\ tenantLock' = tenantLock
  BY DEF BeginForce, PubkeyAdd, Goto, TypeOK, state, history, locks
<1>2. ~Quiet' /\ h \notin Requests
  BY <1>1 DEF Quiet
<1>3. pc'[h] \notin Persists /\ pc'[h] # "idle"
  BY <1>1 DEF Persists
<1> QED
  BY <1>1, <1>2, <1>3, SerialStep

LEMMA SerialRead == ASSUME TypeOK, SInv, NEW h \in Handles, Read(h) PROVE SInv'
<1>0. pc[h] = "read" /\ gen' = gen /\ overtaken' = overtaken /\ "done" \in Ended
  BY DEF Read, disk, history, Ended
<1>1. CASE End(h, "done")
  BY <1>0, <1>1, EndSerial
<1>2. CASE /\ pc'[h] \in {"peek", "check"} /\ op' = op /\ tenantLock' = tenantLock
           /\ \A i \in Handles \ {h} : pc'[i] = pc[i] /\ generation'[i] = generation[i]
           /\ pc'[h] = "peek" => generation'[h] = gen
  <2>1. Quiet' => Quiet
    BY <1>0, <1>2, QuietBefore
  <2>2. Quiet' => "open" \notin overtaken'
    BY <1>0, <2>1 DEF SInv, Undisturbed
  <2>3. h \in Requests /\ op'[h] \in Writes /\ pc'[h] \in Steps => tenantLock' = h
    BY <1>0, <1>2 DEF SInv, Exclusive, Steps
  <2>4. pc'[h] \notin Persists /\ pc'[h] \notin {"acquire", "replace", "conflict", "idle"}
    BY <1>2 DEF Persists
  <2> QED
    BY <1>0, <1>2, <2>2, <2>3, <2>4, SerialStep
<1> QED
  BY <1>1, <1>2 DEF Read, Goto, TypeOK, locks, state

LEMMA SerialPeek == ASSUME TypeOK, SInv, NEW h \in Handles, Peek(h) PROVE SInv'
<1>0. pc[h] = "peek" /\ gen' = gen /\ "done" \in Ended
  BY DEF Peek, disk, Ended
<1>1. CASE End(h, "done") /\ UNCHANGED overtaken
  BY <1>0, <1>1, EndSerial
<1>2. CASE /\ op[h] \in Writes /\ generation' = [generation EXCEPT ![h] = gen]
           /\ overtaken' = IF generation[h] # gen /\ contents[h] # file
                             THEN overtaken \cup {"open"} ELSE overtaken
           /\ Goto(h, "acquire") /\ UNCHANGED <<locks, op, key>>
  <2>1. /\ pc'[h] = "acquire" /\ op' = op /\ tenantLock' = tenantLock /\ generation'[h] = gen
        /\ \A i \in Handles \ {h} : pc'[i] = pc[i] /\ generation'[i] = generation[i]
        /\ overtaken \subseteq overtaken'
    BY <1>2 DEF Goto, TypeOK, locks
  <2>2. Quiet' => Quiet /\ h \in Requests
    BY <1>0, <2>1, QuietBefore DEF Handles
  <2>3. Quiet' => generation[h] = gen /\ "open" \notin overtaken
    BY <1>0, <1>2, <2>2 DEF SInv, UpToDate, Undisturbed
  <2>4. Quiet' => "open" \notin overtaken'
    BY <1>2, <2>3
  <2>5. h \in Requests /\ op'[h] \in Writes /\ pc'[h] \in Steps => tenantLock' = h
    BY <1>0, <2>1 DEF SInv, Exclusive, Steps
  <2> QED
    BY <1>0, <1>2, <2>1, <2>4, <2>5, SerialStep
<1> QED
  BY <1>1, <1>2 DEF Peek

LEMMA SerialPersist ==
    ASSUME TypeOK, SInv, NEW h \in Handles, Acquire(h) \/ Replace(h) \/ Bump(h) PROVE SInv'
<1>0. pc[h] \in Persists /\ pc[h] \in Steps /\ overtaken' = overtaken /\ op[h] \in Writes
      /\ "done" \in Ended /\ "conflict" \in Ended
  BY DEF Acquire, Replace, Bump, Persists, Steps, history, SInv, WritersPersist, Ended
<1>1. CASE /\ pc'[h] \in {"replace", "bump"} /\ op' = op /\ tenantLock' = tenantLock
           /\ gen' = gen /\ generation' = generation
           /\ \A i \in Handles \ {h} : pc'[i] = pc[i]
           /\ pc'[h] = "replace" => generation[h] = gen
  <2>1. Quiet' => Quiet
    BY <1>0, <1>1, QuietBefore
  <2>2. Quiet' => "open" \notin overtaken'
    BY <1>0, <2>1 DEF SInv, Undisturbed
  <2>3. h \in Requests => tenantLock' = h
    BY <1>0, <1>1 DEF SInv, Exclusive
  <2>4. pc'[h] \notin {"peek", "acquire", "conflict", "idle"}
    BY <1>1
  <2> QED
    BY <1>0, <1>1, <2>2, <2>3, <2>4, SerialStep
<1>2. CASE Acquire(h) /\ generation[h] # gen
  <2>1. End(h, "conflict") /\ pc[h] = "acquire" /\ gen' = gen
    BY <1>2 DEF Acquire
  <2>2. \A i \in Handles \ {h} : pc'[i] = pc[i]
    BY <2>1 DEF End, Goto, TypeOK
  <2>3. pc'[h] # "idle"
    BY <2>1 DEF End, Goto, TypeOK
  <2>4. ~(Quiet' /\ h \in Requests)
    BY <1>0, <1>2, <2>1, <2>2, <2>3, QuietBefore DEF SInv, UpToDate
  <2> QED
    BY <1>0, <2>1, <2>4, EndSerial
<1>3. CASE Bump(h)
  <2>1. End(h, "done")
    BY <1>3 DEF Bump
  <2>2. pc'[h] # "idle" /\ \A i \in Handles \ {h} : pc'[i] = pc[i]
    BY <2>1 DEF End, Goto, TypeOK
  <2>3. Quiet' => h \in Requests
    BY <1>0, <2>2, QuietBefore DEF Handles
  <2>4. Quiet' => tenantLock = h
    BY <1>0, <2>3 DEF SInv, Exclusive
  <2>5. pc[h] # "idle"
    BY <1>0 DEF Steps
  <2> QED
    BY <1>0, <2>1, <2>4, <2>5, EndSerial
<1> QED
  BY <1>1, <1>2, <1>3 DEF Acquire, Replace, Goto, TypeOK, locks, state

LEMMA SerialCreate ==
    ASSUME TypeOK, SInv, NEW h \in Handles, CheckRoot(h) \/ WriteNew(h) \/ InitGeneration(h)
    PROVE  SInv'
<1>0. /\ pc[h] \in Steps /\ pc[h] # "idle" /\ "done" \in Ended
      /\ overtaken' \in {overtaken, overtaken \cup {"create"}, overtaken \cup {"reset"}}
      /\ gen' = gen \/ "reset" \in overtaken'
  BY DEF CheckRoot, WriteNew, InitGeneration, history, Steps, Ended
<1>1. Quiet' => overtaken' = overtaken /\ gen' = gen
  BY <1>0 DEF Quiet
<1>2. CASE End(h, "done")
  BY <1>0, <1>1, <1>2, EndSerial
<1>3. CASE /\ pc'[h] \in {"write", "init", "read"} /\ op' = op /\ tenantLock' = tenantLock
           /\ generation' = generation /\ \A i \in Handles \ {h} : pc'[i] = pc[i]
  <2>1. Quiet' => Quiet
    BY <1>0, <1>3, QuietBefore
  <2>2. Quiet' => "open" \notin overtaken'
    BY <1>1, <2>1 DEF SInv, Undisturbed
  <2>3. h \in Requests /\ op'[h] \in Writes => tenantLock' = h
    BY <1>0, <1>3 DEF SInv, Exclusive
  <2>4. pc'[h] \notin Persists /\ pc'[h] \notin {"peek", "acquire", "replace", "conflict", "idle"}
    BY <1>3 DEF Persists
  <2>5. overtaken \subseteq overtaken'
    BY <1>0
  <2> QED
    BY <1>1, <1>3, <2>2, <2>3, <2>4, <2>5, SerialStep
<1> QED
  BY <1>2, <1>3 DEF CheckRoot, WriteNew, InitGeneration, Goto, TypeOK, locks, state

LEMMA SerialFail ==
    ASSUME TypeOK, SInv, NEW h \in Handles, Fail(h) \/ Vanished(h) PROVE SInv'
<1>1. /\ End(h, "done") /\ "done" \in Ended /\ gen' = gen /\ overtaken' = overtaken
      /\ pc[h] # "idle"
  BY DEF Fail, Vanished, Ended, disk, history, Steps
<1> QED
  BY <1>1, EndSerial

LEMMA SerialKilled ==
    ASSUME TypeOK, SInv, NEW hs \in SUBSET Handles, Killed(hs) PROVE SInv'
<1>1. /\ gen' = gen /\ overtaken' = overtaken
      /\ \A i \in Handles :
            \/ i \in hs /\ op'[i] = None /\ pc'[i] = IF pc[i] \in Steps THEN "done" ELSE pc[i]
            \/ /\ i \notin hs /\ pc'[i] = pc[i] /\ op'[i] = op[i] /\ generation'[i] = generation[i]
               /\ tenantLock = i => tenantLock' = i
  BY DEF Killed, history
<1>3. Exclusive'
  BY <1>1 DEF SInv, Exclusive, Handles, Steps
<1>4. WritersPersist'
  BY <1>1 DEF SInv, WritersPersist, Persists, Steps
<1>5. ASSUME Quiet' PROVE UpToDate' /\ Undisturbed'
  <2>1. Quiet
    BY <1>1, <1>5 DEF Quiet, Handles, Steps
  <2>2. UpToDate'
    BY <1>1, <2>1 DEF SInv, UpToDate, Handles, Steps
  <2>3. Undisturbed'
    BY <1>1, <2>1 DEF SInv, Undisturbed, Handles, Steps
  <2> QED
    BY <2>2, <2>3
<1> QED
  BY <1>3, <1>4, <1>5 DEF SInv

LEMMA SerialNext == TypeOK /\ SInv /\ [Next]_vars => SInv'
<1> SUFFICES ASSUME TypeOK, SInv, [Next]_vars PROVE SInv'
  OBVIOUS
<1>1. ASSUME NEW h \in Handles, NEW o \in Ops, NEW k \in Keys, Begin(h, o, k) PROVE SInv'
  BY <1>1, SerialBegin
<1>2. ASSUME NEW h \in Handles, BeginForce(h) \/ PubkeyAdd(h) PROVE SInv'
  BY <1>2, SerialCommand
<1>3. ASSUME NEW h \in Handles, Work(h) \/ Fail(h) PROVE SInv'
  BY <1>3, SerialRead, SerialPeek, SerialPersist, SerialCreate, SerialFail DEF Work
<1>4. ASSUME Crash PROVE SInv'
  <2>1. Requests \in SUBSET Handles /\ \A h \in Commands : {h} \in SUBSET Handles
    BY DEF Handles
  <2> QED
    BY <1>4, <2>1, SerialKilled DEF Crash
<1>5. CASE UNCHANGED vars
  BY <1>5 DEF SInv, Exclusive, WritersPersist, Quiet, UpToDate, Undisturbed, vars, disk, locks, state, history
<1> QED
  BY <1>1, <1>2, <1>3, <1>4, <1>5 DEF Next

\* Until a command has run, the tenant's lock keeps auth-broker's stores and
\* deletes apart: none overtakes the open of another and none is answered with
\* a conflict, for any number of requests and through any errors and crashes.
THEOREM RequestsAreSerial == Spec => []RequestsSerialise
<1>1. SInv => RequestsSerialise
  BY DEF SInv, Quiet, Undisturbed, RequestsSerialise
<1> QED
  BY <1>1, SerialInit, SerialNext, VaultTypeCorrect, PTL DEF Spec
=============================================================================
