--------------------------- MODULE LeaseCacheProofs ---------------------------
(***************************************************************************)
(* For any number of leases and requests and any times to live: the state  *)
(* is well typed, a revocation is final, and a capability of a revoked     *)
(* lease is at least as old as the revocation.                             *)
(*                                                                         *)
(* The last is not inductive: capabilities come from requests in flight.   *)
(* LInv adds that a request which got past the SELECT of its validation    *)
(* started no later than a revocation of its lease, and stays so because   *)
(* both ages grow together.                                                *)
(***************************************************************************)
EXTENDS LeaseCache, TLAPS

Validated == {"extend", "remember", "unlock", "create", "write", "cache", "mint"}

Owned ==
    \A r \in Reqs :
      /\ pc[r] # "idle" => lease[r] \in Leases
      /\ pc[r] = "idle" => caps[r] = None
      /\ pc[r] \in {"cache", "mint"} => master[r] \in Leases \X Reqs

StartedBefore ==
    \A r \in Reqs : pc[r] \in Validated /\ row[lease[r]] = "revoked" => age[r] >= since[lease[r]]

LInv == TypeOK /\ Owned /\ StartedBefore /\ RevokedCapsExpire

LEMMA OlderFacts ==
    /\ \A a \in Ages : Older(a) \in Ages /\ Older(a) >= a
    /\ \A a, b \in Ages : a >= b => Older(a) >= Older(b)
BY LeaseCacheAssumption DEF Ages, Older

LEMMA AgeFacts == 0 \in Ages /\ None \notin Ages /\ None \notin Leases /\ Ages \subseteq Nat
BY LeaseCacheAssumption DEF Ages

LEMMA InitLInv == Init => LInv
BY AgeFacts DEF Init, LInv, TypeOK, Owned, StartedBefore, RevokedCapsExpire, Validated

-----------------------------------------------------------------------------

\* A step of a request that leaves rows and capabilities alone.
LEMMA QuietStep ==
    ASSUME LInv, NEW r \in Reqs,
           Select(r) \/ Refuse(r) \/ Remember(r) \/ Unlock(r) \/ Create(r) \/ WriteVault(r)
    PROVE  LInv'
<1>1. /\ UNCHANGED <<row, since, cache, caps, kind, lease, fetch, revoker, pruned>>
      /\ pc[r] # "idle" /\ pc[r] # "mint"
  BY DEF Select, Refuse, Remember, Unlock, Create, WriteVault, Goto, memory, others
<1>2. lease[r] \in Leases
  BY <1>1 DEF LInv, Owned
<1>3. /\ pc' \in [Reqs -> {"idle", "select", "extend", "remember", "unlock", "create", "write",
                           "cache", "mint", "evict", "revoke", "done", "refused", "locked"}]
      /\ \A s \in Reqs : s # r => pc'[s] = pc[s] /\ age'[s] = age[s] /\ master'[s] = master[s]
      /\ pc'[r] \in {"extend", "refused", "unlock", "evict", "done", "create", "cache", "locked", "write"}
      /\ pc'[r] \in Validated =>
           age'[r] = age[r] /\ (pc[r] \in Validated \/ row[lease[r]] = "live")
      /\ age' \in [Reqs -> Ages]
  BY AgeFacts
  DEF Select, Refuse, Remember, Unlock, Create, WriteVault, Goto, LInv, TypeOK, Validated
<1>4. /\ master' \in [Reqs -> (Leases \X Reqs) \cup {None}]
      /\ vault' \in (Leases \X Reqs) \cup {None, Earlier}
      /\ keys' \in [Leases -> Ages \cup {None}]
      /\ pc'[r] \in {"cache", "mint"} => master'[r] \in Leases \X Reqs
  <2>1. CASE WriteVault(r)
    <3>1. <<lease[r], r>> \in Leases \X Reqs
      BY <1>2
    <3> QED
      BY <2>1, <3>1 DEF WriteVault, Goto, LInv, TypeOK, memory
  <2>2. CASE Unlock(r)
    <3>1. ASSUME vault # None, vault[1] = lease[r] PROVE vault \in Leases \X Reqs
      <4>1. vault # Earlier
        BY <3>1, <1>2, AgeFacts DEF Earlier
      <4> QED
        BY <4>1, <3>1 DEF LInv, TypeOK
    <3> QED
      BY <2>2, <3>1 DEF Unlock, Goto, LInv, TypeOK, memory
  <2>3. CASE Select(r) \/ Refuse(r) \/ Remember(r) \/ Create(r)
    BY <2>3, <1>2, AgeFacts DEF Select, Refuse, Remember, Create, Goto, LInv, TypeOK, memory
  <2> QED
    BY <2>1, <2>2, <2>3
<1>5. TypeOK'
  BY <1>1, <1>3, <1>4 DEF LInv, TypeOK
<1>6. Owned'
  BY <1>1, <1>2, <1>3, <1>4 DEF LInv, Owned
<1>7. StartedBefore'
  BY <1>1, <1>3 DEF LInv, StartedBefore
<1>8. RevokedCapsExpire'
  BY <1>1 DEF LInv, RevokedCapsExpire
<1> QED
  BY <1>5, <1>6, <1>7, <1>8 DEF LInv

LEMMA StartStep ==
    ASSUME LInv, NEW r \in Reqs, NEW k \in {"check", "logout", "look"}, NEW l \in Leases, Start(r, k, l)
    PROVE  LInv'
<1>1. TypeOK'
  BY DEF LInv, TypeOK, Start, memory, others
<1>2. Owned'
  BY DEF LInv, TypeOK, Owned, Start, memory
<1>3. StartedBefore'
  BY DEF LInv, TypeOK, StartedBefore, Validated, Start
<1>4. RevokedCapsExpire'
  BY DEF LInv, TypeOK, Owned, RevokedCapsExpire, Start, memory
<1> QED
  BY <1>1, <1>2, <1>3, <1>4 DEF LInv

LEMMA ExtendStep == ASSUME LInv, NEW r \in Reqs, Extend(r) PROVE LInv'
<1>1. /\ UNCHANGED <<since, vault, keys, cache, caps, kind, lease, age, master, fetch, revoker, pruned>>
      /\ pc[r] = "extend" /\ pc' = [pc EXCEPT ![r] = "remember"]
  BY DEF Extend, Goto, memory, others
<1>2. lease[r] \in Leases
  BY <1>1 DEF LInv, Owned
<1>3. /\ row' \in [Leases -> {"none", "live", "lapsed", "revoked"}]
      /\ \A l \in Leases : row'[l] = "revoked" => row[l] = "revoked"
  BY <1>2 DEF Extend, LInv, TypeOK
<1>4. TypeOK'
  BY <1>1, <1>3 DEF LInv, TypeOK
<1>5. Owned'
  BY <1>1 DEF LInv, TypeOK, Owned
<1>6. StartedBefore'
  BY <1>1, <1>3, <1>5 DEF LInv, TypeOK, Owned, StartedBefore, Validated
<1>7. RevokedCapsExpire'
  BY <1>1, <1>3 DEF LInv, TypeOK, Owned, RevokedCapsExpire
<1> QED
  BY <1>4, <1>5, <1>6, <1>7 DEF LInv

LEMMA CacheStep == ASSUME LInv, NEW r \in Reqs, CacheMaster(r) PROVE LInv'
<1>1. /\ UNCHANGED <<row, since, vault, keys, caps, kind, lease, age, master, fetch, revoker, pruned>>
      /\ pc[r] = "cache" /\ pc' = [pc EXCEPT ![r] = "mint"]
  BY DEF CacheMaster, Goto, others
<1>2. lease[r] \in Leases /\ master[r] \in Leases \X Reqs /\ age[r] \in Ages
  BY <1>1 DEF LInv, Owned, TypeOK
<1>3. cache' \in [Leases -> Entry \cup {None}]
  BY <1>2 DEF CacheMaster, LInv, TypeOK, Entry
<1>4. TypeOK'
  BY <1>1, <1>3 DEF LInv, TypeOK
<1>5. Owned' /\ StartedBefore' /\ RevokedCapsExpire'
  BY <1>1, <1>2 DEF LInv, TypeOK, Owned, StartedBefore, RevokedCapsExpire, Validated
<1> QED
  BY <1>4, <1>5 DEF LInv

LEMMA MintStep == ASSUME LInv, NEW r \in Reqs, MintCap(r) PROVE LInv'
<1>1. /\ UNCHANGED <<row, since, vault, keys, cache, kind, lease, master, fetch, revoker, pruned>>
      /\ pc[r] = "mint" /\ pc' = [pc EXCEPT ![r] = "done"]
      /\ age' = [age EXCEPT ![r] = 0] /\ caps' = [caps EXCEPT ![r] = age[r]]
  BY DEF MintCap, Goto, others
<1>2. TypeOK'
  BY <1>1, AgeFacts DEF LInv, TypeOK
<1>3. Owned' /\ StartedBefore'
  BY <1>1 DEF LInv, TypeOK, Owned, StartedBefore, Validated
<1>4. RevokedCapsExpire'
  BY <1>1 DEF LInv, TypeOK, StartedBefore, RevokedCapsExpire, Validated
<1> QED
  BY <1>2, <1>3, <1>4 DEF LInv

-----------------------------------------------------------------------------

\* Capabilities only go away.
LEMMA EvictStep ==
    ASSUME LInv, UNCHANGED <<row, since, vault, pc, kind, lease, age, master>>,
           caps' \in [Reqs -> Ages \cup {None}], \A r \in Reqs : caps'[r] \in {caps[r], None},
           keys' \in [Leases -> Ages \cup {None}], cache' \in [Leases -> Entry \cup {None}],
           fetch' \in [Reqs -> {"idle", "open", "evict"}],
           revoker' \in [Leases -> {"idle", "evict"}],
           pruned' \in (SUBSET Leases) \cup {None}
    PROVE  LInv'
<1>1. TypeOK'
  BY DEF LInv, TypeOK
<1>2. Owned' /\ StartedBefore' /\ RevokedCapsExpire'
  BY DEF LInv, Owned, StartedBefore, RevokedCapsExpire
<1> QED
  BY <1>1, <1>2 DEF LInv

LEMMA EvictCapsFacts ==
    ASSUME LInv, NEW ls, EvictCaps(ls)
    PROVE  caps' \in [Reqs -> Ages \cup {None}] /\ \A r \in Reqs : caps'[r] \in {caps[r], None}
BY DEF EvictCaps, LInv, TypeOK

\* The row of a lease is marked revoked now, by an administrator or a logout.
LEMMA RevokeStep ==
    ASSUME LInv, NEW l \in Leases, Revoked(l), UNCHANGED <<vault, keys, cache, caps, kind, lease, master, fetch, pruned>>,
           revoker' \in [Leases -> {"idle", "evict"}],
           pc' \in [Reqs -> {"idle", "select", "extend", "remember", "unlock", "create", "write", "cache",
                             "mint", "evict", "revoke", "done", "refused", "locked"}],
           age' \in [Reqs -> Ages],
           \A r \in Reqs : \/ pc'[r] = pc[r] /\ age'[r] = age[r]
                           \/ pc[r] = "revoke" /\ pc'[r] = "done"
    PROVE  LInv'
<1>1. /\ row' \in [Leases -> {"none", "live", "lapsed", "revoked"}]
      /\ since' \in [Leases -> Ages]
      /\ \A m \in Leases : row'[m] = "revoked" =>
           since'[m] = 0 \/ (since'[m] = since[m] /\ row[m] = "revoked")
  BY AgeFacts DEF Revoked, LInv, TypeOK
<1>2. TypeOK'
  BY <1>1 DEF LInv, TypeOK
<1>3. Owned'
  BY DEF LInv, Owned
<1>4. StartedBefore'
  <2> SUFFICES ASSUME NEW r \in Reqs, pc'[r] \in Validated, row'[lease[r]] = "revoked"
               PROVE  age'[r] >= since'[lease[r]]
    BY DEF StartedBefore
  <2>1. pc[r] = pc'[r] /\ age'[r] = age[r] /\ lease[r] \in Leases /\ age[r] \in Nat
    BY AgeFacts DEF LInv, TypeOK, Owned, Validated
  <2>2. CASE since'[lease[r]] = 0
    BY <2>1, <2>2
  <2>3. CASE since'[lease[r]] = since[lease[r]] /\ row[lease[r]] = "revoked"
    BY <2>1, <2>3 DEF LInv, StartedBefore
  <2> QED
    BY <1>1, <2>1, <2>2, <2>3
<1>5. RevokedCapsExpire'
  <2> SUFFICES ASSUME NEW r \in Reqs, caps[r] # None, row'[lease[r]] = "revoked"
               PROVE  caps[r] >= since'[lease[r]]
    BY DEF RevokedCapsExpire
  <2>a. caps[r] \in Ages
    BY DEF LInv, TypeOK
  <2>b. pc[r] # "idle"
    BY DEF LInv, Owned
  <2>c. lease[r] \in Leases
    BY <2>b DEF LInv, Owned
  <2>1. lease[r] \in Leases /\ caps[r] \in Nat
    BY <2>a, <2>c, AgeFacts
  <2>2. CASE since'[lease[r]] = 0
    BY <2>1, <2>2
  <2>3. CASE since'[lease[r]] = since[lease[r]] /\ row[lease[r]] = "revoked"
    BY <2>3 DEF LInv, RevokedCapsExpire
  <2> QED
    BY <1>1, <2>1, <2>2, <2>3
<1> QED
  BY <1>2, <1>3, <1>4, <1>5 DEF LInv

LEMMA LogoutStep == ASSUME LInv, NEW r \in Reqs, LogoutEvict(r) \/ LogoutRevoke(r) PROVE LInv'
<1>1. lease[r] \in Leases
  BY DEF LInv, Owned, LogoutEvict, LogoutRevoke
<1>2. /\ UNCHANGED <<vault, keys, cache, kind, lease, master, fetch, revoker, pruned>>
      /\ age' \in [Reqs -> Ages]
      /\ \A s \in Reqs : s # r => pc'[s] = pc[s] /\ age'[s] = age[s]
  BY AgeFacts DEF LogoutEvict, LogoutRevoke, Goto, LInv, TypeOK, memory, others
<1>3. CASE LogoutEvict(r)
  <2>1. /\ UNCHANGED <<row, since>> /\ EvictCaps({lease[r]})
        /\ pc' = [pc EXCEPT ![r] = "revoke"] /\ pc[r] = "evict"
    BY <1>3 DEF LogoutEvict, Goto
  <2>2. caps' \in [Reqs -> Ages \cup {None}] /\ \A s \in Reqs : caps'[s] \in {caps[s], None}
    BY <2>1, EvictCapsFacts
  <2>3. TypeOK'
    BY <1>2, <2>1, <2>2 DEF LInv, TypeOK
  <2>4. Owned'
    BY <1>2, <2>1, <2>2 DEF LInv, TypeOK, Owned
  <2>5. StartedBefore'
    BY <1>2, <2>1 DEF LInv, TypeOK, StartedBefore, Validated
  <2>6. RevokedCapsExpire'
    BY <1>2, <2>1, <2>2 DEF LInv, RevokedCapsExpire
  <2> QED
    BY <2>3, <2>4, <2>5, <2>6 DEF LInv
<1>4. CASE LogoutRevoke(r)
  <2>1. UNCHANGED caps /\ pc[r] = "revoke"
    BY <1>4 DEF LogoutRevoke, memory
  <2>2. CASE Revoked(lease[r]) /\ Goto(r, "done")
    <3>1. /\ pc' = [pc EXCEPT ![r] = "done"]
          /\ revoker' \in [Leases -> {"idle", "evict"}]
      BY <2>2, <1>2 DEF Goto, LInv, TypeOK
    <3>2. /\ pc' \in [Reqs -> {"idle", "select", "extend", "remember", "unlock", "create", "write", "cache",
                               "mint", "evict", "revoke", "done", "refused", "locked"}]
          /\ \A s \in Reqs : \/ pc'[s] = pc[s] /\ age'[s] = age[s]
                             \/ pc[s] = "revoke" /\ pc'[s] = "done"
      BY <3>1, <1>2, <2>1 DEF LInv, TypeOK
    <3> QED
      BY <1>1, <1>2, <2>1, <2>2, <3>1, <3>2, RevokeStep
  <2>3. CASE UNCHANGED <<row, since>> /\ Goto(r, "refused")
    <3>1. pc' = [pc EXCEPT ![r] = "refused"]
      BY <2>3 DEF Goto
    <3>2. TypeOK'
      BY <1>2, <2>1, <2>3, <3>1 DEF LInv, TypeOK
    <3>3. Owned' /\ StartedBefore' /\ RevokedCapsExpire'
      BY <1>2, <2>1, <2>3, <3>1 DEF LInv, TypeOK, Owned, StartedBefore, RevokedCapsExpire, Validated
    <3> QED
      BY <3>2, <3>3 DEF LInv
  <2> QED
    BY <1>4, <2>2, <2>3 DEF LogoutRevoke
<1> QED
  BY <1>3, <1>4

LEMMA RowStep ==
    ASSUME LInv, NEW l \in Leases, Login(l) \/ Lapse(l)
    PROVE  LInv'
<1>1. /\ UNCHANGED <<since, vault, cache, caps, pc, kind, lease, age, master, fetch, revoker, pruned>>
      /\ row' \in [Leases -> {"none", "live", "lapsed", "revoked"}]
      /\ keys' \in [Leases -> Ages \cup {None}]
      /\ \A m \in Leases : row'[m] = "revoked" => row[m] = "revoked"
  BY AgeFacts DEF Login, Lapse, LInv, TypeOK, memory, request, others
<1>2. TypeOK'
  BY <1>1 DEF LInv, TypeOK
<1>3. Owned'
  BY <1>1 DEF LInv, Owned
<1>4. StartedBefore' /\ RevokedCapsExpire'
  BY <1>1 DEF LInv, TypeOK, Owned, StartedBefore, RevokedCapsExpire, Validated
<1> QED
  BY <1>2, <1>3, <1>4 DEF LInv

LEMMA AdminStep ==
    ASSUME LInv, NEW l \in Leases, AdminRevoke(l) \/ AdminEvict(l)
    PROVE  LInv'
<1>1. CASE AdminRevoke(l)
  <2>1. /\ UNCHANGED <<vault, keys, cache, caps, kind, lease, master, fetch, pruned, pc, age>>
        /\ Revoked(l)
        /\ revoker' \in [Leases -> {"idle", "evict"}]
    BY <1>1 DEF AdminRevoke, LInv, TypeOK, memory, request
  <2> QED
    BY <2>1, RevokeStep DEF LInv, TypeOK
<1>2. CASE AdminEvict(l)
  <2>1. /\ UNCHANGED <<row, since, vault, pc, kind, lease, age, master, keys, cache, fetch, pruned>>
        /\ EvictCaps({l})
        /\ revoker' \in [Leases -> {"idle", "evict"}]
    BY <1>2 DEF AdminEvict, LInv, TypeOK, request
  <2> QED
    BY <2>1, EvictCapsFacts, EvictStep DEF LInv, TypeOK
<1> QED
  BY <1>1, <1>2

LEMMA FetchStep ==
    ASSUME LInv, NEW r \in Reqs, FetchCap(r) \/ FetchOpen(r) \/ FetchEvict(r)
    PROVE  LInv'
<1>1. UNCHANGED <<row, since, vault, pc, kind, lease, age, master, keys, revoker, pruned>>
  BY DEF FetchCap, FetchOpen, FetchEvict, request
<1>2. fetch' \in [Reqs -> {"idle", "open", "evict"}]
  BY DEF FetchCap, FetchOpen, FetchEvict, LInv, TypeOK
<1>3. cache' \in [Leases -> Entry \cup {None}]
  BY DEF FetchCap, FetchOpen, FetchEvict, LInv, TypeOK
<1>4. caps' \in [Reqs -> Ages \cup {None}] /\ \A s \in Reqs : caps'[s] \in {caps[s], None}
  BY EvictCapsFacts DEF FetchCap, FetchOpen, FetchEvict, LInv, TypeOK
<1> QED
  BY <1>1, <1>2, <1>3, <1>4, EvictStep DEF LInv, TypeOK

LEMMA PruneStep == ASSUME LInv, PruneCache \/ PruneRest PROVE LInv'
<1>1. UNCHANGED <<row, since, vault, pc, kind, lease, age, master, fetch, revoker>>
  BY DEF PruneCache, PruneRest, request
<1>2. cache' \in [Leases -> Entry \cup {None}] /\ keys' \in [Leases -> Ages \cup {None}]
  BY DEF PruneCache, PruneRest, LInv, TypeOK
<1>3. caps' \in [Reqs -> Ages \cup {None}] /\ \A s \in Reqs : caps'[s] \in {caps[s], None}
  BY DEF PruneCache, PruneRest, LInv, TypeOK
<1>4. pruned' \in (SUBSET Leases) \cup {None}
  BY DEF PruneCache, PruneRest, StaleEntries
<1> QED
  BY <1>1, <1>2, <1>3, <1>4, EvictStep DEF LInv, TypeOK

\* Ages grow together, so what is older stays older.
LEMMA TickStep == ASSUME LInv, Tick PROVE LInv'
<1>1. /\ UNCHANGED <<row, vault, pc, kind, lease, master, fetch, revoker, pruned>>
      /\ since' = [l \in Leases |-> IF row[l] = "revoked" THEN Older(since[l]) ELSE since[l]]
      /\ keys' = [l \in Leases |-> OlderIfAny(keys[l])]
      /\ caps' = [r \in Reqs |-> OlderIfAny(caps[r])]
      /\ age' = [r \in Reqs |-> IF pc[r] \in {"idle", "done", "refused", "locked"} THEN age[r]
                                ELSE Older(age[r])]
  BY DEF Tick, others
<1>2. since' \in [Leases -> Ages] /\ age' \in [Reqs -> Ages]
  BY <1>1, OlderFacts DEF LInv, TypeOK
<1>3. keys' \in [Leases -> Ages \cup {None}] /\ caps' \in [Reqs -> Ages \cup {None}]
  BY <1>1, OlderFacts DEF LInv, TypeOK, OlderIfAny
<1>4. cache' \in [Leases -> Entry \cup {None}]
  BY OlderFacts DEF Tick, LInv, TypeOK, Entry
<1>5. TypeOK'
  BY <1>1, <1>2, <1>3, <1>4 DEF LInv, TypeOK
<1>6. Owned'
  BY <1>1 DEF LInv, TypeOK, Owned, OlderIfAny
<1>7. StartedBefore'
  BY <1>1, <1>2, OlderFacts DEF LInv, TypeOK, Owned, StartedBefore, Validated
<1>8. RevokedCapsExpire'
  <2> SUFFICES ASSUME NEW r \in Reqs, caps'[r] # None, row[lease[r]] = "revoked"
               PROVE  caps'[r] >= since'[lease[r]]
    BY <1>1 DEF RevokedCapsExpire
  <2>1. caps[r] # None /\ caps'[r] = Older(caps[r])
    BY <1>1 DEF OlderIfAny
  <2>2. lease[r] \in Leases /\ caps[r] \in Ages /\ since[lease[r]] \in Ages
    BY <2>1 DEF LInv, TypeOK, Owned
  <2>3. since'[lease[r]] = Older(since[lease[r]])
    BY <1>1, <2>2
  <2> QED
    BY <2>1, <2>2, <2>3, OlderFacts DEF LInv, RevokedCapsExpire
<1> QED
  BY <1>5, <1>6, <1>7, <1>8 DEF LInv

LEMMA RestartStep == ASSUME LInv, Restart PROVE LInv'
<1>1. TypeOK'
  BY AgeFacts DEF LInv, TypeOK, Restart
<1>2. Owned' /\ StartedBefore' /\ RevokedCapsExpire'
  BY DEF LInv, TypeOK, Owned, StartedBefore, RevokedCapsExpire, Restart, InFlight, Validated
<1> QED
  BY <1>1, <1>2 DEF LInv

LEMMA NextLInv == LInv /\ [Next]_vars => LInv'
<1> SUFFICES ASSUME LInv, [Next]_vars PROVE LInv'
  OBVIOUS
<1>1. CASE UNCHANGED vars
  BY <1>1 DEF vars, memory, request, others, LInv, TypeOK, Owned, StartedBefore, RevokedCapsExpire
<1>2. CASE Next
  BY <1>2, QuietStep, StartStep, ExtendStep, CacheStep, MintStep, LogoutStep, RowStep, AdminStep,
     FetchStep, PruneStep, TickStep, RestartStep DEF Next, Step
<1> QED
  BY <1>1, <1>2

LEMMA Invariance == Spec => []LInv
BY InitLInv, NextLInv, PTL DEF Spec

-----------------------------------------------------------------------------

\* Every variable stays within its type, for any number of requests.
THEOREM LeaseTypeCorrect == Spec => []TypeOK
BY Invariance, PTL DEF LInv

\* No capability of a revoked lease outlives the revocation by CAP_TTL,
\* whatever was in flight when the lease was revoked.
THEOREM RevocationReachesCaps == Spec => []RevokedCapsExpire
BY Invariance, PTL DEF LInv

\* A revoked row stays revoked.
THEOREM RevocationsAreFinal == Spec => RevocationIsFinal
<1>1. LInv /\ [Next]_vars => [\A l \in Leases : row[l] = "revoked" => row'[l] = "revoked"]_vars
  <2> SUFFICES ASSUME LInv, [Next]_vars, NEW l \in Leases, row[l] = "revoked"
               PROVE  row'[l] = "revoked"
    OBVIOUS
  <2>1. row \in [Leases -> {"none", "live", "lapsed", "revoked"}]
    BY DEF LInv, TypeOK
  <2>2. CASE UNCHANGED row
    BY <2>2
  <2>3. CASE \E m \in Leases : Login(m) \/ Lapse(m) \/ AdminRevoke(m)
    BY <2>1, <2>3 DEF Login, Lapse, AdminRevoke, Revoked
  <2>4. CASE \E r \in Reqs : Extend(r)
    BY <2>1, <2>4 DEF Extend
  <2>5. CASE \E r \in Reqs : LogoutRevoke(r)
    BY <2>1, <2>5 DEF LogoutRevoke, Revoked
  <2> QED
    BY <2>2, <2>3, <2>4, <2>5
    DEF Next, Step, vars, Tick, PruneCache, PruneRest, Restart, AdminEvict, Select, Refuse, Remember,
        Unlock, Create, WriteVault, CacheMaster, MintCap, LogoutEvict, FetchCap, FetchOpen, FetchEvict,
        Start
<1> QED
  BY <1>1, Invariance, PTL DEF Spec, RevocationIsFinal
=============================================================================
