--------------------------- MODULE AuthBrokerProofs ---------------------------
(***************************************************************************)
(* For any tenants, invitations, requests and handshakes: the state is     *)
(* well typed, an invitation admits one registration, an answered          *)
(* registration is the stored one, and leases are authenticated.           *)
(*                                                                         *)
(* The invariant HInv ties what a request in flight believes to the        *)
(* database: past verify_and_consume its invitation is marked, a pending   *)
(* handshake's file is the stored one, and a verified finish has taken its *)
(* handshake out of the map.  The rate limiter follows at the end.         *)
(***************************************************************************)
EXTENDS AuthHandshake, RateLimiter, TLAPS

Consumers == {r \in Regs : regPc[r] \in {"store", "created"}}
Verified == {f \in Finishes : finPc[f] \in {"insert", "done"}}

\* A registration past the UPDATE has its invitation marked, by itself.
ConsumedByOne ==
    /\ \A r \in Consumers : reg[r].otp \in consumed
    /\ \A r, s \in Consumers : reg[r].otp = reg[s].otp => r = s

\* What was answered 201 is stored.
Stored == \A r \in Regs : regPc[r] = "created" =>
            reg[r].upload # NoFile /\ files[reg[r].tenant] = reg[r].upload

\* A pending handshake was given out and holds the stored file or the dummy.
PendingSound ==
    \A h \in Handshakes : pending[h] # None =>
      /\ h \in issued
      /\ pending[h].file # NoFile =>
           pending[h].tenant \in Tenants /\ files[pending[h].tenant] = pending[h].file

\* A verified finish has its handshake to itself.
VerifiedSound ==
    \A f \in Verified :
      /\ fin[f].tenant \in Tenants
      /\ fin[f].password # NoFile
      /\ files[fin[f].tenant] = fin[f].password
      /\ fin[f].hs \in issued
      /\ pending[fin[f].hs] = None
      /\ \A g \in Verified : fin[g].hs = fin[f].hs => g = f

LeasesDone == \A f \in leases : f \in Finishes /\ finPc[f] = "done"

HInv == TypeOK /\ ConsumedByOne /\ Stored /\ PendingSound /\ VerifiedSound /\ LeasesDone

USE DEF Consumers, Verified, LeasesDone

LEMMA InitHInv == Init => HInv
BY AuthHandshakeAssumption
DEF Init, HInv, TypeOK, ConsumedByOne, Stored, PendingSound, VerifiedSound

-----------------------------------------------------------------------------
\* Steps of the operator and of registrations.

LEMMA InviteStep ==
    ASSUME HInv, NEW t \in Tenants,
           RevokeInvitations(t) \/ \E i \in Invites : CreateInvitation(i, t) \/ RenewInvitation(i, t)
    PROVE  HInv'
<1>1. /\ UNCHANGED <<consumed, files, leases, pending, issued, finPc, fin, regPc, reg>>
      /\ owner' \in [Invites -> Tenants \cup {None}]
      /\ life' \in [Invites -> 0 .. InviteTtl]
      /\ revoked' \subseteq Invites
  <2>1. CASE RevokeInvitations(t)
    BY <2>1 DEF HInv, TypeOK, RevokeInvitations, Outstanding, login, registration
  <2>2. ASSUME NEW i \in Invites, CreateInvitation(i, t) \/ RenewInvitation(i, t) PROVE <1>1
    BY <2>2, AuthHandshakeAssumption
    DEF HInv, TypeOK, CreateInvitation, RenewInvitation, NewInvite, Outstanding, login, registration
  <2> QED
    BY <2>1, <2>2
<1> QED
  BY <1>1 DEF HInv, TypeOK, ConsumedByOne, Stored, PendingSound, VerifiedSound

LEMMA RegisterStep ==
    ASSUME HInv, NEW r \in Regs,
           \/ \E q \in Request : RegisterFinish(r, q)
           \/ SelectInvitation(r) \/ ConsumeInvitation(r) \/ RegisterFails(r)
    PROVE  HInv'
<1>1. UNCHANGED <<owner, life, revoked, files, leases, pending, issued, finPc, fin>>
  BY DEF RegisterFinish, SelectInvitation, ConsumeInvitation, RegisterFails, invitation, login
<1>2. TypeOK'
  BY <1>1 DEF HInv, TypeOK, RegisterFinish, SelectInvitation, ConsumeInvitation, RegisterFails, Answer,
              invitation, Request
<1>3. Stored'
  BY <1>1 DEF HInv, TypeOK, Stored, RegisterFinish, SelectInvitation, ConsumeInvitation, RegisterFails, Answer
<1>4. ConsumedByOne'
  <2>1. CASE \E q \in Request : RegisterFinish(r, q)
    BY <2>1 DEF HInv, TypeOK, ConsumedByOne, RegisterFinish, invitation
  <2>2. CASE SelectInvitation(r) \/ RegisterFails(r)
    BY <2>2 DEF HInv, TypeOK, ConsumedByOne, SelectInvitation, RegisterFails, Answer, invitation
  <2>3. CASE ConsumeInvitation(r)
    BY <2>3 DEF HInv, TypeOK, ConsumedByOne, ConsumeInvitation, Answer
  <2> QED
    BY <2>1, <2>2, <2>3
<1> QED
  BY <1>1, <1>2, <1>3, <1>4 DEF HInv, PendingSound, VerifiedSound

LEMMA UpsertStep ==
    ASSUME HInv, NEW r \in Regs, UpsertPasswordFile(r)
    PROVE  HInv'
<1>1. UNCHANGED <<owner, life, consumed, revoked, leases, pending, issued, finPc, fin, reg>>
  BY DEF UpsertPasswordFile, Answer, invitation, login
<1>2. /\ reg[r] \in Request
      /\ \/ /\ reg[r].upload # NoFile /\ files[reg[r].tenant] \in {NoFile, reg[r].upload}
            /\ files' = [files EXCEPT ![reg[r].tenant] = reg[r].upload]
            /\ regPc' = [regPc EXCEPT ![r] = "created"]
         \/ /\ UNCHANGED files
            /\ regPc' = [regPc EXCEPT ![r] = "refused"]
  BY DEF UpsertPasswordFile, Answer, HInv, TypeOK
<1>3. reg[r].tenant \in Tenants /\ reg[r].upload \in Files \cup {NoFile}
  BY <1>2 DEF Request
\* A row that is there is never changed.
<1>4. \A t \in Tenants : files[t] # NoFile => files'[t] = files[t]
  BY <1>2, <1>3 DEF HInv, TypeOK
<1>5. TypeOK'
  BY <1>1, <1>2, <1>3 DEF HInv, TypeOK
<1>6. ConsumedByOne'
  BY <1>1, <1>2 DEF HInv, TypeOK, ConsumedByOne, UpsertPasswordFile
<1>7. Stored'
  <2> SUFFICES ASSUME NEW s \in Regs, regPc'[s] = "created"
               PROVE  reg[s].upload # NoFile /\ files'[reg[s].tenant] = reg[s].upload
    BY <1>1 DEF Stored
  <2>1. CASE s = r
    BY <2>1, <1>2, <1>3 DEF HInv, TypeOK
  <2>2. CASE s # r
    <3>1. regPc[s] = "created" /\ reg[s] \in Request
      BY <2>2, <1>2 DEF HInv, TypeOK
    <3>2. reg[s].tenant \in Tenants
      BY <3>1 DEF Request
    <3> QED
      BY <3>1, <3>2, <1>4 DEF HInv, Stored
  <2> QED
    BY <2>1, <2>2
<1>8. PendingSound'
  BY <1>1, <1>4 DEF HInv, TypeOK, PendingSound
<1>9. VerifiedSound'
  BY <1>1, <1>4 DEF HInv, TypeOK, VerifiedSound
<1> QED
  BY <1>1, <1>5, <1>6, <1>7, <1>8, <1>9 DEF HInv

-----------------------------------------------------------------------------
\* Steps of logins, of time, and restarts.

LEMMA LoginStartStep ==
    ASSUME HInv, NEW h \in Handshakes, NEW t \in Tenants \cup {Unknown}, LoginStart(h, t)
    PROVE  HInv'
<1> DEFINE e == [tenant |-> IF t \in Tenants THEN t ELSE None,
                 file |-> IF t \in Tenants THEN files[t] ELSE NoFile, age |-> 0]
<1>1. /\ UNCHANGED <<owner, life, consumed, revoked, files, leases, finPc, fin, regPc, reg>>
      /\ h \notin issued /\ issued' = issued \cup {h}
      /\ pending' = [pending EXCEPT ![h] = e]
  BY DEF LoginStart, invitation, registration
<1>2. e \in Pending
  BY AuthHandshakeAssumption DEF HInv, TypeOK, Pending
<1>3. /\ e.file # NoFile => e.tenant \in Tenants /\ files[e.tenant] = e.file
  OBVIOUS
<1> HIDE DEF e
<1>4. TypeOK'
  BY <1>1, <1>2 DEF HInv, TypeOK
<1>5. ConsumedByOne' /\ Stored'
  BY <1>1 DEF HInv, ConsumedByOne, Stored
<1>6. PendingSound'
  BY <1>1, <1>3 DEF HInv, TypeOK, PendingSound
<1>7. VerifiedSound'
  BY <1>1 DEF HInv, TypeOK, VerifiedSound
<1> QED
  BY <1>1, <1>4, <1>5, <1>6, <1>7 DEF HInv

LEMMA LoginFinishStep ==
    ASSUME HInv, NEW f \in Finishes, NEW h \in Handshakes, NEW p \in Files \cup {NoFile},
           LoginFinish(f, h, p)
    PROVE  HInv'
<1> DEFINE ok == Verifies(h, p)
           x == [hs |-> h, password |-> p, tenant |-> IF ok THEN pending[h].tenant ELSE None]
<1>1. /\ UNCHANGED <<owner, life, consumed, revoked, files, leases, issued, regPc, reg>>
      /\ finPc[f] = "idle" /\ h \in issued
      /\ finPc' = [finPc EXCEPT ![f] = IF ok THEN "insert" ELSE "refused"]
      /\ fin' = [fin EXCEPT ![f] = x]
      /\ pending' = [pending EXCEPT ![h] = None]
  BY DEF LoginFinish, Finished, invitation, registration
<1>2. ok => /\ pending[h] # None /\ p # NoFile /\ pending[h].file = p
            /\ pending[h].tenant \in Tenants /\ files[pending[h].tenant] = p
  BY DEF Verifies, HInv, PendingSound
<1>3. x \in Finish /\ x.hs = h /\ x.password = p
  BY <1>2 DEF Finish
<1>4. ok => x.tenant = pending[h].tenant
  OBVIOUS
<1> HIDE DEF ok, x
<1>5. TypeOK'
  BY <1>1, <1>3 DEF HInv, TypeOK
<1>6. ConsumedByOne' /\ Stored'
  BY <1>1 DEF HInv, ConsumedByOne, Stored
<1>7. PendingSound'
  BY <1>1 DEF HInv, TypeOK, PendingSound
<1>8. VerifiedSound'
  <2>1. \A g \in Verified' : g # f => g \in Verified /\ fin'[g] = fin[g]
    BY <1>1 DEF HInv, TypeOK
  <2>2. f \in Verified' => ok /\ fin'[f] = x
    BY <1>1 DEF HInv, TypeOK
  <2>3. ok => \A g \in Verified : fin[g].hs # h
    BY <1>2 DEF HInv, VerifiedSound
  <2>4. ASSUME NEW g \in Verified', g # f
        PROVE  /\ fin'[g].tenant \in Tenants /\ fin'[g].password # NoFile
               /\ files'[fin'[g].tenant] = fin'[g].password
               /\ fin'[g].hs \in issued' /\ pending'[fin'[g].hs] = None
    BY <2>1, <2>4, <1>1 DEF HInv, TypeOK, VerifiedSound
  <2>5. ASSUME f \in Verified'
        PROVE  /\ fin'[f].tenant \in Tenants /\ fin'[f].password # NoFile
               /\ files'[fin'[f].tenant] = fin'[f].password
               /\ fin'[f].hs \in issued' /\ pending'[fin'[f].hs] = None
    BY <2>2, <2>5, <1>1, <1>2, <1>3, <1>4 DEF HInv, TypeOK
  <2>6. ASSUME NEW g \in Verified', NEW k \in Verified', fin'[g].hs = fin'[k].hs PROVE g = k
    BY <2>1, <2>2, <2>3, <2>6, <1>3 DEF HInv, VerifiedSound
  <2> QED
    BY <2>4, <2>5, <2>6 DEF VerifiedSound
<1>9. LeasesDone'
  BY <1>1 DEF HInv, TypeOK
<1> QED
  BY <1>5, <1>6, <1>7, <1>8, <1>9 DEF HInv

LEMMA InsertLeaseStep ==
    ASSUME HInv, NEW f \in Finishes, InsertLease(f)
    PROVE  HInv'
<1>1. UNCHANGED <<owner, life, consumed, revoked, files, pending, issued, fin, regPc, reg>>
  BY DEF InsertLease, invitation, registration
<1>2. TypeOK' /\ LeasesDone'
  BY <1>1 DEF HInv, TypeOK, InsertLease
<1>3. Verified' \subseteq Verified
  BY DEF InsertLease, HInv, TypeOK
<1>4. VerifiedSound'
  BY <1>1, <1>3 DEF HInv, VerifiedSound
<1> QED
  BY <1>1, <1>2, <1>4 DEF HInv, ConsumedByOne, Stored, PendingSound

LEMMA TickStep == ASSUME HInv, Tick \/ SweepPending PROVE HInv'
<1>1. UNCHANGED <<owner, consumed, revoked, files, leases, issued, finPc, fin, regPc, reg>>
  BY DEF Tick, SweepPending, invitation, registration
<1>2. \A h \in Handshakes :
        /\ pending'[h] \in Pending \cup {None}
        /\ pending'[h] # None => /\ pending[h] # None
                                 /\ pending'[h].file = pending[h].file
                                 /\ pending'[h].tenant = pending[h].tenant
  <2>1. CASE Tick
    <3> SUFFICES ASSUME NEW h \in Handshakes
                 PROVE  /\ Aged(pending[h]) \in Pending \cup {None}
                        /\ Aged(pending[h]) # None =>
                             /\ pending[h] # None
                             /\ Aged(pending[h]).file = pending[h].file
                             /\ Aged(pending[h]).tenant = pending[h].tenant
      BY <2>1 DEF Tick
    <3>1. pending[h] \in Pending \cup {None}
      BY DEF HInv, TypeOK
    <3> QED
      BY <3>1, AuthHandshakeAssumption DEF Aged, Pending
  <2>2. CASE SweepPending
    BY <2>2 DEF SweepPending, HInv, TypeOK
  <2> QED
    BY <2>1, <2>2
<1>3. /\ pending' \in [Handshakes -> Pending \cup {None}]
      /\ life' \in [Invites -> 0 .. InviteTtl]
  <2>1. pending' = [h \in Handshakes |-> pending'[h]]
    BY DEF Tick, SweepPending
  <2>2. life' \in [Invites -> 0 .. InviteTtl]
    BY AuthHandshakeAssumption DEF Tick, SweepPending, HInv, TypeOK, invitation
  <2> QED
    BY <2>1, <2>2, <1>2
<1>4. TypeOK'
  BY <1>1, <1>3 DEF HInv, TypeOK
<1>5. PendingSound'
  BY <1>1, <1>2 DEF HInv, PendingSound
<1>6. VerifiedSound'
  BY <1>1, <1>2 DEF HInv, TypeOK, VerifiedSound, Finish
<1> QED
  BY <1>1, <1>4, <1>5, <1>6 DEF HInv, ConsumedByOne, Stored

LEMMA RestartStep == ASSUME HInv, Restart PROVE HInv'
<1>1. UNCHANGED <<owner, life, consumed, revoked, files, leases, issued, fin, reg>>
  BY DEF Restart, invitation
<1>2. TypeOK'
  BY <1>1 DEF HInv, TypeOK, Restart
<1>3. Consumers' \subseteq Consumers /\ Verified' \subseteq Verified
  BY DEF Restart, HInv, TypeOK
<1>4. ConsumedByOne'
  BY <1>1, <1>3 DEF HInv, ConsumedByOne
<1>5. Stored'
  BY <1>1 DEF HInv, Stored, Restart
<1>6. PendingSound'
  BY DEF PendingSound, Restart
<1>7. VerifiedSound'
  BY <1>1, <1>3 DEF HInv, TypeOK, VerifiedSound, Restart, Finish
<1>8. LeasesDone'
  BY <1>1 DEF HInv, TypeOK, Restart
<1> QED
  BY <1>2, <1>4, <1>5, <1>6, <1>7, <1>8 DEF HInv

LEMMA NextHInv == HInv /\ [Next]_vars => HInv'
<1> SUFFICES ASSUME HInv, [Next]_vars PROVE HInv'
  OBVIOUS
<1>1. CASE UNCHANGED vars
  BY <1>1 DEF vars, invitation, login, registration, HInv, TypeOK, ConsumedByOne, Stored,
              PendingSound, VerifiedSound
<1>2. CASE Next
  BY <1>2, InviteStep, RegisterStep, UpsertStep, LoginStartStep, LoginFinishStep, InsertLeaseStep,
     TickStep, RestartStep DEF Next
<1> QED
  BY <1>1, <1>2

LEMMA Invariance == Spec => []HInv
BY InitHInv, NextHInv, PTL DEF Spec

-----------------------------------------------------------------------------

\* Every variable stays within its type, for any number of requests.
THEOREM HandshakeTypeCorrect == Spec => []TypeOK
BY Invariance, PTL DEF HInv

\* A registration answered 201 is the stored one for good.
THEOREM CreatedStaysStored == Spec => []CreatedIsStored
<1>1. HInv => CreatedIsStored
  BY DEF HInv, Stored, CreatedIsStored
<1> QED
  BY <1>1, Invariance, PTL

\* One invitation, one registration.
THEOREM InvitationsAreSingleUse == Spec => []InviteAdmitsOne
<1>1. HInv => InviteAdmitsOne
  BY DEF HInv, ConsumedByOne, InviteAdmitsOne
<1> QED
  BY <1>1, Invariance, PTL

\* Leases are only given for a proven password, one per handshake.
THEOREM LeasesAreAuthenticated == Spec => []LeaseIsAuthenticated
<1>1. HInv => LeaseIsAuthenticated
  BY DEF HInv, VerifiedSound, LeaseIsAuthenticated
<1> QED
  BY <1>1, Invariance, PTL

-----------------------------------------------------------------------------
(* The rate limiter: for any keys, rate, burst, eviction age and lateness of *)
(* its callers it implements TokenBucket.                                    *)

\* Times of a bucket as quanta: what a caller late units behind the clock
\* sees elapsed is worth late * Rate less than the age, and never below zero.
LEMMA ElapsedWorth ==
    ASSUME NEW b \in Bucket, NEW late \in Nat
    PROVE  /\ Elapsed(b, late) * Rate \in Nat /\ b.age * Rate \in Nat /\ late * Rate \in Nat
           /\ Elapsed(b, late) * Rate <= b.age * Rate
           /\ b.age * Rate <= Elapsed(b, late) * Rate + late * Rate
<1>1. b.age \in Nat /\ Rate \in Nat
  BY RateLimiterAssumption DEF Bucket, Horizon
<1>2. b.age * Rate \in Nat /\ late * Rate \in Nat
  BY <1>1
<1>3. CASE b.age > late
  <2>1. (b.age - late) * Rate = b.age * Rate - late * Rate /\ b.age - late \in Nat
    BY <1>1, <1>3
  <2>2. (b.age - late) * Rate \in Nat
    BY <2>1, <1>1
  <2> QED
    BY <2>1, <2>2, <1>2, <1>3 DEF Elapsed
<1>4. CASE ~(b.age > late)
  <2>1. (late - b.age) * Rate = late * Rate - b.age * Rate /\ late - b.age \in Nat
    BY <1>1, <1>4
  <2>2. (late - b.age) * Rate \in Nat
    BY <2>1, <1>1
  <2>3. Elapsed(b, late) * Rate = 0
    BY <1>1, <1>4 DEF Elapsed
  <2> QED
    BY <2>1, <2>2, <2>3, <1>2
<1> QED
  BY <1>3, <1>4

\* A late caller finds no more than there is, and misses no more than what
\* came in since it read the clock.
LEMMA LateTokens ==
    ASSUME LimiterTypeOK, NEW k \in Keys, NEW late \in Nat
    PROVE  /\ Tokens(k, late) \in 0 .. Burst /\ Tokens(k, 0) \in 0 .. Burst
           /\ late * Rate \in Nat
           /\ Tokens(k, late) <= Tokens(k, 0)
           /\ Tokens(k, 0) <= Tokens(k, late) + late * Rate
<1>1. CASE buckets[k] = NoBucket
  <2>1. late * Rate \in Nat
    BY RateLimiterAssumption
  <2> QED
    BY <1>1, <2>1, RateLimiterAssumption DEF Tokens
<1>2. CASE buckets[k] # NoBucket
  <2> DEFINE b == buckets[k]
             e == Elapsed(b, late) * Rate
             g == b.age * Rate
             w == late * Rate
  <2>1. b \in Bucket
    BY <1>2 DEF LimiterTypeOK
  <2>2. b.tokens \in 0 .. Burst /\ Burst \in Nat /\ b.age \in Nat
    BY <2>1, RateLimiterAssumption DEF Bucket, Horizon
  <2>3. e \in Nat /\ g \in Nat /\ w \in Nat /\ e <= g /\ g <= e + w
    BY <2>1, ElapsedWorth
  <2>4. Elapsed(b, 0) = b.age
    BY <2>2 DEF Elapsed
  <2>5. Tokens(k, 0) = IF b.tokens + g < Burst THEN b.tokens + g ELSE Burst
    BY <2>4, <1>2 DEF Tokens, CappedAt
  <2>6. Tokens(k, late) = IF b.tokens + e < Burst THEN b.tokens + e ELSE Burst
    BY <1>2 DEF Tokens, CappedAt
  <2> HIDE DEF b, e, g, w
  <2>7. /\ Tokens(k, late) \in 0 .. Burst /\ Tokens(k, 0) \in 0 .. Burst
        /\ w \in Nat /\ Tokens(k, late) <= Tokens(k, 0) /\ Tokens(k, 0) <= Tokens(k, late) + w
    BY <2>2, <2>3, <2>5, <2>6
  <2> QED
    BY <2>7 DEF w
<1> QED
  BY <1>1, <1>2

\* A unit of time is worth Rate quanta, up to the capacity.
LEMMA AgingRefills ==
    ASSUME NEW b \in Bucket
    PROVE  CappedAt(AgeBucket(b).tokens + AgeBucket(b).age * Rate) =
             CappedAt(CappedAt(b.tokens + b.age * Rate) + Rate)
<1> DEFINE g == b.age * Rate
<1>1. b.tokens \in 0 .. Burst /\ b.age \in 0 .. Horizon /\ b # NoBucket
      /\ Rate \in Nat /\ Rate >= 1 /\ Burst \in Nat /\ Horizon \in Nat /\ Horizon >= Burst
  BY RateLimiterAssumption DEF Bucket, Horizon
<1>2. g \in Nat
  BY <1>1
<1>3. CASE b.age = Horizon
  <2>1. AgeBucket(b) = b
    BY <1>3 DEF AgeBucket
  <2>2. b.age * (Rate - 1) \in Nat
    BY <1>1
  <2>3. g = b.age * (Rate - 1) + b.age
    BY <1>1
  <2>4. g >= Burst
    BY <2>2, <2>3, <1>1, <1>3
  <2> HIDE DEF g
  <2>5. CappedAt(b.tokens + g) = CappedAt(CappedAt(b.tokens + g) + Rate)
    BY <2>4, <1>1, <1>2 DEF CappedAt
  <2> QED
    BY <2>1, <2>5 DEF g
<1>4. CASE b.age # Horizon
  <2>1. AgeBucket(b) = [tokens |-> b.tokens, age |-> b.age + 1]
    BY <1>1, <1>4 DEF AgeBucket
  <2>2. AgeBucket(b).tokens = b.tokens /\ AgeBucket(b).age = b.age + 1
    BY <2>1
  <2>3. (b.age + 1) * Rate = g + Rate
    BY <1>1
  <2> HIDE DEF g
  <2>4. CappedAt(b.tokens + (g + Rate)) = CappedAt(CappedAt(b.tokens + g) + Rate)
    BY <1>1, <1>2 DEF CappedAt
  <2> QED
    BY <2>2, <2>3, <2>4 DEF g
<1> QED
  BY <1>3, <1>4

\* Buckets stay between zero and the capacity, for any rate and burst.
THEOREM LimiterTypeCorrect == LimiterSpec => []LimiterTypeOK
<1>1. LimiterInit => LimiterTypeOK
  BY DEF LimiterInit, LimiterTypeOK
<1>2. LimiterTypeOK /\ [LimiterNext]_buckets => LimiterTypeOK'
  <2> SUFFICES ASSUME LimiterTypeOK, [LimiterNext]_buckets PROVE LimiterTypeOK'
    OBVIOUS
  <2>1. CASE \E k \in Keys, late \in 0 .. MaxLate : Admit(k, late) \/ Refuse(k, late)
    <3>1. PICK k \in Keys, late \in 0 .. MaxLate : Admit(k, late) \/ Refuse(k, late)
      BY <2>1
    <3>2. Tokens(k, late) \in 0 .. Burst /\ late \in 0 .. Horizon
      BY LateTokens, RateLimiterAssumption DEF Horizon
    <3> QED
      BY <3>1, <3>2, RateLimiterAssumption DEF Admit, Refuse, LimiterTypeOK, Bucket
  <2>2. CASE \E late \in 0 .. MaxLate : SweepBuckets(late)
    BY <2>2 DEF SweepBuckets, LimiterTypeOK
  <2>3. CASE AgeBuckets
    <3>1. \A b \in Bucket \cup {NoBucket} : AgeBucket(b) \in Bucket \cup {NoBucket}
      BY RateLimiterAssumption DEF AgeBucket, Bucket, Horizon
    <3> QED
      BY <2>3, <3>1 DEF AgeBuckets, LimiterTypeOK
  <2>4. CASE LoseBuckets
    BY <2>4 DEF LoseBuckets, LimiterTypeOK
  <2>5. CASE UNCHANGED buckets
    BY <2>5 DEF LimiterTypeOK
  <2> QED
    BY <2>1, <2>2, <2>3, <2>4, <2>5 DEF LimiterNext
<1> QED
  BY <1>1, <1>2, PTL DEF LimiterSpec

\* What a bucket is worth once a late caller has stored x quanta and its own
\* instant in it.
LEMMA StoredWorth ==
    ASSUME LimiterTypeOK, NEW k \in Keys, NEW late \in 0 .. MaxLate, NEW x \in 0 .. Burst,
           buckets' = [buckets EXCEPT ![k] = [tokens |-> x, age |-> late]]
    PROVE  /\ Level' = [Level EXCEPT ![k] = CappedAt(x + late * Rate)]
           /\ Idle' = [Idle EXCEPT ![k] = late]
<1>1. buckets'[k] = [tokens |-> x, age |-> late] /\ late \in Nat /\ x \in Nat
  BY RateLimiterAssumption DEF LimiterTypeOK
<1>2. buckets'[k] # NoBucket /\ buckets'[k].tokens = x /\ buckets'[k].age = late
  BY <1>1, RateLimiterAssumption
<1>3. Elapsed(buckets'[k], 0) = late
  BY <1>1, <1>2 DEF Elapsed
<1>4. Tokens(k, 0)' = CappedAt(x + late * Rate)
  BY <1>2, <1>3 DEF Tokens
<1>5. \A j \in Keys : j # k => buckets'[j] = buckets[j]
  BY DEF LimiterTypeOK
<1>6. \A j \in Keys : j # k => Tokens(j, 0)' = Tokens(j, 0)
  BY <1>5 DEF Tokens
<1>7. Level' = [Level EXCEPT ![k] = CappedAt(x + late * Rate)]
  BY <1>4, <1>6 DEF Level
<1>8. Idle' = [Idle EXCEPT ![k] = late]
  <2>1. \A j \in Keys : Idle'[j] = IF j = k THEN late ELSE Idle[j]
    BY <1>2, <1>5 DEF Idle
  <2> QED
    BY <2>1 DEF Idle
<1> QED
  BY <1>7, <1>8

\* Refills on demand, evictions and late callers implement the token bucket,
\* whatever the rate, the burst and the eviction age.
THEOREM LimiterImplementsTokenBucket == LimiterSpec => ImplementsTokenBucket
<1>1. LimiterInit => TB!BucketInit
  BY DEF LimiterInit, TB!BucketInit, Level, Idle, Tokens
<1>2. LimiterTypeOK /\ [LimiterNext]_buckets => [TB!BucketNext]_<<Level, Idle>>
  <2> SUFFICES ASSUME LimiterTypeOK, [LimiterNext]_buckets
               PROVE  TB!BucketNext \/ UNCHANGED <<Level, Idle>>
    OBVIOUS
  <2>0. \A k \in Keys : Level[k] = Tokens(k, 0)
    BY DEF Level
  <2>1. ASSUME NEW k \in Keys, NEW late \in 0 .. MaxLate, Admit(k, late)
        PROVE  TB!Pay(k, late)
    <3> DEFINE t == Tokens(k, late)
               w == late * Rate
    <3>1. t \in 0 .. Burst /\ w \in Nat /\ t >= Token /\ Level[k] \in 0 .. Burst
          /\ t <= Level[k] /\ Level[k] <= t + w
      BY <2>0, <2>1, LateTokens, RateLimiterAssumption DEF Admit
    <3>2. t - Token \in 0 .. Burst
      BY <3>1, RateLimiterAssumption
    <3>3. buckets' = [buckets EXCEPT ![k] = [tokens |-> t - Token, age |-> late]]
      BY <2>1 DEF Admit
    <3> HIDE DEF t
    <3>4. /\ Level' = [Level EXCEPT ![k] = CappedAt((t - Token) + w)]
          /\ Idle' = [Idle EXCEPT ![k] = late]
      BY <3>2, <3>3, StoredWorth
    <3> HIDE DEF w
    <3>5. CappedAt((t - Token) + w) \in (Level[k] - Token) .. CappedAt(Level[k] - Token + w)
          /\ Level[k] >= Token
      BY <3>1, RateLimiterAssumption DEF CappedAt
    <3> QED
      BY <3>4, <3>5 DEF TB!Pay, TB!Capped, CappedAt, w
  <2>2. ASSUME NEW k \in Keys, NEW late \in 0 .. MaxLate, Refuse(k, late)
        PROVE  TB!TurnAway(k, late)
    <3> DEFINE t == Tokens(k, late)
               w == late * Rate
    <3>1. t \in 0 .. Burst /\ w \in Nat /\ t < Token /\ Level[k] \in 0 .. Burst
          /\ t <= Level[k] /\ Level[k] <= t + w
      BY <2>0, <2>2, LateTokens, RateLimiterAssumption DEF Refuse
    <3>3. buckets' = [buckets EXCEPT ![k] = [tokens |-> t, age |-> late]]
      BY <2>2 DEF Refuse
    <3> HIDE DEF t
    <3>4. /\ Level' = [Level EXCEPT ![k] = CappedAt(t + w)]
          /\ Idle' = [Idle EXCEPT ![k] = late]
      BY <3>1, <3>3, StoredWorth
    <3> HIDE DEF w
    <3>5. CappedAt(t + w) \in Level[k] .. CappedAt(Level[k] + w) /\ Level[k] < Token + w
      BY <3>1, RateLimiterAssumption DEF CappedAt
    <3> QED
      BY <3>4, <3>5 DEF TB!TurnAway, TB!Capped, CappedAt, w
  <2>3. ASSUME NEW late \in 0 .. MaxLate, SweepBuckets(late) PROVE TB!Restore
    <3> DEFINE K == {k \in Keys : IsStale(buckets[k], late)}
    <3>1. \A k \in Keys : IsStale(buckets[k], late) => Idle[k] > StaleTtl
      <4> SUFFICES ASSUME NEW k \in Keys, IsStale(buckets[k], late) PROVE buckets[k].age > StaleTtl
        BY DEF Idle, IsStale
      <4>1. buckets[k].age \in Nat /\ late \in Nat /\ StaleTtl \in Nat
        BY RateLimiterAssumption DEF IsStale, LimiterTypeOK, Bucket, Horizon
      <4> QED
        BY <4>1 DEF IsStale, Elapsed
    <3>2. K \in SUBSET {k \in Keys : Idle[k] > StaleTtl}
      BY <3>1
    <3>3. \A k \in Keys : buckets'[k] = IF k \in K THEN NoBucket ELSE buckets[k]
      BY <2>3 DEF SweepBuckets
    <3> HIDE DEF K
    <3>4. \A k \in Keys : Tokens(k, 0)' = IF k \in K THEN Burst ELSE Tokens(k, 0)
      BY <3>3 DEF Tokens
    <3>5. Level' = [k \in Keys |-> IF k \in K THEN Burst ELSE Level[k]]
      BY <3>4 DEF Level
    <3>6. Idle' = [k \in Keys |-> IF k \in K THEN Horizon ELSE Idle[k]]
      BY <3>3 DEF Idle
    <3> QED
      BY <3>2, <3>5, <3>6 DEF TB!Restore
  <2>4. ASSUME AgeBuckets PROVE TB!Refill
    <3>1. \A k \in Keys : Tokens(k, 0)' = CappedAt(Tokens(k, 0) + Rate)
      <4> TAKE k \in Keys
      <4>1. buckets'[k] = AgeBucket(buckets[k])
        BY <2>4 DEF AgeBuckets
      <4>2. CASE buckets[k] = NoBucket
        BY <4>1, <4>2, RateLimiterAssumption DEF AgeBucket, Tokens, CappedAt
      <4>3. CASE buckets[k] # NoBucket
        <5> DEFINE b == buckets[k]
        <5>1. b \in Bucket
          BY <4>3 DEF LimiterTypeOK
        <5>2. AgeBucket(b) \in Bucket /\ AgeBucket(b) # NoBucket
          BY <5>1, RateLimiterAssumption DEF AgeBucket, Bucket, Horizon
        <5>3. \A c \in Bucket : Elapsed(c, 0) = c.age
          BY RateLimiterAssumption DEF Elapsed, Bucket, Horizon
        <5>4. Tokens(k, 0) = CappedAt(b.tokens + b.age * Rate)
          BY <4>3, <5>1, <5>3 DEF Tokens
        <5>5. Tokens(k, 0)' = CappedAt(AgeBucket(b).tokens + AgeBucket(b).age * Rate)
          BY <4>1, <5>2, <5>3 DEF Tokens
        <5> QED
          BY <5>1, <5>4, <5>5, AgingRefills
      <4> QED
        BY <4>2, <4>3
    <3>2. Level' = [k \in Keys |-> CappedAt(Level[k] + Rate)]
      BY <3>1 DEF Level
    <3>3. \A k \in Keys : Idle'[k] = IF Idle[k] < Horizon THEN Idle[k] + 1 ELSE Idle[k]
      <4> TAKE k \in Keys
      <4>1. buckets'[k] = AgeBucket(buckets[k]) /\ Horizon \in Nat
        BY <2>4, RateLimiterAssumption DEF AgeBuckets, Horizon
      <4>2. CASE buckets[k] = NoBucket
        BY <4>1, <4>2 DEF AgeBucket, Idle
      <4>3. CASE buckets[k] # NoBucket
        <5>1. buckets[k].age \in 0 .. Horizon
          BY <4>3 DEF LimiterTypeOK, Bucket
        <5>2. CASE buckets[k].age = Horizon
          BY <4>1, <4>3, <5>2 DEF AgeBucket, Idle
        <5>3. CASE buckets[k].age # Horizon
          <6>1. buckets'[k] = [tokens |-> buckets[k].tokens, age |-> buckets[k].age + 1]
            BY <4>1, <4>3, <5>3 DEF AgeBucket
          <6>2. buckets[k] \in Bucket
            BY <4>3 DEF LimiterTypeOK
          <6>3. buckets'[k] # NoBucket /\ buckets'[k].age = buckets[k].age + 1
            BY <6>1, <6>2, RateLimiterAssumption DEF Bucket, Horizon
          <6> QED
            BY <6>3, <4>1, <4>3, <5>1, <5>3 DEF Idle
        <5> QED
          BY <5>2, <5>3
      <4> QED
        BY <4>2, <4>3
    <3>4. Idle' = [k \in Keys |-> IF Idle[k] < Horizon THEN Idle[k] + 1 ELSE Idle[k]]
      BY <3>3 DEF Idle
    <3> QED
      BY <3>2, <3>4 DEF TB!Refill, TB!Capped, CappedAt
  <2>5. ASSUME LoseBuckets PROVE TB!Forget
    BY <2>5 DEF LoseBuckets, TB!Forget, Level, Idle, Tokens
  <2>6. ASSUME UNCHANGED buckets PROVE UNCHANGED <<Level, Idle>>
    BY <2>6 DEF Level, Idle, Tokens
  <2> QED
    BY <2>1, <2>2, <2>3, <2>4, <2>5, <2>6 DEF LimiterNext, TB!BucketNext
<1> QED
  BY <1>1, <1>2, LimiterTypeCorrect, PTL DEF LimiterSpec, ImplementsTokenBucket, TB!BucketSpec

\* In a configuration that fills a bucket within BUCKET_STALE_TTL, as the
\* defaults do (20 tokens, 10 per second, 300 s), the pruner gives no key a
\* token its rate has not earned.
THEOREM SweepsAreHarmless ==
    ASSUME (StaleTtl + 1) * Rate >= Burst
    PROVE  LimiterSpec => SweepGivesNothing
<1>1. LimiterTypeOK /\ [LimiterNext]_buckets =>
        [\A late \in 0 .. MaxLate : SweepBuckets(late) => UNCHANGED Level]_buckets
  <2> SUFFICES ASSUME LimiterTypeOK, NEW late \in 0 .. MaxLate, SweepBuckets(late)
               PROVE  UNCHANGED Level
    OBVIOUS
  <2>1. ASSUME NEW k \in Keys PROVE Tokens(k, 0)' = Tokens(k, 0)
    <3>1. buckets'[k] = IF IsStale(buckets[k], late) THEN NoBucket ELSE buckets[k]
      BY <2>1 DEF SweepBuckets
    <3>2. CASE IsStale(buckets[k], late)
      <4> DEFINE b == buckets[k]
      <4>1. b \in Bucket /\ b # NoBucket
        BY <3>2 DEF IsStale, LimiterTypeOK
      <4>2. b.tokens \in Nat /\ b.age \in Nat /\ late \in Nat /\ StaleTtl \in Nat /\ Rate \in Nat
        BY <4>1, RateLimiterAssumption DEF Bucket, Horizon
      <4>3. b.age >= StaleTtl + 1
        BY <3>2, <4>2 DEF IsStale, Elapsed
      <4>4. \A a, s, r \in Nat : a >= s => a * r >= s * r
        <5> TAKE a, s, r \in Nat
        <5>1. (a - s) * r = a * r - s * r /\ a * r \in Nat /\ s * r \in Nat
          OBVIOUS
        <5>2. a >= s => (a - s) * r \in Nat
          OBVIOUS
        <5> QED
          BY <5>1, <5>2
      <4>5. b.age * Rate >= (StaleTtl + 1) * Rate
        BY <4>2, <4>3, <4>4
      <4>6. b.age * Rate >= Burst /\ b.age * Rate \in Nat /\ (StaleTtl + 1) * Rate \in Nat
        BY <4>2, <4>5, RateLimiterAssumption
      <4>7. Elapsed(b, 0) = b.age
        BY <4>2 DEF Elapsed
      <4>8. Tokens(k, 0) = Burst
        BY <4>1, <4>2, <4>6, <4>7, RateLimiterAssumption DEF Tokens, CappedAt
      <4> QED
        BY <3>1, <3>2, <4>8 DEF Tokens
    <3>3. CASE ~IsStale(buckets[k], late)
      BY <3>1, <3>3 DEF Tokens
    <3> QED
      BY <3>2, <3>3
  <2> QED
    BY <2>1 DEF Level
<1> QED
  BY <1>1, LimiterTypeCorrect, PTL DEF LimiterSpec, SweepGivesNothing
=============================================================================
