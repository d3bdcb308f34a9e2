----------------------------- MODULE RateLimiter -----------------------------
(***************************************************************************)
(* auth-broker's token buckets for the OPAQUE endpoints, one per requested *)
(* (tenant, address), made on first use, refilled lazily from the time     *)
(* since the last access, and dropped by the pruner once idle for longer   *)
(* than BUCKET_STALE_TTL.                                                  *)
(*                                                                         *)
(* Every caller reads the clock BEFORE it waits for the lock of the map,   *)
(* and what it read is all it carries to the lock.  So each operation      *)
(* under the lock takes `late`, how long ago its caller read the clock:    *)
(* any value, in any order, which is how requests and the pruner overtake  *)
(* each other.  last_access is set to the instant read, also when that     *)
(* moves it back.                                                          *)
(*                                                                         *)
(* Instants are kept as ages.  A unit of time is the resolution of the     *)
(* clock and a token is worth Token quanta, so that Rate is whole.  Ages   *)
(* saturate at Horizon, where any bucket is stale and full for any caller: *)
(* behaviours are endless and states finite.                               *)
(*                                                                         *)
(* Source: auth-broker/src/auth/rate_limit.rs.                             *)
(***************************************************************************)
EXTENDS Naturals

CONSTANTS
    Keys,       \* rate limit keys
    Token,      \* quanta a request costs
    Rate,       \* quanta per unit of time
    Burst,      \* capacity of a bucket, in quanta
    StaleTtl,   \* BUCKET_STALE_TTL
    MaxLate,    \* bound on how long ago a caller read the clock
    NoBucket

\* What from_lookup guarantees: a rate of zero disables the limiter, a burst
\* of zero is replaced by the default.  Nothing relates the eviction age to
\* the time a bucket takes to fill up.
ASSUME RateLimiterAssumption ==
    /\ Token \in Nat \ {0} /\ Rate \in Nat \ {0}
    /\ Burst \in Nat /\ Burst >= Token
    /\ StaleTtl \in Nat /\ MaxLate \in Nat
    /\ NoBucket \notin [tokens : Nat, age : Nat]

VARIABLE buckets    \* buckets: NoBucket or [tokens, age of last_access]

Horizon == StaleTtl + MaxLate + Burst + 1

\* The counter stays between zero and the capacity.
Bucket == [tokens : 0 .. Burst, age : 0 .. Horizon]

LimiterInit == buckets = [k \in Keys |-> NoBucket]

CappedAt(x) == IF x < Burst THEN x ELSE Burst

\* saturating_duration_since, for a caller who read the clock late units ago.
Elapsed(b, late) == IF b.age > late THEN b.age - late ELSE 0

\* What try_consume finds: Bucket::new on first use, then the refill.
Tokens(k, late) ==
    IF buckets[k] = NoBucket THEN Burst
    ELSE CappedAt(buckets[k].tokens + Elapsed(buckets[k], late) * Rate)

\* check: the request is let through ...
Admit(k, late) ==
    /\ Tokens(k, late) >= Token
    /\ buckets' = [buckets EXCEPT ![k] = [tokens |-> Tokens(k, late) - Token, age |-> late]]

\* ... or refused with 429; the refill and the access time are stored as well.
Refuse(k, late) ==
    /\ Tokens(k, late) < Token
    /\ buckets' = [buckets EXCEPT ![k] = [tokens |-> Tokens(k, late), age |-> late]]

\* Mutant: a bucket is dropped before it is stale.
IsStaleEager(b, late) == b # NoBucket /\ Elapsed(b, late) >= 1

IsStale(b, late) == b # NoBucket /\ Elapsed(b, late) > StaleTtl

\* sweep, with the instant prune_once read before it swept the other maps.
SweepBuckets(late) ==
    /\ \E k \in Keys : IsStale(buckets[k], late)
    /\ buckets' = [k \in Keys |-> IF IsStale(buckets[k], late) THEN NoBucket ELSE buckets[k]]

AgeBucket(b) == IF b = NoBucket \/ b.age = Horizon THEN b
                ELSE [tokens |-> b.tokens, age |-> b.age + 1]

\* A unit of time passes.
AgeBuckets == buckets' = [k \in Keys |-> AgeBucket(buckets[k])]

\* The buckets live in memory only.
LoseBuckets == buckets' = [k \in Keys |-> NoBucket]

LimiterNext ==
    \/ AgeBuckets \/ LoseBuckets
    \/ \E late \in 0 .. MaxLate : SweepBuckets(late)
    \/ \E k \in Keys, late \in 0 .. MaxLate : Admit(k, late) \/ Refuse(k, late)

LimiterSpec == LimiterInit /\ [][LimiterNext]_buckets

-----------------------------------------------------------------------------

LimiterTypeOK == buckets \in [Keys -> Bucket \cup {NoBucket}]

\* A lazily refilled bucket is worth what a caller with the present instant
\* would find in it.
Level == [k \in Keys |-> Tokens(k, 0)]

Idle == [k \in Keys |-> IF buckets[k] = NoBucket THEN Horizon ELSE buckets[k].age]

TB == INSTANCE TokenBucket WITH level <- Level, idle <- Idle

\* The limiter with its lazy refills, evictions and callers that overtake
\* each other between clock and lock is a bucket that is always there, up to
\* the two exceptions TokenBucket names: a late request gains no more than
\* the units it was late by, and a sweep only refills keys that were idle
\* for longer than BUCKET_STALE_TTL, whatever the configuration.
ImplementsTokenBucket == TB!BucketSpec

\* What a sweep must not do: give a key a token its rate has not earned.
\* True only of configurations that fill a bucket within BUCKET_STALE_TTL.
SweepGivesNothing == [][\A late \in 0 .. MaxLate : SweepBuckets(late) => UNCHANGED Level]_buckets
=============================================================================
