----------------------------- MODULE TokenBucket -----------------------------
(***************************************************************************)
(* What the rate limiter of the auth endpoints promises: for each key a    *)
(* bucket that is always there, gains Rate quanta in every unit of time up *)
(* to Burst, and pays a Token for every request it lets through.           *)
(*                                                                         *)
(* The promise has two exceptions, each bounded.  A request served late,   *)
(* `late` units after it read the clock, may leave the bucket with up to   *)
(* what those units are worth more than it should have, or be turned away  *)
(* for want of what came in during them.  And a key idle for longer than   *)
(* StaleTtl may find its bucket full.  Where nothing is late and a bucket  *)
(* fills up within StaleTtl this is the exact token bucket: a key gets no  *)
(* more than Burst + n * Rate quanta in n units.                           *)
(***************************************************************************)
EXTENDS Naturals

CONSTANTS Keys, Token, Rate, Burst, StaleTtl, MaxLate,
          Horizon       \* where idle times saturate

VARIABLES
    level,      \* quanta of each key
    idle        \* units since its last request read the clock

Capped(x) == IF x < Burst THEN x ELSE Burst

BucketInit == level = [k \in Keys |-> Burst] /\ idle = [k \in Keys |-> Horizon]

Pay(k, late) ==
    /\ level[k] >= Token
    /\ \E x \in (level[k] - Token) .. Capped(level[k] - Token + late * Rate) :
          level' = [level EXCEPT ![k] = x]
    /\ idle' = [idle EXCEPT ![k] = late]

TurnAway(k, late) ==
    /\ level[k] < Token + late * Rate
    /\ \E x \in level[k] .. Capped(level[k] + late * Rate) : level' = [level EXCEPT ![k] = x]
    /\ idle' = [idle EXCEPT ![k] = late]

Refill ==
    /\ level' = [k \in Keys |-> Capped(level[k] + Rate)]
    /\ idle' = [k \in Keys |-> IF idle[k] < Horizon THEN idle[k] + 1 ELSE idle[k]]

\* Keys that were idle for too long start afresh.
Restore ==
    \E K \in SUBSET {k \in Keys : idle[k] > StaleTtl} :
        /\ level' = [k \in Keys |-> IF k \in K THEN Burst ELSE level[k]]
        /\ idle' = [k \in Keys |-> IF k \in K THEN Horizon ELSE idle[k]]

\* The process forgot all buckets: everyone starts afresh.
Forget == level' = [k \in Keys |-> Burst] /\ idle' = [k \in Keys |-> Horizon]

BucketNext ==
    \/ Refill \/ Restore \/ Forget
    \/ \E k \in Keys, late \in 0 .. MaxLate : Pay(k, late) \/ TurnAway(k, late)

BucketSpec == BucketInit /\ [][BucketNext]_<<level, idle>>
=============================================================================
