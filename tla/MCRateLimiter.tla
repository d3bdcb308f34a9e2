---------------------------- MODULE MCRateLimiter ----------------------------
(***************************************************************************)
(* RateLimiter for TLC: two keys, callers up to two units late, a burst of *)
(* three requests that takes longer to come back than buckets are kept, so *)
(* that sweeps do give tokens away.                                        *)
(***************************************************************************)
EXTENDS RateLimiter
=============================================================================
