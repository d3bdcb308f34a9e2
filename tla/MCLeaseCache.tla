---------------------------- MODULE MCLeaseCache ----------------------------
(***************************************************************************)
(* LeaseCache for TLC: two requests of one lease, with times to live       *)
(* short enough for every entry to expire under a request in flight.       *)
(***************************************************************************)
EXTENDS LeaseCache
=============================================================================
