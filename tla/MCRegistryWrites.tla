------------------------- MODULE MCRegistryWrites -------------------------
(* RegistryWrites on two tenants, whose names may differ only in case. *)
EXTENDS RegistryWrites, TLC
MCFold == [n \in Names |-> Manifest]
Symmetry == Permutations(Requests) \cup Permutations(Tenants)
===========================================================================
