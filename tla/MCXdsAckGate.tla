--------------------------- MODULE MCXdsAckGate ---------------------------
(* Model-checking instance of XdsAckGate. *)
EXTENDS XdsAckGate, TLC

Symmetry == Permutations(Requests)
=============================================================================
