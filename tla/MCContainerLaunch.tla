-------------------------- MODULE MCContainerLaunch --------------------------
(***************************************************************************)
(* ContainerLaunch for TLC: two agents, a few requests and reapers.        *)
(***************************************************************************)
EXTENDS ContainerLaunch, TLC

Symmetry == Permutations(Agents) \cup Permutations(Binds) \cup Permutations(Teardowns)
=============================================================================
