-------------------------- MODULE MCSessionRecords --------------------------
\* SessionRecords on small sets of interchangeable containers.
EXTENDS SessionRecords, TLC

Symmetry == Permutations(Containers) \cup Permutations(Agents)
=============================================================================
