------------------------- MODULE MCSessionLiveness -------------------------
\* SessionLiveness on small sets of interchangeable tasks, timers and objects.
EXTENDS SessionLiveness, TLC

Symmetry == Permutations(Tasks) \cup Permutations(Timers) \cup Permutations(Arcs)

\* States that differ in an object nobody can reach are the same state.
View == <<world, routing, database, entry, locals,
          [a \in Arcs |-> IF a \in Held THEN <<open[a], handle[a]>> ELSE None]>>
=============================================================================
