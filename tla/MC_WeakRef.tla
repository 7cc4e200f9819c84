------------------------------ MODULE MC_WeakRef ------------------------------
EXTENDS WeakRef, TLC

CONSTANTS o1, o2, m1, m2, r1, r2

\* Objects are interchangeable, and so are maps and records: nothing
\* orders them but the insertion order the initial state picks.
Symmetry == Permutations({o1, o2}) \cup Permutations({m1, m2}) \cup Permutations({r1, r2})
=============================================================================
