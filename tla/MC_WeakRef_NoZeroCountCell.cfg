\* The weak-map instance of MC_WeakRef.cfg, checking only that no allocated
\* cell is left with count 0 after a drain or a JS_RunGC.
CONSTANTS
  o1 = o1  o2 = o2  m1 = m1  m2 = m2  r1 = r1  r2 = r2  NONE = NONE
  Objs = {o1, o2}
  Maps = {m1, m2}
  Recs = {r1, r2}
SPECIFICATION Spec
SYMMETRY Symmetry
INVARIANT NoZeroCountCell
