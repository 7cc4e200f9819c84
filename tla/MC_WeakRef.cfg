CONSTANTS
  o1 = o1  o2 = o2  m1 = m1  m2 = m2  r1 = r1  r2 = r2  NONE = NONE
  Objs = {o1, o2}
  Maps = {m1, m2}
  Recs = {r1, r2}
SPECIFICATION Spec
SYMMETRY Symmetry
INVARIANTS
  TypeOK
  NoUseAfterFree
  WeakTablesConsistent
  RefCountsExact
