CONSTANTS
  o1 = o1
  o2 = o2
  b1 = b1
  v1 = v1
  NONE = NONE
  Objects <- ObjCellsObjects
  Bytecodes <- ObjCellsBytecodes
  VarRefs <- MCVarRefs
  CellOrder <- ObjCellsOrder
  MaxRef = 1
  MaxExt = 1
SPECIFICATION Spec
PROPERTIES
  CollectorTerminates
\* An assert() that fails aborts the process: that state has no successor.
CHECK_DEADLOCK FALSE
