CONSTANTS
  o1 = o1
  o2 = o2
  b1 = b1
  v1 = v1
  NONE = NONE
  Objects <- ObjCellsObjects
  Bytecodes <- ObjCellsBytecodes
  VarRefs <- MCVarRefs
  CellOrder <- ObjCellsOrder
  MaxRef = 2
  MaxExt = 1
SPECIFICATION Spec
INVARIANTS
  TypeOK
  NoAbort
  ListsPartition
  NoDanglingReference
  HeapConsistentAtRest
  FinalizeOnce
PROPERTIES
  CollectComplete
  RefinesAbstractHeap
