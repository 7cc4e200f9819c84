CONSTANTS
  o1 = o1
  o2 = o2
  b1 = b1
  v1 = v1
  NONE = NONE
  Objects <- BcCellsObjects
  Bytecodes <- BcCellsBytecodes
  VarRefs <- MCVarRefs
  CellOrder <- BcCellsOrder
  MaxRef = 2
  MaxExt = 1
SPECIFICATION Spec
INVARIANTS
  NoAbort
  ListsPartition
  NoDanglingReference
  HeapConsistentAtRest
  FinalizeOnce
PROPERTIES
  CollectComplete
  RefinesAbstractHeap
