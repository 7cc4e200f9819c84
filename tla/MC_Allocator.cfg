CONSTANTS
  b1 = b1
  b2 = b2
  b3 = b3
  NULL = NULL
  Blocks = {b1, b2, b3}
  ElemSize = 8
  ReqSizes = {1, 2, 4, 7}
  ClientSizes = {4, 16}
  Slacks = {0, 12}
  MaxAlloc <- MCMaxAlloc
  SizeMax <- MCSizeMax
  Limits <- MCLimits
  Thresholds <- MCThresholds
SPECIFICATION Spec
SYMMETRY Symmetry
INVARIANTS
  TypeOK
  ArrayFitsBlock
  BlocksOwned
