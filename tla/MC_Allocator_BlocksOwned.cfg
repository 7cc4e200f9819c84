\* js_realloc_array with elem_size 16 and req_size in {1, 268435456}: new_size * elem_size
\* overflows int.
CONSTANTS
  b1 = b1
  b2 = b2
  b3 = b3
  NULL = NULL
  Blocks = {b1, b2, b3}
  ElemSize = 16
  ReqSizes = {1, 268435456}
  ClientSizes = {4}
  Slacks = {0}
  MaxAlloc <- MCMaxAlloc
  SizeMax <- MCSizeMax
  Limits <- MCLimits
  Thresholds <- MCThresholds
SPECIFICATION Spec
SYMMETRY Symmetry
INVARIANT BlocksOwned
