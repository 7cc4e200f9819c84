CONSTANTS
  ctx = ctx  g = g  o = o  ab = ab  shG = shG  shO = shO  shAB = shAB  b1 = b1  v1 = v1  s1 = s1
  NULL = NULL  UNDEF = UNDEF  IntSlot = IntSlot
  NativeErrKey = NativeErrKey  ClassProtoKey = ClassProtoKey
  Ctx <- ctx
  GlobalObj <- g
  Objects <- MCObjects
  Bytecodes = {b1}
  Shapes <- MCShapes
  VarRefs = {v1}
  Strings = {s1}
  Ints <- MCInts
  ListOrder <- MCListOrder
  ShapeOf <- MCShapeOf
  CodeOf <- MCCodeOf
  BufferOf <- MCBufferOf
  StrText <- MCStrText
  Hashed <- MCShapes
  NativeErrProtos <- MCNativeErrProtos
  ClassProtos <- MCClassProtos
  CtxSlots1 <- MCCtxSlots1
  CtxSlots2 <- MCCtxSlots2
  ArrayShape = shO
  ClassChoice <- MCClassChoice
  PropsChoice <- MCPropsChoice
  ElemsChoice <- MCElemsChoice
  ProtoChoice <- MCProtoChoice
  CpoolChoice <- MCCpoolChoice
  VarChoice <- MCVarChoice

SPECIFICATION Spec

\* The dump is a procedure that ends: a written file, or a crash.
CHECK_DEADLOCK FALSE

INVARIANTS TypeOK SnapshotConsistent PropertyEdges TypedArrayBufferEdges
