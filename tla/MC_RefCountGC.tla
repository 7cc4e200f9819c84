--------------------------- MODULE MC_RefCountGC ---------------------------
(* Cell sets for TLC.  ObjCells: two objects and a var-ref, for self       *)
(* cycles, two-cycles, closure/var-ref cycles and cycles with an external  *)
(* root.  BcCells: an object, a function bytecode and a var-ref, for       *)
(* cycles through a constant pool and bytecode cells, which are freed by   *)
(* free_function_bytecode and carry no free_mark.                          *)
EXTENDS RefCountGC

CONSTANTS o1, o2, b1, v1

ObjCellsObjects == {o1, o2}
ObjCellsBytecodes == {}
ObjCellsOrder == <<o1, o2, v1>>

BcCellsObjects == {o1}
BcCellsBytecodes == {b1}
BcCellsOrder == <<o1, b1, v1>>

MCVarRefs == {v1}
=============================================================================
