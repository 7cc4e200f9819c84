-------------------------- MODULE MC_HeapSnapshot --------------------------
(***************************************************************************)
(* A context, the global object g, one more object o and an ArrayBuffer   *)
(* ab (the buffer o has when it is a typed array), their shapes, a        *)
(* bytecode, a detached var-ref, a string and two ints.  o ranges over the *)
(* six classes; the properties, elements, prototype, constant pool and    *)
(* var-ref value range over small sets that include every kind of value.   *)
(***************************************************************************)
EXTENDS HeapSnapshot

CONSTANTS ctx, g, o, ab, shG, shO, shAB, b1, v1, s1

MCObjects == {g, o, ab}
MCShapes == {shG, shO, shAB}
MCInts == {1, 2}
MCListOrder == <<ctx, shG, g, shO, o, ab, shAB, b1, v1>>
MCShapeOf == [x \in MCObjects |-> CASE x = g -> shG [] x = o -> shO [] OTHER -> shAB]
MCBufferOf == [x \in MCObjects |-> ab]
MCCodeOf == [x \in MCObjects |-> b1]
MCStrText == [x \in {s1} |-> "foo"]
MCNativeErrProtos == <<o>>
MCClassProtos == <<UNDEF, o>>
MCCtxSlots1 == <<[name |-> "global_obj", val |-> g]>>
MCCtxSlots2 == <<[name |-> "function_proto", val |-> o]>>

MCClassChoice == {[x \in MCObjects |-> CASE x = g -> "Object" [] x = ab -> "ArrayBuffer"
                                         [] OTHER -> c] : c \in Classes}

\* g.x holds o, a string or an int; o has no property, a string or int
\* "name", or an index property 0 holding g.
MCPropsChoice ==
  {[x \in MCObjects |-> CASE x = g -> <<[atom |-> "x", val |-> gv]>> [] x = o -> op
                                           [] OTHER -> <<>>] :
     gv \in {o, s1, 1},
     op \in {<<>>, <<[atom |-> "name", val |-> s1]>>, <<[atom |-> "name", val |-> 2]>>,
             <<[atom |-> "0", val |-> g]>>}}

MCElemsChoice ==
  {[x \in MCObjects |-> IF x = o THEN e ELSE <<>>] : e \in {<<>>, <<1>>, <<g>>, <<UNDEF>>}}

MCProtoChoice == {[sh \in MCShapes |-> IF sh = shO THEN p ELSE NULL] : p \in {NULL, g}}

MCCpoolChoice == {[x \in {b1} |-> c] : c \in {<<>>, <<o>>, <<s1>>}}

MCVarChoice == {[x \in {v1} |-> v] : v \in {o, 1, UNDEF}}

=============================================================================
