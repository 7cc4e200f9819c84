---------------------------- MODULE HeapSnapshot ----------------------------
(***************************************************************************)
(* The heap-snapshot dumper of src/src/vm/gc.c (__js_gcdump_objects and   *)
(* what it calls): one walk over gc_obj_list that builds the node table,   *)
(* the edge lists and the interned string table, then writes them.         *)
(*                                                                         *)
(* The heap is an input: Init chooses it from small sets, and the dump     *)
(* does not change it.  A node is identified by the pointer it was made    *)
(* for (its key): a GC cell, a JSString, NULL, the address of a JSValue    *)
(* on the stack, or a pointer read out of a non-pointer value.  Strings    *)
(* are interned by their text; a text is a TLA+ string.                    *)
(***************************************************************************)
EXTENDS Integers, Sequences, SequencesExt, TLC

CONSTANTS
  Ctx,          \* the JSContext being dumped (a JS_GC_OBJ_TYPE_JS_CONTEXT cell)
  GlobalObj,    \* ctx->global_obj
  Objects,      \* JS_GC_OBJ_TYPE_JS_OBJECT cells, GlobalObj included
  Bytecodes,    \* JS_GC_OBJ_TYPE_FUNCTION_BYTECODE cells
  Shapes,       \* JS_GC_OBJ_TYPE_SHAPE cells
  VarRefs,      \* detached JS_GC_OBJ_TYPE_VAR_REF cells
  Strings,      \* JSString cells (not on gc_obj_list)
  Ints,         \* the int values held in slots
  ListOrder,    \* gc_obj_list, in list order
  ShapeOf,      \* ShapeOf[o]: p->shape
  CodeOf,       \* CodeOf[o]: the bytecode of a bytecode function object
  BufferOf,     \* BufferOf[o]: o->u.typed_array->buffer, for a typed array
  StrText,      \* StrText[s]: the UTF-8 text of string s
  NULL,         \* the null pointer
  IntSlot,      \* &val in JS_GCDumpValue: where an int value sits
  NativeErrKey, \* ctx->native_error_proto (an array inside the context)
  ClassProtoKey,\* ctx->class_proto
  UNDEF,        \* JS_UNDEFINED
  Hashed,       \* the shapes with sh->is_hashed set
  NativeErrProtos, \* ctx->native_error_proto[], a sequence of values
  ClassProtos,  \* ctx->class_proto[], a sequence of values
  CtxSlots1,    \* <<[name, val]>>: ctx->global_obj .. ctx->array_proto_values
  CtxSlots2,    \* <<[name, val]>>: ctx->iterator_proto .. ctx->function_proto
  ArrayShape,   \* ctx->array_shape, a shape or NULL
  ClassChoice, PropsChoice, ElemsChoice, ProtoChoice, CpoolChoice, VarChoice

GCCells == {Ctx} \cup Objects \cup Bytecodes \cup Shapes \cup VarRefs

\* A value in a slot: a GC pointer, a string, an int or undefined.
Values == Objects \cup Bytecodes \cup Strings \cup Ints \cup {UNDEF}

\* "Uint8Array" stands for the typed-array classes JS_CLASS_UINT8C_ARRAY ..
\* JS_CLASS_DATAVIEW, and "ArrayBuffer" for the class of their buffers.
Classes == {"Object", "Array", "Function", "CFunction", "Uint8Array", "ArrayBuffer"}

\* Property atoms, by their text: names, and "0", a tagged-int atom.
Atoms == {"x", "name", "0"}

\* The atoms for which __JS_AtomIsTaggedInt holds, and the index each holds.
IntAtoms == {"0"}
AtomIndex(a) == CHOOSE n \in 0..9 : ToString(n) = a

ASSUME /\ ToSet(ListOrder) = GCCells /\ IsInjective(ListOrder)
       /\ GlobalObj \in Objects
       /\ ShapeOf \in [Objects -> Shapes] /\ CodeOf \in [Objects -> Bytecodes]
       /\ BufferOf \in [Objects -> Objects]
       /\ Ints \subseteq Int

VARIABLES
  cls,      \* cls[o]: the class of object o
  props,    \* props[o]: its own properties, <<[atom, val]>> in shape order
  elems,    \* elems[o]: the elements of an array object
  proto,    \* proto[sh]: sh->proto, an object or NULL
  cpool,    \* cpool[b]: the constant pool of bytecode b
  varValue, \* varValue[v]: *v->pvalue
  dc,       \* the JSGCDumpContext: [nodes, strs, elen, ub]
  cursor,   \* position of the walk on gc_obj_list
  pc,       \* "walk", "done" (file written), "crash" or "ub"
  out       \* what js_gcdump_write2file wrote

heapVars == <<cls, props, elems, proto, cpool, varValue>>
vars == <<heapVars, dc, cursor, pc, out>>

-----------------------------------------------------------------------------
(* The dump context: nodes (obj2node is the key of each node), strs and    *)
(* str2id (the index of each text), edges_len.  Indices are 0-based as in  *)
(* the code.  ub is set when the walk reads a GC header that is not one.   *)

NodeFieldCount == 5   \* NODE_FIELD_COUNT

\* obj2node lookup: the index of the node made for key k.
NodeIdx(d, k) ==
  LET found == {n \in DOMAIN d.nodes : d.nodes[n].key = k}
  IN  IF found = {} THEN -1 ELSE (CHOOSE n \in found : TRUE) - 1

\* js_gcdump_node_from_gp: a new node (type hidden, name -2, no size, no
\* edges) at the end of the table unless key k has one.
NodeFromGp(d, k) ==
  IF NodeIdx(d, k) >= 0 THEN d
  ELSE [d EXCEPT !.nodes = Append(@, [key |-> k, type |-> "hidden",
                                       name |-> -2, sized |-> FALSE,
                                       edges |-> <<>>])]

\* js_gcdump_add_cstr (and add_str / add_atom, which convert to UTF-8
\* first): intern text t.
AddCstr(d, t) == IF Contains(d.strs, t) THEN d ELSE [d EXCEPT !.strs = Append(@, t)]

StrId(d, t) == (CHOOSE n \in DOMAIN d.strs : d.strs[n] = t) - 1

\* Set field f of node i.
SetNode(d, i, f, v) == [d EXCEPT !.nodes[i + 1][f] = v]

\* kid_array_push(&node->edges, &edge); dc->edges_len++
PushEdge(d, i, e) == [d EXCEPT !.nodes[i + 1].edges = Append(@, e), !.elen = @ + 1]

\* Intern t and push an edge of type ty named t from node i to node j.
NamedEdge(d, i, ty, t, j) ==
  LET d1 == AddCstr(d, t)
  IN  PushEdge(d1, i, [type |-> ty, name |-> StrId(d1, t), to |-> j * NodeFieldCount])

-----------------------------------------------------------------------------
(* js_gcdump_process_obj: the node of one cell, reached from parent node    *)
(* dctx.parent (-1 for the walk itself) through a slot described by dctx:   *)
(* plen "name" (edge named p), "index" (element p), or "none" with prs the  *)
(* shape property being traversed (NULL outside an object's properties).    *)

\* JS_VALUE_GET_TAG
Tag(v) == CASE v \in Strings -> "string" [] v \in Ints -> "int"
            [] v \in Objects -> "object" [] v \in Bytecodes -> "bytecode"
            [] OTHER -> "undefined"

\* The int32 the code stores as name_or_idx for a tagged-int atom: the
\* atom itself, JS_ATOM_TAG_INT (1 << 31) | n, read as a signed int:
\* n - 2^31 (written without 2^31, which is not a TLC integer).
AtomEdgeName(a) == AtomIndex(a) - 2147483647 - 1

\* The atoms of the shape of the objects sh belongs to.
ShapeAtoms(sh) ==
  LET owners == {o \in Objects : ShapeOf[o] = sh}
  IN  IF owners = {} THEN <<>>
      ELSE LET o == CHOOSE o \in owners : TRUE
           IN  [k \in 1..Len(props[o]) |-> props[o][k].atom]

\* js_gcdump_get_node_name: "name" when the object has an own string
\* property called name, else the name of its constructor, which for the
\* objects modelled here is their class name.
NodeNameText(o) ==
  LET named == {k \in 1..Len(props[o]) :
                  props[o][k].atom = "name" /\ props[o][k].val \in Strings}
  IN  IF named # {} THEN StrText[props[o][CHOOSE k \in named : TRUE].val]
      ELSE IF cls[o] = "CFunction" THEN "Function" ELSE cls[o]

\* Set node i's name to the id of text t.
NameNode(d, i, t) == LET d1 == AddCstr(d, t) IN SetNode(d1, i, "name", StrId(d1, t))

\* The pointer JS_VALUE_GET_PTR reads out of value v: the cell for a GC
\* value or a string, the int's bits for an int, 0 for undefined.
PtrOf(v) == CASE v \in Ints -> <<"ptr", v>> [] v = UNDEF -> NULL [] OTHER -> v

\* The element loop: one element edge per index, to the node of whatever
\* pointer the element's value holds; these nodes are not processed.
ArrayElementEdges(d, o, i) ==
  LET step(acc, k) ==
        LET key == PtrOf(elems[o][k])
            a1 == NodeFromGp(acc, key)
        IN  PushEdge(a1, i, [type |-> "element", name |-> k - 1,
                             to |-> NodeIdx(a1, key) * NodeFieldCount])
  IN  FoldLeftDomain(step, d, elems[o])

\* The code edge of a function: to its bytecode's node, or for a C function
\* to a "cfunc" native node for the function pointer.
CodeEdge(d, o, i) ==
  CASE cls[o] = "Function" ->
         LET d1 == NodeFromGp(d, CodeOf[o])
         IN  NamedEdge(d1, i, "internal", "code", NodeIdx(d1, CodeOf[o]))
    [] cls[o] = "CFunction" ->
         LET d1 == NodeFromGp(d, <<"cfunc", o>>)
             j == NodeIdx(d1, <<"cfunc", o>>)
             d2 == SetNode(SetNode(NameNode(d1, j, "cfunc"), j, "type", "native"),
                           j, "sized", TRUE)
         IN  NamedEdge(d2, i, "internal", "code", j)
    [] OTHER -> d

\* Mutant: the edge goes to the node of the JSTypedArray record
\* (objp->u.typed_array) instead of the buffer it points to.
TypedArrayEdgeOfRecord(d, o, i) ==
  IF cls[o] # "Uint8Array" THEN d
  ELSE LET d1 == NodeFromGp(d, <<"ta", o>>)
       IN  NamedEdge(d1, i, "internal", "typed_array", NodeIdx(d1, <<"ta", o>>))

\* The "container of arraybuffer" branch: for a typed array, an edge named
\* typed_array to the node of its buffer.  The code sets no edge.type, so
\* the edge keeps the type of the shape edge pushed just before: internal.
\* ta_i is used unchecked.
TypedArrayEdge(d, o, i) ==
  IF cls[o] # "Uint8Array" THEN d
  ELSE LET d1 == NodeFromGp(d, BufferOf[o])
       IN  NamedEdge(d1, i, "internal", "typed_array", NodeIdx(d1, BufferOf[o]))

\* Mutant: the __proto__ edge takes the index looked up before the node
\* for the prototype is made.
ProcessObjectStaleProto(d, o, i) ==
  IF d.nodes[i + 1].sized THEN d
  ELSE
  LET pk == proto[ShapeOf[o]]
      d1 == SetNode(SetNode(d, i, "type", "object"), i, "sized", TRUE)
      d3 == NamedEdge(NodeFromGp(d1, pk), i, "property", "__proto__", NodeIdx(d1, pk))
      d4 == NodeFromGp(d3, ShapeOf[o])
  IN  NamedEdge(d4, i, "internal", "shape", NodeIdx(d4, ShapeOf[o]))

\* The JS_GC_OBJ_TYPE_JS_OBJECT case, the first time the object is seen:
\* type, __proto__ and shape edges, typed_array edge, code edge, name,
\* element edges.
ProcessObject(d, o, i) ==
  IF d.nodes[i + 1].sized THEN d
  ELSE
  LET ty == CASE cls[o] = "Array" -> "array"
              [] cls[o] \in {"Function", "CFunction"} -> "closure"
              [] OTHER -> "object"
      pk == proto[ShapeOf[o]]
      d1 == SetNode(SetNode(d, i, "type", ty), i, "sized", TRUE)
      d2 == NodeFromGp(d1, pk)
      d3 == NamedEdge(d2, i, "property", "__proto__", NodeIdx(d2, pk))
      d4 == NodeFromGp(d3, ShapeOf[o])
      d5 == NamedEdge(d4, i, "internal", "shape", NodeIdx(d4, ShapeOf[o]))
      d6 == CodeEdge(TypedArrayEdge(d5, o, i), o, i)
      d7 == IF d6.nodes[i + 1].name # -2 THEN d6
            ELSE NameNode(d6, i, IF o = GlobalObj THEN "global" ELSE NodeNameText(o))
  IN  IF ty = "array" THEN ArrayElementEdges(d7, o, i) ELSE d7

\* The JS_GC_OBJ_TYPE_SHAPE case: a hidden node named "shape" and, the
\* first time a hashed shape is seen, a node and an element edge per
\* shape property, keyed by the address &sh->prop[k].
ProcessShape(d, sh, i) ==
  LET d1 == SetNode(d, i, "type", "hidden")
      d2 == IF d1.nodes[i + 1].name = -2 THEN NameNode(d1, i, "shape") ELSE d1
      atoms == ShapeAtoms(sh)
      step(acc, k) ==
        LET a1 == NodeFromGp(acc, <<sh, k>>)
            j == NodeIdx(a1, <<sh, k>>)
            a2 == SetNode(SetNode(NameNode(a1, j, atoms[k]), j, "type", "hidden"),
                          j, "sized", TRUE)
        IN  PushEdge(a2, i, [type |-> "element", name |-> k - 1, to |-> j * NodeFieldCount])
  IN  IF d2.nodes[i + 1].sized \/ sh \notin Hashed THEN d2
      ELSE FoldLeftDomain(step, SetNode(d2, i, "sized", TRUE), atoms)

\* Mutant: a var-ref holding a number gets a heap-number type that the
\* meta block does not list.
ProcessGCCellHeapNumber(d, cell, i) ==
  IF cell \in VarRefs /\ Tag(varValue[cell]) = "int"
  THEN SetNode(d, i, "type", "heap number")
  ELSE d

\* The switch on gp->gc_obj_type, for a cell that is not a string or an
\* int property value.  A cell of no GC type (a JSString, or &val holding
\* an int) has no gc_obj_type: the read is of bytes of another layout.
ProcessGCCell(d, cell, i) ==
  CASE cell \in Objects -> ProcessObject(d, cell, i)
    [] cell \in VarRefs ->
         CASE Tag(varValue[cell]) = "string" -> SetNode(d, i, "type", "string")
           [] Tag(varValue[cell]) = "int" -> SetNode(d, i, "type", "number")
           [] OTHER -> d
    [] cell \in Bytecodes -> SetNode(SetNode(d, i, "type", "code"), i, "sized", TRUE)
    [] cell \in Shapes -> ProcessShape(d, cell, i)
    [] cell = Ctx -> d
    [] OTHER -> [d EXCEPT !.ub = TRUE]

\* Mutant: the edge is made only for slots with a name or an index (the
\* "|| dctx.prs" of the condition dropped).
ParentEdgeNoProperty(d, i, dctx) ==
  IF dctx.parent >= 0 /\ i # 0 /\ dctx.plen # "none"
  THEN IF dctx.plen = "name" THEN NamedEdge(d, dctx.parent, "property", dctx.p, i)
       ELSE PushEdge(d, dctx.parent, [type |-> "element", name |-> dctx.p,
                                      to |-> i * NodeFieldCount])
  ELSE d

\* The edge from dctx.parent to node i, made when the cell was reached
\* through a slot: named by p, indexed by p, or by the property's atom.
ParentEdge(d, i, dctx) ==
  IF dctx.parent >= 0 /\ i # 0 /\ (dctx.plen # "none" \/ dctx.prs # NULL)
  THEN CASE dctx.plen = "name" -> NamedEdge(d, dctx.parent, "property", dctx.p, i)
         [] dctx.plen = "index" ->
              PushEdge(d, dctx.parent, [type |-> "element", name |-> dctx.p,
                                        to |-> i * NodeFieldCount])
         [] dctx.prs.atom \in IntAtoms ->
              PushEdge(d, dctx.parent, [type |-> "element",
                                        name |-> AtomEdgeName(dctx.prs.atom),
                                        to |-> i * NodeFieldCount])
         [] OTHER -> NamedEdge(d, dctx.parent, "property", dctx.prs.atom, i)
  ELSE d

\* js_gcdump_process_obj.  val is the value whose cell this is (for an int,
\* cell is IntSlot and val the int).  The tag is read from the property
\* being traversed (dctx.prs); outside object properties it is JS_TAG_FIRST
\* and the cell is taken for a GC header.
ProcessObj(d, cell, val, dctx) ==
  LET d1 == NodeFromGp(d, cell)
      i == NodeIdx(d1, cell)
      tag == IF dctx.prs = NULL THEN "first" ELSE Tag(dctx.prs.val)
      d2 == CASE tag = "string" -> SetNode(NameNode(d1, i, StrText[cell]), i, "type", "string")
              [] tag = "int" -> SetNode(NameNode(d1, i, ToString(val)), i, "type", "string")
              [] OTHER -> ProcessGCCell(d1, cell, i)
  IN  ParentEdge(d2, i, dctx)

(* The walk of one cell is a sequence of calls of js_gcdump_process_obj  *)
(* in the order the code makes them.  A call is a record: the cell and   *)
(* the value it walks, the key of its parent's node (top: no parent), and *)
(* the slot it was reached through (dctx.plen, dctx.p, dctx.prs).  The     *)
(* parent's node exists before the call and nodes are never removed, so  *)
(* its index is looked up when the call is made.                          *)

Slot(pkey, plen, p, prs) ==
  [kind |-> "obj", cell |-> NULL, val |-> NULL, top |-> FALSE, pkey |-> pkey,
   plen |-> plen, p |-> p, prs |-> prs]

Visit(s, cell) == [s EXCEPT !.cell = cell, !.val = cell]

\* JS_GCDumpValue: walk the cell of a pointer value, or &val for an int.
DumpValue(v, s) ==
  CASE v \in Objects \cup Bytecodes \cup Strings -> <<Visit(s, v)>>
    [] v \in Ints -> <<[s EXCEPT !.cell = IntSlot, !.val = v]>>
    [] OTHER -> <<>>

\* DumpValue over a sequence of values, the k-th in slot S(k).
DumpValues(vs, S(_)) == FlattenSeq([k \in DOMAIN vs |-> DumpValue(vs[k], S(k))])

\* The synthetic "Array" node of native_error_proto or class_proto, with an
\* internal edge to it from the context's node.
Synthetic(d, job) ==
  LET a1 == NodeFromGp(d, job.key)
      j == NodeIdx(a1, job.key)
  IN  NamedEdge(SetNode(NameNode(a1, j, "Array"), j, "type", "synthetic"),
                NodeIdx(d, job.pkey), "internal", job.name, j)

\* JS_Context_gcdump: the named slots of the context, and a synthetic
\* "Array" node for each of native_error_proto and class_proto with an
\* element edge per entry.
ContextGcdump(s) ==
  LET named(slots) ==
        DumpValues([k \in DOMAIN slots |-> slots[k].val],
                   LAMBDA k : [s EXCEPT !.plen = "name", !.p = slots[k].name])
      synthetic(key, edgeName, vals) ==
        <<[kind |-> "synthetic", key |-> key, name |-> edgeName, pkey |-> s.pkey]>>
          \o DumpValues(vals, LAMBDA k : [s EXCEPT !.pkey = key, !.plen = "index",
                                                    !.p = k - 1])
  IN  named(CtxSlots1)
        \o synthetic(NativeErrKey, "native_error_proto", NativeErrProtos)
        \o synthetic(ClassProtoKey, "class_proto", ClassProtos)
        \o named(CtxSlots2)
        \o (IF ArrayShape = NULL THEN <<>>
            ELSE <<Visit([s EXCEPT !.plen = "name", !.p = "array_shape"], ArrayShape)>>)

\* gcdump_children: the calls for what gp points to, gp's node the parent.
GcdumpChildren(gp) ==
  LET s == Slot(gp, "none", 0, NULL)
  IN  CASE gp \in Objects ->
             DumpValues([k \in DOMAIN props[gp] |-> props[gp][k].val],
                        LAMBDA k : [s EXCEPT !.prs = props[gp][k]])
        [] gp \in Bytecodes -> DumpValues(cpool[gp], LAMBDA k : s) \o <<Visit(s, Ctx)>>
        [] gp \in VarRefs -> DumpValue(varValue[gp], s)
        [] gp \in Shapes -> IF proto[gp] = NULL THEN <<>> ELSE <<Visit(s, proto[gp])>>
        [] gp = Ctx -> ContextGcdump(s)

\* Make one call: a synthetic node, or process_obj with its dctx.
WalkStep(d, job) ==
  IF job.kind = "synthetic" THEN Synthetic(d, job)
  ELSE ProcessObj(d, job.cell, job.val,
                  [parent |-> IF job.top THEN -1 ELSE NodeIdx(d, job.pkey),
                   plen |-> job.plen, p |-> job.p, prs |-> job.prs])

-----------------------------------------------------------------------------
(* The heaps the dump can see: classes, properties, elements, prototypes,  *)
(* constant pools and var-ref values chosen from the sets of the model.    *)
(* Only arrays have elements, the global object is a plain object, and     *)
(* objects that share a shape have the same property atoms.                *)

HeapWellFormed ==
  /\ cls[GlobalObj] = "Object"
  /\ \A o \in Objects : cls[o] # "Array" => elems[o] = <<>>
  /\ \A o1, o2 \in Objects :
        ShapeOf[o1] = ShapeOf[o2] =>
          /\ Len(props[o1]) = Len(props[o2])
          /\ \A k \in DOMAIN props[o1] : props[o1][k].atom = props[o2][k].atom

NoDump == [nodeCount |-> 0, edgeCount |-> 0, nodes |-> <<>>, edges |-> <<>>,
           strings |-> <<>>]

\* js_gcdump_new_ctx, then node 0 for the context.
Init ==
  /\ cls \in ClassChoice /\ props \in PropsChoice /\ elems \in ElemsChoice
  /\ proto \in ProtoChoice /\ cpool \in CpoolChoice /\ varValue \in VarChoice
  /\ HeapWellFormed
  /\ dc = NodeFromGp([nodes |-> <<>>, strs |-> <<>>, elen |-> 0, ub |-> FALSE], Ctx)
  /\ cursor = 1 /\ pc = "walk" /\ out = NoDump

\* One iteration of the list_for_each over gc_obj_list: the cell's node,
\* process_obj with no parent, then its children with it as parent.
DumpCell ==
  /\ pc = "walk" /\ cursor <= Len(ListOrder)
  /\ LET gp == ListOrder[cursor]
         top == [Visit(Slot(gp, "none", 0, NULL), gp) EXCEPT !.top = TRUE]
         d3 == FoldLeft(WalkStep, NodeFromGp(dc, gp), <<top>> \o GcdumpChildren(gp))
     IN  /\ dc' = d3
         /\ pc' = IF d3.ub THEN "ub" ELSE "walk"
  /\ cursor' = cursor + 1
  /\ UNCHANGED <<heapVars, out>>

\* js_gcdump_write2file: header counts, then the node rows, the edge rows
\* node by node, and the strings.
Write2File ==
  /\ pc = "walk" /\ cursor > Len(ListOrder)
  /\ out' = [nodeCount |-> Len(dc.nodes), edgeCount |-> dc.elen,
             nodes |-> [k \in DOMAIN dc.nodes |->
                          [type |-> dc.nodes[k].type, name |-> dc.nodes[k].name,
                           id |-> k - 1, edgeCount |-> Len(dc.nodes[k].edges)]],
             edges |-> FlattenSeq([k \in DOMAIN dc.nodes |-> dc.nodes[k].edges]),
             strings |-> dc.strs]
  /\ pc' = "done"
  /\ UNCHANGED <<heapVars, dc, cursor>>

\* fopen returns NULL (no write permission in the current directory, no
\* descriptors left): the first fprintf(fp, ...) dereferences NULL.
Write2FileOpenFails ==
  /\ pc = "walk" /\ cursor > Len(ListOrder)
  /\ pc' = "crash"
  /\ UNCHANGED <<heapVars, dc, cursor, out>>

Next == DumpCell \/ Write2File \/ Write2FileOpenFails

Spec == Init /\ [][Next]_vars

-----------------------------------------------------------------------------
(* Properties of the written snapshot.                                     *)

\* The node_types and edge_types enums of the written meta block.
NodeTypes == {"hidden", "array", "string", "object", "code", "closure", "regexp",
              "number", "native", "synthetic", "concatenated string",
              "sliced string", "symbol", "bigint"}
EdgeTypes == {"context", "element", "property", "internal", "hidden", "shortcut", "weak"}
Edge == [type : EdgeTypes, name : Int, to : Int]

\* The dump context and the output have the shapes the writer assumes.
TypeOK ==
  /\ pc \in {"walk", "done", "crash", "ub"}
  /\ cursor \in 1..Len(ListOrder) + 1
  /\ dc.elen \in Nat /\ dc.ub \in BOOLEAN
  /\ \A k \in DOMAIN dc.nodes :
        /\ dc.nodes[k].type \in NodeTypes /\ dc.nodes[k].name \in Int
        /\ dc.nodes[k].edges \in Seq(Edge)
  /\ out.edges \in Seq(Edge)

\* The written document is one a heap-profiler can load (spec P8, first
\* two clauses): the edge_count in the header, which write_edges also
\* uses to place its separators, is the number of edge rows written and
\* the sum of the nodes' edge counts; every to_node is a multiple of
\* NODE_FIELD_COUNT naming a written node; and obj2node gave each pointer
\* one node, the context's being node 0.
SnapshotConsistent ==
  pc = "done" =>
    /\ out.edgeCount = Len(out.edges)
    /\ out.edgeCount = FoldLeft(LAMBDA a, n : a + n.edgeCount, 0, out.nodes)
    /\ \A k \in DOMAIN out.edges :
          /\ out.edges[k].to % NodeFieldCount = 0
          /\ out.edges[k].to \in 0..(out.nodeCount - 1) * NodeFieldCount
    /\ IsInjective([k \in DOMAIN dc.nodes |-> dc.nodes[k].key])
    /\ dc.nodes[1].key = Ctx

\* Every own property of an object whose value is an object, bytecode or
\* string, under a non-index atom, is written as a "property" edge from
\* the object's node, labelled with the atom's text, to the node of the
\* value (spec S5: the edge labelled "x" from the global object).
PropertyEdges ==
  pc = "done" =>
    \A o \in Objects : \A k \in DOMAIN props[o] :
      LET pr == props[o][k]
      IN  pr.val \in Objects \cup Bytecodes \cup Strings /\ pr.atom \notin IntAtoms =>
            \E e \in ToSet(dc.nodes[NodeIdx(dc, o) + 1].edges) :
              /\ e.type = "property"
              /\ e.name \in 0..Len(out.strings) - 1
              /\ out.strings[e.name + 1] = pr.atom
              /\ e.to = NodeIdx(dc, pr.val) * NodeFieldCount

\* A typed array's node has an edge labelled typed_array to the node of its
\* buffer, and that node is the one the walk later (or earlier) filled in
\* as the buffer object's own node: obj2node gave the pointer
\* objp->u.typed_array->buffer and the list cell of the buffer one node.
TypedArrayBufferEdges ==
  pc = "done" =>
    \A t \in Objects : cls[t] = "Uint8Array" =>
      \E e \in ToSet(dc.nodes[NodeIdx(dc, t) + 1].edges) :
        /\ e.type # "element" /\ out.strings[e.name + 1] = "typed_array"
        /\ e.to = NodeIdx(dc, BufferOf[t]) * NodeFieldCount
        /\ out.nodes[e.to \div NodeFieldCount + 1].type = "object"

\* Every node name and every property or internal edge name is the index
\* of a written string (spec P8, third clause).
NamesInRange ==
  pc = "done" =>
    /\ \A k \in DOMAIN out.nodes : out.nodes[k].name \in 0..Len(out.strings) - 1
    /\ \A k \in DOMAIN out.edges :
          out.edges[k].type # "element" => out.edges[k].name \in 0..Len(out.strings) - 1

\* An int-valued property is written as a "property" edge, labelled with
\* its atom, to a string node named by the int's text (the heap-number
\* formatting of process_obj).
IntNodesNameTheirValue ==
  pc = "done" =>
    \A o \in Objects : \A k \in DOMAIN props[o] :
      LET pr == props[o][k]
      IN  pr.val \in Ints /\ pr.atom \notin IntAtoms =>
            \A e \in ToSet(dc.nodes[NodeIdx(dc, o) + 1].edges) :
              e.type = "property" /\ out.strings[e.name + 1] = pr.atom =>
                out.strings[out.nodes[e.to \div NodeFieldCount + 1].name + 1]
                  = ToString(pr.val)

\* The walk never takes a value that is not a GC cell for a GC header.
NoHeaderMisread == pc # "ub"

=============================================================================
