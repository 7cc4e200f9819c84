----------------------------- MODULE RefCountGC -----------------------------
(***************************************************************************)
(* The reference-count engine and the trial-deletion cycle collector of    *)
(* src/src/vm/gc.c.                                                        *)
(*                                                                         *)
(* A cell is a GC header: a JSObject, a JSFunctionBytecode or a detached   *)
(* JSVarRef.  refs[c][d] counts the strong slots of c that hold d (the     *)
(* edges mark_children enumerates); ext[c] counts the references the       *)
(* mutator holds outside the heap (stack, C locals).  The three intrusive  *)
(* lists gc_obj_list, tmp_obj_list and gc_zero_ref_count_list are          *)
(* sequences.  The collector's loops are run-to-completion procedures: pc  *)
(* says which loop is running and cursor is its list iterator; the mutator *)
(* only acts when pc = "idle".  An assert() of the code that fails sends   *)
(* pc to "abort".                                                          *)
(***************************************************************************)
EXTENDS Integers, Sequences, SequencesExt, FiniteSets

CONSTANTS
  Objects,    \* JS_GC_OBJ_TYPE_JS_OBJECT cells
  Bytecodes,  \* JS_GC_OBJ_TYPE_FUNCTION_BYTECODE cells
  VarRefs,    \* JS_GC_OBJ_TYPE_VAR_REF cells (detached closure variables)
  CellOrder,  \* the order in which a cell's slots are visited
  MaxRef,     \* bound on the slots of one cell holding the same cell
  MaxExt,     \* bound on the mutator's references to one cell
  NONE

Cells == Objects \cup Bytecodes \cup VarRefs

\* Values with tag JS_TAG_OBJECT or JS_TAG_FUNCTION_BYTECODE: the cells that
\* JS_MarkValue follows and JS_FreeValueRT routes to __JS_FreeValueRT.
ValueCells == Objects \cup Bytecodes

ASSUME /\ IsInjective(CellOrder) /\ ToSet(CellOrder) = Cells
       /\ NONE \notin Cells
       /\ MaxRef \in Nat \ {0} /\ MaxExt \in Nat \ {0}

Phases == {"NONE", "DECREF", "REMOVE_CYCLES"}   \* JSGCPhaseEnum

VARIABLES
  heap,      \* the headers of all cells and the runtime's three lists
  ext,       \* ext[c]: references held by the mutator outside the heap
  phase,     \* rt->gc_phase
  pc,        \* which loop of the collector runs, "idle" or "abort"
  cursor     \* the iterator of the running loop, NONE at its end

\* The fields of heap:
\*   status[c]  "unused" (never allocated), "alloc", or "freed" (js_free_rt done)
\*   rc[c]      header.ref_count
\*   refs[c][d] slots of c holding a strong reference to d
\*   mark[c]    header.mark
\*   fm[c]      JSObject.free_mark: the object is a zombie
\*   fin[c]     how often the cell's free path (finalizer) has run
\*   gcl, tmp, zero  rt->gc_obj_list, rt->tmp_obj_list, rt->gc_zero_ref_count_list
\*   err        an assert() on the way has failed

vars == <<heap, ext, phase, pc, cursor>>

-----------------------------------------------------------------------------
(* Helpers over the heap record, so that the code's sequences of calls    *)
(* become folds.                                                           *)

\* Store heap record h; an assertion that failed on the way aborts.
SetHeap(h, nextPc) ==
  /\ heap' = h
  /\ pc' = IF h.err THEN "abort" ELSE nextPc

Fail(h) == [h EXCEPT !.err = TRUE]

First(s) == IF s = <<>> THEN NONE ELSE Head(s)

\* The element after c in list s (c is in s), as list_for_each reads el->next.
Successor(s, c) ==
  LET i == CHOOSE i \in 1..Len(s) : s[i] = c
  IN  IF i < Len(s) THEN s[i + 1] ELSE NONE

\* list_del: unlink c from whichever list holds it.
ListDel(h, c) ==
  [h EXCEPT !.gcl = Remove(@, c), !.tmp = Remove(@, c), !.zero = Remove(@, c)]

\* The slots of p in visiting order, a cell repeated once per slot.
Slots(h, p) ==
  LET held == SelectSeq(CellOrder, LAMBDA d : h.refs[p][d] > 0)
  IN  FlattenSeq([i \in 1..Len(held) |-> [k \in 1..h.refs[p][held[i]] |-> held[i]]])

\* The value a detached var-ref holds, NONE for a non-GC value.
VarValue(h, v) ==
  IF \E d \in ValueCells : h.refs[v][d] > 0
  THEN CHOOSE d \in ValueCells : h.refs[v][d] > 0 ELSE NONE

-----------------------------------------------------------------------------
(* Releasing references.                                                   *)

\* Mutant: the cell is queued on gc_zero_ref_count_list without list_del.
FreeValueRTNoUnlink(h, d, ph) ==
  IF h.rc[d] - 1 > 0 \/ ph = "REMOVE_CYCLES" THEN [h EXCEPT !.rc[d] = @ - 1]
  ELSE [h EXCEPT !.rc[d] = @ - 1, !.zero = <<d>> \o @]

\* Mutant: __JS_FreeValueRT queues the cell whatever the phase.
FreeValueRTAnyPhase(h, d, ph) ==
  IF h.rc[d] - 1 > 0 THEN [h EXCEPT !.rc[d] = @ - 1]
  ELSE [ListDel(h, d) EXCEPT !.rc[d] = @ - 1, !.zero = <<d>> \o @]

\* JS_FreeValueRT on an object or bytecode value d, with __JS_FreeValueRT
\* when the count drops to zero: outside REMOVE_CYCLES the cell moves to the
\* head of gc_zero_ref_count_list (the caller starts the drain in phase NONE).
FreeValueRT(h, d, ph) ==
  IF h.rc[d] - 1 > 0 \/ ph = "REMOVE_CYCLES" THEN [h EXCEPT !.rc[d] = @ - 1]
  ELSE [ListDel(h, d) EXCEPT !.rc[d] = @ - 1, !.zero = <<d>> \o @]

\* free_var_ref: a detached var-ref whose count drops to zero releases its
\* value, leaves whatever list it is on and is freed at once.
FreeVarRef(h, v, ph) ==
  IF h.rc[v] <= 0 THEN Fail(h)
  ELSE IF h.rc[v] - 1 # 0 THEN [h EXCEPT !.rc[v] = @ - 1]
  ELSE LET val == VarValue(h, v)
           h1 == [h EXCEPT !.rc[v] = 0, !.status[v] = "freed"]
           h2 == IF val = NONE THEN h1
                 ELSE FreeValueRT([h1 EXCEPT !.refs[v][val] = 0], val, ph)
       IN  ListDel(h2, v)

\* Release one slot holding d, as free_property and the class finalizers do.
ReleaseSlot(h, d, ph) ==
  IF d \in VarRefs THEN FreeVarRef(h, d, ph) ELSE FreeValueRT(h, d, ph)

\* The slots of a cell released one after the other.
RECURSIVE ReleaseSlots(_, _, _)
ReleaseSlots(h, s, ph) ==
  IF s = <<>> THEN h ELSE ReleaseSlots(ReleaseSlot(h, Head(s), ph), Tail(s), ph)

\* Mutant: the cell is freed even when peers still point at it.
RemoveOrDeferNever(h, p, ph) == [ListDel(h, p) EXCEPT !.status[p] = "freed"]

\* The common end of free_object and free_function_bytecode:
\* remove_gc_object, then the cell is deferred to gc_zero_ref_count_list if
\* a cycle pass still has peers pointing at it, and js_free_rt'd otherwise.
RemoveOrDefer(h, p, ph) ==
  LET h1 == ListDel(h, p)
  IN  IF ph = "REMOVE_CYCLES" /\ h1.rc[p] # 0
      THEN [h1 EXCEPT !.zero = Append(@, p)]
      ELSE [h1 EXCEPT !.status[p] = "freed"]

\* free_object: set free_mark (the object is a zombie), release every
\* property and the class finalizer's slots, then RemoveOrDefer.
FreeObject(h, p, ph) ==
  LET h1 == [h EXCEPT !.fm[p] = TRUE, !.fin[p] = @ + 1,
                      !.refs[p] = [d \in Cells |-> 0]]
  IN  RemoveOrDefer(ReleaseSlots(h1, Slots(h, p), ph), p, ph)

\* free_function_bytecode: release the constant pool, then RemoveOrDefer.
FreeFunctionBytecode(h, p, ph) ==
  LET h1 == [h EXCEPT !.fin[p] = @ + 1, !.refs[p] = [d \in Cells |-> 0]]
  IN  RemoveOrDefer(ReleaseSlots(h1, Slots(h, p), ph), p, ph)

\* free_gc_object: dispatch on gc_obj_type; any other type abort()s.
FreeGCObject(h, p, ph) ==
  CASE p \in Objects   -> FreeObject(h, p, ph)
    [] p \in Bytecodes -> FreeFunctionBytecode(h, p, ph)
    [] OTHER           -> Fail(h)

-----------------------------------------------------------------------------
(* Reachability from the mutator's references.                             *)

Live == {c \in Cells : heap.status[c] = "alloc"}

Reachable ==
  LET R[n \in 0..Cardinality(Cells)] ==
        IF n = 0 THEN {c \in Live : ext[c] > 0}
        ELSE R[n - 1] \cup {d \in Cells : \E c \in R[n - 1] : heap.refs[c][d] > 0}
  IN  R[Cardinality(Cells)]

\* Which cell kinds a slot of c may hold (mark_children, JS_MarkValue).
CanHold(c, d) ==
  \/ c \in Objects /\ d \in Cells
  \/ c \in Bytecodes \cup VarRefs /\ d \in ValueCells

-----------------------------------------------------------------------------
(* The mutator: the rest of the runtime, acting only between collector     *)
(* calls, on cells it can reach (see Next).                                *)

Init ==
  /\ heap = [status |-> [c \in Cells |-> "unused"],
             rc |-> [c \in Cells |-> 0],
             refs |-> [c \in Cells |-> [d \in Cells |-> 0]],
             mark |-> [c \in Cells |-> 0],
             fm |-> [c \in Cells |-> FALSE],
             fin |-> [c \in Cells |-> 0],
             gcl |-> <<>>, tmp |-> <<>>, zero |-> <<>>, err |-> FALSE]
  /\ ext = [c \in Cells |-> 0]
  /\ phase = "NONE" /\ pc = "idle" /\ cursor = NONE

\* add_gc_object for a fresh cell c whose count is 1.
AddGCObject(h, c) ==
  [h EXCEPT !.status[c] = "alloc", !.rc[c] = 1, !.mark[c] = 0,
            !.gcl = Append(@, c)]

\* A constructor registers a new object or bytecode: add_gc_object.
NewCell(c) ==
  /\ pc = "idle" /\ c \in ValueCells /\ heap.status[c] = "unused"
  /\ heap' = AddGCObject(heap, c)
  /\ ext' = [ext EXCEPT ![c] = 1]
  /\ UNCHANGED <<phase, pc, cursor>>

\* A closure's captured variable is detached when its frame returns and
\* put on gc_obj_list with add_gc_object; closure o holds the only slot.
CloseVar(o, v) ==
  /\ pc = "idle" /\ o \in Objects
  /\ v \in VarRefs /\ heap.status[v] = "unused" /\ o \in Reachable
  /\ heap' = [AddGCObject(heap, v) EXCEPT !.refs[o][v] = 1]
  /\ UNCHANGED <<ext, phase, pc, cursor>>

\* Storing a value in a slot of c: JS_DupValue then the store.
Link(c, d) ==
  /\ pc = "idle" /\ d \in ValueCells /\ CanHold(c, d) /\ heap.refs[c][d] < MaxRef
  /\ c \in VarRefs => VarValue(heap, c) = NONE
  /\ {c, d} \subseteq Reachable
  /\ heap' = [heap EXCEPT !.refs[c][d] = @ + 1, !.rc[d] = @ + 1]
  /\ UNCHANGED <<ext, phase, pc, cursor>>

\* After a release: when __JS_FreeValueRT has queued the cell on
\* gc_zero_ref_count_list in phase NONE, it calls free_zero_refcount, which
\* sets DECREF and drains the list.
AfterRelease(h) ==
  LET drain == phase = "NONE" /\ h.zero # <<>>
  IN  /\ SetHeap(h, IF drain THEN "drain" ELSE "idle")
      /\ phase' = IF drain THEN "DECREF" ELSE phase

\* Overwriting or deleting a slot: JS_FreeValueRT on the old value.
Unlink(c, d) ==
  /\ pc = "idle" /\ c \in Objects \cup VarRefs
  /\ d \in ValueCells /\ heap.refs[c][d] > 0 /\ c \in Reachable
  /\ AfterRelease(FreeValueRT([heap EXCEPT !.refs[c][d] = @ - 1], d, phase))
  /\ UNCHANGED <<ext, cursor>>

\* The mutator reads a reachable value into a local: JS_DupValue.
Acquire(d) ==
  /\ pc = "idle" /\ d \in ValueCells /\ ext[d] < MaxExt /\ d \in Reachable
  /\ ext' = [ext EXCEPT ![d] = @ + 1]
  /\ heap' = [heap EXCEPT !.rc[d] = @ + 1]
  /\ UNCHANGED <<phase, pc, cursor>>

\* Mutant: a value the mutator does not own is freed.
DropUnowned(d) ==
  /\ pc = "idle" /\ heap.status[d] = "alloc"
  /\ ext' = [ext EXCEPT ![d] = @ - 1]
  /\ AfterRelease(FreeValueRT(heap, d, "NONE"))
  /\ UNCHANGED cursor

\* The mutator drops a local: JS_FreeValueRT.
Drop(d) ==
  /\ pc = "idle" /\ ext[d] > 0
  /\ ext' = [ext EXCEPT ![d] = @ - 1]
  /\ AfterRelease(FreeValueRT(heap, d, phase))
  /\ UNCHANGED cursor

\* JS_RunGC (called directly or by js_trigger_gc): gc_decref starts.
RunGC ==
  /\ pc = "idle"
  /\ pc' = "decref" /\ cursor' = First(heap.gcl)
  /\ heap' = [heap EXCEPT !.tmp = <<>>]
  /\ UNCHANGED <<ext, phase>>

-----------------------------------------------------------------------------
(* free_zero_refcount: the drain loop of phase DECREF.                     *)

FreeZeroRefcount ==
  /\ pc = "drain" /\ heap.zero # <<>>
  /\ LET p == Head(heap.zero)
         h0 == IF heap.rc[p] # 0 THEN Fail(heap) ELSE heap
     IN  SetHeap(FreeGCObject(h0, p, "DECREF"), "drain")
  /\ UNCHANGED <<ext, phase, cursor>>

\* Mutant: the drain returns without setting gc_phase back to NONE.
FreeZeroRefcountDoneKeepPhase ==
  /\ pc = "drain" /\ heap.zero = <<>>
  /\ pc' = "idle"
  /\ UNCHANGED <<heap, ext, phase, cursor>>

FreeZeroRefcountDone ==
  /\ pc = "drain" /\ heap.zero = <<>>
  /\ phase' = "NONE" /\ pc' = "idle"
  /\ UNCHANGED <<heap, ext, cursor>>

-----------------------------------------------------------------------------
(* JS_RunGC = gc_decref; gc_scan; gc_free_cycles.                          *)

\* gc_decref_child
GcDecrefChild(h, d) ==
  IF h.rc[d] <= 0 THEN Fail(h)
  ELSE IF h.rc[d] = 1 /\ h.mark[d] = 1
       THEN [ListDel(h, d) EXCEPT !.rc[d] = 0, !.tmp = Append(@, d)]
       ELSE [h EXCEPT !.rc[d] = @ - 1]

\* Mutant: each child is decremented once, however many slots hold it.
GcDecrefOnce ==
  /\ pc = "decref" /\ cursor # NONE
  /\ LET p == cursor
         nxt == Successor(heap.gcl, p)
         h0 == IF heap.mark[p] # 0 THEN Fail(heap) ELSE heap
         h1 == FoldLeft(GcDecrefChild, h0,
                        SelectSeq(CellOrder, LAMBDA d : heap.refs[p][d] > 0))
         h2 == IF h1.rc[p] = 0
               THEN [ListDel(h1, p) EXCEPT !.mark[p] = 1, !.tmp = Append(@, p)]
               ELSE [h1 EXCEPT !.mark[p] = 1]
         h3 == IF nxt # NONE /\ ~Contains(h2.gcl, nxt) THEN Fail(h2) ELSE h2
     IN  SetHeap(h3, "decref") /\ cursor' = nxt
  /\ UNCHANGED <<ext, phase>>

\* Mutant: list_for_each instead of list_for_each_safe; the next element is
\* read after the body, from the list p has moved to.
GcDecrefUnsafe ==
  /\ pc = "decref" /\ cursor # NONE
  /\ LET p == cursor
         h0 == IF heap.mark[p] # 0 THEN Fail(heap) ELSE heap
         h1 == FoldLeft(GcDecrefChild, h0, Slots(heap, p))
         h2 == IF h1.rc[p] = 0
               THEN [ListDel(h1, p) EXCEPT !.mark[p] = 1, !.tmp = Append(@, p)]
               ELSE [h1 EXCEPT !.mark[p] = 1]
     IN  SetHeap(h2, "decref")
         /\ cursor' = Successor(IF Contains(h2.gcl, p) THEN h2.gcl ELSE h2.tmp, p)
  /\ UNCHANGED <<ext, phase>>

\* One iteration of gc_decref's list_for_each_safe: the next element is
\* read before the body runs.
GcDecref ==
  /\ pc = "decref" /\ cursor # NONE
  /\ LET p == cursor
         nxt == Successor(heap.gcl, p)
         h0 == IF heap.mark[p] # 0 THEN Fail(heap) ELSE heap
         h1 == FoldLeft(GcDecrefChild, h0, Slots(heap, p))
         h2 == IF h1.rc[p] = 0
               THEN [ListDel(h1, p) EXCEPT !.mark[p] = 1, !.tmp = Append(@, p)]
               ELSE [h1 EXCEPT !.mark[p] = 1]
         h3 == IF nxt # NONE /\ ~Contains(h2.gcl, nxt) THEN Fail(h2) ELSE h2
     IN  SetHeap(h3, "decref") /\ cursor' = nxt
  /\ UNCHANGED <<ext, phase>>

GcDecrefDone ==
  /\ pc = "decref" /\ cursor = NONE
  /\ pc' = "scan" /\ cursor' = First(heap.gcl)
  /\ UNCHANGED <<heap, ext, phase>>

\* Mutant: a child whose count comes back from 0 stays on tmp_obj_list.
GcScanIncrefChildNoRescue(h, d) == [h EXCEPT !.rc[d] = @ + 1]

\* gc_scan_incref_child
GcScanIncrefChild(h, d) ==
  IF h.rc[d] = 0
  THEN [ListDel(h, d) EXCEPT !.rc[d] = 1, !.gcl = Append(@, d), !.mark[d] = 0]
  ELSE [h EXCEPT !.rc[d] = @ + 1]

\* Mutant: gc_scan does not reset the mark.
GcScanKeepMark ==
  /\ pc = "scan" /\ cursor # NONE
  /\ LET p == cursor
         h0 == IF heap.rc[p] <= 0 THEN Fail(heap) ELSE heap
         h1 == FoldLeft(GcScanIncrefChild, h0, Slots(heap, p))
     IN  SetHeap(h1, "scan") /\ cursor' = Successor(h1.gcl, p)
  /\ UNCHANGED <<ext, phase>>

\* One iteration of gc_scan's first loop (list_for_each: the next element
\* is read after the body, so cells it appends are visited too).
GcScan ==
  /\ pc = "scan" /\ cursor # NONE
  /\ LET p == cursor
         h0 == IF heap.rc[p] <= 0 THEN Fail(heap) ELSE heap
         h1 == FoldLeft(GcScanIncrefChild, [h0 EXCEPT !.mark[p] = 0], Slots(heap, p))
     IN  SetHeap(h1, "scan") /\ cursor' = Successor(h1.gcl, p)
  /\ UNCHANGED <<ext, phase>>

\* gc_scan's second loop: gc_scan_incref_child2 on the children of every
\* cell left on tmp_obj_list.
GcScanRestore ==
  /\ pc = "scan" /\ cursor = NONE
  /\ heap' = [heap EXCEPT !.rc = FoldLeft(LAMBDA acc, p :
                             [d \in Cells |-> acc[d] + heap.refs[p][d]], @, heap.tmp)]
  /\ pc' = "free"
  /\ UNCHANGED <<ext, phase, cursor>>

\* One iteration of gc_free_cycles' loop over the head of tmp_obj_list.
GcFreeCycles ==
  /\ pc = "free" /\ heap.tmp # <<>>
  /\ LET p == Head(heap.tmp)
     IN  SetHeap(IF p \in ValueCells
                 THEN FreeGCObject(heap, p, "REMOVE_CYCLES")
                 ELSE [ListDel(heap, p) EXCEPT !.zero = Append(@, p)], "free")
  /\ phase' = "REMOVE_CYCLES"
  /\ UNCHANGED <<ext, cursor>>

\* The end of gc_free_cycles: phase NONE, then every deferred cell of
\* gc_zero_ref_count_list (asserted to be an object or bytecode) is freed.
GcFreeCyclesDone ==
  /\ pc = "free" /\ heap.tmp = <<>>
  /\ phase' = "NONE"
  /\ pc' = IF ToSet(heap.zero) \subseteq ValueCells THEN "idle" ELSE "abort"
  /\ heap' = [heap EXCEPT
                !.status = [c \in Cells |-> IF Contains(heap.zero, c) THEN "freed" ELSE @[c]],
                !.zero = <<>>]
  /\ UNCHANGED <<ext, cursor>>

-----------------------------------------------------------------------------
Collector ==
  \/ FreeZeroRefcount \/ FreeZeroRefcountDone
  \/ GcDecref \/ GcDecrefDone
  \/ GcScan \/ GcScanRestore
  \/ GcFreeCycles \/ GcFreeCyclesDone

Next ==
  \/ \E c \in Cells : NewCell(c)
  \/ \E o \in Objects, v \in VarRefs : CloseVar(o, v)
  \/ \E c \in Cells, d \in ValueCells : Link(c, d)
  \/ \E c \in Cells, d \in ValueCells : Unlink(c, d)
  \/ \E d \in ValueCells : Acquire(d)
  \/ \E d \in Cells : Drop(d)
  \/ RunGC
  \/ Collector

\* No suspension point inside release, the drain loop or JS_RunGC: once
\* started, the collector's steps run until it returns.
Fairness == WF_vars(Collector)

Spec == Init /\ [][Next]_vars /\ Fairness

-----------------------------------------------------------------------------
(* Properties.                                                             *)

TypeOK ==
  /\ heap.status \in [Cells -> {"unused", "alloc", "freed"}]
  /\ heap.rc \in [Cells -> Int]
  /\ heap.refs \in [Cells -> [Cells -> 0..MaxRef]]
  /\ heap.mark \in [Cells -> {0, 1}]
  /\ heap.fm \in [Cells -> BOOLEAN]
  /\ heap.fin \in [Cells -> Nat]
  /\ \A l \in {heap.gcl, heap.tmp, heap.zero} : l \in Seq(Cells)
  /\ heap.err \in BOOLEAN
  /\ ext \in [Cells -> 0..MaxExt]
  /\ phase \in Phases
  /\ pc \in {"idle", "drain", "decref", "scan", "free", "abort"}
  /\ cursor \in Cells \cup {NONE}

\* None of the assert()s of free_var_ref, gc_decref, gc_decref_child,
\* gc_scan, free_zero_refcount, free_gc_object and gc_free_cycles fails,
\* and gc_decref's saved next element is still on gc_obj_list.
NoAbort == pc # "abort"

\* Invariant I1: every allocated, not yet freed cell is linked exactly once
\* on exactly one of gc_obj_list, tmp_obj_list, gc_zero_ref_count_list, and
\* a freed cell on none (list_del / list_add in the release paths and the
\* collector move cells, never copy or drop them).
ListsPartition ==
  LET all == heap.gcl \o heap.tmp \o heap.zero
  IN  /\ IsInjective(all)
      /\ ToSet(all) = Live

\* Memory safety: a cell whose memory js_free_rt has released is referenced
\* neither by the mutator nor by a slot of a cell that is still allocated;
\* in particular gc_free_cycles never frees a deferred zombie that a peer
\* still points to.
NoDanglingReference ==
  \A c \in Cells : heap.status[c] = "freed" =>
     /\ ext[c] = 0
     /\ \A d \in Live : heap.refs[d][c] = 0

\* I2/P2/P7 at rest: between operations every allocated cell's ref_count
\* equals the mutator's references plus the slots pointing at it (the
\* decref pass's trial decrements are all undone), it is positive (nothing
\* the release cascade should have freed is left), its mark is 0, and the
\* temporary lists are empty.
HeapConsistentAtRest ==
  pc = "idle" =>
    /\ phase = "NONE" /\ heap.tmp = <<>> /\ heap.zero = <<>>
    /\ \A c \in Live :
         /\ heap.rc[c] = ext[c] + FoldSet(LAMBDA d, n : n + heap.refs[d][c], 0, Live)
         /\ heap.rc[c] > 0
         /\ heap.mark[c] = 0

\* P6: the free path of an object or bytecode runs at most once, and every
\* such cell whose memory is released went through it exactly once.
FinalizeOnce ==
  \A c \in Cells :
     /\ heap.fin[c] <= 1
     /\ c \in ValueCells /\ heap.status[c] = "freed" => heap.fin[c] = 1

\* P4: when JS_RunGC returns, every cell still allocated is reachable: the
\* cycle pass has reclaimed all garbage, cycles included.
CollectComplete ==
  [][pc = "free" /\ pc' = "idle" => \A c \in Live' : c \in Reachable']_vars

\* JS_IsLiveObject: v is an object and its free_mark is not set.
IsLiveObject(h, v) == v \in Objects /\ ~h.fm[v]

\* The refinement mapping to AbstractHeap: a cell is alive while allocated
\* and not yet finalized; a zombie awaiting its deferred js_free_rt is dead.
\* For an object, alive is what JS_IsLiveObject answers, so the refinement
\* also shows that a finalizer asking it about a peer is told the truth.
AbsAlive ==
  {c \in Objects : heap.status[c] = "alloc" /\ IsLiveObject(heap, c)}
    \cup {c \in Cells \ Objects : heap.status[c] = "alloc" /\ heap.fin[c] = 0}
AbsDead == {c \in Cells : heap.status[c] = "freed" \/ heap.fin[c] > 0}

AH == INSTANCE AbstractHeap
        WITH alive <- AbsAlive, dead <- AbsDead, edges <- heap.refs, roots <- ext

\* P5 and memory safety together: every step of the mutator, the release
\* cascade (free_zero_refcount) and JS_RunGC is a step of AbstractHeap, so
\* free_object / free_function_bytecode / free_var_ref only ever finalize
\* cells that no chain of strong references from a mutator root reaches,
\* and a finalized cell is never finalized, referenced or allocated again.
RefinesAbstractHeap == AH!AbsSpec

\* Once the release cascade or JS_RunGC has started, it returns.
CollectorTerminates == pc \notin {"idle", "abort"} ~> pc = "idle"

\* Spec I5: a cell on gc_zero_ref_count_list has ref_count 0 and none of
\* its outgoing references has been released yet.  gc_free_cycles also
\* parks there the zombies of the cycle pass (finalized, ref_count still
\* held by the cycle's other members) until the pass ends.
ZeroListPendingDeletion ==
  \A c \in ToSet(heap.zero) : heap.rc[c] = 0 /\ heap.fin[c] = 0

=============================================================================
