------------------------------- MODULE WeakRef -------------------------------
(***************************************************************************)
(* Weak references and the object free path of src/src/vm/gc.c:            *)
(* reset_weak_ref, free_object, free_gc_object, free_zero_refcount,         *)
(* __JS_FreeValueRT and gc_free_cycles, with the WeakMap/WeakSet side they   *)
(* work against.                                                            *)
(*                                                                         *)
(* A record r of a weak map holds its value strongly and its key weakly:    *)
(* it sits on the map's insertion-order list (s->records), in the map's     *)
(* hash chains, and on the key object's first_weak_ref/next_weak_ref chain. *)
(* A plain object holds at most one other cell in a property slot, enough   *)
(* for cycles.  Reading a record or a cell whose memory js_free_rt has      *)
(* released, or an assert() that fails, sets err.                           *)
(***************************************************************************)
EXTENDS Integers, Sequences, SequencesExt, FiniteSets

CONSTANTS
  Objs,   \* JSObjects of ordinary classes: the weak keys
  Maps,   \* WeakMap/WeakSet objects (JSMapState with is_weak set)
  Recs,   \* JSMapRecord structs
  NONE

Cells == Objs \cup Maps

ASSUME NONE \notin Cells \cup Recs /\ Objs \cap Maps = {}

VARIABLES
  heap,   \* the cells, the records and gc_zero_ref_count_list
  ext     \* ext[c]: references the mutator holds (stack, C locals)

\* The fields of heap:
\*   st[c]      "alloc", "zombie" (free_mark set, memory kept) or "freed"
\*   rc[c]      header.ref_count
\*   slot[o]    the cell a property of object o holds, or NONE
\*   rec[r]     [map, key, val] of record r (val NONE for a WeakSet entry)
\*   rst[r]     "alive" or "freed" (js_free_rt done), "unused" if never made
\*   first[o]   o->first_weak_ref;  next[r]  r->next_weak_ref
\*   mrecs[m]   the map's s->records list;  hashed  the records on hash chains
\*   zero       rt->gc_zero_ref_count_list
\*   err        a freed record or cell was read, or an assert() failed

vars == <<heap, ext>>

Fail(h) == [h EXCEPT !.err = TRUE]

\* Dereference record r: its memory must not have been released.
Touch(h, r) == IF h.rst[r] = "alive" THEN h ELSE Fail(h)

\* The records of key k's weak chain, walked from p->first_weak_ref.
Chain(h, k) ==
  LET RECURSIVE Walk(_, _)
      Walk(r, n) == IF r = NONE \/ n = 0 THEN <<>>
                    ELSE <<r>> \o Walk(h.next[r], n - 1)
  IN  Walk(h.first[k], Cardinality(Recs))

-----------------------------------------------------------------------------
(* Releasing one reference.                                                 *)

\* JS_FreeValueRT on value d and __JS_FreeValueRT when the count reaches 0:
\* outside REMOVE_CYCLES the cell moves to the head of the zero list; the
\* caller in phase NONE then drains it.
FreeValueRT(h, d, ph) ==
  IF d = NONE THEN h
  ELSE IF h.st[d] = "freed" THEN Fail(h)
  ELSE IF h.rc[d] - 1 > 0 \/ ph = "REMOVE_CYCLES" THEN [h EXCEPT !.rc[d] = @ - 1]
  ELSE [h EXCEPT !.rc[d] = 0, !.zero = <<d>> \o Remove(@, d)]

\* Mutant: the value of a weak record is not released.
FreeRecordKeepValue(h, mr, ph) == [h EXCEPT !.rst[mr] = "freed"]

\* JS_FreeValueRT(rt, mr->value); js_free_rt(rt, mr).
FreeRecord(h, mr, ph) ==
  [FreeValueRT(h, h.rec[mr].val, ph) EXCEPT !.rst[mr] = "freed"]

-----------------------------------------------------------------------------
(* reset_weak_ref                                                           *)

\* First pass: list_del(&mr->hash_link) and list_del(&mr->link) for every
\* record of the chain, reading mr->next_weak_ref to advance.
RECURSIVE UnlinkPass(_, _)
UnlinkPass(h, mr) ==
  IF mr = NONE \/ h.err THEN h
  ELSE LET h1 == Touch(h, mr)
           m  == h1.rec[mr].map
       IN  UnlinkPass([h1 EXCEPT !.mrecs[m] = Remove(@, mr),
                                 !.hashed = @ \ {mr}], h1.next[mr])

\* Mutant: one loop that frees a record and then reads its next_weak_ref.
RECURSIVE FreePassNextAfterFree(_, _, _)
FreePassNextAfterFree(h, mr, ph) ==
  IF mr = NONE \/ h.err THEN h
  ELSE LET h1 == FreeRecord(Touch(h, mr), mr, ph)
       IN  FreePassNextAfterFree(Touch(h1, mr), h1.next[mr], ph)

\* Second pass: mr_next is read before the record is released.
RECURSIVE FreePass(_, _, _)
FreePass(h, mr, ph) ==
  IF mr = NONE \/ h.err THEN h
  ELSE LET h1 == Touch(h, mr)
       IN  FreePass(FreeRecord(h1, mr, ph), h1.next[mr], ph)

\* Mutant: the records are freed without first leaving their maps.
ResetWeakRefOnePass(h, p, ph) ==
  [FreePass(h, h.first[p], ph) EXCEPT !.first[p] = NONE]

ResetWeakRef(h, p, ph) ==
  [FreePass(UnlinkPass(h, h.first[p]), h.first[p], ph) EXCEPT !.first[p] = NONE]

-----------------------------------------------------------------------------
(* The weak map's own code (outside src/, modelled from the spec):          *)
(* delete_weak_ref and js_map_finalizer.                                    *)

\* delete_weak_ref: walk the key's chain to mr (assert it is found) and
\* unlink it by rewriting the pointer that led to it.
DeleteWeakRef(h, mr) ==
  LET k  == h.rec[mr].key
      ch == Chain(h, k)
  IN  IF h.st[k] = "freed" \/ \E i \in DOMAIN ch : h.rst[ch[i]] # "alive"
         \/ mr \notin ToSet(ch)
      THEN Fail(h)
      ELSE IF ch[1] = mr THEN [h EXCEPT !.first[k] = h.next[mr]]
      ELSE LET pred == ch[(CHOOSE i \in 2..Len(ch) : ch[i] = mr) - 1] IN
           [h EXCEPT !.next[pred] = h.next[mr]]

\* js_map_finalizer: every record of s->records leaves its key's chain,
\* releases its value and is freed; then the map state itself goes.
RECURSIVE MapFreeRecords(_, _, _)
MapFreeRecords(h, s, ph) ==
  IF s = <<>> \/ h.err THEN h
  ELSE MapFreeRecords(FreeRecord(DeleteWeakRef(Touch(h, Head(s)), Head(s)),
                                 Head(s), ph), Tail(s), ph)

MapFinalizer(h, m, ph) ==
  LET h1 == MapFreeRecords(h, h.mrecs[m], ph)
  IN  [h1 EXCEPT !.hashed = @ \ ToSet(h.mrecs[m]), !.mrecs[m] = <<>>]

-----------------------------------------------------------------------------
(* free_object and the two loops that call it.                              *)

\* The end of free_object: remove_gc_object, then a zombie that cycle peers
\* still point at is deferred to the zero list, anything else is freed.
RemoveOrDefer(h, p, ph) ==
  LET h1 == [h EXCEPT !.zero = Remove(@, p)]
  IN  IF ph = "REMOVE_CYCLES" /\ h1.rc[p] # 0
      THEN [h1 EXCEPT !.zero = Append(@, p)]
      ELSE [h1 EXCEPT !.st[p] = "freed"]

\* free_object: set free_mark, release the property slots, run
\* reset_weak_ref when first_weak_ref is set, run the class finalizer.
FreeObject(h, p, ph) ==
  LET h1 == [h EXCEPT !.st[p] = "zombie"]
      h2 == IF p \in Objs
            THEN FreeValueRT([h1 EXCEPT !.slot[p] = NONE], h1.slot[p], ph)
            ELSE h1
      h3 == IF p \in Objs /\ h2.first[p] # NONE THEN ResetWeakRef(h2, p, ph)
            ELSE h2
      h4 == IF p \in Maps THEN MapFinalizer(h3, p, ph) ELSE h3
  IN  IF h4.err THEN h4 ELSE RemoveOrDefer(h4, p, ph)

\* free_zero_refcount (phase DECREF: the head of the zero list, which must
\* have count 0) and the first loop of gc_free_cycles (phase REMOVE_CYCLES:
\* the head of tmp_obj_list), both through free_gc_object.
RECURSIVE FreeLoop(_, _, _)
FreeLoop(h, tmp, ph) ==
  LET todo == IF ph = "DECREF" THEN h.zero ELSE tmp
  IN  IF todo = <<>> \/ h.err THEN h
      ELSE IF ph = "DECREF" /\ h.rc[Head(todo)] # 0 THEN Fail(h)
      ELSE FreeLoop(FreeObject(h, Head(todo), ph),
                    IF ph = "DECREF" THEN tmp ELSE Tail(tmp), ph)

\* The cells mark_children enumerates for c: an object's property slot and
\* the value of every record on a map's list (js_map_mark; keys are weak).
Children(h, c) ==
  IF c \in Objs THEN {h.slot[c]} \ {NONE}
  ELSE {h.rec[r].val : r \in ToSet(h.mrecs[c])} \ {NONE}

\* The cells reachable from the mutator's references.
Reachable(h, e) ==
  LET RECURSIVE Grow(_)
      Grow(S) == LET S2 == S \cup UNION {Children(h, c) : c \in S}
                 IN  IF S2 = S THEN S ELSE Grow(S2)
  IN  Grow({c \in Cells : e[c] > 0})

\* What gc_decref and gc_scan leave on tmp_obj_list: the allocated cells no
\* mutator reference reaches (RefCountGC checks the trial deletion itself).
Garbage(h, e) == {c \in Cells : h.st[c] = "alloc"} \ Reachable(h, e)

\* Mutant: the zombies are freed but the zero list is not reset.
FreeDeferredNoReset(h) ==
  [h EXCEPT !.st = [c \in Cells |-> IF c \in ToSet(h.zero) THEN "freed" ELSE @[c]]]

\* The end of gc_free_cycles: phase NONE, the deferred zombies of the zero
\* list are js_free_rt'd and the list is emptied.
FreeDeferred(h) ==
  [h EXCEPT !.st = [c \in Cells |-> IF c \in ToSet(h.zero) THEN "freed" ELSE @[c]],
            !.zero = <<>>]

-----------------------------------------------------------------------------
(* The initial heap: any set of records with distinct keys per map, added   *)
(* in some order (map_add_record appends to s->records and pushes on the    *)
(* key's chain), any property slots and mutator references, every cell      *)
(* allocated with a nonzero count.  A slot or a record value may hold a     *)
(* map, so a map can be garbage in a cycle and die in a cycle pass.         *)

RecTuples == [map : Maps, key : Objs, val : Cells \cup {NONE}]

\* The records of set S in the order of sequence ord.
InOrder(S, ord) ==
  LET pos(r) == CHOOSE i \in DOMAIN ord : ord[i] = r
  IN  [i \in 1..Cardinality(S) |->
         CHOOSE r \in S : Cardinality({t \in S : pos(t) < pos(r)}) = i - 1]

HeapOf(rec, ord, slot, e) ==
  LET used   == {r \in Recs : rec[r] # NONE}
      keyed(k) == Reverse(InOrder({r \in used : rec[r].key = k}, ord))
      nextIn(r) == LET c == keyed(rec[r].key)
                       i == CHOOSE i \in DOMAIN c : c[i] = r
                   IN  IF i < Len(c) THEN c[i + 1] ELSE NONE
      refs(c) == e[c] + Cardinality({o \in Objs : slot[o] = c})
                      + Cardinality({r \in used : rec[r].val = c})
  IN [st     |-> [c \in Cells |-> "alloc"],
      rc     |-> [c \in Cells |-> refs(c)],
      slot   |-> slot,
      rec    |-> rec,
      rst    |-> [r \in Recs |-> IF r \in used THEN "alive" ELSE "unused"],
      first  |-> [k \in Objs |-> IF keyed(k) = <<>> THEN NONE ELSE Head(keyed(k))],
      next   |-> [r \in Recs |-> IF r \in used THEN nextIn(r) ELSE NONE],
      mrecs  |-> [m \in Maps |-> InOrder({r \in used : rec[r].map = m}, ord)],
      hashed |-> used,
      zero   |-> <<>>,
      err    |-> FALSE]

Init ==
  \E rec \in [Recs -> RecTuples \cup {NONE}], ord \in SetToSeqs(Recs),
     slot \in [Objs -> Cells \cup {NONE}], e \in [Cells -> 0..1] :
    /\ \A r1, r2 \in Recs : r1 # r2 /\ rec[r1] # NONE /\ rec[r2] # NONE =>
         rec[r1].map # rec[r2].map \/ rec[r1].key # rec[r2].key
    /\ heap = HeapOf(rec, ord, slot, e)
    /\ \A c \in Cells : heap.rc[c] > 0
    /\ ext = e

-----------------------------------------------------------------------------
(* The operations.                                                          *)

\* The mutator drops a reference it holds: JS_FreeValueRT in phase NONE,
\* and __JS_FreeValueRT's free_zero_refcount when the count reaches zero.
DropRef(c) ==
  /\ ext[c] > 0
  /\ ext' = [ext EXCEPT ![c] = @ - 1]
  /\ heap' = FreeLoop(FreeValueRT(heap, c, "NONE"), <<>>, "DECREF")

\* JS_RunGC: gc_decref and gc_scan leave the garbage on tmp_obj_list, in the
\* order of gc_obj_list (any order here); gc_free_cycles frees it.
RunGC ==
  \E tmp \in SetToSeqs(Garbage(heap, ext)) :
    /\ heap' = FreeDeferred(FreeLoop(heap, tmp, "REMOVE_CYCLES"))
    /\ UNCHANGED ext

Next == (\E c \in Cells : DropRef(c)) \/ RunGC

Spec == Init /\ [][Next]_vars

-----------------------------------------------------------------------------
(* Properties.                                                              *)

TypeOK ==
  /\ ext \in [Cells -> 0..1]
  /\ heap.st \in [Cells -> {"alloc", "zombie", "freed"}]
  /\ heap.rc \in [Cells -> Nat]
  /\ heap.rst \in [Recs -> {"alive", "freed", "unused"}]
  /\ heap.zero = <<>>

\* No step of reset_weak_ref, delete_weak_ref, the map finalizer or the free
\* loops reads a record or a cell after js_free_rt released it, and no
\* assert() on the way fails.
NoUseAfterFree == ~heap.err

\* The three views of a weak record agree after every operation: a record
\* is alive exactly when it is on its map's list, in the map's hash chains
\* and on its key's first_weak_ref chain; its map and its key are allocated.
WeakTablesConsistent ==
  LET alive == {r \in Recs : heap.rst[r] = "alive"}
  IN  /\ heap.hashed = alive
      /\ \A m \in Maps :
           ToSet(heap.mrecs[m]) = {r \in alive : heap.rec[r].map = m}
      /\ \A k \in Objs : heap.st[k] = "alloc" =>
           ToSet(Chain(heap, k)) = {r \in alive : heap.rec[r].key = k}
      /\ \A r \in alive : heap.st[heap.rec[r].map] = "alloc"
                          /\ heap.st[heap.rec[r].key] = "alloc"

\* Every allocated cell's ref_count is the number of references to it (the
\* mutator's, property slots of allocated objects, values of alive records),
\* and every such reference names an allocated cell.
RefCountsExact ==
  LET holders(c) == Cardinality({o \in Objs : heap.st[o] # "freed" /\ heap.slot[o] = c})
                  + Cardinality({r \in Recs : heap.rst[r] = "alive" /\ heap.rec[r].val = c})
  IN  \A c \in Cells :
        IF heap.st[c] = "freed" THEN ext[c] + holders(c) = 0
        ELSE heap.rc[c] = ext[c] + holders(c)

\* Spec 4.3/section 1: a cell whose count drops to zero is reclaimed, by the
\* drain outside a cycle pass; so at rest no allocated cell has count 0 (the
\* round-trip rule: a second run_gc right after a first reclaims nothing).
NoZeroCountCell == \A c \in Cells : heap.st[c] = "alloc" => heap.rc[c] > 0

=============================================================================
