# TLA+ models of the memory manager in `src/src/vm/gc.c`

This directory models the garbage collector and heap-snapshot dumper of
slowjs, a QuickJS derivative. The whole subsystem is one C file,
`src/src/vm/gc.c`. Every definition that models code is listed in
`PROJECT.json` under `map`, with the lines it translates.

## 1. The system

The file holds the following parts.

| Part | Code | State it keeps | Operations |
|---|---|---|---|
| Allocator facade | `js_malloc_rt` … `js_realloc_array` (22-139) | none of its own: it forwards to `rt->mf` and its `malloc_state` counters | alloc, free, realloc, grow an array |
| Reference counting | `__JS_FreeValueRT`, `free_zero_refcount`, `free_gc_object`, `free_object`, `free_function_bytecode`, `free_var_ref`, `add_gc_object` (146-159, 355-366, 677-857) | per cell: `ref_count`, `mark`, `free_mark`; per runtime: `gc_obj_list`, `gc_zero_ref_count_list`, `gc_phase` | release a value; drain the zero list; finalize a cell |
| Cycle collector | `JS_RunGC` = `gc_decref`, `gc_scan`, `gc_free_cycles`, with `mark_children` (364-583) | `tmp_obj_list`, plus the counts and marks above | trial deletion |
| Class hooks | finalizers and mark functions (161-353) | none | release or enumerate a cell's slots |
| GC trigger | `js_trigger_gc`, `JS_SetGCThreshold`, `JS_SetMemoryLimit` (585-609) | `malloc_gc_threshold`, `malloc_limit` | run `JS_RunGC` when the heap grows past the threshold |
| Weak references | `reset_weak_ref` (617-644) | the weak records of an object | unlink the records, then free them |
| Memory-usage report | `JS_ComputeMemoryUsage`, `JS_DumpMemoryUsage` (864-1376) | none | read-only statistics |
| Heap-snapshot dumper | `__js_gcdump_objects` and what it calls (1380-2251) | a `JSGCDumpContext`: node table, `obj2node`, string table, `str2id`, `edges_len` | walk `gc_obj_list`, write a `.heapsnapshot` file |

**How the parts interact.** The mutator is the rest of the runtime. It
stores values in slots, loads them and drops them. Dropping the last
reference calls `__JS_FreeValueRT`. In phase NONE that queues the cell on
`gc_zero_ref_count_list` and starts `free_zero_refcount`, which sets phase
DECREF. The drain finalizes each cell on the list. Each finalizer releases
the cell's children through the same function, so those children are
queued and drained in turn.

`JS_RunGC` works differently. `js_trigger_gc` calls it before an
allocation, or a caller calls it directly.

1. `gc_decref` subtracts the heap-internal references from every count.
   It moves the cells whose count reaches 0 to `tmp_obj_list`.
2. `gc_scan` adds the counts back from every cell still on `gc_obj_list`.
   When a count comes back from 0, it moves that cell back to
   `gc_obj_list`.
3. `gc_free_cycles` sets phase REMOVE_CYCLES and finalizes what is left on
   `tmp_obj_list`. A release inside that pass only decrements. A finalized
   object that a peer still counts becomes a zombie: it is parked on the
   zero list and freed when the pass ends.

The dumper reads the same lists and cells, and never changes them.

**What is hard.**
- Finalizers call back into the release path while a loop holds a list.
- Whether a release frees, queues or only decrements depends on the phase
  it reads.
- `gc_decref` reads each cell's next pointer before the loop body, and
  `gc_scan` reads it after. The difference decides which cells are visited.
- A cell can hold the same child in several slots.
- Zombie cells are finalized but not yet freed.
- A dying object's weak records are on three lists at once. The key, the
  map and the value can die in any order, in the drain or in one cycle
  pass.
- The dumper's node keys are raw pointers, including stack addresses and
  pointers read out of values that are not pointers.

**What makes each part correct.**
- The three lists partition the allocated cells.
- No cell is freed while a slot or the mutator still references it.
- Every finalizer runs exactly once.
- At rest, the counts equal the references and the marks are 0.
- `JS_RunGC` reclaims all garbage, cycles included, and nothing reachable.
- The collector terminates.
- The snapshot is a document a heap profiler can load, and it shows every
  property reference.

## 2. Modules

| Module | Models |
|---|---|
| `AbstractHeap.tla` | What memory management promises, with no counts, lists or phases. Cells are alive or dead, linked by strong edges, with mutator roots. `Reclaim(S)` may take any set of cells that no root reaches. |
| `RefCountGC.tla` | Reference counting, the release cascade, the cycle collector and the free paths. It instances `AbstractHeap` through a refinement mapping. |
| `MC_RefCountGC.tla` | The cell sets for TLC: `ObjCells` (two objects and a var-ref) and `BcCells` (an object, a function bytecode and a var-ref). |
| `HeapSnapshot.tla` | The heap-snapshot dumper. |
| `Allocator.tla` | The allocator facade over the default `rt->mf`, with `js_realloc_array` in C `int` arithmetic, `js_trigger_gc`, `JS_SetGCThreshold` and `JS_SetMemoryLimit`. |
| `MC_Allocator.tla` | Three block addresses, the threshold and limit values, and symmetry over the addresses. |
| `WeakRef.tla` | `reset_weak_ref` inside `free_object`, reached from the zero-refcount drain and from `gc_free_cycles`. It runs against weak maps whose own code (mark, finalizer, `delete_weak_ref`) is modelled from the spec. |
| `MC_WeakRef.tla` | Two objects, two weak maps and two records, with symmetry over the objects, the maps and the records. |
| `MC_HeapSnapshot.tla` | A context, the global object and one more object, their shapes, a bytecode, a var-ref, a string and two ints. It also defines the sets the heap is chosen from. |

### RefCountGC: state

- `heap` is one record holding the per-cell fields and the three lists:
  - per cell: `status`, `rc`, `refs`, `mark`, `fm` (`free_mark`), and
    `fin` (how often the free path has run);
  - the lists `gcl`, `tmp` and `zero`;
  - `err`, set by a failed `assert()`.
- `ext[c]` counts the references the mutator holds outside the heap.
- `phase` is `rt->gc_phase`.
- `pc` and `cursor` are the collector's loop and its list iterator.

A loop of the code is one action per iteration, and `cursor` holds the
element that `el` points to. That makes `list_for_each` and
`list_for_each_safe` differ the way they do in C. A loop body whose calls
change the heap is a fold over those calls, in the code's order. For
example, `GcDecref` folds `GcDecrefChild` over `Slots`, the slot
enumeration of `mark_children`.

### RefCountGC: actions

| Action | Code |
|---|---|
| `FreeValueRT` (operator) | `JS_FreeValueRT` and `__JS_FreeValueRT` for an object or bytecode |
| `AfterRelease` | the call to `free_zero_refcount` in phase NONE |
| `FreeVarRef` | `free_var_ref` |
| `FreeObject`, `FreeFunctionBytecode`, `RemoveOrDefer` | `free_object`, `free_function_bytecode` and their common tail |
| `FreeZeroRefcount`, `FreeZeroRefcountDone` | one iteration and the exit of `free_zero_refcount` |
| `RunGC` | `JS_RunGC` and the start of `gc_decref` |
| `GcDecref`, `GcDecrefChild`, `GcDecrefDone` | `gc_decref` and `gc_decref_child` |
| `GcScan`, `GcScanIncrefChild`, `GcScanRestore` | the two loops of `gc_scan` |
| `GcFreeCycles`, `GcFreeCyclesDone` | the loop of `gc_free_cycles` and its final freeing loop |
| `NewCell`, `CloseVar`, `Link`, `Unlink`, `Acquire`, `Drop` | the mutator |

The mutator lives outside this file, so its actions are modelled from the
spec (`spec_modelled` in the map). The mutator acts only on cells it can
reach, and only while no collector loop runs (`pc = "idle"`).

A failed `assert()` or an `abort()` sends `pc` to `"abort"`. That state has
no successor.

### RefCountGC: refinement

`AH == INSTANCE AbstractHeap` maps the model onto the abstract heap:
- `alive` is the cells allocated and not yet finalized. For an object
  it is what `JS_IsLiveObject` answers (`IsLiveObject`: an object whose
  `free_mark` is not set). So the refinement also shows that a finalizer
  that asks about a peer during `gc_free_cycles` is told whether the peer
  is a zombie. With the `free_mark = 1` of `free_object` dropped, the
  refinement is violated;
- `dead` is the cells freed or finalized, zombies included;
- `edges` is `heap.refs`;
- `roots` is `ext`.

`RefinesAbstractHeap == AH!AbsSpec` is checked as a property. Each
concrete step is an `AbstractHeap` step or a stutter:
- the mutator's steps are `Allocate`, `Store`, `Clear`, `Retain` and
  `Release`;
- a step that finalizes cells is `Reclaim` of exactly those cells;
- list and count bookkeeping stutters.

### Allocator

State:
- `mem[b]`: the usable size of block `b`, or 0 when `b` is free;
- `mallocSize`, `mallocCount`, `mallocLimit`: the `malloc_state` block;
- `gcThreshold`: `rt->malloc_gc_threshold`;
- `cli`: the blocks a client holds;
- `arr`: one dynamic array, `[ptr |-> *parray, size |-> *psize]`, as the
  runtime's growable tables keep them;
- `exc`: the last call left an out-of-memory exception pending;
- `ret`: what the last context-scoped call reported.

`rt->mf` is pluggable and its default lives outside `src/`, so `MfMalloc`,
`MfFree`, `MfRealloc` and `MfUsable` are modelled from the spec (§4.1, §6).
Each returns the set of possible outcomes:
- a request past `malloc_limit` or the machine (`MaxAlloc`) gets NULL;
- a block may come with slack: its usable size exceeds the request;
- `realloc` may move the block;
- `realloc(p, 0)` frees `p` and returns NULL, as the default allocator
  does and as the `size != 0` tests of `js_realloc` and `js_realloc2`
  expect.

| Action | Code |
|---|---|
| `Malloc(n, scoped)` | `js_malloc_rt`, `js_mallocz_rt`, `js_malloc`, `js_mallocz` |
| `Free(p)` | `js_free_rt` and `js_free` |
| `Realloc(p, n, scoped)` | `js_realloc_rt` and `js_realloc` (`JsRealloc`) |
| `GrowArray(req)` | the caller's `req_size > *psize` test, then `js_realloc_array` (`ReallocArray` over `JsRealloc2`) |
| `TriggerGC(n)` | `js_trigger_gc` |
| `SetGCThreshold`, `SetMemoryLimit` | the two setters |

For the client, a reported failure keeps the old block, and anything else
gives it the returned pointer.

**C `int` arithmetic.**
- `IntMul` is `int` multiplication modulo 2^32, computed from 16-bit
  halves so that TLC's own 32-bit integers never overflow.
- `CDiv` truncates toward zero.
- `IntAdd` is `new_size += slack / elem_size`, stored back in the `int`.
- `SizeT` is an `int` passed as a `size_t`: a negative value becomes
  2^64 + x, which is past any limit.

**`JS_RunGC` in `TriggerGC`.** The run frees any subset of the client's
blocks: those are the garbage cells. The collector itself is
`RefCountGC`'s.

### WeakRef

A record of a weak map holds its value strongly and its key weakly. It is
linked three ways:
- on the map's insertion-order list `s->records`;
- on the map's hash chains;
- on the key's `first_weak_ref`/`next_weak_ref` chain.

The variables are `heap` (a record of fields) and `ext`, the mutator's
references. The `heap` fields are:
- `st`: a cell is allocated, a zombie (its `free_mark` is set) or freed;
- `rc`: the cell's count;
- `slot`: one property slot per object, enough to build cycles;
- `rec` and `rst`: each record's map, key and value, and whether the
  record is alive, freed or unused;
- `first` and `next`: the pointers of the weak chains;
- `mrecs` and `hashed`: the map's list and its hash-chain membership;
- `zero`: the zero list;
- `err`: set by any read of freed memory and by any failed `assert()`.

| Definition | Code |
|---|---|
| `UnlinkPass`, `FreePass`, `ResetWeakRef` | the two loops of `reset_weak_ref` and the fail-safe `first_weak_ref = NULL` |
| `FreeRecord` | `JS_FreeValueRT(rt, mr->value); js_free_rt(rt, mr)` |
| `FreeValueRT` | the object branch of `__JS_FreeValueRT`: decrement, and queue when the count reaches 0 outside REMOVE_CYCLES |
| `FreeObject`, `RemoveOrDefer` | `free_object`: `free_mark`, the property slots, `reset_weak_ref`, the class finalizer, then free or defer |
| `FreeLoop` | `free_zero_refcount` (phase DECREF, the head of the zero list) and the loop of `gc_free_cycles` (phase REMOVE_CYCLES, the head of `tmp_obj_list`), both through `free_gc_object` |
| `FreeDeferred` | the end of `gc_free_cycles` |
| `DropRef(c)` | the mutator's `JS_FreeValueRT` in phase NONE and the drain it starts |
| `RunGC` | `JS_RunGC` |

**Modelled from the spec.** The weak map's code lives outside `src/`, so
four definitions follow spec §3 and §4.7 and the QuickJS conventions:
- `DeleteWeakRef` walks the key's chain to the record and asserts that it
  finds it.
- `MapFinalizer` frees every record of the list: `delete_weak_ref`,
  release the value, then free the record.
- `Children` is the map's mark function: the records' values, not their
  keys.
- `Init` covers every insertion order of the records. `map_add_record`
  appends a record to the map's list and pushes it on the key's chain, so
  one order fixes both.

**How `RunGC` is abstracted.** Trial deletion is abstracted to its result:
`tmp_obj_list` holds the allocated cells no mutator reference reaches, in
any order. `RefCountGC` checks the trial deletion that computes this set
through its refinement of `AbstractHeap`.

### HeapSnapshot

The heap is an input. `Init` chooses from the sets of the MC module:
- the class of each object: plain, Array, bytecode function, C function,
  typed array (`Uint8Array`, standing for the typed-array classes up to
  `DataView`) or ArrayBuffer;
- its own properties;
- an array's elements;
- each shape's prototype;
- a bytecode's constant pool;
- a var-ref's value.

`Init` keeps only heaps that can exist:
- only arrays have elements;
- the global object is plain;
- objects that share a shape share its atoms.

`dc` is the `JSGCDumpContext`:
- `nodes`: each node has a `key` (the pointer `obj2node` maps), a type, a
  name id, whether its size is set, and its edges;
- `strs`: the interned texts (`str2id` is their index);
- `elen`: `edges_len`;
- `ub`: a GC header was read from something that is not a cell.

Node keys are pointers: a cell, a string, `NULL`, the constant `IntSlot`
for `&val`, `<<"ptr", n>>` for the bits of an int read as a pointer,
`<<sh, k>>` for `&sh->prop[k]`, or a `cfunc` pointer. Keeping the pointer
as the key keeps the aliasing of the code.

| Definition | Code |
|---|---|
| `ProcessObj` | `js_gcdump_process_obj`: the tag decision, the string and int branches, and the parent edge |
| `ProcessGCCell` | the switch on `gc_obj_type` |
| `ProcessObject` | the object case, with `TypedArrayEdge`, `CodeEdge`, `ArrayElementEdges` and `NodeNameText` |
| `ProcessShape` | the shape case |
| `ParentEdge` | the edge to the parent node |
| `DumpValue` | `JS_GCDumpValue` |
| `GcdumpChildren` | `gcdump_children`, as the sequence of the `process_obj` calls it makes |
| `ContextGcdump` | the calls of `JS_Context_gcdump`, in order |
| `Synthetic` | the `native_error_proto` and `class_proto` nodes and their internal edges |
| `DumpCell` | one iteration of the walk in `__js_gcdump_objects`: the cell's node, then a fold of `WalkStep` over the calls |

The walk of a cell is built as a sequence of calls, and one fold makes
them. A call records the cell, the value, the key of the parent's node and
the slot (`plen`, `p`, `prs`). The parent's node exists before any of its
calls are made, and nodes are never removed. So looking up the parent's
index when the call is made gives the value that the code computes
beforehand.
| `Write2File` | `js_gcdump_write2file` with the node, edge and string writers |
| `Write2FileOpenFails` | `fopen` returning NULL |

Conversions are modelled by what they do:
- an int's text is `ToString`;
- the tagged-int atom is converted to `int32` (`AtomEdgeName`);
- `JS_VALUE_GET_PTR` of a non-pointer gives the value's bits.

## 3. Runs

| Run | cfg | Checks | Result |
|---|---|---|---|
| `gc_objects` | `MC_RefCountGC.cfg` | all the safety properties below, plus `CollectComplete` and `RefinesAbstractHeap` | passes, about 41,000 states |
| `gc_bytecode` | `MC_RefCountGC_Bytecode.cfg` | the same except `TypeOK`, for cycles through a constant pool | passes, about 22,600 states |
| `gc_liveness` | `MC_RefCountGC_Liveness.cfg` | `CollectorTerminates` | passes, about 7,900 states |
| `gc_zero_list_i5` | `MC_RefCountGC_ZeroList.cfg` | `ZeroListPendingDeletion` (spec I5) | violated |
| `snapshot` | `MC_HeapSnapshot.cfg` | `TypeOK`, `SnapshotConsistent`, `PropertyEdges`, `TypedArrayBufferEdges` | passes, 20,520 states |
| `snapshot_names` | `MC_HeapSnapshot_NamesInRange.cfg` | `NamesInRange` (spec P8) | violated |
| `snapshot_int_alias` | `MC_HeapSnapshot_IntNodesNameTheirValue.cfg` | `IntNodesNameTheirValue` | violated |
| `snapshot_header_misread` | `MC_HeapSnapshot_NoHeaderMisread.cfg` | `NoHeaderMisread` | violated |
| `alloc` | `MC_Allocator.cfg` | `TypeOK`, `ArrayFitsBlock`, `BlocksOwned` | passes, 13,048 states |
| `alloc_wrap_zero_dangling` | `MC_Allocator_BlocksOwned.cfg` | `BlocksOwned` | violated |
| `weak` | `MC_WeakRef.cfg` | `TypeOK`, `NoUseAfterFree`, `WeakTablesConsistent`, `RefCountsExact` | passes, 19,571 states |
| `weak_gc_zero_count` | `MC_WeakRef_NoZeroCountCell.cfg` | `NoZeroCountCell` | violated |

### RefCountGC properties

- `NoAbort`: no `assert()` of the collector or the drain fails. These
  include `ref_count > 0` in `gc_decref_child`, `mark == 0` in
  `gc_decref`, and "only objects and bytecodes are left" at the end of
  `gc_free_cycles`.
- `ListsPartition` (spec P1/I1): every allocated cell is on exactly one
  list, and a freed cell is on none.
- `NoDanglingReference`: no freed cell is held by a slot of an allocated
  cell or by the mutator.
- `HeapConsistentAtRest` (P1, P2, I2): between operations, the lists are
  empty and the phase is NONE. Every count equals the references to the
  cell and is positive, and every mark is 0.
- `FinalizeOnce` (P6): a free path runs at most once per cell, and exactly
  once before an object or bytecode is released to the allocator.
- `CollectComplete` (P4): when `JS_RunGC` returns, every allocated cell is
  reachable.
- `RefinesAbstractHeap` (P5 and memory safety): only unreachable cells are
  ever finalized.
- `CollectorTerminates`: see section 4.

### HeapSnapshot properties

- `SnapshotConsistent` (P8, first two clauses):
  - the header's `edge_count` equals the number of edge rows written and
    the sum of the nodes' edge counts (`write_edges` also uses it to place
    its separators);
  - every `to_node` is a multiple of 5 that names a written node;
  - there is one node per pointer, with the context at node 0.
- `PropertyEdges` (S5): every property holding an object or a string has
  a `property` edge. The edge is labelled with the atom's text and leads
  to the value's node.
- `TypedArrayBufferEdges` (S5, `typed_array`): a typed array's node has an
  edge labelled `typed_array` to the node of its buffer. That node is the
  one the walk fills in when it reaches the buffer on `gc_obj_list`, so it
  is written as an object. The edge's node is made from the pointer
  `objp->u.typed_array->buffer` before the walk reaches the buffer, and
  `obj2node` must give both the same node. The edge's type is not part of
  the property (see §5).

### Allocator properties

- `ArrayFitsBlock`: the capacity `js_realloc_array` stores in `*psize`
  fits in the usable size of the block in `*parray`. This covers the 3/2
  growth, the max with `req_size`, and the slack folded in from the new
  block's usable size. It holds only while `new_size * elem_size` fits
  in an `int`, and the `alloc` bounds never overflow. The wrap that
  breaks it is in §5.
- `BlocksOwned`: every allocated block has exactly one holder, the client
  or the array, and every block they hold is allocated. This holds after
  any mix of calls:
  - mallocs;
  - reallocs that move, fail or free;
  - array growths;
  - frees triggered by a GC.

  So nothing leaks and no pointer dangles.

### WeakRef properties

- `NoUseAfterFree`: nothing on the free path reads a record or a cell
  after `js_free_rt`, and no `assert()` fails. That covers:
  - both passes of `reset_weak_ref`;
  - `delete_weak_ref`;
  - the map finalizer;
  - both free loops.

  The key, its map and the record's value die in every order, in the
  drain or in one cycle pass. A map can die as a zombie deferred to the
  end of the pass.
- `WeakTablesConsistent`: a record is alive exactly when it is on its
  map's list, in the map's hash chains and on its key's chain, and its map
  and its key are allocated.
- `RefCountsExact`: every allocated cell's count equals the references to
  it, and no reference names a freed cell. A reference is the mutator's,
  a property slot of an allocated object, or the value of an alive record.
- `NoZeroCountCell` (violated, see finding 7): at rest no allocated cell
  has count 0.

### Mutants

Every property of every passing run has a mutant in `PROJECT.json`. A
mutant is a plausible bug in the code that TLC shows the property catches.
- A cell is queued without `list_del`.
- A release queues in every phase.
- A deferred zombie is freed at once.
- `gc_scan` does not reset the mark, or does not rescue a child whose
  count comes back from 0.
- `gc_decref` counts each child once, or reads its next pointer after the
  body.
- The drain does not reset the phase.
- The mutator drops a reference it does not own.
- The dumper takes a prototype index before creating its node.
- The dumper drops the `|| dctx.prs` of the parent-edge condition.
- The dumper writes a node type the meta block does not list.
- The dumper keys the `typed_array` edge by the `JSTypedArray` record
  (`objp->u.typed_array`) instead of its buffer.
- `js_realloc` treats `realloc(p, 0)` returning NULL as a failure. The
  client keeps the freed block and later frees it again, so the counts go
  negative (`TypeOK`).
- `js_realloc_array` rounds the slack up to whole elements, or keeps the
  old `*parray`.
- `reset_weak_ref` frees each record in one loop and then reads its
  `next_weak_ref`, or frees the records without unlinking them from
  their map.
- A weak record is freed without releasing its value.
- `gc_free_cycles` does not reset the zero list (`TypeOK` requires it
  empty at rest, spec P1).

## 4. Bounds and fairness

**RefCountGC bounds.**
- Each cell set has three cells. Three cells are enough for:
  - self cycles, two-cycles and a cycle with an external root;
  - a closure and var-ref cycle;
  - a cycle through a bytecode's constant pool;
  - a cell holding the same child twice (`MaxRef = 2`).
- `MaxExt = 1` is enough: more mutator references only delay the last
  drop.
- Four cells gave 2.3 million states and did not finish in the time
  budget.

**HeapSnapshot bounds.**
- With two objects, one object can reach the other through a property, an
  element, a prototype, a constant pool, a var-ref and the context's slots.
- Two ints are the fewest that can alias.
- The ArrayBuffer `ab` comes after the typed array on `gc_obj_list`. So the
  `typed_array` edge makes the buffer's node before the walk processes
  the buffer, and the walk must reuse that node.

**Allocator bounds.**
- Three addresses allow a client block, the array and a block to move
  into.
- `alloc` grows 8-byte elements to 1, 2, 4 and 7 elements, with slack 0 or
  12 (12 is more than one element and less than two). So the 3/2 growth,
  the slack fold, moving reallocs and failures at the 64-byte limit all
  happen.
- The violation run grows 16-byte elements to 1 and then to 2^28
  elements. `16 * 2^28` wraps to 0. With 24-byte elements,
  `24 * 178956971` wraps to 8 instead.

**WeakRef bounds.**
- The initial heaps (9,660 after symmetry) cover:
  - every placement of two records in two maps, with distinct keys per
    map, so one key can be in both maps;
  - values that are an object, a map (its own map included), or none (a
    WeakSet);
  - both insertion orders;
  - every property slot among the four cells, a map included;
  - every set of mutator references.
- These include:
  - a key whose value is itself;
  - a key with no other holder;
  - a value that is another record's key;
  - self-cycles and two-cycles.
- A key in both maps has a weak chain of two records. So both loops of
  `reset_weak_ref` advance, and a dying map makes `delete_weak_ref`
  unlink a record that is not the head of its key's chain.
- A map held by an object's slot or a record's value can be garbage in a
  cycle. It then dies in a cycle pass, or it is deferred as a zombie.
  Each of these cases was checked as reached by making its branch fail.
  This is how a wrong predecessor in `DeleteWeakRef`, taken under the
  earlier one-map bounds, was found and fixed.
- Three objects gave about 19 million candidate initial heaps, which is
  too many.

**Fairness.** The spec (§5) says the subsystem is single-threaded with no
suspension point inside release, the drain or `JS_RunGC`. Once the
collector has started, nothing else runs until it returns. So `Spec` has
`WF_vars(Collector)` and no fairness for the mutator.

`gc_liveness` checks `CollectorTerminates` at `MaxRef = 1`, because at
`MaxRef = 2` the liveness check took more than 8 minutes. Its cfg sets
`CHECK_DEADLOCK FALSE` because a failed assertion aborts the process, a
state with no successor. `NoAbort` shows that state is unreachable.

The snapshot runs also set `CHECK_DEADLOCK FALSE`: the dump is a
procedure that ends.

## 5. Findings

Each violation run shows a disagreement. The full text is in `PROJECT.json`
under `findings`.

1. **The zero list is not what spec I5 says** (`gc.c:717`).
   `gc_free_cycles` parks finalized zombies whose counts peers still hold
   on `gc_zero_ref_count_list`. The spec's own §4.3 and §4.5 step 8
   prescribe this parking. So the disagreement is inside the spec (a
   spec gap): the code follows those sections, and I5 is the rule that
   needs to change.
2. **Name index -2 is written** (`gc.c:1690`). The context's root node
   keeps the initial name -2. So do bytecode, var-ref and NULL-prototype
   nodes.
3. **Int nodes alias** (`gc.c:1544`). `&val` is the key of every int, so
   all int properties share one node, and the last int processed names it.
4. **A GC header is read from a string or an int** (`gc.c:1865`). This
   happens for constant-pool entries and for var-ref values, for example a
   captured `let n = 1`.
5. **`fopen` is not checked** (`gc.c:2124`). The spec says a snapshot I/O
   failure returns null. This was seen while writing `Write2FileOpenFails`,
   which ends in `pc = "crash"`. No run checks it, because the defect takes
   one step to show.
6. **A wrap to 0 frees the array** (`gc.c:132`). `realloc(p, 0)` frees
   the array and returns NULL. `js_realloc_array` then returns -1 and
   leaves `*parray` pointing at the freed block.
   The same trace shows no exception on that failure (`gc.c:95`).
   `js_realloc2` takes NULL for size 0 as success, so -1 comes back with
   `ret = "fail"` and `exc = FALSE`.
7. **A weak value is stranded by a cycle pass** (`gc.c:825`, reached from
   `gc.c:639`).
   - The setup: a live weak map has a record whose key is garbage in a
     self-cycle, and the map alone holds the record's value.
   - `JS_RunGC` frees the key in phase REMOVE_CYCLES. Its `reset_weak_ref`
     releases the value, whose count drops to 0.
   - In that phase `__JS_FreeValueRT` neither queues nor frees. So after
     `JS_RunGC` the value is allocated, unreachable, with count 0, and it
     keeps its own children alive.
   - The spec says a release to zero is drained outside a cycle pass, and
     that a second `run_gc` right after a first reclaims nothing. Here the
     second call reclaims the value.

Three more defects were seen while modelling, and no run checks them:
- **The `typed_array` edge has the wrong type** (`gc.c:1914`). The branch
  sets the edge's name and target but not `edge.type`. The local still
  holds `internal` from the shape edge pushed just before, so the edge is
  written as `internal`. The spec (S5) says `property`. `TypedArrayEdge`
  writes `internal`, as the code does.
- **`js_realloc_array` overflows to a small size** (`gc.c:132`, the XXX
  comment at 130). With `elem_size` 24 and `req_size` 178956971, the block
  is 8 bytes but `*psize` becomes 178956971. `ArrayFitsBlock` is violated
  when `MC_Allocator_BlocksOwned.cfg` gets those two constants.
- **Negative element indices** (`gc.c:2040`). An index property's edge is
  named with the raw tagged atom `n | 1<<31`, which prints as `n - 2^31`.

## 6. Not modelled

- **Memory-usage report.** It is read-only statistics and formatting.
- **`js_strndup`, `js_strdup`, `js_malloc_usable_size` and
  `js_bf_realloc`.** They are the same calls as `Malloc`, `MfUsable` and
  `Realloc`, with a copy or an `#ifdef`.
- **The trigger inside `RefCountGC`.** There, `RunGC` may fire at any idle
  point, which covers every threshold decision. The threshold arithmetic
  is in `Allocator`.
- **`JS_MarkContext`, async function frames and the
  module list.** The collector's loops treat these like other slots.
- **Getters, setters and Proxy traps in the dumper.** A getter can run
  JS, and so `JS_RunGC`, during the walk. Modelling that needs JS code
  and the collector inside the dumper's walk. It is listed as a hazard.
- **Allocation failure inside the dumper.**

The hazards in `PROJECT.json` list each of these at its line.
