----------------------------- MODULE Allocator -----------------------------
(***************************************************************************)
(* The allocator facade of gc.c (js_malloc_rt ... js_realloc_array) over   *)
(* the runtime's pluggable allocator rt->mf, with the GC trigger, the GC   *)
(* threshold and the memory limit.  A client holds the blocks it gets from *)
(* js_malloc and js_realloc; one dynamic array (a buffer and its int       *)
(* capacity *psize, as the runtime's growable tables keep them) is grown   *)
(* by js_realloc_array.  C int arithmetic is 32-bit and wraps, computed    *)
(* here without leaving TLC's own 32-bit integers.                        *)
(***************************************************************************)
EXTENDS Integers, FiniteSets, FiniteSetsExt

CONSTANTS
  Blocks,       \* the addresses a block can have
  NULL,
  ElemSize,     \* elem_size of the dynamic array
  ReqSizes,     \* req_size values its owner asks for
  ClientSizes,  \* sizes the client passes to js_malloc and js_realloc
  Slacks,       \* what malloc_usable_size may add to a requested size
  MaxAlloc,     \* the largest block the machine can provide
  SizeMax,      \* SIZE_MAX: above every size a block or a sum can reach
  Limits,       \* values of JS_SetMemoryLimit
  Thresholds    \* values of JS_SetGCThreshold (SizeMax is the -1 sentinel)

ASSUME ElemSize \in 1..32767 /\ MaxAlloc < SizeMax

-----------------------------------------------------------------------------
(* C int arithmetic.                                                       *)

Int32Max == 2147483647
Int32Min == -2147483647 - 1

\* a * k in int, for an int a and 0 <= k < 2^15: the product modulo 2^32
\* read as signed, from the 16-bit halves of a.
IntMul(a, k) ==
  LET lo == a % 65536
      hi == (a - lo) \div 65536
      low == lo * k
      high == (hi * k + low \div 65536) % 65536
  IN  IF high >= 32768 THEN (high - 65536) * 65536 + (low % 65536)
      ELSE high * 65536 + (low % 65536)

\* a / b in C (b > 0): the quotient truncated toward zero.
CDiv(a, b) == IF a >= 0 \/ a % b = 0 THEN a \div b ELSE a \div b + 1

\* int a += size_t n (0 <= n <= Int32Max), stored back in the int.
IntAdd(a, n) == IF a > Int32Max - n THEN (a + Int32Min) + (n + Int32Min) ELSE a + n

\* An int passed as a size_t argument: a negative value becomes 2^64 + a.
SizeT(x) == IF x >= 0 THEN x ELSE SizeMax

MaxInt(a, b) == IF a >= b THEN a ELSE b

-----------------------------------------------------------------------------
VARIABLES
  mem,          \* mem[b]: usable size of block b, 0 when b is not allocated
  mallocSize,   \* malloc_state.malloc_size
  mallocCount,  \* malloc_state.malloc_count
  mallocLimit,  \* malloc_state.malloc_limit
  gcThreshold,  \* rt->malloc_gc_threshold
  cli,          \* the blocks the client holds
  arr,          \* the dynamic array: [ptr |-> *parray, size |-> *psize]
  exc,          \* the last call left an out-of-memory exception pending
  ret           \* what the last context-scoped call reported

vars == <<mem, mallocSize, mallocCount, mallocLimit, gcThreshold, cli, arr, exc, ret>>

\* The allocator's state as one record, for the operators of rt->mf.
A == [mem |-> mem, size |-> mallocSize, count |-> mallocCount, limit |-> mallocLimit]

SetA(a) == /\ mem' = a.mem /\ mallocSize' = a.size /\ mallocCount' = a.count

FreeBlocks(a) == {b \in Blocks : a.mem[b] = 0}

-----------------------------------------------------------------------------
(* rt->mf: the default allocator.  Each returns the possible outcomes, a  *)
(* new allocator state and the returned pointer.                          *)

\* js_def_malloc: NULL past the limit or the machine; otherwise a block of
\* usable size n + slack, counted in malloc_size and malloc_count.
MfMalloc(a, n) ==
  IF n > MaxAlloc \/ n > a.limit - a.size THEN {[a |-> a, ptr |-> NULL]}
  ELSE {[a |-> [a EXCEPT !.mem[b] = n + s, !.size = @ + n + s, !.count = @ + 1],
         ptr |-> b] : b \in FreeBlocks(a), s \in Slacks}

\* js_def_free (free(NULL) does nothing).
MfFree(a, p) ==
  IF p = NULL THEN a
  ELSE [a EXCEPT !.mem[p] = 0, !.size = @ - a.mem[p], !.count = @ - 1]

\* js_def_realloc: realloc(NULL, n) mallocs, realloc(p, 0) frees p and
\* returns NULL, a failed realloc leaves p as it was; the block may move.
MfRealloc(a, p, n) ==
  CASE p = NULL -> IF n = 0 THEN {[a |-> a, ptr |-> NULL]} ELSE MfMalloc(a, n)
    [] n = 0 -> {[a |-> MfFree(a, p), ptr |-> NULL]}
    [] n > MaxAlloc \/ n - a.mem[p] > a.limit - a.size -> {[a |-> a, ptr |-> NULL]}
    [] OTHER ->
         {[a |-> [a EXCEPT !.mem[p] = 0, !.mem[b] = n + s,
                           !.size = @ - a.mem[p] + n + s],
           ptr |-> b] : b \in FreeBlocks(a) \cup {p}, s \in Slacks}

\* js_def_malloc_usable_size (0 for NULL).
MfUsable(a, p) == IF p = NULL THEN 0 ELSE a.mem[p]

\* js_free_rt of every block of S.
FreeOne(p, acc) == MfFree(acc, p)
FoldFree(a, S) == FoldSet(FreeOne, a, S)

-----------------------------------------------------------------------------
(* The facade of gc.c.  Context-scoped calls throw out of memory when     *)
(* they fail.                                                              *)

\* Mutant: js_realloc throws whenever realloc returns NULL, also for size 0.
JsReallocZeroIsFailure(a, p, n) ==
  {[a |-> o.a, ptr |-> o.ptr, exc |-> o.ptr = NULL] : o \in MfRealloc(a, p, n)}

\* js_realloc: NULL with a nonzero size throws; realloc(p, 0) returning
\* NULL is the freeing of p, not a failure.
JsRealloc(a, p, n) ==
  {[a |-> o.a, ptr |-> o.ptr, exc |-> o.ptr = NULL /\ n # 0] : o \in MfRealloc(a, p, n)}

\* js_realloc2: js_realloc, and the slack usable_size leaves past n.
Slack(a, q, n) == IF MfUsable(a, q) > n THEN MfUsable(a, q) - n ELSE 0

JsRealloc2(a, p, n) ==
  {[a |-> r.a, ptr |-> r.ptr, exc |-> r.exc,
    slack |-> IF r.exc THEN 0 ELSE Slack(r.a, r.ptr, n)] : r \in JsRealloc(a, p, n)}

\* Mutant: the slack is rounded up to whole elements.
ReallocArraySlackRoundUp(a, p, psize, req) ==
  LET newSize == MaxInt(req, CDiv(IntMul(psize, 3), 2))
  IN  {IF r.ptr = NULL THEN [a |-> r.a, ptr |-> p, size |-> psize, ok |-> FALSE, exc |-> r.exc]
       ELSE [a |-> r.a, ptr |-> r.ptr, ok |-> TRUE, exc |-> FALSE,
             size |-> IntAdd(newSize, (r.slack + ElemSize - 1) \div ElemSize)]
       : r \in JsRealloc2(a, p, SizeT(IntMul(newSize, ElemSize)))}

\* Mutant: *parray keeps the old pointer after a successful realloc.
ReallocArrayKeepPointer(a, p, psize, req) ==
  LET newSize == MaxInt(req, CDiv(IntMul(psize, 3), 2))
  IN  {IF r.ptr = NULL THEN [a |-> r.a, ptr |-> p, size |-> psize, ok |-> FALSE, exc |-> r.exc]
       ELSE [a |-> r.a, ptr |-> p, ok |-> TRUE, exc |-> FALSE,
             size |-> IntAdd(newSize, r.slack \div ElemSize)]
       : r \in JsRealloc2(a, p, SizeT(IntMul(newSize, ElemSize)))}

\* js_realloc_array: new_size = max_int(req_size, *psize * 3 / 2) in int,
\* js_realloc2 of new_size * elem_size (an int product passed as size_t);
\* on success the slack is folded into the capacity in whole elements.
\* On failure -1 is returned and *parray, *psize are left alone.
ReallocArray(a, p, psize, req) ==
  LET newSize == MaxInt(req, CDiv(IntMul(psize, 3), 2))
  IN  {IF r.ptr = NULL THEN [a |-> r.a, ptr |-> p, size |-> psize, ok |-> FALSE, exc |-> r.exc]
       ELSE [a |-> r.a, ptr |-> r.ptr, ok |-> TRUE, exc |-> FALSE,
             size |-> IntAdd(newSize, r.slack \div ElemSize)]
       : r \in JsRealloc2(a, p, SizeT(IntMul(newSize, ElemSize)))}

-----------------------------------------------------------------------------
(* The calls.                                                              *)

\* JS_NewRuntime: no blocks, no limit, the initial threshold.
Init ==
  /\ mem = [b \in Blocks |-> 0] /\ mallocSize = 0 /\ mallocCount = 0
  /\ mallocLimit = SizeMax /\ gcThreshold \in Thresholds
  /\ cli = {} /\ arr = [ptr |-> NULL, size |-> 0]
  /\ exc = FALSE /\ ret = "none"

\* js_malloc_rt / js_mallocz_rt (scoped = FALSE) and js_malloc / js_mallocz
\* / js_strndup (scoped = TRUE, a NULL result throws).
Malloc(n, scoped) ==
  \E r \in MfMalloc(A, n) :
    /\ SetA(r.a)
    /\ cli' = IF r.ptr = NULL THEN cli ELSE cli \cup {r.ptr}
    /\ exc' = (scoped /\ r.ptr = NULL)
    /\ ret' = IF ~scoped THEN "none" ELSE IF r.ptr = NULL THEN "fail" ELSE "ok"
    /\ UNCHANGED <<mallocLimit, gcThreshold, arr>>

\* js_free_rt / js_free, of a client block or of the array.
Free(p) ==
  /\ SetA(MfFree(A, p))
  /\ cli' = cli \ {p}
  /\ arr' = IF p = arr.ptr THEN [ptr |-> NULL, size |-> 0] ELSE arr
  /\ exc' = FALSE /\ ret' = "none"
  /\ UNCHANGED <<mallocLimit, gcThreshold>>

\* js_realloc_rt (scoped = FALSE) or js_realloc (scoped = TRUE) of a
\* client block.  The client takes the call's word: a reported failure
\* leaves it the old block, anything else the returned pointer.
Realloc(p, n, scoped) ==
  \E r \in JsRealloc(A, p, n) :
    LET failed == IF scoped THEN r.exc ELSE r.ptr = NULL /\ n # 0
    IN  /\ SetA(r.a)
        /\ cli' = IF failed THEN cli
                  ELSE (cli \ {p}) \cup (IF r.ptr = NULL THEN {} ELSE {r.ptr})
        /\ exc' = (scoped /\ r.exc)
        /\ ret' = IF ~scoped THEN "none" ELSE IF failed THEN "fail" ELSE "ok"
        /\ UNCHANGED <<mallocLimit, gcThreshold, arr>>

\* js_resize_array calls js_realloc_array when req_size > *psize.
GrowArray(req) ==
  /\ req > arr.size
  /\ \E r \in ReallocArray(A, arr.ptr, arr.size, req) :
       /\ SetA(r.a)
       /\ arr' = [ptr |-> r.ptr, size |-> r.size]
       /\ exc' = r.exc
       /\ ret' = IF r.ok THEN "ok" ELSE "fail"
       /\ UNCHANGED <<mallocLimit, gcThreshold, cli>>

\* js_trigger_gc before an allocation of n bytes: past the threshold,
\* JS_RunGC (which frees some of the client's blocks, the garbage cells)
\* and the threshold becomes malloc_size + malloc_size / 2.
TriggerGC(n) ==
  /\ IF mallocSize + n > gcThreshold
     THEN \E S \in SUBSET cli :
            LET a == FoldFree(A, S)
            IN  /\ SetA(a)
                /\ cli' = cli \ S
                /\ gcThreshold' = a.size + a.size \div 2
     ELSE UNCHANGED <<mem, mallocSize, mallocCount, cli, gcThreshold>>
  /\ exc' = FALSE /\ ret' = "none"
  /\ UNCHANGED <<mallocLimit, arr>>

\* JS_SetGCThreshold and JS_SetMemoryLimit.
SetGCThreshold(t) ==
  /\ gcThreshold' = t /\ exc' = FALSE /\ ret' = "none"
  /\ UNCHANGED <<mem, mallocSize, mallocCount, mallocLimit, cli, arr>>

SetMemoryLimit(l) ==
  /\ mallocLimit' = l /\ exc' = FALSE /\ ret' = "none"
  /\ UNCHANGED <<mem, mallocSize, mallocCount, gcThreshold, cli, arr>>

Next ==
  \/ \E n \in ClientSizes, scoped \in BOOLEAN : Malloc(n, scoped)
  \/ \E p \in cli \cup ({arr.ptr} \ {NULL}) : Free(p)
  \/ \E p \in cli, n \in ClientSizes \cup {0}, scoped \in BOOLEAN : Realloc(p, n, scoped)
  \/ \E req \in ReqSizes : GrowArray(req)
  \/ \E n \in ClientSizes : TriggerGC(n)
  \/ \E t \in Thresholds : SetGCThreshold(t)
  \/ \E l \in Limits : SetMemoryLimit(l)

Spec == Init /\ [][Next]_vars

-----------------------------------------------------------------------------
(* Properties.                                                            *)

TypeOK ==
  /\ mem \in [Blocks -> Nat] /\ mallocSize \in Nat /\ mallocCount \in Nat
  /\ mallocLimit \in Limits \cup {SizeMax} /\ gcThreshold \in Nat
  /\ cli \subseteq Blocks
  /\ arr \in [ptr : Blocks \cup {NULL}, size : Int32Min..Int32Max]
  /\ exc \in BOOLEAN /\ ret \in {"none", "ok", "fail"}

\* The capacity js_realloc_array stores in *psize is backed by the block
\* in *parray: *psize elements of elem_size bytes fit in its usable size
\* after the 3/2 growth, the max with req_size and the slack folded in
\* from the usable size of the block realloc returned.  This holds while
\* new_size * elem_size fits in an int; the XXX at line 130 admits that
\* it may not, and README section 5 gives a wrap that breaks it.
ArrayFitsBlock ==
  arr.ptr # NULL => 0 <= arr.size /\ arr.size <= mem[arr.ptr] \div ElemSize

\* Every allocated block has exactly one holder, the client or the array,
\* and every block they hold is allocated: after any mix of mallocs,
\* reallocs that move, fail or free, array growths and GC-triggered frees,
\* nothing leaks and no pointer dangles.
BlocksOwned ==
  /\ {b \in Blocks : mem[b] > 0} = cli \cup ({arr.ptr} \ {NULL})
  /\ arr.ptr \notin cli

====
