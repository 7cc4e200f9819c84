---------------------------- MODULE AbstractHeap ----------------------------
(***************************************************************************)
(* What the memory manager of gc.c promises the rest of the runtime,       *)
(* without reference counts, lists or phases: a heap of cells with strong  *)
(* edges and mutator roots, in which a cell is reclaimed only when no      *)
(* chain of strong edges from a root reaches it, and a reclaimed cell is   *)
(* never allocated, referenced or reclaimed again.  RefCountGC refines it. *)
(***************************************************************************)
EXTENDS Naturals, FiniteSets

CONSTANTS Cells, NONE

VARIABLES
  alive,   \* the cells allocated and not yet finalized
  dead,    \* the cells that have been finalized or freed
  edges,   \* edges[c][d]: strong slots of c holding d
  roots    \* roots[c]: references to c held by the mutator

absVars == <<alive, dead, edges, roots>>

\* The cells reachable from the mutator's roots.
AbsReachable ==
  LET R[n \in 0..Cardinality(Cells)] ==
        IF n = 0 THEN {c \in alive : roots[c] > 0}
        ELSE R[n - 1] \cup {d \in Cells : \E c \in R[n - 1] : edges[c][d] > 0}
  IN  R[Cardinality(Cells)]

AbsInit ==
  /\ alive = {} /\ dead = {}
  /\ edges = [c \in Cells |-> [d \in Cells |-> 0]]
  /\ roots = [c \in Cells |-> 0]

\* A fresh cell, held by the mutator (holder = NONE) or by a reachable cell.
Allocate(c, holder) ==
  /\ c \notin alive \cup dead
  /\ holder # NONE => holder \in AbsReachable
  /\ alive' = alive \cup {c}
  /\ roots' = IF holder = NONE THEN [roots EXCEPT ![c] = 1] ELSE roots
  /\ edges' = IF holder = NONE THEN edges ELSE [edges EXCEPT ![holder][c] = 1]
  /\ UNCHANGED dead

\* The mutator stores a reachable cell in a slot of a reachable cell.
Store(c, d) ==
  /\ {c, d} \subseteq AbsReachable
  /\ edges' = [edges EXCEPT ![c][d] = @ + 1]
  /\ UNCHANGED <<alive, dead, roots>>

\* The mutator clears a slot of a reachable cell.
Clear(c, d) ==
  /\ c \in AbsReachable /\ edges[c][d] > 0
  /\ edges' = [edges EXCEPT ![c][d] = @ - 1]
  /\ UNCHANGED <<alive, dead, roots>>

\* The mutator takes or drops a reference.
Retain(d) ==
  /\ d \in AbsReachable
  /\ roots' = [roots EXCEPT ![d] = @ + 1]
  /\ UNCHANGED <<alive, dead, edges>>

Release(d) ==
  /\ roots[d] > 0
  /\ roots' = [roots EXCEPT ![d] = @ - 1]
  /\ UNCHANGED <<alive, dead, edges>>

\* The memory manager reclaims a nonempty set S of unreachable cells; their
\* slots are released with them.
Reclaim(S) ==
  /\ S # {} /\ S \subseteq alive \ AbsReachable
  /\ alive' = alive \ S
  /\ dead' = dead \cup S
  /\ edges' = [c \in Cells |-> IF c \in S THEN [d \in Cells |-> 0] ELSE edges[c]]
  /\ UNCHANGED roots

AbsNext ==
  \/ \E c \in Cells, h \in Cells \cup {NONE} : Allocate(c, h)
  \/ \E c, d \in Cells : Store(c, d) \/ Clear(c, d)
  \/ \E d \in Cells : Retain(d) \/ Release(d)
  \/ \E S \in SUBSET Cells : Reclaim(S)

AbsSpec == AbsInit /\ [][AbsNext]_absVars

=============================================================================
