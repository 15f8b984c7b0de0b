--------------------------- MODULE PositionScanner ---------------------------
(***************************************************************************)
(* internal/liquidation/scanner: the positions map and the min-heap over   *)
(* it.  A position is its health factor and its place in the heap; health  *)
(* factors are compared, never computed, so small numbers stand for them.  *)
(* The sift operations are container/heap's (external).  Every operation   *)
(* holds the scanner's lock; RefreshAll is a loop of steps that holds it.  *)
(* FindLiquidatable, which only reads the map, is in module Liquidation.   *)
(***************************************************************************)
EXTENDS Integers, Sequences, FiniteSets, SequencesExt

CONSTANTS
    User,
    HF,      \* health factors, as numbers
    NilHF    \* a nil HealthFactor: set from outside, not computed yet

ASSUME ScannerAssumption == HF \subseteq Nat /\ NilHF \notin HF

VARIABLES
    hf,         \* HealthFactor of each position in the map
    queue,      \* the heap
    heapIndex,  \* heapIndex of each position in the map, -1 when not in the heap
    refresh     \* positions RefreshAll's loop has still to visit; {} when unlocked

vars == <<hf, queue, heapIndex, refresh>>

positions == DOMAIN hf

ScannerInit ==
    /\ hf = [u \in {} |-> NilHF] /\ heapIndex = [u \in {} |-> -1]
    /\ queue = <<>> /\ refresh = {}
-----------------------------------------------------------------------------
\* The heap under construction: h.q is the slice, h.x the heapIndex fields, f
\* gives the health factors.  Places count from 1.
LessHF(a, b) == a # NilHF /\ (b = NilHF \/ a < b)
Less(f, h, i, j) == LessHF(f[h.q[i]], f[h.q[j]])

\* A mutation of Swap: the fields are set before the elements move.
SwapStale(h, i, j) ==
    [q |-> [h.q EXCEPT ![i] = h.q[j], ![j] = h.q[i]],
     x |-> [h.x EXCEPT ![h.q[i]] = i, ![h.q[j]] = j]]

Swap(h, i, j) ==
    [q |-> [h.q EXCEPT ![i] = h.q[j], ![j] = h.q[i]],
     x |-> [h.x EXCEPT ![h.q[j]] = i, ![h.q[i]] = j]]

Push(h, u) == [q |-> Append(h.q, u),
               x |-> [v \in DOMAIN h.x \cup {u} |-> IF v = u THEN Len(h.q) + 1 ELSE h.x[v]]]

Pop(h) == [q |-> Front(h.q), x |-> [h.x EXCEPT ![Last(h.q)] = -1]]

\* container/heap's up and down: the loop's state is the heap and the place of the element
\* that moves; n is the length of the part that is a heap.
UpStep(f, s) ==
    IF s.i = 1 \/ ~Less(f, s.h, s.i, s.i \div 2) THEN s
    ELSE [h |-> Swap(s.h, s.i \div 2, s.i), i |-> s.i \div 2]

Up(f, h, j) ==
    LET up[k \in 0..j] == IF k = 0 THEN [h |-> h, i |-> j] ELSE UpStep(f, up[k - 1])
    IN up[j].h

Child(f, h, i, n) ==
    IF 2 * i + 1 <= n /\ Less(f, h, 2 * i + 1, 2 * i) THEN 2 * i + 1 ELSE 2 * i

DownStep(f, s, n) ==
    LET j == Child(f, s.h, s.i, n)
    IN IF 2 * s.i > n \/ ~Less(f, s.h, j, s.i) THEN s
       ELSE [h |-> Swap(s.h, s.i, j), i |-> j]

Down(f, h, i, n) ==
    LET down[k \in 0..n] == IF k = 0 THEN [h |-> h, i |-> i] ELSE DownStep(f, down[k - 1], n)
    IN down[n].h

FixUpTo(f, h, i, n) == LET d == Down(f, h, i, n) IN IF d # h THEN d ELSE Up(f, h, i)

Fix(f, h, i) == FixUpTo(f, h, i, Len(h.q))
HeapPush(f, h, u) == Up(f, Push(h, u), Len(h.q) + 1)

HeapRemove(f, h, i) ==
    LET n == Len(h.q)
    IN Pop(IF n = i THEN h ELSE FixUpTo(f, Swap(h, i, n), i, n - 1))
-----------------------------------------------------------------------------
Heap == [q |-> queue, x |-> heapIndex]

\* A mutation of SetPosition: an update in place does not fix the heap.
SetPositionUnfixed(u, v) ==
    /\ refresh = {}
    /\ hf' = [w \in positions \cup {u} |-> IF w = u THEN v ELSE hf[w]]
    /\ LET h == IF u \in positions THEN Heap ELSE HeapPush(hf', Heap, u)
       IN queue' = h.q /\ heapIndex' = h.x
    /\ UNCHANGED refresh

\* SetPosition: in place, or a new position.
SetPosition(u, v) ==
    /\ refresh = {}
    /\ hf' = [w \in positions \cup {u} |-> IF w = u THEN v ELSE hf[w]]
    /\ LET h == IF u \notin positions THEN HeapPush(hf', Heap, u)
                ELSE IF heapIndex[u] >= 0 THEN Fix(hf', Heap, heapIndex[u]) ELSE Heap
       IN queue' = h.q /\ heapIndex' = h.x
    /\ UNCHANGED refresh

RemovePosition(u) ==
    /\ refresh = {}
    /\ u \in positions
    /\ LET h == IF heapIndex[u] >= 0 THEN HeapRemove(hf, Heap, heapIndex[u]) ELSE Heap
       IN /\ queue' = h.q
          /\ heapIndex' = [w \in positions \ {u} |-> h.x[w]]
    /\ hf' = [w \in positions \ {u} |-> hf[w]]
    /\ UNCHANGED refresh

\* RefreshAll: the lock is taken, then each position in turn gets a new health
\* factor and its place in the heap; the map's order is arbitrary.
RefreshAll ==
    /\ refresh = {} /\ positions # {}
    /\ refresh' = positions
    /\ UNCHANGED <<hf, queue, heapIndex>>

RefreshOne(u, v) ==
    /\ u \in refresh
    /\ refresh' = refresh \ {u}
    /\ hf' = [hf EXCEPT ![u] = v]
    /\ LET h == IF heapIndex[u] >= 0 THEN Fix(hf', Heap, heapIndex[u]) ELSE Heap
       IN queue' = h.q /\ heapIndex' = h.x

ScannerNext ==
    \/ \E u \in User, v \in HF \cup {NilHF} : SetPosition(u, v)
    \/ \E u \in User : RemovePosition(u)
    \/ RefreshAll
    \/ \E u \in User, v \in HF : RefreshOne(u, v)

ScannerSpec == ScannerInit /\ [][ScannerNext]_vars
-----------------------------------------------------------------------------
\* MostDangerous returns queue[0]: no tracked position, refreshed, updated or
\* removed in any order, has a lower health factor.
MostDangerousIsMinimal ==
    \A u \in positions : queue # <<>> /\ ~LessHF(hf[u], hf[queue[1]])

\* Every position of the map is in the heap exactly once, at its heapIndex, and
\* the heap holds no other: Fix and Remove act on the position they are called for.
IndexConsistent ==
    /\ DOMAIN heapIndex = positions
    /\ Len(queue) = Cardinality(positions)
    /\ \A u \in positions : heapIndex[u] \in 1..Len(queue) /\ queue[heapIndex[u]] = u
=============================================================================
