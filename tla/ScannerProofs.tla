--------------------------- MODULE ScannerProofs ---------------------------
(***************************************************************************)
(* The heap of the position scanner, for every set of users and of health  *)
(* factors and for heaps of every size: each position stays in the heap    *)
(* once, at its heapIndex, and MostDangerous is a minimal one.             *)
(***************************************************************************)
EXTENDS PositionScanner, FiniteSetTheorems, WellFoundedInduction, SequenceTheorems, TLAPS

-----------------------------------------------------------------------------
(* Induction, stated for sets.                                             *)

LEMMA LeastNat ==
    ASSUME NEW T, T \subseteq Nat, T # {}
    PROVE  \E n \in T : \A m \in T : n <= m
<1> DEFINE R == OpToRel(<, Nat)
<1>1. IsWellFoundedOn(R, Nat)
  BY NatLessThanWellFounded
<1>2. \A x, y \in Nat : y < x => <<y, x>> \in R
  BY DEF OpToRel
<1> HIDE DEF R
<1>3. PICK x \in T : \A y \in T : ~(<<y, x>> \in R)
  BY <1>1, WFMin
<1>4. ASSUME NEW y \in T
      PROVE  x <= y
  <2>1. x \in Nat /\ y \in Nat
    OBVIOUS
  <2>2. ~(y < x)
    BY <1>2, <1>3, <2>1, Zenon
  <2> QED BY <2>1, <2>2
<1> QED BY <1>4

LEMMA Induction ==
    ASSUME NEW T, 0 \in T, \A k \in Nat : k \in T => k + 1 \in T
    PROVE  Nat \subseteq T
<1> SUFFICES ASSUME NEW bad \in Nat, bad \notin T
             PROVE  FALSE
  OBVIOUS
<1>1. PICK U : U = Nat \ T
  OBVIOUS
<1>2. PICK n \in U : \A m \in U : n <= m
  BY <1>1, LeastNat
<1>3. n \in Nat /\ n # 0 /\ n - 1 \in Nat /\ n - 1 \notin U
  BY <1>1, <1>2
<1>4. n - 1 \in T /\ (n - 1) + 1 = n
  BY <1>1, <1>3
<1> QED BY <1>1, <1>3, <1>4
-----------------------------------------------------------------------------
(* The order of the heap.                                                  *)

Values == HF \cup {NilHF}

\* A nil health factor is above all others; "not less" is a total preorder.
LEMMA LessOrder ==
    ASSUME NEW a \in Values, NEW b \in Values
    PROVE  /\ ~LessHF(a, a)
           /\ LessHF(a, b) => ~LessHF(b, a)
           /\ \A c \in Values : ~LessHF(a, b) /\ ~LessHF(b, c) => ~LessHF(a, c)
BY ScannerAssumption DEF Values, LessHF

\* The parent of a place.
LEMMA Halves ==
    ASSUME NEW c \in Nat, c >= 2
    PROVE  /\ c \div 2 \in Nat /\ c \div 2 >= 1 /\ c \div 2 < c
           /\ c = 2 * (c \div 2) \/ c = 2 * (c \div 2) + 1
OBVIOUS

LEMMA HalfIs ==
    ASSUME NEW p \in Nat, p >= 1
    PROVE  /\ (2 * p) \div 2 = p /\ (2 * p + 1) \div 2 = p
OBVIOUS

\* A heap over the positions D: N places, one for each, and each knows its own.
HeapOver(h, D, N) ==
    /\ h.q \in [1..N -> D] /\ h.x \in [D -> 1..N]
    /\ \A u \in D : h.q[h.x[u]] = u
    /\ \A i \in 1..N : h.x[h.q[i]] = i

\* Up to place n no position is less than its parent.
Ordered(f, h, n) == \A c \in 2..n : ~Less(f, h, c, c \div 2)

\* Beyond place n two heaps hold the same.
SameAbove(g, h, n, N) == \A m \in (n + 1)..N : g.q[m] = h.q[m]

\* Heap g is heap h but for an exchange of two positions.
Swapped(g, h, i, j, D, N) ==
    /\ HeapOver(g, D, N)
    /\ g.q[i] = h.q[j] /\ g.q[j] = h.q[i]
    /\ \A m \in 1..N : m # i /\ m # j => g.q[m] = h.q[m]

LEMMA SwapHeap ==
    ASSUME NEW D, NEW N \in Nat, NEW h, HeapOver(h, D, N),
           NEW i \in 1..N, NEW j \in 1..N, i # j
    PROVE  Swapped(Swap(h, i, j), h, i, j, D, N)
<1>1. PICK q, x : q = h.q /\ x = h.x
  OBVIOUS
<1>2. /\ q \in [1..N -> D] /\ x \in [D -> 1..N]
      /\ \A u \in D : q[x[u]] = u
      /\ \A m \in 1..N : x[q[m]] = m
  BY <1>1 DEF HeapOver
<1>3. PICK r, y : /\ r = [q EXCEPT ![i] = q[j], ![j] = q[i]]
                  /\ y = [x EXCEPT ![q[j]] = i, ![q[i]] = j]
  OBVIOUS
<1>4. Swap(h, i, j).q = r /\ Swap(h, i, j).x = y
  BY <1>1, <1>3 DEF Swap
<1>5. /\ r \in [1..N -> D] /\ r[i] = q[j] /\ r[j] = q[i]
      /\ \A m \in 1..N : m # i /\ m # j => r[m] = q[m]
  BY <1>2, <1>3
<1>6. q[i] # q[j] /\ q[i] \in D /\ q[j] \in D
  BY <1>2
<1>7. /\ y \in [D -> 1..N] /\ y[q[j]] = i /\ y[q[i]] = j
      /\ \A u \in D : u # q[i] /\ u # q[j] => y[u] = x[u]
  BY <1>2, <1>3, <1>6
<1>8. \A u \in D : r[y[u]] = u
  <2> SUFFICES ASSUME NEW u \in D PROVE r[y[u]] = u
    OBVIOUS
  <2>1. CASE u = q[i] \/ u = q[j]
    BY <1>5, <1>7, <2>1
  <2>2. CASE u # q[i] /\ u # q[j]
    <3>1. x[u] \in 1..N /\ q[x[u]] = u
      BY <1>2
    <3>2. x[u] # i /\ x[u] # j
      BY <2>2, <3>1
    <3> QED BY <1>5, <1>7, <2>2, <3>1, <3>2
  <2> QED BY <2>1, <2>2
<1>9. \A m \in 1..N : y[r[m]] = m
  <2> SUFFICES ASSUME NEW m \in 1..N PROVE y[r[m]] = m
    OBVIOUS
  <2>1. CASE m = i \/ m = j
    BY <1>5, <1>7, <2>1
  <2>2. CASE m # i /\ m # j
    <3>1. q[m] # q[i] /\ q[m] # q[j] /\ q[m] \in D
      BY <1>2, <2>2
    <3> QED BY <1>2, <1>5, <1>7, <2>2, <3>1
  <2> QED BY <2>1, <2>2
<1> QED BY <1>1, <1>4, <1>5, <1>7, <1>8, <1>9 DEF HeapOver, Swapped
-----------------------------------------------------------------------------
(* up: what moves is in order with all but its parent.                     *)

UpInv(f, s, h0, D, N, n) ==
    /\ HeapOver(s.h, D, N) /\ s.i \in 1..n /\ SameAbove(s.h, h0, n, N)
    /\ \A c \in 2..n : c # s.i => ~Less(f, s.h, c, c \div 2)
    /\ s.i # 1 => \A c \in 2..n : c \div 2 = s.i => ~Less(f, s.h, c, s.i \div 2)

UpDone(f, s) == s.i = 1 \/ ~Less(f, s.h, s.i, s.i \div 2)

LEMMA UpStepKeeps ==
    ASSUME NEW D, NEW N \in Nat, NEW n \in 0..N, NEW h0, NEW s,
           NEW f \in [D -> Values], UpInv(f, s, h0, D, N, n)
    PROVE  /\ UpInv(f, UpStep(f, s), h0, D, N, n)
           /\ UpDone(f, s) => UpStep(f, s) = s
           /\ ~UpDone(f, s) => UpStep(f, s).i < s.i
<1>1. CASE UpDone(f, s)
  BY <1>1 DEF UpDone, UpStep
<1>2. CASE ~UpDone(f, s)
  <2>1. PICK h, i, p, g : /\ h = s.h /\ i = s.i /\ p = i \div 2 /\ g = Swap(h, p, i)
    OBVIOUS
  <2>2. UpStep(f, s) = [h |-> g, i |-> p]
    BY <1>2, <2>1 DEF UpStep, UpDone
  <2>3. /\ n \in Nat /\ n <= N /\ i \in 1..n /\ i # 1 /\ i \in 2..n /\ Less(f, h, i, p)
    BY <1>2, <2>1 DEF UpInv, UpDone
  <2>4. /\ p \in Nat /\ p >= 1 /\ p < i /\ p \in 1..n /\ p \in 1..N /\ i \in 1..N
    BY <2>1, <2>3, Halves
  <2>5. HeapOver(h, D, N)
    BY <2>1 DEF UpInv
  <2>6. /\ HeapOver(g, D, N)
        /\ g.q[p] = h.q[i] /\ g.q[i] = h.q[p]
        /\ \A m \in 1..N : m # p /\ m # i => g.q[m] = h.q[m]
    <3>1. p # i
      BY <2>3, <2>4
    <3>2. Swapped(Swap(h, p, i), h, p, i, D, N)
      BY <2>4, <2>5, <3>1, SwapHeap
    <3> QED BY <2>1, <3>2 DEF Swapped
  <2>7. PICK V : V = [m \in 1..N |-> f[h.q[m]]]
    OBVIOUS
  <2>8. PICK W : W = [m \in 1..N |-> f[g.q[m]]]
    OBVIOUS
  <2>9. /\ \A m \in 1..N : V[m] \in Values
        /\ \A a, b \in 1..N : Less(f, h, a, b) <=> LessHF(V[a], V[b])
        /\ \A a, b \in 1..N : Less(f, g, a, b) <=> LessHF(W[a], W[b])
    BY <2>5, <2>7, <2>8 DEF HeapOver, Less
  <2>10. /\ W[p] = V[i] /\ W[i] = V[p]
         /\ \A m \in 1..N : m # p /\ m # i => W[m] = V[m]
    BY <2>4, <2>6, <2>7, <2>8
  <2>11. LessHF(V[i], V[p])
    BY <2>3, <2>4, <2>9
  <2>12. ASSUME NEW c \in 2..n, c # i
         PROVE  ~LessHF(V[c], V[c \div 2])
    <3>1. c \in 1..N /\ c \div 2 \in 1..N
      BY <2>3, Halves
    <3>2. ~Less(f, h, c, c \div 2)
      BY <2>1, <2>12 DEF UpInv
    <3> QED BY <2>9, <3>1, <3>2
  <2>13. ASSUME NEW c \in 2..n, c \div 2 = i
         PROVE  ~LessHF(V[c], V[p])
    <3>1. c \in 1..N
      BY <2>3
    <3>2. ~Less(f, h, c, p)
      BY <2>1, <2>3, <2>13 DEF UpInv
    <3> QED BY <2>4, <2>9, <3>1, <3>2
  <2>14. SameAbove(g, h0, n, N)
    BY <2>1, <2>3, <2>4, <2>6 DEF UpInv, SameAbove
  <2>15. ASSUME NEW c \in 2..n, c # p
         PROVE  ~Less(f, g, c, c \div 2)
    <3>1. /\ c \in 1..N /\ c \div 2 \in 1..N /\ c \div 2 < c
      BY <2>3, Halves
    <3>2. CASE c = i
      <4>1. ~LessHF(V[p], V[i])
        BY <2>4, <2>9, <2>11, LessOrder
      <4> QED BY <2>1, <2>4, <2>9, <2>10, <3>1, <3>2, <4>1
    <3>3. CASE c # i /\ c \div 2 = i
      BY <2>9, <2>10, <2>13, <2>15, <3>1, <3>3
    <3>4. CASE c # i /\ c \div 2 = p
      <4>1. ~LessHF(V[c], V[p])
        BY <2>12, <3>4
      <4>2. ~LessHF(V[p], V[i])
        BY <2>4, <2>9, <2>11, LessOrder
      <4>3. ~LessHF(V[c], V[i])
        BY <2>4, <2>9, <3>1, <4>1, <4>2, LessOrder
      <4> QED BY <2>9, <2>10, <2>15, <3>1, <3>4, <4>3
    <3>5. CASE c # i /\ c \div 2 # i /\ c \div 2 # p
      BY <2>9, <2>10, <2>12, <2>15, <3>1, <3>5
    <3> QED BY <3>2, <3>3, <3>4, <3>5
  <2>16. ASSUME p # 1, NEW c \in 2..n, c \div 2 = p
         PROVE  ~Less(f, g, c, p \div 2)
    <3>1. /\ p \in 2..n /\ p \div 2 \in 1..N /\ p \div 2 < p /\ c \in 1..N /\ p < c
      BY <2>3, <2>4, <2>16, Halves
    <3>2. ~LessHF(V[p], V[p \div 2])
      BY <2>4, <2>12, <3>1
    <3>3. W[p \div 2] = V[p \div 2]
      BY <2>4, <2>10, <3>1
    <3>4. CASE c = i
      BY <2>9, <2>10, <3>1, <3>2, <3>3, <3>4
    <3>5. CASE c # i
      <4>1. ~LessHF(V[c], V[p])
        BY <2>12, <2>16, <3>5
      <4>2. ~LessHF(V[c], V[p \div 2])
        BY <2>4, <2>9, <3>1, <3>2, <4>1, LessOrder
      <4>3. W[c] = V[c]
        BY <2>10, <3>1, <3>5
      <4> QED BY <2>9, <3>1, <3>3, <4>2, <4>3
    <3> QED BY <3>4, <3>5
  <2> QED BY <1>2, <2>1, <2>2, <2>4, <2>6, <2>14, <2>15, <2>16 DEF UpInv
<1> QED BY <1>1, <1>2

\* The loop runs: Up is the last of the states that UpStep leads through.
LEMMA UpRuns ==
    ASSUME NEW f, NEW h, NEW j \in Nat
    PROVE  \E g : /\ g[0] = [h |-> h, i |-> j]
                  /\ \A k \in 1..j : g[k] = UpStep(f, g[k - 1])
                  /\ Up(f, h, j) = g[j].h
<1> DEFINE Run(g, n) ==
             g = [k \in 0..n |-> IF k = 0 THEN [h |-> h, i |-> j] ELSE UpStep(f, g[k - 1])]
           T == {n \in Nat : \E g : Run(g, n)}
<1>1. 0 \in T
  <2>1. Run([k \in 0..0 |-> [h |-> h, i |-> j]], 0)
    OBVIOUS
  <2> QED BY <2>1
<1>2. ASSUME NEW n \in Nat, n \in T
      PROVE  n + 1 \in T
  <2>1. PICK g : Run(g, n)
    BY <1>2
  <2>2. PICK e : e = [k \in 0..(n + 1) |-> IF k = n + 1 THEN UpStep(f, g[n]) ELSE g[k]]
    OBVIOUS
  <2>3. ASSUME NEW k \in 0..(n + 1)
        PROVE  e[k] = IF k = 0 THEN [h |-> h, i |-> j] ELSE UpStep(f, e[k - 1])
    <3>1. CASE k = n + 1
      <4>1. k # 0 /\ k - 1 = n /\ n \in 0..(n + 1) /\ n # n + 1
        BY <3>1
      <4>2. e[k] = UpStep(f, g[n]) /\ e[k - 1] = g[n]
        BY <2>2, <3>1, <4>1
      <4> QED BY <4>1, <4>2
    <3>2. CASE k # n + 1
      <4>1. k \in 0..n
        BY <3>2
      <4>2. g[k] = IF k = 0 THEN [h |-> h, i |-> j] ELSE UpStep(f, g[k - 1])
        BY <2>1, <4>1
      <4>3. e[k] = g[k]
        BY <2>2, <3>2
      <4>4. k # 0 => e[k - 1] = g[k - 1]
        BY <2>2, <4>1
      <4> QED BY <4>2, <4>3, <4>4
    <3> QED BY <3>1, <3>2
  <2>4. e = [k \in 0..(n + 1) |-> e[k]]
    BY <2>2
  <2>5. Run(e, n + 1)
    BY <2>3, <2>4
  <2> QED BY <2>5
<1>3. j \in T
  <2> HIDE DEF T
  <2> QED BY <1>1, <1>2, Induction
<1>4. \E g : Run(g, j)
  BY <1>3
<1>5. \E g : Run(g, j) /\ Up(f, h, j) = g[j].h
  BY <1>4 DEF Up
<1>6. PICK g : Run(g, j) /\ Up(f, h, j) = g[j].h
  BY <1>5
<1>7. g[0] = [h |-> h, i |-> j] /\ \A k \in 1..j : g[k] = UpStep(f, g[k - 1])
  <2>1. 0 \in 0..j /\ \A k \in 1..j : k \in 0..j /\ k # 0
    OBVIOUS
  <2>2. \A k \in 0..j : g[k] = IF k = 0 THEN [h |-> h, i |-> j] ELSE UpStep(f, g[k - 1])
    BY <1>6
  <2> QED BY <2>1, <2>2
<1> QED BY <1>6, <1>7

\* up puts the last place of disorder right.
LEMMA UpOrders ==
    ASSUME NEW D, NEW N \in Nat, NEW n \in 0..N, NEW h, NEW j \in 1..n,
           NEW f \in [D -> Values], UpInv(f, [h |-> h, i |-> j], h, D, N, n)
    PROVE  /\ HeapOver(Up(f, h, j), D, N)
           /\ Ordered(f, Up(f, h, j), n)
           /\ SameAbove(Up(f, h, j), h, n, N)
<1>1. j \in Nat /\ n \in Nat
  OBVIOUS
<1>2. PICK g : /\ g[0] = [h |-> h, i |-> j]
               /\ \A k \in 1..j : g[k] = UpStep(f, g[k - 1])
               /\ Up(f, h, j) = g[j].h
  BY <1>1, UpRuns
<1> DEFINE T == {k \in Nat : k <= j => /\ UpInv(f, g[k], h, D, N, n)
                                       /\ UpDone(f, g[k]) \/ g[k].i <= j - k}
<1>3. 0 \in T
  BY <1>1, <1>2
<1>4. ASSUME NEW k \in Nat, k \in T
      PROVE  k + 1 \in T
  <2> SUFFICES ASSUME k + 1 <= j
               PROVE  /\ UpInv(f, g[k + 1], h, D, N, n)
                      /\ UpDone(f, g[k + 1]) \/ g[k + 1].i <= j - (k + 1)
    OBVIOUS
  <2>1. UpInv(f, g[k], h, D, N, n) /\ (UpDone(f, g[k]) \/ g[k].i <= j - k)
    BY <1>1, <1>4
  <2>2. g[k + 1] = UpStep(f, g[k])
    <3>1. k + 1 \in 1..j /\ (k + 1) - 1 = k
      BY <1>1
    <3> QED BY <1>2, <3>1
  <2>3. /\ UpInv(f, g[k + 1], h, D, N, n)
        /\ UpDone(f, g[k]) => g[k + 1] = g[k]
        /\ ~UpDone(f, g[k]) => g[k + 1].i < g[k].i
    <3>1. PICK s : s = g[k]
      OBVIOUS
    <3>2. UpInv(f, s, h, D, N, n)
      BY <2>1, <3>1
    <3>3. /\ UpInv(f, UpStep(f, s), h, D, N, n)
          /\ UpDone(f, s) => UpStep(f, s) = s
          /\ ~UpDone(f, s) => UpStep(f, s).i < s.i
      BY <3>2, UpStepKeeps, SMTT(30)
    <3> QED BY <2>2, <3>1, <3>3
  <2>4. g[k].i \in Nat /\ g[k + 1].i \in Nat
    BY <2>1, <2>3 DEF UpInv
  <2> QED BY <1>1, <2>1, <2>3, <2>4
<1>5. j \in T
  <2> HIDE DEF T
  <2> QED BY <1>1, <1>3, <1>4, Induction
<1>6. UpInv(f, g[j], h, D, N, n) /\ UpDone(f, g[j])
  <2>1. UpInv(f, g[j], h, D, N, n) /\ (UpDone(f, g[j]) \/ g[j].i <= j - j)
    BY <1>1, <1>5
  <2>2. g[j].i \in 1..n
    BY <2>1 DEF UpInv
  <2> QED BY <1>1, <2>1, <2>2
<1>7. Ordered(f, g[j].h, n)
  BY <1>6 DEF UpInv, UpDone, Ordered
<1> QED BY <1>2, <1>6, <1>7 DEF UpInv

-----------------------------------------------------------------------------
(* down: what moves is in order with all but its children, unless it has   *)
(* not moved: then it may be less than its parent too.                     *)

DownInv(f, s, h0, i0, D, N, n) ==
    /\ HeapOver(s.h, D, N) /\ s.i \in 1..n /\ SameAbove(s.h, h0, n, N)
    /\ \A c \in 2..n : c # s.i /\ c \div 2 # s.i => ~Less(f, s.h, c, c \div 2)
    /\ s.i # 1 => \A c \in 2..n : c \div 2 = s.i => ~Less(f, s.h, c, s.i \div 2)
    /\ \/ s.h = h0 /\ s.i = i0
       \/ s.i # 1 => ~Less(f, s.h, s.i, s.i \div 2)

DownDone(f, s, n) == 2 * s.i > n \/ ~Less(f, s.h, Child(f, s.h, s.i, n), s.i)

\* Child is the lesser of the children.
LeastChild(f, h, i, j, n) ==
    /\ j \in 2..n /\ j \div 2 = i /\ j > i
    /\ \A c \in 2..n : c \div 2 = i => ~Less(f, h, c, j)

LEMMA ChildIsLeast ==
    ASSUME NEW D, NEW N \in Nat, NEW n \in 0..N, NEW h, HeapOver(h, D, N),
           NEW f \in [D -> Values], NEW i \in 1..n, 2 * i <= n
    PROVE  LeastChild(f, h, i, Child(f, h, i, n), n)
<1>1. PICK j : j = Child(f, h, i, n)
  OBVIOUS
<1>2. /\ i \in Nat /\ i >= 1 /\ n \in Nat /\ n <= N
  OBVIOUS
<1>3. j = 2 * i \/ (j = 2 * i + 1 /\ 2 * i + 1 <= n)
  BY <1>1 DEF Child
<1>4. j \in 2..n /\ j \div 2 = i /\ j > i
  BY <1>2, <1>3, HalfIs
<1>5. \A m \in 1..N : f[h.q[m]] \in Values
  BY DEF HeapOver
<1>6. ASSUME NEW c \in 2..n, c \div 2 = i
      PROVE  ~Less(f, h, c, j)
  <2>1. c = 2 * i \/ c = 2 * i + 1
    BY <1>2, <1>6, Halves
  <2>2. c \in 1..N /\ j \in 1..N
    BY <1>2, <1>4
  <2>3. CASE c = j
    BY <1>5, <2>2, <2>3, LessOrder DEF Less
  <2>4. CASE c # j /\ c = 2 * i
    <3>1. j = 2 * i + 1 /\ Less(f, h, j, c)
      BY <1>1, <1>3, <2>4 DEF Child
    <3> QED BY <1>5, <2>2, <3>1, LessOrder DEF Less
  <2>5. CASE c # j /\ c = 2 * i + 1
    <3>1. j = 2 * i /\ ~(2 * i + 1 <= n /\ Less(f, h, 2 * i + 1, 2 * i))
      BY <1>1, <1>3, <2>5 DEF Child
    <3> QED BY <1>2, <2>5, <3>1
  <2> QED BY <2>1, <2>3, <2>4, <2>5
<1> QED BY <1>1, <1>4, <1>6 DEF LeastChild

LEMMA DownStepKeeps ==
    ASSUME NEW D, NEW N \in Nat, NEW n \in 0..N, NEW h0, NEW i0, NEW s,
           NEW f \in [D -> Values], DownInv(f, s, h0, i0, D, N, n)
    PROVE  /\ DownInv(f, DownStep(f, s, n), h0, i0, D, N, n)
           /\ DownDone(f, s, n) => DownStep(f, s, n) = s
           /\ ~DownDone(f, s, n) => DownStep(f, s, n).i > s.i
<1>1. CASE DownDone(f, s, n)
  BY <1>1 DEF DownDone, DownStep
<1>2. CASE ~DownDone(f, s, n)
  <2>1. PICK h, i, j, g : /\ h = s.h /\ i = s.i /\ j = Child(f, h, i, n) /\ g = Swap(h, i, j)
    OBVIOUS
  <2>2. DownStep(f, s, n) = [h |-> g, i |-> j]
    BY <1>2, <2>1 DEF DownStep, DownDone
  <2>3. /\ n \in Nat /\ n <= N /\ i \in 1..n /\ i \in Nat /\ 2 * i <= n /\ Less(f, h, j, i)
    BY <1>2, <2>1 DEF DownInv, DownDone
  <2>5. HeapOver(h, D, N)
    BY <2>1 DEF DownInv
  <2>4. /\ j \in 2..n /\ j \div 2 = i /\ j > i
        /\ \A c \in 2..n : c \div 2 = i => ~Less(f, h, c, j)
    <3>1. LeastChild(f, h, i, Child(f, h, i, n), n)
      BY <2>3, <2>5, ChildIsLeast
    <3> QED BY <2>1, <3>1 DEF LeastChild
  <2>x. i \in 1..N /\ j \in 1..N /\ i # j /\ j # 1 /\ j \in 1..n
    BY <2>3, <2>4
  <2>6. /\ HeapOver(g, D, N)
        /\ g.q[i] = h.q[j] /\ g.q[j] = h.q[i]
        /\ \A m \in 1..N : m # i /\ m # j => g.q[m] = h.q[m]
    <3>1. Swapped(Swap(h, i, j), h, i, j, D, N)
      BY <2>5, <2>x, SwapHeap
    <3> QED BY <2>1, <3>1 DEF Swapped
  <2>7. PICK V : V = [m \in 1..N |-> f[h.q[m]]]
    OBVIOUS
  <2>8. PICK W : W = [m \in 1..N |-> f[g.q[m]]]
    OBVIOUS
  <2>9. /\ \A m \in 1..N : V[m] \in Values
        /\ \A a, b \in 1..N : Less(f, h, a, b) <=> LessHF(V[a], V[b])
        /\ \A a, b \in 1..N : Less(f, g, a, b) <=> LessHF(W[a], W[b])
    BY <2>5, <2>7, <2>8 DEF HeapOver, Less
  <2>10. /\ W[i] = V[j] /\ W[j] = V[i]
         /\ \A m \in 1..N : m # i /\ m # j => W[m] = V[m]
    BY <2>x, <2>6, <2>7, <2>8
  <2>11. LessHF(V[j], V[i])
    BY <2>3, <2>x, <2>9
  <2>12. ASSUME NEW c \in 2..n, c # i, c \div 2 # i
         PROVE  ~LessHF(V[c], V[c \div 2])
    <3>1. c \in 1..N /\ c \div 2 \in 1..N
      BY <2>3, Halves
    <3>2. ~Less(f, h, c, c \div 2)
      BY <2>1, <2>12 DEF DownInv
    <3> QED BY <2>9, <3>1, <3>2
  <2>13. SameAbove(g, h0, n, N)
    BY <2>1, <2>3, <2>4, <2>6 DEF DownInv, SameAbove
  <2>14. ASSUME NEW c \in 2..n, c # j, c \div 2 # j
         PROVE  ~Less(f, g, c, c \div 2)
    <3>1. /\ c \in 1..N /\ c \div 2 \in 1..N /\ c \div 2 < c
      BY <2>3, Halves
    <3>2. CASE c = i
      <4>1. i # 1 /\ ~Less(f, h, j, i \div 2)
        BY <2>1, <2>4, <3>2 DEF DownInv
      <4>2. ~LessHF(V[j], V[i \div 2])
        BY <2>9, <2>x, <3>1, <3>2, <4>1
      <4>3. W[i \div 2] = V[i \div 2]
        BY <2>10, <2>14, <3>1, <3>2
      <4> QED BY <2>9, <2>10, <2>x, <3>1, <3>2, <4>2, <4>3
    <3>3. CASE c # i /\ c \div 2 = i
      <4>1. ~LessHF(V[c], V[j])
        BY <2>4, <2>9, <2>x, <3>1, <3>3
      <4> QED BY <2>9, <2>10, <2>14, <3>1, <3>3, <4>1
    <3>4. CASE c # i /\ c \div 2 # i
      BY <2>9, <2>10, <2>12, <2>14, <3>1, <3>4
    <3> QED BY <3>2, <3>3, <3>4
  <2>15. ASSUME NEW c \in 2..n, c \div 2 = j
         PROVE  ~Less(f, g, c, j \div 2)
    <3>1. /\ c \in 1..N /\ c > j /\ c # i /\ c # j
      BY <2>3, <2>4, <2>15, Halves
    <3>2. ~LessHF(V[c], V[j])
      BY <2>12, <2>15, <2>x, <3>1
    <3> QED BY <2>4, <2>9, <2>10, <2>x, <3>1, <3>2
  <2>16. ~Less(f, g, j, j \div 2)
    BY <2>4, <2>9, <2>10, <2>11, <2>x, LessOrder
  <2> QED BY <1>2, <2>1, <2>2, <2>4, <2>x, <2>6, <2>13, <2>14, <2>15, <2>16 DEF DownInv
<1> QED BY <1>1, <1>2

\* The loop runs: Down is the last of the states that DownStep leads through.
LEMMA DownRuns ==
    ASSUME NEW f, NEW h, NEW i, NEW m \in Nat
    PROVE  \E g : /\ g[0] = [h |-> h, i |-> i]
                  /\ \A k \in 1..m : g[k] = DownStep(f, g[k - 1], m)
                  /\ Down(f, h, i, m) = g[m].h
<1> DEFINE Run(g, n) ==
             g = [k \in 0..n |-> IF k = 0 THEN [h |-> h, i |-> i] ELSE DownStep(f, g[k - 1], m)]
           T == {n \in Nat : \E g : Run(g, n)}
<1>1. 0 \in T
  <2>1. Run([k \in 0..0 |-> [h |-> h, i |-> i]], 0)
    OBVIOUS
  <2> QED BY <2>1
<1>2. ASSUME NEW n \in Nat, n \in T
      PROVE  n + 1 \in T
  <2>1. PICK g : Run(g, n)
    BY <1>2
  <2>2. PICK e : e = [k \in 0..(n + 1) |-> IF k = n + 1 THEN DownStep(f, g[n], m) ELSE g[k]]
    OBVIOUS
  <2>3. ASSUME NEW k \in 0..(n + 1)
        PROVE  e[k] = IF k = 0 THEN [h |-> h, i |-> i] ELSE DownStep(f, e[k - 1], m)
    <3>1. CASE k = n + 1
      <4>1. k # 0 /\ k - 1 = n /\ n \in 0..(n + 1) /\ n # n + 1
        BY <3>1
      <4>2. e[k] = DownStep(f, g[n], m) /\ e[k - 1] = g[n]
        BY <2>2, <3>1, <4>1
      <4> QED BY <4>1, <4>2
    <3>2. CASE k # n + 1
      <4>1. k \in 0..n
        BY <3>2
      <4>2. g[k] = IF k = 0 THEN [h |-> h, i |-> i] ELSE DownStep(f, g[k - 1], m)
        BY <2>1, <4>1
      <4>3. e[k] = g[k]
        BY <2>2, <3>2
      <4>4. k # 0 => e[k - 1] = g[k - 1]
        BY <2>2, <4>1
      <4> QED BY <4>2, <4>3, <4>4
    <3> QED BY <3>1, <3>2
  <2>4. e = [k \in 0..(n + 1) |-> e[k]]
    BY <2>2
  <2>5. Run(e, n + 1)
    BY <2>3, <2>4
  <2> QED BY <2>5
<1>3. m \in T
  <2> HIDE DEF T
  <2> QED BY <1>1, <1>2, Induction
<1>4. \E g : Run(g, m)
  BY <1>3
<1>5. \E g : Run(g, m) /\ Down(f, h, i, m) = g[m].h
  BY <1>4 DEF Down
<1>6. PICK g : Run(g, m) /\ Down(f, h, i, m) = g[m].h
  BY <1>5
<1>7. g[0] = [h |-> h, i |-> i] /\ \A k \in 1..m : g[k] = DownStep(f, g[k - 1], m)
  <2>1. 0 \in 0..m /\ \A k \in 1..m : k \in 0..m /\ k # 0
    OBVIOUS
  <2>2. \A k \in 0..m : g[k] = IF k = 0 THEN [h |-> h, i |-> i] ELSE DownStep(f, g[k - 1], m)
    BY <1>6
  <2> QED BY <2>1, <2>2
<1> QED BY <1>6, <1>7

\* What down leaves: all in order; or nothing has moved, and up has its turn.
Sifted(g, f, h, D, N, n) == HeapOver(g, D, N) /\ Ordered(f, g, n) /\ SameAbove(g, h, n, N)

LEMMA DownOrders ==
    ASSUME NEW D, NEW N \in Nat, NEW n \in 0..N, NEW h, NEW i \in 1..n,
           NEW f \in [D -> Values], DownInv(f, [h |-> h, i |-> i], h, i, D, N, n)
    PROVE  \/ Sifted(Down(f, h, i, n), f, h, D, N, n)
           \/ Down(f, h, i, n) = h /\ UpInv(f, [h |-> h, i |-> i], h, D, N, n)
<1>1. n \in Nat /\ i \in Nat
  OBVIOUS
<1>2. PICK g : /\ g[0] = [h |-> h, i |-> i]
               /\ \A k \in 1..n : g[k] = DownStep(f, g[k - 1], n)
               /\ Down(f, h, i, n) = g[n].h
  BY <1>1, DownRuns
<1> DEFINE T == {k \in Nat : k <= n => /\ DownInv(f, g[k], h, i, D, N, n)
                                       /\ DownDone(f, g[k], n) \/ g[k].i >= i + k}
<1>3. 0 \in T
  BY <1>1, <1>2
<1>4. ASSUME NEW k \in Nat, k \in T
      PROVE  k + 1 \in T
  <2> SUFFICES ASSUME k + 1 <= n
               PROVE  /\ DownInv(f, g[k + 1], h, i, D, N, n)
                      /\ DownDone(f, g[k + 1], n) \/ g[k + 1].i >= i + (k + 1)
    OBVIOUS
  <2>1. DownInv(f, g[k], h, i, D, N, n) /\ (DownDone(f, g[k], n) \/ g[k].i >= i + k)
    BY <1>1, <1>4
  <2>2. g[k + 1] = DownStep(f, g[k], n)
    <3>1. k + 1 \in 1..n /\ (k + 1) - 1 = k
      BY <1>1
    <3> QED BY <1>2, <3>1
  <2>3. /\ DownInv(f, g[k + 1], h, i, D, N, n)
        /\ DownDone(f, g[k], n) => g[k + 1] = g[k]
        /\ ~DownDone(f, g[k], n) => g[k + 1].i > g[k].i
    <3>1. PICK s : s = g[k]
      OBVIOUS
    <3>2. DownInv(f, s, h, i, D, N, n)
      BY <2>1, <3>1
    <3>3. /\ DownInv(f, DownStep(f, s, n), h, i, D, N, n)
          /\ DownDone(f, s, n) => DownStep(f, s, n) = s
          /\ ~DownDone(f, s, n) => DownStep(f, s, n).i > s.i
      BY <3>2, DownStepKeeps, SMTT(30)
    <3> QED BY <2>2, <3>1, <3>3
  <2>4. g[k].i \in Nat /\ g[k + 1].i \in Nat
    BY <2>1, <2>3 DEF DownInv
  <2> QED BY <1>1, <2>1, <2>3, <2>4
<1>5. n \in T
  <2> HIDE DEF T
  <2> QED BY <1>1, <1>3, <1>4, Induction
<1>6. PICK s : s = g[n]
  OBVIOUS
<1>7. DownInv(f, s, h, i, D, N, n) /\ DownDone(f, s, n)
  <2>1. DownInv(f, g[n], h, i, D, N, n) /\ (DownDone(f, g[n], n) \/ g[n].i >= i + n)
    BY <1>1, <1>5
  <2>2. g[n].i \in 1..n
    BY <2>1 DEF DownInv
  <2> QED BY <1>1, <1>6, <2>1, <2>2
<1>8. /\ HeapOver(s.h, D, N) /\ s.i \in 1..n /\ s.i \in Nat /\ SameAbove(s.h, h, n, N)
  BY <1>7 DEF DownInv
<1>9. ASSUME NEW c \in 2..n, c \div 2 = s.i
      PROVE  ~Less(f, s.h, c, s.i)
  <2>1. 2 * s.i <= n
    BY <1>1, <1>8, <1>9, Halves
  <2>2. PICK j : j = Child(f, s.h, s.i, n)
    OBVIOUS
  <2>3. LeastChild(f, s.h, s.i, j, n)
    <3>1. PICK r, a : r = s.h /\ a = s.i
      OBVIOUS
    <3>2. LeastChild(f, r, a, Child(f, r, a, n), n)
      BY <1>8, <2>1, <3>1, ChildIsLeast
    <3> QED BY <2>2, <3>1, <3>2
  <2>4. ~Less(f, s.h, c, j) /\ ~Less(f, s.h, j, s.i) /\ j \in 2..n
    BY <1>7, <1>8, <1>9, <2>1, <2>2, <2>3 DEF LeastChild, DownDone
  <2>5. /\ c \in 1..N /\ j \in 1..N /\ s.i \in 1..N
    BY <1>1, <1>8, <2>4
  <2>6. \A m \in 1..N : f[s.h.q[m]] \in Values
    BY <1>8 DEF HeapOver
  <2> QED BY <2>4, <2>5, <2>6, LessOrder DEF Less
<1>10. \A c \in 2..n : c # s.i => ~Less(f, s.h, c, c \div 2)
  BY <1>7, <1>9 DEF DownInv
<1>11. CASE s.i # 1 => ~Less(f, s.h, s.i, s.i \div 2)
  <2>1. Ordered(f, s.h, n)
    BY <1>10, <1>11 DEF Ordered
  <2> QED BY <1>2, <1>6, <1>8, <2>1 DEF Sifted
<1>12. CASE s.h = h /\ s.i = i
  <2>1. UpInv(f, [h |-> h, i |-> i], h, D, N, n)
    BY <1>7, <1>8, <1>10, <1>12 DEF UpInv, DownInv
  <2> QED BY <1>2, <1>6, <1>12, <2>1
<1> QED BY <1>7, <1>11, <1>12 DEF DownInv

\* In a heap in order nothing is less than its grandparent.
LEMMA Grandparent ==
    ASSUME NEW D, NEW N \in Nat, NEW n \in 0..N, NEW h, HeapOver(h, D, N),
           NEW f \in [D -> Values], Ordered(f, h, n),
           NEW c \in 2..n, c \div 2 # 1
    PROVE  ~Less(f, h, c, (c \div 2) \div 2)
<1>1. PICK p : p = c \div 2
  OBVIOUS
<1>2. n \in Nat /\ p \in 2..n
  BY <1>1, Halves
<1>3. ~Less(f, h, c, p) /\ ~Less(f, h, p, p \div 2)
  BY <1>1, <1>2 DEF Ordered
<1>4. c \in 1..N /\ p \in 1..N /\ p \div 2 \in 1..N
  BY <1>2, Halves
<1>5. \A m \in 1..N : f[h.q[m]] \in Values
  BY DEF HeapOver
<1>6. ~Less(f, h, c, p \div 2)
  BY <1>3, <1>4, <1>5, LessOrder DEF Less
<1> QED BY <1>1, <1>6

\* Fix: whichever way the position at place i has to go, the heap is in order again.
LEMMA FixOrders ==
    ASSUME NEW D, NEW N \in Nat, NEW n \in 0..N, NEW h, NEW i \in 1..n,
           NEW f \in [D -> Values], DownInv(f, [h |-> h, i |-> i], h, i, D, N, n)
    PROVE  Sifted(FixUpTo(f, h, i, n), f, h, D, N, n)
<1>1. PICK d : d = Down(f, h, i, n)
  OBVIOUS
<1>2. \/ Sifted(d, f, h, D, N, n)
      \/ d = h /\ UpInv(f, [h |-> h, i |-> i], h, D, N, n)
  BY <1>1, DownOrders
<1>3. CASE d # h
  BY <1>1, <1>2, <1>3 DEF FixUpTo
<1>4. CASE d = h
  <2>1. UpInv(f, [h |-> h, i |-> i], h, D, N, n)
    <3>1. CASE Sifted(d, f, h, D, N, n)
      <4>1. HeapOver(h, D, N) /\ Ordered(f, h, n) /\ SameAbove(h, h, n, N)
        BY <1>4, <3>1 DEF Sifted
      <4>2. \A c \in 2..n : c \div 2 # 1 => ~Less(f, h, c, (c \div 2) \div 2)
        BY <4>1, Grandparent
      <4> QED BY <4>1, <4>2 DEF UpInv, Ordered
    <3> QED BY <1>2, <3>1
  <2>2. Sifted(Up(f, h, i), f, h, D, N, n)
    BY <2>1, UpOrders DEF Sifted
  <2> QED BY <1>1, <1>4, <2>2 DEF FixUpTo
<1> QED BY <1>3, <1>4

-----------------------------------------------------------------------------
(* The operations on the heap.                                             *)

\* A position whose health factor changed is the only one that may be out of order.
LEMMA ChangeOne ==
    ASSUME NEW D, NEW N \in Nat, NEW h, HeapOver(h, D, N), NEW i \in 1..N,
           NEW f \in [D -> Values], NEW g \in [D -> Values], Ordered(f, h, N),
           \A w \in D : w # h.q[i] => g[w] = f[w]
    PROVE  DownInv(g, [h |-> h, i |-> i], h, i, D, N, N)
<1>1. \A m \in 1..N : h.q[m] \in D /\ (m # i => h.q[m] # h.q[i])
  BY DEF HeapOver
<1>2. \A m \in 1..N : m # i => g[h.q[m]] = f[h.q[m]]
  BY <1>1
<1>3. ASSUME NEW c \in 2..N, c # i, c \div 2 # i
      PROVE  ~Less(g, h, c, c \div 2)
  <2>1. c \in 1..N /\ c \div 2 \in 1..N
    BY Halves
  <2>2. ~Less(f, h, c, c \div 2)
    BY DEF Ordered
  <2> QED BY <1>2, <1>3, <2>1, <2>2 DEF Less
<1>4. ASSUME i # 1, NEW c \in 2..N, c \div 2 = i
      PROVE  ~Less(g, h, c, i \div 2)
  <2>1. /\ c \in 1..N /\ c # i
        /\ i \div 2 \in 1..N /\ i \div 2 # i
    BY <1>4, Halves
  <2>2. N \in 0..N
    OBVIOUS
  <2>3. ~Less(f, h, c, (c \div 2) \div 2)
    BY <1>4, <2>2, Grandparent
  <2> QED BY <1>2, <1>4, <2>1, <2>3 DEF Less
<1>5. SameAbove(h, h, N, N)
  BY DEF SameAbove
<1> QED BY <1>3, <1>4, <1>5 DEF DownInv

LEMMA FixHeap ==
    ASSUME NEW D, NEW N \in Nat, NEW h, HeapOver(h, D, N), NEW i \in 1..N,
           NEW f \in [D -> Values], NEW g \in [D -> Values], Ordered(f, h, N),
           \A w \in D : w # h.q[i] => g[w] = f[w], Len(h.q) = N
    PROVE  HeapOver(Fix(g, h, i), D, N) /\ Ordered(g, Fix(g, h, i), N)
<1>1. DownInv(g, [h |-> h, i |-> i], h, i, D, N, N)
  BY ChangeOne
<1>2. N \in 0..N
  OBVIOUS
<1>3. Sifted(FixUpTo(g, h, i, N), g, h, D, N, N)
  BY <1>1, <1>2, FixOrders
<1> QED BY <1>3 DEF Sifted, Fix

LEMMA PushHeap ==
    ASSUME NEW D, NEW N \in Nat, NEW h, HeapOver(h, D, N), NEW u, u \notin D,
           h.q \in Seq(D), Len(h.q) = N,
           NEW f \in [D -> Values], NEW g \in [D \cup {u} -> Values], Ordered(f, h, N),
           \A w \in D : g[w] = f[w]
    PROVE  /\ HeapOver(HeapPush(g, h, u), D \cup {u}, N + 1)
           /\ Ordered(g, HeapPush(g, h, u), N + 1)
<1>1. PICK E, r : E = D \cup {u} /\ r = Push(h, u)
  OBVIOUS
<1>2. /\ r.q \in [1..(N + 1) -> E] /\ r.q[N + 1] = u
      /\ \A m \in 1..N : r.q[m] = h.q[m]
  <2>1. h.q \in Seq(E) /\ u \in E
    BY <1>1
  <2>2. PICK a : a = Append(h.q, u)
    OBVIOUS
  <2>3. /\ a \in Seq(E) /\ Len(a) = N + 1 /\ a[N + 1] = u
        /\ \A m \in 1..N : a[m] = h.q[m]
    BY <2>1, <2>2, AppendProperties
  <2>4. r.q = a
    BY <1>1, <2>2 DEF Push
  <2> QED BY <2>3, <2>4
<1>3. /\ h.q \in [1..N -> D] /\ h.x \in [D -> 1..N]
      /\ \A w \in D : h.q[h.x[w]] = w
      /\ \A m \in 1..N : h.x[h.q[m]] = m
  BY DEF HeapOver
<1>4. /\ r.x \in [E -> 1..(N + 1)] /\ r.x[u] = N + 1
      /\ \A w \in D : r.x[w] = h.x[w]
  <2>1. r.x = [v \in D \cup {u} |-> IF v = u THEN N + 1 ELSE h.x[v]]
    BY <1>1, <1>3 DEF Push
  <2> QED BY <1>1, <1>3, <2>1
<1>5. HeapOver(r, E, N + 1)
  <2>1. \A w \in E : r.q[r.x[w]] = w
    BY <1>1, <1>2, <1>3, <1>4
  <2>2. \A m \in 1..(N + 1) : r.x[r.q[m]] = m
    <3> SUFFICES ASSUME NEW m \in 1..(N + 1) PROVE r.x[r.q[m]] = m
      OBVIOUS
    <3>1. CASE m = N + 1
      BY <1>2, <1>4, <3>1
    <3>2. CASE m # N + 1
      <4>1. m \in 1..N
        BY <3>2
      <4>2. r.q[m] = h.q[m] /\ h.q[m] \in D /\ h.x[h.q[m]] = m
        BY <1>2, <1>3, <4>1
      <4> QED BY <1>4, <4>2
    <3> QED BY <3>1, <3>2
  <2> QED BY <1>2, <1>4, <2>1, <2>2 DEF HeapOver
<1>6. ASSUME NEW c \in 2..(N + 1), c # N + 1
      PROVE  ~Less(g, r, c, c \div 2)
  <2>1. c \in 2..N /\ c \in 1..N /\ c \div 2 \in 1..N
    BY <1>6, Halves
  <2>2. ~Less(f, h, c, c \div 2)
    BY <2>1 DEF Ordered
  <2>3. h.q[c] \in D /\ h.q[c \div 2] \in D
    BY <1>3, <2>1
  <2> QED BY <1>2, <2>1, <2>2, <2>3 DEF Less
<1>7. \A c \in 2..(N + 1) : c \div 2 # N + 1
  BY Halves
<1>8. N + 1 \in Nat /\ N + 1 \in 0..(N + 1) /\ N + 1 \in 1..(N + 1)
  OBVIOUS
<1>9. UpInv(g, [h |-> r, i |-> N + 1], r, E, N + 1, N + 1)
  BY <1>5, <1>6, <1>7, <1>8 DEF UpInv, SameAbove
<1>10. HeapOver(Up(g, r, N + 1), E, N + 1) /\ Ordered(g, Up(g, r, N + 1), N + 1)
  <2>1. g \in [E -> Values]
    BY <1>1
  <2>2. PICK M : M = N + 1
    OBVIOUS
  <2>3. HeapOver(Up(g, r, M), E, M) /\ Ordered(g, Up(g, r, M), M)
    BY <1>8, <1>9, <2>1, <2>2, UpOrders
  <2> QED BY <2>2, <2>3
<1> QED BY <1>1, <1>10 DEF HeapPush

\* Pop takes the last place, and its position with it.
Forget(f, u, D) == [w \in D \ {u} |-> f[w]]

LEMMA PopHeap ==
    ASSUME NEW D, NEW N \in Nat \ {0}, NEW h, HeapOver(h, D, N), NEW u, h.q[N] = u,
           NEW f \in [D -> Values], Ordered(f, h, N - 1)
    PROVE  /\ Pop(h).q \in Seq(D \ {u}) /\ Len(Pop(h).q) = N - 1
           /\ HeapOver([q |-> Pop(h).q, x |-> Forget(Pop(h).x, u, D)], D \ {u}, N - 1)
           /\ Ordered(Forget(f, u, D), [q |-> Pop(h).q, x |-> Forget(Pop(h).x, u, D)], N - 1)
<1>1. PICK E, r, y : E = D \ {u} /\ r = Pop(h).q /\ y = Forget(Pop(h).x, u, D)
  OBVIOUS
<1>2. /\ h.q \in [1..N -> D] /\ h.x \in [D -> 1..N]
      /\ \A w \in D : h.q[h.x[w]] = w
      /\ \A m \in 1..N : h.x[h.q[m]] = m
      /\ N \in 1..N
  BY DEF HeapOver
<1>3. h.q \in Seq(D) /\ Len(h.q) = N
  BY <1>2
<1>4. \A m \in 1..(N - 1) : m \in 1..N /\ h.q[m] \in E
  BY <1>1, <1>2
<1>5. /\ r \in Seq(E) /\ r \in [1..(N - 1) -> E] /\ Len(r) = N - 1
      /\ \A m \in 1..(N - 1) : r[m] = h.q[m]
  <2>1. r = SubSeq(h.q, 1, N - 1)
    BY <1>1, <1>3 DEF Pop, Front
  <2>2. r = [m \in 1..(N - 1) |-> h.q[m]]
    BY <1>3, <2>1
  <2>3. r \in [1..(N - 1) -> E]
    BY <1>4, <2>2
  <2>4. N - 1 \in Nat
    OBVIOUS
  <2> QED BY <2>2, <2>3, <2>4
<1>6. y \in [E -> 1..(N - 1)] /\ \A w \in E : y[w] = h.x[w]
  <2>1. Pop(h).x = [h.x EXCEPT ![u] = -1]
    BY <1>3 DEF Pop, Last
  <2>2. \A w \in E : Pop(h).x[w] = h.x[w]
    BY <1>1, <1>2, <2>1
  <2>3. \A w \in E : h.x[w] \in 1..(N - 1)
    BY <1>1, <1>2
  <2> QED BY <1>1, <2>2, <2>3 DEF Forget
<1>7. HeapOver([q |-> r, x |-> y], E, N - 1)
  <2>1. \A w \in E : r[y[w]] = w
    <3> SUFFICES ASSUME NEW w \in E PROVE r[y[w]] = w
      OBVIOUS
    <3>1. y[w] \in 1..(N - 1) /\ y[w] = h.x[w]
      BY <1>6
    <3>2. r[y[w]] = h.q[h.x[w]]
      BY <1>5, <3>1
    <3> QED BY <1>1, <1>2, <3>2
  <2>2. \A m \in 1..(N - 1) : y[r[m]] = m
    BY <1>2, <1>4, <1>5, <1>6
  <2> QED BY <1>5, <1>6, <2>1, <2>2 DEF HeapOver
<1>8. Ordered(Forget(f, u, D), [q |-> r, x |-> y], N - 1)
  <2> SUFFICES ASSUME NEW c \in 2..(N - 1)
               PROVE  ~LessHF(Forget(f, u, D)[r[c]], Forget(f, u, D)[r[c \div 2]])
    BY DEF Ordered, Less
  <2>1. c \in 1..(N - 1) /\ c \div 2 \in 1..(N - 1)
    BY Halves
  <2>2. \A w \in E : Forget(f, u, D)[w] = f[w]
    BY <1>1 DEF Forget
  <2>3. ~LessHF(f[h.q[c]], f[h.q[c \div 2]])
    BY DEF Ordered, Less
  <2> QED BY <1>4, <1>5, <2>1, <2>2, <2>3
<1> QED BY <1>1, <1>5, <1>7, <1>8

\* Remove brings the position to the last place and the rest in order.
LEMMA RemoveHeap ==
    ASSUME NEW D, NEW N \in Nat, NEW h, HeapOver(h, D, N), Len(h.q) = N, NEW i \in 1..N,
           NEW f \in [D -> Values], Ordered(f, h, N)
    PROVE  \E g : /\ HeapOver(g, D, N) /\ g.q[N] = h.q[i] /\ Ordered(f, g, N - 1)
                  /\ HeapRemove(f, h, i) = Pop(g)
<1>1. N \in Nat \ {0} /\ N - 1 \in 0..N /\ N \in 1..N /\ N - 1 \in Nat
  OBVIOUS
<1>2. CASE i = N
  <2>1. Ordered(f, h, N - 1)
    BY <1>1 DEF Ordered
  <2>2. HeapRemove(f, h, i) = Pop(h)
    BY <1>2 DEF HeapRemove
  <2> QED BY <1>2, <2>1, <2>2
<1>3. CASE i # N
  <2>1. PICK r : r = Swap(h, i, N)
    OBVIOUS
  <2>2. Swapped(r, h, i, N, D, N)
    BY <1>1, <1>3, <2>1, SwapHeap
  <2>3. /\ HeapOver(r, D, N) /\ r.q[N] = h.q[i]
        /\ \A m \in 1..N : m # i /\ m # N => r.q[m] = h.q[m]
    BY <2>2 DEF Swapped
  <2>4. i \in 1..(N - 1)
    BY <1>1, <1>3
  <2>5. ASSUME NEW c \in 2..(N - 1), c # i, c \div 2 # i
        PROVE  ~Less(f, r, c, c \div 2)
    <3>1. c \in 2..N /\ c \in 1..N /\ c # N /\ c \div 2 \in 1..N /\ c \div 2 # N
      BY <1>1, Halves
    <3>2. ~Less(f, h, c, c \div 2)
      BY <3>1 DEF Ordered
    <3> QED BY <2>3, <2>5, <3>1, <3>2 DEF Less
  <2>6. ASSUME i # 1, NEW c \in 2..(N - 1), c \div 2 = i
        PROVE  ~Less(f, r, c, i \div 2)
    <3>1. /\ c \in 2..N /\ c \in 1..N /\ c # N /\ c # i
          /\ i \div 2 \in 1..N /\ i \div 2 # N /\ i \div 2 # i
      BY <1>1, <2>4, <2>6, Halves
    <3>2. N \in 0..N
      OBVIOUS
    <3>3. ~Less(f, h, c, (c \div 2) \div 2)
      BY <2>6, <3>1, <3>2, Grandparent
    <3> QED BY <2>3, <2>6, <3>1, <3>3 DEF Less
  <2>7. SameAbove(r, r, N - 1, N)
    BY DEF SameAbove
  <2>8. DownInv(f, [h |-> r, i |-> i], r, i, D, N, N - 1)
    BY <2>3, <2>4, <2>5, <2>6, <2>7 DEF DownInv
  <2>9. PICK g : g = FixUpTo(f, r, i, N - 1)
    OBVIOUS
  <2>10. Sifted(g, f, r, D, N, N - 1)
    <3>1. PICK M \in 0..N : M = N - 1
      BY <1>1
    <3>2. Sifted(FixUpTo(f, r, i, M), f, r, D, N, M)
      BY <2>4, <2>8, <3>1, FixOrders
    <3> QED BY <2>9, <3>1, <3>2
  <2>11. g.q[N] = r.q[N]
    <3>1. N \in ((N - 1) + 1)..N
      BY <1>1
    <3> QED BY <2>10, <3>1 DEF Sifted, SameAbove
  <2>12. HeapRemove(f, h, i) = Pop(g)
    BY <1>3, <2>1, <2>9 DEF HeapRemove
  <2> QED BY <2>3, <2>10, <2>11, <2>12 DEF Sifted
<1> QED BY <1>2, <1>3

\* The position at the first place is minimal.
LEMMA RootIsMinimal ==
    ASSUME NEW D, NEW N \in Nat, NEW h, HeapOver(h, D, N),
           NEW f \in [D -> Values], Ordered(f, h, N), NEW i \in 1..N
    PROVE  ~Less(f, h, i, 1)
<1>1. PICK U : U = {m \in 1..N : Less(f, h, m, 1)}
  OBVIOUS
<1>2. ASSUME U # {}
      PROVE  FALSE
  <2>1. PICK m \in U : \A k \in U : m <= k
    BY <1>1, <1>2, LeastNat
  <2>2. m \in 1..N /\ Less(f, h, m, 1) /\ 1 \in 1..N
    BY <1>1
  <2>3. \A k \in 1..N : f[h.q[k]] \in Values
    BY DEF HeapOver
  <2>4. m # 1
    BY <2>2, <2>3, LessOrder DEF Less
  <2>5. m \in 2..N /\ m \div 2 \in 1..N /\ m \div 2 < m
    BY <2>2, <2>4, Halves
  <2>6. ~Less(f, h, m, m \div 2) /\ ~Less(f, h, m \div 2, 1)
    BY <1>1, <2>1, <2>5 DEF Ordered
  <2> QED BY <2>2, <2>3, <2>5, <2>6, LessOrder DEF Less
<1> QED BY <1>1, <1>2
-----------------------------------------------------------------------------
(* The scanner.                                                            *)

\* The inductive invariant: the heap is over the map's positions and in order by their
\* health factors, whether RefreshAll is under way or not.
ScannerInv ==
    /\ hf \in [positions -> Values]
    /\ refresh \subseteq positions
    /\ queue \in Seq(positions)
    /\ HeapOver(Heap, positions, Len(queue))
    /\ Ordered(hf, Heap, Len(queue))

\* A heap is a sequence with as many places.
LEMMA HeapIsSeq ==
    ASSUME NEW D, NEW N \in Nat, NEW h, HeapOver(h, D, N)
    PROVE  h.q \in Seq(D) /\ Len(h.q) = N
BY DEF HeapOver

\* What an operation leaves is put together from the heap it returns.
LEMMA InvFrom ==
    ASSUME NEW h, NEW N \in Nat, queue' = h.q, heapIndex' = h.x,
           hf' \in [positions' -> Values], refresh' \subseteq positions',
           HeapOver(h, positions', N), Ordered(hf', h, N)
    PROVE  ScannerInv'
<1>1. queue' \in Seq(positions') /\ Len(queue') = N
  BY HeapIsSeq
<1>2. Heap'.q = h.q /\ Heap'.x = h.x
  BY DEF Heap
<1>3. HeapOver(Heap', positions', N) /\ Ordered(hf', Heap', N)
  BY <1>2 DEF HeapOver, Ordered, Less
<1> QED BY <1>1, <1>3 DEF ScannerInv

LEMMA FixInPlace ==
    ASSUME ScannerInv, NEW u \in positions, NEW v \in Values,
           hf' = [w \in positions |-> IF w = u THEN v ELSE hf[w]],
           LET h == IF heapIndex[u] >= 0 THEN Fix(hf', Heap, heapIndex[u]) ELSE Heap
           IN queue' = h.q /\ heapIndex' = h.x,
           refresh' \subseteq refresh
    PROVE  ScannerInv'
<1>1. PICK N \in Nat : N = Len(queue)
  BY LenProperties DEF ScannerInv
<1>2. /\ HeapOver(Heap, positions, N) /\ Ordered(hf, Heap, N) /\ Len(Heap.q) = N
      /\ hf \in [positions -> Values] /\ Heap.q = queue /\ Heap.x = heapIndex
  BY <1>1 DEF ScannerInv, Heap
<1>3. PICK i \in 1..N : i = heapIndex[u]
  BY <1>2 DEF HeapOver
<1>4. Heap.q[i] = u
  BY <1>2, <1>3 DEF HeapOver
<1>5. PICK g : g = hf'
  OBVIOUS
<1>6. g \in [positions -> Values] /\ \A w \in positions : w # Heap.q[i] => g[w] = hf[w]
  BY <1>2, <1>4, <1>5
<1>7. PICK h : h = Fix(g, Heap, i)
  OBVIOUS
<1>8. HeapOver(h, positions, N) /\ Ordered(g, h, N)
  <2>1. PICK r : r = Heap
    OBVIOUS
  <2>2. HeapOver(Fix(g, r, i), positions, N) /\ Ordered(g, Fix(g, r, i), N)
    BY <1>2, <1>6, <2>1, FixHeap
  <2> QED BY <1>7, <2>1, <2>2
<1>9. queue' = h.q /\ heapIndex' = h.x
  BY <1>3, <1>5, <1>7
<1>10. positions' = positions
  BY DEF positions
<1> QED BY <1>5, <1>6, <1>8, <1>9, <1>10, InvFrom DEF ScannerInv

LEMMA SetStep ==
    ASSUME ScannerInv, NEW u \in User, NEW v \in Values, SetPosition(u, v)
    PROVE  ScannerInv'
<1>1. hf' = [w \in positions \cup {u} |-> IF w = u THEN v ELSE hf[w]] /\ refresh' = refresh /\ refresh = {}
  BY DEF SetPosition
<1>2. CASE u \in positions
  <2>1. hf' = [w \in positions |-> IF w = u THEN v ELSE hf[w]]
    BY <1>1, <1>2
  <2>2. LET h == IF heapIndex[u] >= 0 THEN Fix(hf', Heap, heapIndex[u]) ELSE Heap
        IN queue' = h.q /\ heapIndex' = h.x
    BY <1>2 DEF SetPosition
  <2>3. refresh' \subseteq refresh
    BY <1>1
  <2> QED BY <1>2, <2>1, <2>2, <2>3, FixInPlace
<1>3. CASE u \notin positions
  <2>1. PICK N \in Nat : N = Len(queue)
    BY LenProperties DEF ScannerInv
  <2>2. PICK g, r, h : g = hf' /\ r = Heap /\ h = HeapPush(g, r, u)
    OBVIOUS
  <2>3. /\ HeapOver(r, positions, N) /\ Ordered(hf, r, N) /\ Len(r.q) = N /\ r.q \in Seq(positions)
        /\ hf \in [positions -> Values]
    BY <2>1, <2>2 DEF ScannerInv, Heap
  <2>4. g \in [positions \cup {u} -> Values] /\ \A w \in positions : g[w] = hf[w]
    BY <1>1, <1>3, <2>2, <2>3
  <2>5. HeapOver(h, positions \cup {u}, N + 1) /\ Ordered(g, h, N + 1)
    <3>1. /\ HeapOver(HeapPush(g, r, u), positions \cup {u}, N + 1)
          /\ Ordered(g, HeapPush(g, r, u), N + 1)
      BY <1>3, <2>3, <2>4, PushHeap
    <3> QED BY <2>2, <3>1
  <2>6. queue' = h.q /\ heapIndex' = h.x
    BY <1>3, <2>2 DEF SetPosition
  <2>7. positions' = positions \cup {u} /\ N + 1 \in Nat
    BY <1>1 DEF positions
  <2> QED BY <1>1, <2>2, <2>4, <2>5, <2>6, <2>7, InvFrom
<1> QED BY <1>2, <1>3

LEMMA RemoveStep ==
    ASSUME ScannerInv, NEW u \in User, RemovePosition(u)
    PROVE  ScannerInv'
<1>1. /\ u \in positions /\ refresh' = {}
      /\ hf' = [w \in positions \ {u} |-> hf[w]]
      /\ positions' = positions \ {u}
  BY DEF RemovePosition, positions
<1>2. PICK N \in Nat : N = Len(queue)
  BY LenProperties DEF ScannerInv
<1>3. PICK r : r = Heap
  OBVIOUS
<1>4. /\ HeapOver(r, positions, N) /\ Ordered(hf, r, N) /\ Len(r.q) = N
      /\ hf \in [positions -> Values] /\ r.q = queue /\ r.x = heapIndex
  BY <1>2, <1>3 DEF ScannerInv, Heap
<1>5. PICK i \in 1..N : i = heapIndex[u]
  BY <1>1, <1>4 DEF HeapOver
<1>6. r.q[i] = u
  BY <1>1, <1>4, <1>5 DEF HeapOver
<1>7. PICK g : /\ HeapOver(g, positions, N) /\ g.q[N] = u /\ Ordered(hf, g, N - 1)
               /\ HeapRemove(hf, r, i) = Pop(g)
  <2>1. \E g : /\ HeapOver(g, positions, N) /\ g.q[N] = r.q[i] /\ Ordered(hf, g, N - 1)
              /\ HeapRemove(hf, r, i) = Pop(g)
    BY <1>4, RemoveHeap
  <2> QED BY <1>6, <2>1
<1>8. PICK p : p = Pop(g)
  OBVIOUS
<1>9. queue' = p.q /\ heapIndex' = Forget(p.x, u, positions) /\ hf' = Forget(hf, u, positions)
  BY <1>1, <1>3, <1>5, <1>7, <1>8 DEF RemovePosition, Forget
<1>10. PICK h : h = [q |-> p.q, x |-> Forget(p.x, u, positions)]
  OBVIOUS
<1>11. /\ HeapOver(h, positions \ {u}, N - 1)
       /\ Ordered(Forget(hf, u, positions), h, N - 1)
  <2>1. N \in Nat \ {0}
    BY <1>5
  <2> QED BY <1>4, <1>7, <1>8, <1>10, <2>1, PopHeap
<1>12. queue' = h.q /\ heapIndex' = h.x /\ N - 1 \in Nat
  BY <1>5, <1>9, <1>10
<1>13. hf' \in [positions' -> Values]
  BY <1>1, <1>4
<1> QED BY <1>1, <1>9, <1>11, <1>12, <1>13, InvFrom

LEMMA ScannerStep ==
    ASSUME ScannerInv, [ScannerNext]_vars
    PROVE  ScannerInv'
<1>1. ASSUME NEW u \in User, NEW v \in HF \cup {NilHF}, SetPosition(u, v)
      PROVE  ScannerInv'
  BY <1>1, SetStep DEF Values
<1>2. ASSUME NEW u \in User, RemovePosition(u)
      PROVE  ScannerInv'
  BY <1>2, RemoveStep
<1>3. CASE RefreshAll
  <2>1. UNCHANGED <<hf, queue, heapIndex>> /\ refresh' = positions
    BY <1>3 DEF RefreshAll
  <2> QED BY <2>1 DEF ScannerInv, HeapOver, Ordered, Less, Heap, positions
<1>4. ASSUME NEW u \in User, NEW v \in HF, RefreshOne(u, v)
      PROVE  ScannerInv'
  <2>1. u \in positions /\ v \in Values /\ refresh' \subseteq refresh
    BY <1>4 DEF RefreshOne, ScannerInv, Values
  <2>2. hf' = [w \in positions |-> IF w = u THEN v ELSE hf[w]]
    BY <1>4, <2>1 DEF RefreshOne, ScannerInv
  <2>3. LET h == IF heapIndex[u] >= 0 THEN Fix(hf', Heap, heapIndex[u]) ELSE Heap
        IN queue' = h.q /\ heapIndex' = h.x
    BY <1>4 DEF RefreshOne
  <2> QED BY <2>1, <2>2, <2>3, FixInPlace
<1>5. CASE UNCHANGED vars
  BY <1>5 DEF vars, ScannerInv, HeapOver, Ordered, Less, Heap, positions
<1> QED BY <1>1, <1>2, <1>3, <1>4, <1>5 DEF ScannerNext

LEMMA ScannerStart == ScannerInit => ScannerInv
<1> SUFFICES ASSUME ScannerInit
             PROVE  ScannerInv
  OBVIOUS
<1>1. /\ positions = {} /\ queue = <<>> /\ heapIndex = [u \in {} |-> -1] /\ refresh = {}
      /\ hf = [u \in {} |-> NilHF] /\ Len(queue) = 0
  BY DEF ScannerInit, positions
<1>2. hf \in [positions -> Values] /\ queue \in Seq(positions)
  BY <1>1
<1>3. HeapOver(Heap, positions, 0)
  BY <1>1 DEF HeapOver, Heap
<1>4. Ordered(hf, Heap, 0)
  BY DEF Ordered
<1> QED BY <1>1, <1>2, <1>3, <1>4 DEF ScannerInv

LEMMA ScannerInvariant == ScannerSpec => []ScannerInv
<1>1. ScannerInv /\ [ScannerNext]_vars => ScannerInv'
  BY ScannerStep
<1> QED BY ScannerStart, <1>1, PTL DEF ScannerSpec

\* MostDangerousIsMinimal: however positions are set, refreshed and removed, the first of
\* the heap, which MostDangerous returns, has no position below it.
THEOREM MostDangerousFirst == ScannerSpec => []MostDangerousIsMinimal
<1>1. ScannerInv => MostDangerousIsMinimal
  <2> SUFFICES ASSUME ScannerInv, NEW u \in positions
               PROVE  queue # <<>> /\ ~LessHF(hf[u], hf[queue[1]])
    BY DEF MostDangerousIsMinimal
  <2>1. PICK h : h = Heap
    OBVIOUS
  <2> DEFINE N == Len(queue)
  <2>2. /\ HeapOver(h, positions, N) /\ Ordered(hf, h, N) /\ h.q = queue /\ h.x = heapIndex
        /\ hf \in [positions -> Values]
    BY <2>1 DEF ScannerInv, Heap
  <2>3. heapIndex[u] \in 1..N /\ queue[heapIndex[u]] = u
    BY <2>2 DEF HeapOver
  <2>4. ~Less(hf, h, heapIndex[u], 1)
    BY <2>2, <2>3, RootIsMinimal
  <2>5. queue # <<>>
    BY <2>1, <2>3
  <2> QED BY <2>2, <2>3, <2>4, <2>5 DEF Less
<1> QED BY ScannerInvariant, <1>1, PTL

\* IndexConsistent: each position of the map is in the heap exactly once, at its heapIndex,
\* and nothing else is.
THEOREM HeapIndexed == ScannerSpec => []IndexConsistent
<1>1. ScannerInv => IndexConsistent
  <2> SUFFICES ASSUME ScannerInv
               PROVE  IndexConsistent
    OBVIOUS
  <2>1. PICK N \in Nat : N = Len(queue)
    BY LenProperties DEF ScannerInv
  <2>2. /\ queue \in [1..N -> positions] /\ heapIndex \in [positions -> 1..N]
        /\ \A u \in positions : queue[heapIndex[u]] = u
        /\ \A i \in 1..N : heapIndex[queue[i]] = i
    BY <2>1 DEF ScannerInv, HeapOver, Heap
  <2>3. queue \in Bijection(1..N, positions)
    BY <2>2 DEF Bijection, Injection, IsInjective, Surjection
  <2>4. Cardinality(positions) = N
    BY <2>3, FS_CountingElements DEF ExistsBijection
  <2> QED BY <2>1, <2>2, <2>4 DEF IndexConsistent
<1> QED BY ScannerInvariant, <1>1, PTL
=============================================================================
