------------------------- MODULE PifoQueueDiscProofs ------------------------
(***************************************************************************)
(* Proofs about PrioQueue, for any packets, priorities and limit: that its *)
(* heap stays one although ItemComp is not a strict order, and that the    *)
(* queue therefore implements a PIFO; and about the PifoQueueDisc around   *)
(* it.  PifoAssumption is cited for the latter only.                       *)
(***************************************************************************)
EXTENDS PifoQueueDisc, DataProofs

Prios == [Packets -> Nat]

\* Indices in the proofs are those of TLA+, from 1: the parent of i is i \div 2.
Ordered(heap, prio) == \A i \in 2 .. Len(heap) : prio[heap[i \div 2]] <= prio[heap[i]]

\* Ordered but for j, of which only the children and the parent are known to be in order:
\* j may have to move up,
MayRise(heap, j, prio) ==
  /\ \A i \in 2 .. Len(heap) : i # j => prio[heap[i \div 2]] <= prio[heap[i]]
  /\ \A i \in 2 .. Len(heap) : i \div 2 = j /\ j > 1 => prio[heap[j \div 2]] <= prio[heap[i]]

\* or down.
MaySink(heap, j, prio) ==
  /\ \A i \in 2 .. Len(heap) :
       i # j /\ i \div 2 # j => prio[heap[i \div 2]] <= prio[heap[i]]
  /\ \A i \in 2 .. Len(heap) : i \div 2 = j /\ j > 1 => prio[heap[j \div 2]] <= prio[heap[i]]

\* An array of n packets, those of S.
Holds(heap, S, n) ==
  heap \in Seq(Packets) /\ Len(heap) = n /\ Distinct(heap) /\ ToSet(heap) = S

LEMMA Halves ==
  ASSUME NEW i \in Nat
  PROVE  /\ i \div 2 \in Nat /\ i >= 2 => i \div 2 >= 1 /\ i \div 2 < i
         /\ \A j \in Nat : i \div 2 = j <=> i = 2 * j \/ i = 2 * j + 1
         /\ i >= 2 => (i - 2) \div 2 + 1 = i \div 2
  OBVIOUS

\* Two elements change places.
Swapped(f, j, k) == [f EXCEPT ![j] = f[k], ![k] = f[j]]

LEMMA SwappedHolds ==
  ASSUME NEW S, NEW n \in Nat, NEW f, Holds(f, S, n), NEW j \in 1 .. n, NEW k \in 1 .. n, j # k
  PROVE  /\ Holds(Swapped(f, j, k), S, n)
         /\ Swapped(f, j, k)[j] = f[k] /\ Swapped(f, j, k)[k] = f[j]
         /\ \A i \in 1 .. n : i # j /\ i # k => Swapped(f, j, k)[i] = f[i]
<1> DEFINE g == Swapped(f, j, k)
<1>1. /\ f \in Seq(Packets) /\ Len(f) = n /\ DOMAIN f = 1 .. n
      /\ \A i \in 1 .. n : f[i] \in Packets
  BY DEF Holds
<1> DEFINE a == f[j]
           b == f[k]
           h == [f EXCEPT ![j] = b]
           e == [h EXCEPT ![k] = a]
<1>2. a \in Packets /\ b \in Packets
  BY <1>1
<1>3. g = e
  BY DEF Swapped
<1> HIDE DEF a, b, g
<1>4. /\ h \in Seq(Packets) /\ Len(h) = n
      /\ \A i \in 1 .. n : h[i] = IF i = j THEN b ELSE f[i]
  BY <1>1, <1>2, ExceptSeq
<1> HIDE DEF h
<1>5. /\ e \in Seq(Packets) /\ Len(e) = n
      /\ \A i \in 1 .. n : e[i] = IF i = k THEN a ELSE h[i]
  BY <1>2, <1>4, ExceptSeq
<1> HIDE DEF e
<1>6. /\ g \in Seq(Packets) /\ Len(g) = n /\ DOMAIN g = 1 .. n
      /\ g[j] = f[k] /\ g[k] = f[j]
      /\ \A i \in 1 .. n : i # j /\ i # k => g[i] = f[i]
  <2>1. DOMAIN e = 1 .. n
    BY <1>5, LenProperties
  <2> QED
    BY <1>3, <1>4, <1>5, <2>1 DEF a, b
<1>7. Distinct(g)
  <2> DEFINE at == [i \in 1 .. n |-> IF i = j THEN k ELSE IF i = k THEN j ELSE i]
  <2>1. \A i \in 1 .. n : at[i] \in 1 .. n /\ g[i] = f[at[i]]
    BY <1>6
  <2>2. \A i, m \in 1 .. n : at[i] = at[m] => i = m
    OBVIOUS
  <2> HIDE DEF at
  <2>3. \A i, m \in 1 .. n : f[i] = f[m] => i = m
    BY <1>1 DEF Holds, Distinct
  <2> QED
    BY <1>6, <2>1, <2>2, <2>3 DEF Distinct
<1>8. ToSet(g) = S
  <2>1. \A i \in 1 .. n : g[i] \in ToSet(f)
    BY <1>1, <1>6 DEF ToSet
  <2>2. \A i \in 1 .. n : f[i] \in ToSet(g)
    BY <1>6 DEF ToSet
  <2>3. ToSet(g) \subseteq ToSet(f)
    BY <1>6, <2>1 DEF ToSet
  <2>4. ToSet(f) \subseteq ToSet(g)
    BY <1>1, <2>2 DEF ToSet
  <2> QED
    BY <2>3, <2>4 DEF Holds
<1> QED
  BY <1>6, <1>7, <1>8 DEF Holds, g

\* A heap of n elements with a hole; filled with v, it holds S.
HoleAt(s, v, S, n) ==
  /\ s \in Holes /\ Len(s[1]) = n /\ s[2] \in 0 .. (n - 1)
  /\ Holds(Fill(s, v), S, n)

LEMMA Filled ==
  ASSUME NEW s \in Holes, NEW v \in Packets, s[2] \in 0 .. (Len(s[1]) - 1)
  PROVE  /\ Fill(s, v) \in Seq(Packets) /\ Len(Fill(s, v)) = Len(s[1])
         /\ Fill(s, v)[s[2] + 1] = v
         /\ \A i \in 1 .. Len(s[1]) : i # s[2] + 1 => Fill(s, v)[i] = s[1][i]
<1> DEFINE f == s[1]
           j == s[2] + 1
<1>1. f \in Seq(Packets) /\ j \in 1 .. Len(f)
  BY DEF Holes
<1> HIDE DEF f, j
<1>2. /\ [f EXCEPT ![j] = v] \in Seq(Packets) /\ Len([f EXCEPT ![j] = v]) = Len(f)
      /\ \A i \in 1 .. Len(f) : [f EXCEPT ![j] = v][i] = IF i = j THEN v ELSE f[i]
  BY <1>1, ExceptSeq
<1>3. Fill(s, v) = [f EXCEPT ![j] = v]
  BY DEF Fill, f, j
<1> QED
  BY <1>1, <1>2, <1>3 DEF f, j

LEMMA HoleMoves ==
  ASSUME NEW S, NEW n \in Nat, NEW v \in Packets, NEW s, HoleAt(s, v, S, n),
         NEW to \in 0 .. (n - 1), to # s[2]
  PROVE  /\ HoleAt(MoveHole(s, to), v, S, n) /\ MoveHole(s, to)[2] = to
         /\ Fill(MoveHole(s, to), v)[s[2] + 1] = Fill(s, v)[to + 1]
         /\ Fill(MoveHole(s, to), v)[to + 1] = v
         /\ \A i \in 1 .. n : i # s[2] + 1 /\ i # to + 1 =>
              Fill(MoveHole(s, to), v)[i] = Fill(s, v)[i]
<1> DEFINE f == s[1]
           j == s[2] + 1
           k == to + 1
           h == [f EXCEPT ![j] = f[k]]
           F == Fill(s, v)
           G == Swapped(F, j, k)
<1>1. /\ f \in Seq(Packets) /\ Len(f) = n /\ j \in 1 .. n /\ k \in 1 .. n /\ j # k
      /\ to \in Nat
  BY DEF HoleAt, Holes
<1>2. /\ F \in Seq(Packets) /\ Len(F) = n /\ F[j] = v
      /\ \A i \in 1 .. n : i # j => F[i] = f[i]
  BY Filled DEF HoleAt
<1>3. /\ Holds(G, S, n) /\ G[j] = F[k] /\ G[k] = F[j]
      /\ \A i \in 1 .. n : i # j /\ i # k => G[i] = F[i]
  <2>1. Holds(F, S, n)
    BY DEF HoleAt
  <2>2. j \in 1 .. n /\ k \in 1 .. n /\ j # k
    BY <1>1
  <2> HIDE DEF f, F, j, k
  <2>3. Holds(G, S, n)
    BY <2>1, <2>2, SwappedHolds
  <2> QED
    BY <2>1, <2>2, <2>3, SwappedHolds
<1>4. MoveHole(s, to) = <<h, to>> /\ Fill(MoveHole(s, to), v) = [h EXCEPT ![k] = v]
  BY DEF MoveHole, Fill
<1>5. /\ h \in Seq(Packets) /\ Len(h) = n
      /\ \A i \in 1 .. n : h[i] = IF i = j THEN f[k] ELSE f[i]
  <2>1. f[k] \in Packets
    BY <1>1
  <2> DEFINE w == f[k]
  <2> HIDE DEF f, j, w
  <2>2. /\ [f EXCEPT ![j] = w] \in Seq(Packets) /\ Len([f EXCEPT ![j] = w]) = Len(f)
        /\ \A i \in 1 .. Len(f) : [f EXCEPT ![j] = w][i] = IF i = j THEN w ELSE f[i]
    BY <1>1, <2>1, ExceptSeq DEF w
  <2> QED
    BY <1>1, <2>2 DEF w
<1> HIDE DEF h, f, F, j, k
<1>6. /\ [h EXCEPT ![k] = v] \in Seq(Packets) /\ Len([h EXCEPT ![k] = v]) = n
      /\ \A i \in 1 .. n : [h EXCEPT ![k] = v][i] = IF i = k THEN v ELSE h[i]
  BY <1>1, <1>5, ExceptSeq
<1>7. [h EXCEPT ![k] = v] = G
  <2> DEFINE e == [h EXCEPT ![k] = v]
  <2>1. e \in Seq(Packets) /\ Len(e) = n /\ G \in Seq(Packets) /\ Len(G) = n
    BY <1>3, <1>6 DEF Holds
  <2>2. \A i \in 1 .. n : e[i] = G[i]
    BY <1>1, <1>2, <1>3, <1>5, <1>6
  <2> HIDE DEF e, G
  <2>3. e = G
    BY <2>1, <2>2, SeqEqual
  <2> QED
    BY <2>3 DEF e
<1> HIDE DEF G
<1>8. MoveHole(s, to) \in Holes /\ MoveHole(s, to)[1] = h /\ MoveHole(s, to)[2] = to
  BY <1>1, <1>4, <1>5 DEF Holes
<1>9. HoleAt(MoveHole(s, to), v, S, n)
  BY <1>3, <1>4, <1>5, <1>7, <1>8 DEF HoleAt
<1> QED
  BY <1>2, <1>3, <1>4, <1>7, <1>8, <1>9 DEF F, j, k

-----------------------------------------------------------------------------
(***************************************************************************)
(* Sifting up: as long as the hole moves, what v has passed is in order    *)
(* with it; when it stops, all is.                                         *)
(***************************************************************************)
Rising(s, v, prio, S, n) == HoleAt(s, v, S, n) /\ MayRise(Fill(s, v), s[2] + 1, prio)

LEMMA RiseOnce ==
  ASSUME NEW S, NEW n \in Nat, NEW v \in Packets, NEW prio \in Prios,
         NEW s, Rising(s, v, prio, S, n)
  PROVE  LET t == Up(v, prio)[s]
         IN  /\ Rising(t, v, prio, S, n)
             /\ t[2] < s[2] \/ (t = s /\ Ordered(Fill(s, v), prio))
<1> DEFINE j == s[2] + 1
           k == j \div 2
           parent == (s[2] - 1) \div 2
           F == Fill(s, v)
           G == Fill(MoveHole(s, parent), v)
           climbs == s[2] > 0 /\ ItemComp(s[1][parent + 1], v, prio)
<1>1. /\ s \in Holes /\ s[2] \in Nat /\ j \in 1 .. n /\ Len(s[1]) = n /\ HoleAt(s, v, S, n)
      /\ Holds(F, S, n) /\ MayRise(F, j, prio)
  BY DEF Rising, HoleAt, Holes
<1>2. /\ F \in Seq(Packets) /\ Len(F) = n /\ F[j] = v
      /\ \A i \in 1 .. n : i # j => F[i] = s[1][i]
  BY <1>1, Filled DEF HoleAt
<1>3. Up(v, prio)[s] = IF climbs THEN MoveHole(s, parent) ELSE s
  BY <1>1 DEF Up
<1>4. s[2] > 0 => parent + 1 = k /\ k \in 1 .. (j - 1) /\ parent \in 0 .. (n - 1) /\ j \in 2 .. n
  <2> SUFFICES ASSUME s[2] > 0
               PROVE  parent + 1 = k /\ k \in 1 .. (j - 1) /\ parent \in 0 .. (n - 1) /\ j \in 2 .. n
    OBVIOUS
  <2>1. j \in Nat /\ j >= 2 /\ j <= n /\ s[2] - 1 = j - 2
    BY <1>1
  <2> HIDE DEF j
  <2>2. (j - 2) \div 2 + 1 = j \div 2 /\ j \div 2 \in Nat /\ j \div 2 >= 1 /\ j \div 2 < j
    BY <2>1, Halves
  <2>3. parent + 1 = k
    BY <2>1, <2>2
  <2>4. parent \in Nat /\ parent <= n - 1
    <3>1. s[2] \in Nat /\ s[2] > 0
      BY <1>1
    <3>2. parent \in Int
      BY <3>1
    <3>3. k \in Nat /\ k >= 1 /\ k < j
      BY <2>2
    <3> HIDE DEF k, parent
    <3> QED
      BY <2>1, <2>3, <3>2, <3>3
  <2> QED
    BY <2>1, <2>2, <2>3, <2>4
<1>5. \A i \in 1 .. n : F[i] \in Packets /\ prio[F[i]] \in Nat
  BY <1>2 DEF Prios
<1> HIDE DEF F, G, j, k, parent, climbs
<1>6. CASE climbs
  <2>1. s[2] > 0 /\ k \in 1 .. (j - 1) /\ parent \in 0 .. (n - 1) /\ parent # s[2] /\ j \in 2 .. n
        /\ parent + 1 = k /\ s[2] \in Nat /\ j = s[2] + 1
    BY <1>1, <1>4, <1>6 DEF climbs, j
  <2>2. /\ HoleAt(MoveHole(s, parent), v, S, n) /\ MoveHole(s, parent)[2] = parent
        /\ G[j] = F[k] /\ G[k] = v
        /\ \A i \in 1 .. n : i # j /\ i # k => G[i] = F[i]
    <3>1. HoleAt(MoveHole(s, parent), v, S, n)
      BY <1>1, <2>1, HoleMoves
    <3>2. /\ MoveHole(s, parent)[2] = parent
          /\ G[s[2] + 1] = F[parent + 1] /\ G[parent + 1] = v
          /\ \A i \in 1 .. n : i # s[2] + 1 /\ i # parent + 1 => G[i] = F[i]
      BY <1>1, <2>1, <3>1, HoleMoves DEF F, G
    <3> QED
      BY <2>1, <3>1, <3>2
  <2>3. prio[F[k]] >= prio[v] /\ prio[F[k]] \in Nat /\ prio[v] \in Nat
    <3>1. prio[F[k]] >= prio[v]
      BY <1>2, <1>6, <2>1 DEF climbs, ItemComp
    <3>2. k \in 1 .. n
      BY <1>1, <2>1
    <3>3. prio[v] \in Nat
      BY DEF Prios
    <3> QED
      BY <1>5, <3>1, <3>2, <3>3
  <2>4. MayRise(G, k, prio)
    <3>1. Len(G) = n
      BY <2>2 DEF HoleAt, Holds, G
    <3>2. /\ \A i \in 2 .. n : i # j => prio[F[i \div 2]] <= prio[F[i]]
          /\ \A i \in 2 .. n : i \div 2 = j /\ j > 1 => prio[F[j \div 2]] <= prio[F[i]]
      BY <1>1, <1>2 DEF MayRise
    <3>3. ASSUME NEW i \in 2 .. n, i # k
          PROVE  prio[G[i \div 2]] <= prio[G[i]]
      <4>1. i \in Nat /\ i \div 2 \in 1 .. n /\ i \div 2 < i /\ i \in 1 .. n
        BY Halves
      <4>2. CASE i = j
        <5>1. i \div 2 = k
          BY <4>2 DEF k
        <5> QED
          BY <2>2, <2>3, <4>2, <5>1
      <4>3. CASE i \div 2 = j
        <5>1. G[i] = F[i] /\ prio[F[k]] <= prio[F[i]]
          BY <2>1, <2>2, <3>2, <3>3, <4>1, <4>3 DEF k
        <5> QED
          BY <2>2, <4>3, <5>1
      <4>4. CASE i \div 2 = k /\ i # j
        <5>1. prio[F[i \div 2]] <= prio[F[i]]
          BY <3>2, <4>4
        <5>2. G[i] = F[i]
          BY <2>2, <3>3, <4>1, <4>4
        <5>3. prio[F[i]] \in Nat
          BY <1>5, <4>1
        <5> QED
          BY <2>2, <2>3, <4>4, <5>1, <5>2, <5>3
      <4>5. CASE i # j /\ i \div 2 # j /\ i \div 2 # k
        <5>1. G[i] = F[i] /\ G[i \div 2] = F[i \div 2]
          BY <2>2, <3>3, <4>1, <4>5
        <5>2. prio[F[i \div 2]] <= prio[F[i]]
          BY <3>2, <4>5
        <5> QED
          BY <5>1, <5>2
      <4> QED
        BY <4>2, <4>3, <4>4, <4>5
    <3>4. ASSUME NEW i \in 2 .. n, i \div 2 = k, k > 1
          PROVE  prio[G[k \div 2]] <= prio[G[i]]
      <4> DEFINE g == k \div 2
      <4>1. i \in 1 .. n /\ i # k /\ k \in 2 .. n
        BY <2>1, <3>4, Halves
      <4>2. g \in 1 .. n /\ g # k /\ g # j
        <5>1. g \in 1 .. n /\ g < k
          BY <4>1, Halves
        <5>2. k < j /\ k \in Nat /\ j \in Nat
          BY <2>1
        <5> HIDE DEF g
        <5> QED
          BY <5>1, <5>2
      <4>3. prio[F[g]] <= prio[F[k]]
        <5>1. k # j
          BY <2>1
        <5> QED
          BY <3>2, <4>1, <5>1
      <4> HIDE DEF g
      <4>4. G[g] = F[g]
        BY <2>2, <4>2
      <4>5. CASE i = j
        BY <2>2, <4>3, <4>4, <4>5 DEF g
      <4>6. CASE i # j
        <5>1. prio[F[k]] <= prio[F[i]] /\ G[i] = F[i]
          BY <2>2, <3>2, <3>4, <4>1, <4>6
        <5>2. prio[F[g]] \in Nat /\ prio[F[k]] \in Nat /\ prio[F[i]] \in Nat
          BY <1>5, <4>1, <4>2
        <5> QED
          BY <4>3, <4>4, <5>1, <5>2 DEF g
      <4> QED
        BY <4>5, <4>6
    <3> QED
      BY <3>1, <3>3, <3>4 DEF MayRise
  <2>5. Up(v, prio)[s] = MoveHole(s, parent)
    BY <1>3, <1>6
  <2> QED
    BY <2>1, <2>2, <2>4, <2>5 DEF Rising, G
<1>7. CASE ~ climbs
  <2>1. Up(v, prio)[s] = s
    BY <1>3, <1>7
  <2>2. ASSUME NEW i \in 2 .. n
        PROVE  prio[F[i \div 2]] <= prio[F[i]]
    <3>1. CASE i = j
      <4>1. s[2] > 0 /\ parent + 1 = k /\ k \in 1 .. n /\ k # j /\ k = i \div 2
        BY <1>1, <1>4, <3>1 DEF j, k
      <4>2. ~ (prio[s[1][k]] >= prio[v])
        BY <1>7, <4>1 DEF climbs, ItemComp
      <4>3. F[k] = s[1][k] /\ prio[F[k]] \in Nat /\ prio[v] \in Nat /\ F[i] = v
        BY <1>1, <1>2, <1>5, <3>1, <4>1
      <4> QED
        BY <4>1, <4>2, <4>3
    <3>2. CASE i # j
      BY <1>1, <1>2, <3>2 DEF MayRise
    <3> QED
      BY <3>1, <3>2
  <2>3. Ordered(F, prio)
    BY <1>2, <2>2 DEF Ordered
  <2> QED
    BY <2>1, <2>3 DEF F
<1> QED
  BY <1>6, <1>7

\* The loop ends with v in its place.
LEMMA SiftedUp ==
  ASSUME NEW S, NEW n \in Nat, NEW v \in Packets, NEW prio \in Prios,
         NEW s, Rising(s, v, prio, S, n)
  PROVE  Holds(SiftUp(s, v, prio), S, n) /\ Ordered(SiftUp(s, v, prio), prio)
<1> DEFINE f == Up(v, prio)
           at(k) == Iterate(f, s, k)
           B == {k \in Nat : /\ Rising(at(k), v, prio, S, n)
                             /\ at(k)[2] + k <= s[2] \/ f[at(k)] = at(k)}
<1>0. s[2] \in Nat
  BY DEF Rising, HoleAt
<1>1. 0 \in B
  <2>1. at(0) = s
    BY IterateZero
  <2> QED
    BY <1>0, <2>1
<1>2. ASSUME NEW k \in Nat \cap B
      PROVE  k + 1 \in B
  <2> DEFINE t == at(k)
             u == at(k + 1)
  <2>1. u = f[t]
    BY IterateNext
  <2>2. Rising(t, v, prio, S, n) /\ (t[2] + k <= s[2] \/ f[t] = t)
    OBVIOUS
  <2> HIDE DEF t, u, f
  <2>3. /\ Rising(u, v, prio, S, n)
        /\ u[2] < t[2] \/ u = t
    BY <2>1, <2>2, RiseOnce DEF f
  <2>4. t[2] \in Nat /\ u[2] \in Nat
    BY <2>2, <2>3 DEF Rising, HoleAt
  <2>5. u[2] + (k + 1) <= s[2] \/ f[u] = u
    <3>1. CASE u = t
      BY <2>1, <3>1
    <3>2. CASE u # t
      BY <1>0, <2>1, <2>2, <2>3, <2>4, <3>2
    <3> QED
      BY <3>1, <3>2
  <2> QED
    BY <2>3, <2>5 DEF u
<1>3. s[2] \in B
  <2> HIDE DEF B
  <2> QED
    BY <1>0, <1>1, <1>2, NumberInduction
<1> DEFINE end == at(s[2])
<1>4. Rising(end, v, prio, S, n) /\ (end[2] + s[2] <= s[2] \/ f[end] = end)
  BY <1>3
<1>5. SiftUp(s, v, prio) = Fill(end, v)
  BY DEF SiftUp
<1> HIDE DEF end, f
<1>6. end[2] \in Nat /\ f[end][2] \in Nat
  <2>1. Rising(f[end], v, prio, S, n)
    BY <1>4, RiseOnce DEF f
  <2> QED
    BY <1>4, <2>1 DEF Rising, HoleAt
<1>7. ~ (f[end][2] < end[2])
  BY <1>0, <1>4, <1>6
<1>8. Ordered(Fill(end, v), prio)
  BY <1>4, <1>7, RiseOnce DEF f
<1> QED
  BY <1>4, <1>5, <1>8 DEF Rising, HoleAt

-----------------------------------------------------------------------------
(***************************************************************************)
(* Sifting down: the hole moves to the lesser child, until there is none.  *)
(***************************************************************************)
Sinking(s, v, prio, S, n) == HoleAt(s, v, S, n) /\ MaySink(Fill(s, v), s[2] + 1, prio)

LEMMA SinkOnce ==
  ASSUME NEW S, NEW n \in Nat, NEW v \in Packets, NEW prio \in Prios,
         NEW s, Sinking(s, v, prio, S, n)
  PROVE  LET t == Down(prio)[s]
         IN  \/ Sinking(t, v, prio, S, n) /\ t[2] > s[2]
             \/ t = s /\ Rising(s, v, prio, S, n)
<1> DEFINE j == s[2] + 1
           right == 2 * s[2] + 2
           lesser == right < n /\ ~ ItemComp(s[1][right + 1], s[1][right], prio)
           child == IF lesser THEN right ELSE right - 1
           c == child + 1
           F == Fill(s, v)
           G == Fill(MoveHole(s, child), v)
<1>1. /\ s \in Holes /\ s[2] \in Nat /\ s[2] \in 0 .. (n - 1) /\ j \in 1 .. n /\ Len(s[1]) = n
      /\ HoleAt(s, v, S, n) /\ Holds(F, S, n) /\ MaySink(F, j, prio)
  BY DEF Sinking, HoleAt, Holes
<1>2. /\ F \in Seq(Packets) /\ Len(F) = n /\ F[j] = v
      /\ \A i \in 1 .. n : i # j => F[i] = s[1][i]
  BY <1>1, Filled DEF HoleAt
<1>3. Down(prio)[s] = IF child < n THEN MoveHole(s, child) ELSE s
  BY <1>1 DEF Down
<1>4. \A i \in 1 .. n : F[i] \in Packets /\ prio[F[i]] \in Nat
  BY <1>2 DEF Prios
<1>5. /\ child \in Nat /\ c \in Nat /\ c > j /\ c > 1
      /\ child # s[2] /\ child > s[2] /\ c \div 2 = j
      /\ child >= n => 2 * j > n
  <2>1. CASE lesser
    <3>1. child = right /\ right < n
      BY <2>1
    <3>2. s[2] \in Nat
      BY <1>1
    <3> DEFINE x == s[2]
    <3> HIDE DEF lesser, child, x
    <3> QED
      BY <3>1, <3>2 DEF x
  <2>2. CASE ~ lesser
    BY <1>1, <2>2, SMTT(30)
  <2> HIDE DEF child, c, j, lesser, right
  <2> QED
    BY <2>1, <2>2
<1>6. ASSUME child < n, NEW i \in 2 .. n, i \div 2 = j
      PROVE  prio[F[c]] <= prio[F[i]]
  <2>1. (i = 2 * j \/ i = 2 * j + 1) /\ i \in 1 .. n /\ i # j
    <3>1. j \in Nat /\ i \in Nat /\ j >= 1
      BY <1>1
    <3> HIDE DEF j
    <3> QED
      BY <1>6, <3>1, Halves
  <2>2. 2 * j = right /\ 2 * j + 1 = right + 1 /\ right \in Nat /\ right >= 2 /\ right # j /\ right + 1 # j
    BY <1>1, SMTT(30)
  <2>3. F[i] = s[1][i] /\ prio[F[i]] \in Nat
    BY <1>2, <1>4, <2>1
  <2> HIDE DEF j, F
  <2>4. CASE lesser
    <3>1. c = right + 1 /\ right \in 1 .. n /\ right + 1 \in 1 .. n
      BY <1>6, <2>2, <2>4
    <3> HIDE DEF c, right, child
    <3>2. F[c] = s[1][right + 1] /\ F[right] = s[1][right]
          /\ prio[F[c]] \in Nat /\ prio[F[right]] \in Nat
      BY <1>2, <1>4, <2>2, <3>1
    <3>3. ~ (prio[F[c]] >= prio[F[right]])
      BY <2>4, <3>2 DEF ItemComp
    <3> QED
      BY <2>1, <2>2, <3>1, <3>2, <3>3
  <2>5. CASE ~ lesser
    <3>1. c = right /\ right \in 1 .. n
      BY <1>6, <2>2, <2>5
    <3>2. CASE i = right
      BY <3>1, <3>2, <2>3
    <3>3. CASE i = right + 1
      <4>1. right < n
        BY <2>1, <2>2, <3>3
      <4>2. ItemComp(s[1][right + 1], s[1][right], prio)
        BY <2>5, <4>1
      <4> HIDE DEF c, right, child, lesser
      <4>3. F[c] = s[1][right] /\ prio[F[c]] \in Nat /\ F[i] = s[1][right + 1]
        BY <1>2, <1>4, <2>2, <2>3, <3>1, <3>3
      <4> QED
        BY <2>3, <4>2, <4>3 DEF ItemComp
    <3> QED
      BY <2>1, <2>2, <3>2, <3>3
  <2> QED
    BY <2>4, <2>5
<1> HIDE DEF F, G, child, c, j, lesser, right
<1>7. CASE child < n
  <2>1. /\ child \in 0 .. (n - 1) /\ c = child + 1 /\ c \in 2 .. n /\ c \in 1 .. n /\ j \in 1 .. n
        /\ j < c /\ c \div 2 = j /\ j = s[2] + 1 /\ child # s[2] /\ s[2] \in Nat
    BY <1>1, <1>5, <1>7 DEF c, j
  <2>2. /\ HoleAt(MoveHole(s, child), v, S, n) /\ MoveHole(s, child)[2] = child
        /\ G[j] = F[c] /\ G[c] = v
        /\ \A i \in 1 .. n : i # j /\ i # c => G[i] = F[i]
    <3>1. HoleAt(MoveHole(s, child), v, S, n)
      BY <1>1, <2>1, HoleMoves
    <3>2. /\ MoveHole(s, child)[2] = child
          /\ G[s[2] + 1] = F[child + 1] /\ G[child + 1] = v
          /\ \A i \in 1 .. n : i # s[2] + 1 /\ i # child + 1 => G[i] = F[i]
      <4>1. HoleAt(s, v, S, n) /\ child \in 0 .. (n - 1) /\ child # s[2]
        BY <1>1, <2>1
      <4> QED
        BY <3>1, <4>1, HoleMoves DEF F, G
    <3> QED
      BY <2>1, <3>1, <3>2
  <2>3. MaySink(G, c, prio)
    <3>1. Len(G) = n
      BY <2>2 DEF HoleAt, Holds, G
    <3>2. /\ \A i \in 2 .. n : i # j /\ i \div 2 # j => prio[F[i \div 2]] <= prio[F[i]]
          /\ \A i \in 2 .. n : i \div 2 = j /\ j > 1 => prio[F[j \div 2]] <= prio[F[i]]
      BY <1>1, <1>2 DEF MaySink
    <3>3. ASSUME NEW i \in 2 .. n, i # c, i \div 2 # c
          PROVE  prio[G[i \div 2]] <= prio[G[i]]
      <4>1. i \in Nat /\ i \div 2 \in 1 .. n /\ i \div 2 < i /\ i \in 1 .. n
        BY Halves
      <4>2. CASE i = j
        <5>1. i \div 2 # j /\ i \div 2 # c /\ j > 1
          BY <2>1, <4>1, <4>2
        <5>2. prio[F[j \div 2]] <= prio[F[c]]
          BY <2>1, <3>2, <5>1
        <5> QED
          BY <2>2, <4>1, <4>2, <5>1, <5>2
      <4>3. CASE i \div 2 = j
        <5>1. G[i] = F[i] /\ i # j
          BY <2>2, <3>3, <4>1, <4>3
        <5>2. prio[F[c]] <= prio[F[i]]
          BY <1>6, <1>7, <4>3
        <5> QED
          BY <2>2, <4>3, <5>1, <5>2
      <4>4. CASE i # j /\ i \div 2 # j
        BY <2>2, <3>2, <3>3, <4>1, <4>4
      <4> QED
        BY <4>2, <4>3, <4>4
    <3>4. ASSUME NEW i \in 2 .. n, i \div 2 = c, c > 1
          PROVE  prio[G[c \div 2]] <= prio[G[i]]
      <4>1. i \in 1 .. n /\ i > c /\ i # j /\ i \div 2 # j
        <5>1. i \in Nat /\ i >= 2 /\ c \in Nat /\ j \in Nat
          BY <2>1
        <5>2. i \div 2 < i
          BY <5>1, Halves
        <5> QED
          BY <2>1, <3>4, <5>1, <5>2
      <4>2. prio[F[c]] <= prio[F[i]] /\ G[i] = F[i]
        BY <2>1, <2>2, <3>2, <3>4, <4>1
      <4> QED
        BY <2>1, <2>2, <4>2
    <3> QED
      BY <3>1, <3>3, <3>4 DEF MaySink
  <2>4. Down(prio)[s] = MoveHole(s, child)
    BY <1>3, <1>7
  <2>5. child > s[2]
    BY <1>5
  <2> QED
    BY <2>1, <2>2, <2>3, <2>4, <2>5 DEF Sinking, G
<1>8. CASE ~ (child < n)
  <2>1. Down(prio)[s] = s
    BY <1>3, <1>8
  <2>2. \A i \in 2 .. n : i \div 2 # j
    <3>1. 2 * j > n /\ j \in Nat
      <4>1. j \in Nat
        BY <1>1
      <4>2. child >= n
        BY <1>5, <1>8
      <4> QED
        BY <1>5, <4>1, <4>2
    <3> QED
      BY <3>1, Halves
  <2>3. MayRise(F, j, prio)
    BY <1>1, <1>2, <2>2 DEF MayRise, MaySink
  <2> QED
    BY <1>1, <2>1, <2>3 DEF Rising, F, j
<1> QED
  BY <1>7, <1>8

\* The hole reaches a leaf, and then v rises.
LEMMA SiftedDown ==
  ASSUME NEW S, NEW n \in Nat, NEW v \in Packets, NEW prio \in Prios,
         NEW s, Sinking(s, v, prio, S, n)
  PROVE  Holds(SiftDown(s, v, prio), S, n) /\ Ordered(SiftDown(s, v, prio), prio)
<1> DEFINE f == Down(prio)
           at(k) == Iterate(f, s, k)
           B == {k \in Nat : \/ Sinking(at(k), v, prio, S, n) /\ at(k)[2] >= k
                             \/ Rising(at(k), v, prio, S, n) /\ f[at(k)] = at(k)}
<1>0. s[2] \in Nat /\ n = Len(s[1])
  BY DEF Sinking, HoleAt
<1>1. 0 \in B
  <2>1. at(0) = s
    BY IterateZero
  <2> QED
    BY <1>0, <2>1
<1>2. ASSUME NEW k \in Nat \cap B
      PROVE  k + 1 \in B
  <2> DEFINE t == at(k)
             u == at(k + 1)
  <2>1. u = f[t]
    BY IterateNext
  <2>2. \/ Sinking(t, v, prio, S, n) /\ t[2] >= k
        \/ Rising(t, v, prio, S, n) /\ f[t] = t
    OBVIOUS
  <2> HIDE DEF t, u, f
  <2>3. CASE Sinking(t, v, prio, S, n) /\ t[2] >= k
    <3>1. \/ Sinking(u, v, prio, S, n) /\ u[2] > t[2]
          \/ u = t /\ Rising(t, v, prio, S, n)
      BY <2>1, <2>3, SinkOnce DEF f
    <3>2. CASE Sinking(u, v, prio, S, n) /\ u[2] > t[2]
      <4>1. t[2] \in Nat /\ u[2] \in Nat
        BY <2>3, <3>2 DEF Sinking, HoleAt
      <4>2. u[2] >= k + 1
        BY <2>3, <3>2, <4>1
      <4> QED
        BY <3>2, <4>2 DEF u
    <3>3. CASE u = t /\ Rising(t, v, prio, S, n)
      <4>1. Rising(u, v, prio, S, n) /\ f[u] = u
        BY <2>1, <3>3
      <4> QED
        BY <4>1 DEF u
    <3> QED
      BY <3>1, <3>2, <3>3
  <2>4. CASE Rising(t, v, prio, S, n) /\ f[t] = t
    <3>1. Rising(u, v, prio, S, n) /\ f[u] = u
      BY <2>1, <2>4
    <3> QED
      BY <3>1 DEF u
  <2> QED
    BY <2>2, <2>3, <2>4
<1>3. n \in B
  <2> HIDE DEF B
  <2> QED
    BY <1>1, <1>2, NumberInduction
<1> DEFINE end == at(n)
<1>4. \/ Sinking(end, v, prio, S, n) /\ end[2] >= n
      \/ Rising(end, v, prio, S, n) /\ f[end] = end
  BY <1>3
<1>5. SiftDown(s, v, prio) = SiftUp(end, v, prio)
  BY <1>0 DEF SiftDown
<1> HIDE DEF end, f
<1>6. ~ (Sinking(end, v, prio, S, n) /\ end[2] >= n)
  BY DEF Sinking, HoleAt
<1>7. Rising(end, v, prio, S, n)
  BY <1>4, <1>6
<1> QED
  BY <1>5, <1>7, SiftedUp

-----------------------------------------------------------------------------
(***************************************************************************)
(* What push and pop do with a heap of the packets of S.                   *)
(***************************************************************************)
IsHeap(heap, S, n, prio) == Holds(heap, S, n) /\ Ordered(heap, prio)

LEMMA HeapPushed ==
  ASSUME NEW S, NEW n \in Nat, NEW prio \in Prios, NEW heap, IsHeap(heap, S, n, prio),
         NEW v \in Packets, v \notin S
  PROVE  IsHeap(HeapPush(heap, v, prio), S \cup {v}, n + 1, prio)
<1> DEFINE a == Append(heap, v)
           s == <<a, n>>
<1>1. /\ heap \in Seq(Packets) /\ Len(heap) = n /\ Distinct(heap) /\ ToSet(heap) = S
      /\ Ordered(heap, prio)
  BY DEF IsHeap, Holds
<1>2. /\ a \in Seq(Packets) /\ Len(a) = n + 1 /\ a[n + 1] = v
      /\ \A i \in 1 .. n : a[i] = heap[i]
  BY <1>1
<1>3. Distinct(a) /\ ToSet(a) = S \cup {v}
  BY <1>1, AppendedQueue
<1> HIDE DEF a
<1>4. Fill(s, v) = a
  <2>1. /\ [a EXCEPT ![n + 1] = v] \in Seq(Packets) /\ Len([a EXCEPT ![n + 1] = v]) = Len(a)
        /\ \A i \in 1 .. Len(a) : [a EXCEPT ![n + 1] = v][i] = IF i = n + 1 THEN v ELSE a[i]
    BY <1>2, ExceptSeq
  <2>2. \A i \in 1 .. Len(a) : [a EXCEPT ![n + 1] = v][i] = a[i]
    BY <1>2, <2>1
  <2>3. [a EXCEPT ![n + 1] = v] = a
    BY <1>2, <2>1, <2>2, SeqEqual
  <2> QED
    BY <2>3 DEF Fill
<1>5. s \in Holes /\ s[1] = a /\ s[2] = n
  BY <1>2 DEF Holes
<1>6. MayRise(a, n + 1, prio)
  <2>1. ASSUME NEW i \in 2 .. (n + 1), i # n + 1
        PROVE  prio[a[i \div 2]] <= prio[a[i]]
    <3>1. i \in 2 .. n /\ i \in 1 .. n /\ i \div 2 \in 1 .. n
      BY <2>1, Halves
    <3>2. prio[heap[i \div 2]] <= prio[heap[i]]
      BY <1>1, <3>1 DEF Ordered
    <3> QED
      BY <1>2, <3>1, <3>2
  <2>2. \A i \in 2 .. (n + 1) : i \div 2 # n + 1
    BY Halves
  <2> QED
    BY <1>2, <2>1, <2>2 DEF MayRise
<1>7. Rising(s, v, prio, S \cup {v}, n + 1)
  BY <1>2, <1>3, <1>4, <1>5, <1>6 DEF Rising, HoleAt, Holds
<1>8. HeapPush(heap, v, prio) = SiftUp(s, v, prio)
  BY <1>1 DEF HeapPush, a
<1> HIDE DEF s
<1> QED
  BY <1>7, <1>8, SiftedUp DEF IsHeap

LEMMA HeapPopped ==
  ASSUME NEW S, NEW n \in Nat \ {0}, NEW prio \in Prios, NEW heap, IsHeap(heap, S, n, prio)
  PROVE  heap[1] \in S /\ IsHeap(HeapPop(heap, prio), S \ {heap[1]}, n - 1, prio)
<1> DEFINE top == heap[1]
           v == heap[n]
           a == SubSeq(heap, 1, n - 1)
           s == <<a, 0>>
           e == [a EXCEPT ![1] = v]
           T == S \ {top}
<1>1. /\ heap \in Seq(Packets) /\ Len(heap) = n /\ DOMAIN heap = 1 .. n
      /\ Distinct(heap) /\ ToSet(heap) = S /\ Ordered(heap, prio)
  BY DEF IsHeap, Holds
<1>2. top \in S /\ 1 \in 1 .. n
  BY <1>1 DEF ToSet
<1>3. CASE n = 1
  <2>1. HeapPop(heap, prio) = <<>>
    BY <1>1, <1>3 DEF HeapPop
  <2>2. T = {}
    <3>1. \A i \in DOMAIN heap : heap[i] = top
      BY <1>1, <1>3
    <3> QED
      BY <1>1, <3>1 DEF ToSet
  <2>3. /\ <<>> \in Seq(Packets) /\ Len(<<>>) = 0 /\ ToSet(<<>>) = {} /\ Distinct(<<>>)
        /\ Ordered(<<>>, prio)
    BY DEF ToSet, Distinct, Ordered
  <2> QED
    BY <1>2, <1>3, <2>1, <2>2, <2>3 DEF IsHeap, Holds
<1>4. CASE n # 1
  <2>1. n - 1 \in Nat \ {0} /\ n \in 1 .. n /\ 1 \in 1 .. (n - 1)
    BY <1>4
  <2>2. /\ a \in Seq(Packets) /\ Len(a) = n - 1
        /\ \A i \in 1 .. (n - 1) : a[i] = heap[i]
    BY <1>1, <2>1
  <2>3. v \in Packets /\ \A i \in 1 .. n : heap[i] \in Packets
    BY <1>1, <2>1
  <2>4. HeapPop(heap, prio) = SiftDown(s, v, prio)
    BY <1>1, <1>4 DEF HeapPop, Front, Last
  <2> HIDE DEF a, v, top
  <2>5. /\ e \in Seq(Packets) /\ Len(e) = n - 1
        /\ \A i \in 1 .. (n - 1) : e[i] = IF i = 1 THEN v ELSE a[i]
    BY <2>1, <2>2, <2>3, ExceptSeq
  <2>6. Fill(s, v) = e
    BY DEF Fill
  <2>7. s \in Holes /\ s[1] = a /\ s[2] = 0
    BY <2>2 DEF Holes
  <2> HIDE DEF e, s
  <2> DEFINE at == [i \in 1 .. (n - 1) |-> IF i = 1 THEN n ELSE i]
  <2>8. \A i \in 1 .. (n - 1) : at[i] \in 2 .. n /\ at[i] \in 1 .. n /\ e[i] = heap[at[i]]
    BY <2>1, <2>2, <2>5 DEF v
  <2>9. \A i, j \in 1 .. (n - 1) : at[i] = at[j] => i = j
    OBVIOUS
  <2>10. \A j \in 2 .. n : \E i \in 1 .. (n - 1) : at[i] = j
    <3> SUFFICES ASSUME NEW j \in 2 .. n
                 PROVE  \E i \in 1 .. (n - 1) : at[i] = j
      OBVIOUS
    <3>1. CASE j = n
      <4>1. at[1] = j
        BY <2>1, <3>1
      <4> QED
        BY <2>1, <4>1
    <3>2. CASE j # n
      <4>1. j \in 1 .. (n - 1) /\ at[j] = j
        BY <2>1, <3>2
      <4> QED
        BY <4>1
    <3> QED
      BY <3>1, <3>2
  <2> HIDE DEF at
  <2>11. DOMAIN e = 1 .. (n - 1)
    BY <2>5, LenProperties
  <2>12. Distinct(e)
    <3>1. \A i, j \in 1 .. n : heap[i] = heap[j] => i = j
      BY <1>1 DEF Distinct
    <3> QED
      BY <2>8, <2>9, <2>11, <3>1 DEF Distinct
  <2>13. ToSet(e) = T
    <3>1. \A i \in DOMAIN e : e[i] \in T
      <4> SUFFICES ASSUME NEW i \in 1 .. (n - 1)
                   PROVE  e[i] \in T
        BY <2>11
      <4>1. heap[at[i]] \in S
        BY <1>1, <2>8 DEF ToSet
      <4>2. heap[at[i]] # top
        <5>1. at[i] # 1 /\ at[i] \in DOMAIN heap /\ 1 \in DOMAIN heap
          BY <1>1, <1>2, <2>8
        <5> QED
          BY <1>1, <5>1 DEF Distinct, top
      <4> QED
        BY <2>8, <4>1, <4>2
    <3>2. \A x \in T : \E i \in DOMAIN e : e[i] = x
      <4> SUFFICES ASSUME NEW x \in T
                   PROVE  \E i \in DOMAIN e : e[i] = x
        OBVIOUS
      <4>1. PICK j \in 1 .. n : heap[j] = x
        BY <1>1 DEF ToSet
      <4>2. j \in 2 .. n
        BY <4>1 DEF top
      <4>3. PICK i \in 1 .. (n - 1) : at[i] = j
        BY <2>10, <4>2
      <4> QED
        BY <2>8, <2>11, <4>1, <4>3
    <3> QED
      BY <3>1, <3>2 DEF ToSet
  <2>14. MaySink(e, 1, prio)
    <3>1. ASSUME NEW i \in 2 .. (n - 1), i \div 2 # 1
          PROVE  prio[e[i \div 2]] <= prio[e[i]]
      <4>1. i \in 2 .. n /\ i \in 1 .. (n - 1) /\ i # 1 /\ i \div 2 \in 1 .. (n - 1)
        BY Halves
      <4>2. prio[heap[i \div 2]] <= prio[heap[i]]
        BY <1>1, <4>1 DEF Ordered
      <4>3. e[i] = heap[i] /\ e[i \div 2] = heap[i \div 2]
        BY <2>2, <2>5, <3>1, <4>1
      <4> QED
        BY <4>2, <4>3
    <3> QED
      BY <2>5, <3>1 DEF MaySink
  <2>15. s[2] + 1 = 1 /\ s[2] \in 0 .. ((n - 1) - 1)
    BY <2>1, <2>7
  <2>16. Sinking(s, v, prio, T, n - 1)
    BY <2>2, <2>5, <2>6, <2>7, <2>12, <2>13, <2>14, <2>15 DEF Sinking, HoleAt, Holds
  <2> HIDE DEF T
  <2>17. IsHeap(SiftDown(s, v, prio), T, n - 1, prio)
    BY <2>1, <2>3, <2>16, SiftedDown DEF IsHeap
  <2> QED
    BY <1>2, <2>4, <2>17 DEF T, top
<1> QED
  BY <1>3, <1>4

\* What is on top has the least priority.
LEMMA RootIsLeast ==
  ASSUME NEW S, NEW n \in Nat, NEW prio \in Prios, NEW heap, IsHeap(heap, S, n, prio),
         NEW p \in S
  PROVE  prio[heap[1]] <= prio[p]
<1> DEFINE B == {k \in Nat : \A i \in 1 .. n : i <= k => prio[heap[1]] <= prio[heap[i]]}
<1>1. /\ heap \in Seq(Packets) /\ Len(heap) = n /\ DOMAIN heap = 1 .. n
      /\ ToSet(heap) = S /\ Ordered(heap, prio)
  BY DEF IsHeap, Holds
<1>2. \A i \in 1 .. n : prio[heap[i]] \in Nat
  BY <1>1 DEF Prios
<1>3. 0 \in B
  OBVIOUS
<1>4. ASSUME NEW k \in Nat \cap B
      PROVE  k + 1 \in B
  <2> SUFFICES ASSUME NEW i \in 1 .. n, i <= k + 1
               PROVE  prio[heap[1]] <= prio[heap[i]]
    OBVIOUS
  <2>1. CASE i = 1
    BY <1>2, <2>1
  <2>2. CASE i # 1
    <3>1. i \in 2 .. n /\ i \div 2 \in 1 .. n /\ i \div 2 <= k /\ 1 \in 1 .. n
      BY <2>2, Halves
    <3>2. prio[heap[i \div 2]] <= prio[heap[i]]
      BY <1>1, <3>1 DEF Ordered
    <3>3. prio[heap[1]] <= prio[heap[i \div 2]]
      BY <3>1
    <3>4. prio[heap[1]] \in Nat /\ prio[heap[i \div 2]] \in Nat /\ prio[heap[i]] \in Nat
      BY <1>2, <3>1
    <3> QED
      BY <3>2, <3>3, <3>4
  <2> QED
    BY <2>1, <2>2
<1>5. n \in B
  <2> HIDE DEF B
  <2> QED
    BY <1>3, <1>4, NumberInduction
<1>6. PICK i \in 1 .. n : heap[i] = p
  BY <1>1 DEF ToSet
<1> QED
  BY <1>5, <1>6

\* k packets of those of S have been popped, in the order of their priorities.
Popped(s, S, n, k, prio) ==
  /\ s \in Seq(Packets) \X Seq(Packets) /\ Len(s[2]) = k
  /\ IsHeap(s[1], ToSet(s[1]), n - k, prio)
  /\ ToSet(s[1]) \cup ToSet(s[2]) = S
  /\ \A i \in 1 .. k, p \in S :
       (\A j \in 1 .. i : s[2][j] # p) => prio[s[2][i]] <= prio[p]

LEMMA PopOnce ==
  ASSUME NEW S, NEW n \in Nat, NEW k \in 0 .. (n - 1), NEW prio \in Prios,
         NEW s, Popped(s, S, n, k, prio)
  PROVE  Popped(PopNext(prio)[s], S, n, k + 1, prio)
<1> DEFINE heap == s[1]
           out == s[2]
           top == heap[1]
           rest == HeapPop(heap, prio)
           grown == Append(out, top)
           t == <<rest, grown>>
<1>1. /\ heap \in Seq(Packets) /\ out \in Seq(Packets) /\ Len(out) = k
      /\ IsHeap(heap, ToSet(heap), n - k, prio)
      /\ n - k \in Nat \ {0} /\ k \in Nat
  BY DEF Popped
<1>2. heap # <<>> /\ Len(heap) = n - k
  BY <1>1 DEF IsHeap, Holds
<1>3. PopNext(prio)[s] = t
  <2>1. s \in Seq(Packets) \X Seq(Packets)
    BY DEF Popped
  <2>2. Head(heap) = top
    BY <1>1, <1>2
  <2> QED
    BY <1>2, <2>1, <2>2 DEF PopNext
<1>4. top \in ToSet(heap) /\ IsHeap(rest, ToSet(heap) \ {top}, (n - k) - 1, prio)
  <2> HIDE DEF heap
  <2> QED
    BY <1>1, HeapPopped
<1>5. /\ rest \in Seq(Packets) /\ ToSet(rest) = ToSet(heap) \ {top}
      /\ (n - k) - 1 = n - (k + 1)
  <2>1. (n - k) - 1 = n - (k + 1)
    BY <1>1
  <2> QED
    BY <1>4, <2>1 DEF IsHeap, Holds
<1>6. top \in Packets
  BY <1>1, <1>2
<1> HIDE DEF heap, out, top, rest
<1>7. /\ grown \in Seq(Packets) /\ Len(grown) = k + 1 /\ grown[k + 1] = top
      /\ \A i \in 1 .. k : grown[i] = out[i]
  BY <1>1, <1>6
<1>8. ToSet(grown) = ToSet(out) \cup {top}
  BY <1>1, <1>6, AppendedQueue
<1>9. ToSet(heap) \cup ToSet(out) = S
  BY DEF Popped, heap, out
<1>10. ASSUME NEW i \in 1 .. (k + 1), NEW p \in S, \A j \in 1 .. i : grown[j] # p
       PROVE  prio[grown[i]] <= prio[p]
  <2>1. CASE i \in 1 .. k
    <3>1. \A j \in 1 .. i : out[j] # p
      BY <1>7, <1>10, <2>1
    <3>2. prio[out[i]] <= prio[p]
      BY <2>1, <3>1 DEF Popped, out
    <3> QED
      BY <1>7, <2>1, <3>2
  <2>2. CASE i = k + 1
    <3>1. p \notin ToSet(out)
      <4>1. \A j \in 1 .. k : out[j] # p
        BY <1>7, <1>10, <2>2
      <4>2. DOMAIN out = 1 .. k
        BY <1>1, LenProperties
      <4> QED
        BY <4>1, <4>2 DEF ToSet
    <3>2. p \in ToSet(heap)
      BY <1>9, <3>1
    <3>3. n - k \in Nat
      BY <1>1
    <3>4. prio[top] <= prio[p]
      BY <1>1, <3>2, <3>3, RootIsLeast DEF top
    <3> QED
      BY <1>7, <2>2, <3>4
  <2> QED
    BY <1>1, <2>1, <2>2
<1> HIDE DEF grown
<1>11. t \in Seq(Packets) \X Seq(Packets) /\ t[1] = rest /\ t[2] = grown
  BY <1>5, <1>7
<1> HIDE DEF t
<1>12. ToSet(rest) \cup ToSet(grown) = S
  BY <1>4, <1>5, <1>8, <1>9
<1>13. IsHeap(rest, ToSet(rest), n - (k + 1), prio)
  BY <1>4, <1>5
<1> QED
  BY <1>3, <1>7, <1>10, <1>11, <1>12, <1>13 DEF Popped

LEMMA AllPopped ==
  ASSUME NEW S, NEW n \in Nat, NEW prio \in Prios, NEW heap, IsHeap(heap, S, n, prio)
  PROVE  LET out == PopAll(heap, prio)
         IN  /\ out \in Seq(Packets) /\ Len(out) = n /\ ToSet(out) = S
             /\ \A i \in 1 .. n, p \in S :
                  (\A j \in 1 .. i : out[j] # p) => prio[out[i]] <= prio[p]
<1> DEFINE f == PopNext(prio)
           start == <<heap, <<>>>>
           at(k) == Iterate(f, start, k)
           B == {k \in Nat : k <= n => Popped(at(k), S, n, k, prio)}
<1>1. heap \in Seq(Packets) /\ Len(heap) = n /\ ToSet(heap) = S
  BY DEF IsHeap, Holds
<1>2. 0 \in B
  <2>1. at(0) = start
    BY IterateZero
  <2>2. start \in Seq(Packets) \X Seq(Packets) /\ start[1] = heap /\ start[2] = <<>>
    <3> DEFINE none == <<>>
    <3>1. none \in Seq(Packets)
      OBVIOUS
    <3> HIDE DEF none
    <3>2. <<heap, none>> \in Seq(Packets) \X Seq(Packets)
      BY <1>1, <3>1
    <3> QED
      BY <3>2 DEF none
  <2>3. ToSet(<<>>) = {} /\ Len(<<>>) = 0 /\ n - 0 = n
    BY DEF ToSet
  <2> HIDE DEF start
  <2>4. Popped(start, S, n, 0, prio)
    BY <1>1, <2>2, <2>3 DEF Popped
  <2> QED
    BY <2>1, <2>4
<1>3. ASSUME NEW k \in Nat \cap B
      PROVE  k + 1 \in B
  <2> DEFINE t == at(k)
             u == at(k + 1)
  <2>1. u = f[t]
    BY IterateNext
  <2>2. k <= n => Popped(t, S, n, k, prio)
    OBVIOUS
  <2> HIDE DEF t, u, f
  <2>3. k + 1 <= n => Popped(u, S, n, k + 1, prio)
    <3> SUFFICES ASSUME k + 1 <= n
                 PROVE  Popped(u, S, n, k + 1, prio)
      OBVIOUS
    <3>1. k \in 0 .. (n - 1) /\ k <= n
      OBVIOUS
    <3> QED
      BY <2>1, <2>2, <3>1, PopOnce DEF f
  <2> QED
    BY <2>3 DEF u
<1>4. n \in B
  <2> HIDE DEF B
  <2> QED
    BY <1>2, <1>3, NumberInduction
<1> DEFINE end == at(n)
<1>5. Popped(end, S, n, n, prio)
  BY <1>4
<1>6. PopAll(heap, prio) = end[2]
  BY <1>1 DEF PopAll
<1> HIDE DEF end
<1>7. ToSet(end[1]) = {}
  <2>1. end[1] \in Seq(Packets) /\ Len(end[1]) = 0
    BY <1>5 DEF Popped, IsHeap, Holds
  <2>2. DOMAIN end[1] = {}
    BY <2>1
  <2> QED
    BY <2>2 DEF ToSet
<1> QED
  BY <1>5, <1>6, <1>7 DEF Popped

-----------------------------------------------------------------------------
(***************************************************************************)
(* The inductive invariant of PrioQueue: the array is a heap of packets    *)
(* that were offered and have not left, and the counters are its own.      *)
(***************************************************************************)
PrioTypes ==
  /\ priority \in [Packets -> Priorities]
  /\ nPackets \in Nat /\ nBytes \in Nat
  /\ nReceived \in Nat /\ nDroppedBefore \in Nat /\ nDroppedAfter \in Nat
  /\ offered \subseteq Packets /\ IsFiniteSet(offered)
  /\ left \in Seq(Packets)

PacketsKept ==
  /\ ToSet(items) \subseteq offered
  /\ ToSet(left) \subseteq offered

PrioInv ==
  /\ PrioTypes
  /\ IsHeap(items, ToSet(items), nPackets, priority)
  /\ PacketsKept
  /\ QueueCounters
  /\ WithinLimit

LEMMA PrioInvInit ==
  ASSUME Init
  PROVE  PrioInv
<1>1. /\ items = <<>> /\ left = <<>> /\ offered = {}
      /\ nPackets = 0 /\ nBytes = 0 /\ nReceived = 0 /\ nDroppedBefore = 0 /\ nDroppedAfter = 0
      /\ priority = [p \in Packets |-> 0]
  BY DEF Init
<1>2. /\ <<>> \in Seq(Packets) /\ Len(<<>>) = 0 /\ ToSet(<<>>) = {}
      /\ Distinct(<<>>) /\ Ordered(<<>>, priority)
  BY DEF ToSet, Distinct, Ordered
<1>3. PrioTypes
  BY <1>1, <1>2, PrioQueueAssumption, FS_EmptySet DEF PrioTypes
<1>4. QueueCounters
  <2>1. SumOver(Bytes, ToSet(items)) = 0 /\ Cardinality(offered) = 0
    BY <1>1, <1>2, SumOverEmpty, FS_EmptySet
  <2>2. Len(items) = 0 /\ Len(left) = 0
    BY <1>1, <1>2
  <2> QED
    BY <1>1, <2>1, <2>2 DEF QueueCounters
<1>5. WithinLimit
  BY <1>1, PrioQueueAssumption DEF WithinLimit
<1> QED
  BY <1>1, <1>2, <1>3, <1>4, <1>5 DEF PrioInv, PacketsKept, IsHeap, Holds

LEMMA PrioritiesAreNumbers ==
  ASSUME NEW prio \in [Packets -> Priorities]
  PROVE  prio \in Prios
BY PrioQueueAssumption DEF Prios

LEMMA BytesOfItems ==
  ASSUME PrioInv
  PROVE  /\ IsFiniteSet(ToSet(items)) /\ ToSet(items) \subseteq Packets
         /\ \A p \in Packets : Bytes[p] \in Nat
<1>1. ToSet(items) \subseteq offered /\ offered \subseteq Packets /\ IsFiniteSet(offered)
  BY DEF PrioInv, PacketsKept, PrioTypes
<1> QED
  BY <1>1, FS_Subset, PrioQueueAssumption

\* A priority given to a packet that is not in the heap disturbs nothing.
LEMMA HeapOfOthers ==
  ASSUME PrioInv, NEW p \in Packets, p \notin ToSet(items), NEW r \in Priorities
  PROVE  LET prio == [priority EXCEPT ![p] = r]
         IN  /\ prio \in [Packets -> Priorities] /\ prio \in Prios
             /\ IsHeap(items, ToSet(items), nPackets, prio)
<1> DEFINE prio == [priority EXCEPT ![p] = r]
<1>1. priority \in [Packets -> Priorities] /\ Holds(items, ToSet(items), nPackets)
      /\ Ordered(items, priority) /\ nPackets \in Nat
  BY DEF PrioInv, PrioTypes, IsHeap
<1>2. items \in Seq(Packets) /\ Len(items) = nPackets /\ DOMAIN items = 1 .. nPackets
  BY <1>1 DEF Holds
<1>3. prio \in [Packets -> Priorities] /\ \A q \in Packets : q # p => prio[q] = priority[q]
  BY <1>1
<1>4. \A i \in 1 .. nPackets : items[i] \in Packets /\ items[i] # p
  BY <1>2 DEF ToSet
<1> HIDE DEF prio
<1>5. ASSUME NEW i \in 2 .. Len(items)
      PROVE  prio[items[i \div 2]] <= prio[items[i]]
  <2>1. i \in 1 .. nPackets /\ i \div 2 \in 1 .. nPackets
    BY <1>1, <1>2, Halves
  <2>2. priority[items[i \div 2]] <= priority[items[i]]
    BY <1>1 DEF Ordered
  <2> QED
    BY <1>3, <1>4, <2>1, <2>2
<1>6. Ordered(items, prio)
  BY <1>5 DEF Ordered
<1> QED
  BY <1>1, <1>3, <1>6, PrioritiesAreNumbers DEF IsHeap, prio

LEMMA OfferKeeps ==
  ASSUME PrioInv, NEW p \in Packets, NEW r \in Priorities, Offer(p, r)
  PROVE  PrioInv'
<1>1. /\ p \notin offered /\ p \notin ToSet(items)
      /\ offered' = offered \cup {p} /\ left' = left /\ nDroppedAfter' = nDroppedAfter
      /\ priority' = [priority EXCEPT ![p] = r]
  BY DEF Offer, Enqueue, PrioInv, PacketsKept
<1>2. /\ priority' \in [Packets -> Priorities] /\ priority' \in Prios
      /\ IsHeap(items, ToSet(items), nPackets, priority')
  BY <1>1, HeapOfOthers
<1>3. offered' \subseteq Packets /\ IsFiniteSet(offered')
      /\ Cardinality(offered') = Cardinality(offered) + 1
  BY <1>1, FS_AddElement DEF PrioInv, PrioTypes
<1>4. /\ nPackets \in Nat /\ nBytes \in Nat /\ Bytes[p] \in Nat
      /\ nReceived \in Nat /\ nDroppedBefore \in Nat /\ nDroppedAfter \in Nat
      /\ left \in Seq(Packets) /\ Cardinality(offered) = nReceived + nDroppedBefore
  BY PrioQueueAssumption DEF PrioInv, PrioTypes, QueueCounters
<1>5. ToSet(items) \subseteq offered /\ ToSet(left) \subseteq offered
  BY DEF PrioInv, PacketsKept
<1>6. /\ nPackets = Len(items) /\ nBytes = SumOver(Bytes, ToSet(items))
      /\ nReceived = nPackets + Len(left) /\ nDroppedAfter <= Len(left)
  BY DEF PrioInv, QueueCounters
<1>7. CASE Exceeds(p)
  <2>1. /\ nDroppedBefore' = nDroppedBefore + 1
        /\ items' = items /\ nPackets' = nPackets /\ nBytes' = nBytes /\ nReceived' = nReceived
    BY <1>7 DEF Offer, Enqueue
  <2>2. PrioTypes'
    BY <1>1, <1>2, <1>3, <1>4, <2>1 DEF PrioTypes
  <2>3. IsHeap(items, ToSet(items), nPackets, priority)'
    BY <1>2, <2>1
  <2>4. PacketsKept'
    BY <1>1, <1>5, <2>1 DEF PacketsKept
  <2>5. QueueCounters'
    BY <1>1, <1>3, <1>4, <1>6, <2>1 DEF QueueCounters
  <2>6. WithinLimit'
    BY <2>1 DEF PrioInv, WithinLimit
  <2> QED
    BY <2>2, <2>3, <2>4, <2>5, <2>6 DEF PrioInv
<1>8. CASE ~ Exceeds(p)
  <2>1. /\ items' = HeapPush(items, p, priority')
        /\ nBytes' = nBytes + Bytes[p] /\ nPackets' = nPackets + 1
        /\ nReceived' = nReceived + 1 /\ nDroppedBefore' = nDroppedBefore
    BY <1>8 DEF Offer, Enqueue
  <2>2. IsHeap(items', ToSet(items) \cup {p}, nPackets + 1, priority')
    BY <1>1, <1>2, <1>4, <2>1, HeapPushed
  <2>3. ToSet(items') = ToSet(items) \cup {p} /\ Len(items') = nPackets + 1
    BY <2>2 DEF IsHeap, Holds
  <2>4. PrioTypes'
    BY <1>1, <1>2, <1>3, <1>4, <2>1 DEF PrioTypes
  <2>5. IsHeap(items, ToSet(items), nPackets, priority)'
    BY <2>1, <2>2, <2>3
  <2>6. PacketsKept'
    BY <1>1, <1>5, <2>3 DEF PacketsKept
  <2>7. SumOver(Bytes, ToSet(items) \cup {p}) = SumOver(Bytes, ToSet(items)) + Bytes[p]
    <3>1. \A y \in ToSet(items) \cup {p} : Bytes[y] \in Int
      BY BytesOfItems
    <3> QED
      BY <1>1, <3>1, BytesOfItems, SumOverAdd
  <2>8. QueueCounters'
    <3>1. nBytes' = SumOver(Bytes, ToSet(items'))
      BY <1>6, <2>1, <2>3, <2>7
    <3>2. nPackets' = Len(items')
      BY <2>1, <2>3
    <3>3. Len(left) \in Nat /\ Len(left') = Len(left)
      BY <1>1, <1>4
    <3>4. nReceived' = nPackets' + Len(left')
      BY <1>4, <1>6, <2>1, <3>3
    <3>5. Cardinality(offered') = nReceived' + nDroppedBefore'
      BY <1>3, <1>4, <2>1
    <3> QED
      BY <1>1, <1>6, <3>1, <3>2, <3>3, <3>4, <3>5 DEF QueueCounters
  <2>9. WithinLimit'
    <3>1. IF InBytes THEN nBytes + Bytes[p] <= Limit ELSE nPackets + 1 <= Limit
      BY <1>4, <1>8, PrioQueueAssumption DEF Exceeds
    <3> QED
      BY <2>1, <3>1 DEF WithinLimit
  <2> QED
    BY <2>4, <2>5, <2>6, <2>8, <2>9 DEF PrioInv
<1> QED
  BY <1>7, <1>8

LEMMA TopPopped ==
  ASSUME PrioInv, PopTop
  PROVE  /\ Head(items) = items[1] /\ Head(items) \in ToSet(items)
         /\ left' = Append(left, Head(items))
         /\ ToSet(items') = ToSet(items) \ {Head(items)}
         /\ nPackets \in Nat \ {0} /\ nPackets' = nPackets - 1 /\ nPackets' \in Nat
         /\ IsHeap(items', ToSet(items'), nPackets', priority)
         /\ \A p \in ToSet(items) : priority[Head(items)] <= priority[p]
<1>1. /\ nPackets \in Nat \ {0} /\ nPackets' = nPackets - 1
      /\ items' = HeapPop(items, priority) /\ left' = Append(left, Head(items))
  BY DEF PopTop, PrioInv, PrioTypes
<1>2. IsHeap(items, ToSet(items), nPackets, priority) /\ priority \in Prios
  BY PrioritiesAreNumbers DEF PrioInv, PrioTypes
<1>3. Head(items) = items[1]
  BY <1>1, <1>2 DEF IsHeap, Holds
<1>4. items[1] \in ToSet(items) /\ IsHeap(items', ToSet(items) \ {items[1]}, nPackets - 1, priority)
  BY <1>1, <1>2, HeapPopped
<1>5. ToSet(items') = ToSet(items) \ {items[1]}
  BY <1>4 DEF IsHeap, Holds
<1>6. \A p \in ToSet(items) : priority[items[1]] <= priority[p]
  BY <1>1, <1>2, RootIsLeast
<1>7. nPackets - 1 \in Nat
  BY <1>1
<1> QED
  BY <1>1, <1>3, <1>4, <1>5, <1>6, <1>7

LEMMA PopTopKeeps ==
  ASSUME PrioInv, PopTop,
         priority' = priority /\ offered' = offered /\ nReceived' = nReceived,
         nDroppedBefore' = nDroppedBefore,
         nDroppedAfter' = nDroppedAfter \/ nDroppedAfter' = nDroppedAfter + 1
  PROVE  PrioInv'
<1> DEFINE top == Head(items)
<1>1. /\ top \in ToSet(items) /\ left' = Append(left, top)
      /\ ToSet(items') = ToSet(items) \ {top}
      /\ nPackets \in Nat \ {0} /\ nPackets' = nPackets - 1 /\ nPackets' \in Nat
      /\ IsHeap(items', ToSet(items'), nPackets', priority)
  BY TopPopped
<1>2. nBytes' = nBytes - Bytes[top]
  BY DEF PopTop
<1>3. top \in Packets /\ Bytes[top] \in Nat /\ top \in offered
  BY <1>1, BytesOfItems DEF PrioInv, PacketsKept
<1> HIDE DEF top
<1>4. /\ priority \in [Packets -> Priorities] /\ nBytes \in Nat
      /\ nReceived \in Nat /\ nDroppedBefore \in Nat /\ nDroppedAfter \in Nat
      /\ offered \subseteq Packets /\ IsFiniteSet(offered) /\ left \in Seq(Packets)
      /\ ToSet(items) \subseteq offered /\ ToSet(left) \subseteq offered
      /\ Cardinality(offered) = nReceived + nDroppedBefore
      /\ nPackets = Len(items) /\ nBytes = SumOver(Bytes, ToSet(items))
      /\ nReceived = nPackets + Len(left) /\ nDroppedAfter <= Len(left)
  BY DEF PrioInv, PrioTypes, QueueCounters, PacketsKept
<1>5. /\ left' \in Seq(Packets) /\ Len(left') = Len(left) + 1
      /\ ToSet(left') = ToSet(left) \cup {top} /\ Len(left) \in Nat
  BY <1>1, <1>3, <1>4, AppendedQueue
<1>6. /\ SumOver(Bytes, ToSet(items)) = Bytes[top] + SumOver(Bytes, ToSet(items'))
      /\ SumOver(Bytes, ToSet(items')) \in Nat
  <2>1. /\ IsFiniteSet(ToSet(items)) /\ IsFiniteSet(ToSet(items'))
        /\ \A p \in ToSet(items) : Bytes[p] \in Int
        /\ \A p \in ToSet(items') : Bytes[p] \in Nat
    BY <1>1, BytesOfItems, FS_Subset
  <2> QED
    BY <1>1, <2>1, SumOverRemove, SumOverNat
<1>7. nBytes' = SumOver(Bytes, ToSet(items')) /\ nBytes' \in Nat /\ nBytes' <= nBytes
  BY <1>2, <1>3, <1>4, <1>6, SMTT(30)
<1>8. PrioTypes'
  BY <1>1, <1>4, <1>5, <1>7, SMTT(30) DEF PrioTypes
<1>9. IsHeap(items, ToSet(items), nPackets, priority)'
  BY <1>1
<1>10. PacketsKept'
  BY <1>1, <1>3, <1>4, <1>5 DEF PacketsKept
<1>11. QueueCounters'
  <2>1. nPackets' = Len(items')
    BY <1>1 DEF IsHeap, Holds
  <2> QED
    BY <1>1, <1>4, <1>5, <1>7, <2>1, SMTT(30) DEF QueueCounters
<1>12. WithinLimit'
  <2>1. IF InBytes THEN nBytes <= Limit ELSE nPackets <= Limit
    BY DEF PrioInv, WithinLimit
  <2>2. nPackets' <= nPackets
    BY <1>1
  <2> QED
    BY <1>1, <1>4, <1>7, <2>1, <2>2, PrioQueueAssumption, SMTT(30) DEF WithinLimit
<1> QED
  BY <1>8, <1>9, <1>10, <1>11, <1>12 DEF PrioInv

LEMMA ItemsFlushed ==
  ASSUME PrioInv
  PROVE  LET out == PopAll(items, priority)
         IN  /\ out \in Seq(Packets) /\ Len(out) = nPackets /\ ToSet(out) = ToSet(items)
             /\ \A i \in 1 .. nPackets, p \in ToSet(items) :
                  (\A j \in 1 .. i : out[j] # p) => priority[out[i]] <= priority[p]
<1>1. /\ IsHeap(items, ToSet(items), nPackets, priority) /\ priority \in Prios
      /\ nPackets \in Nat
  BY PrioritiesAreNumbers DEF PrioInv, PrioTypes
<1> QED
  BY <1>1, AllPopped

LEMMA FlushKeeps ==
  ASSUME PrioInv, Flush
  PROVE  PrioInv'
<1> DEFINE out == PopAll(items, priority)
<1>1. /\ items' = <<>> /\ left' = left \o out
      /\ nBytes' = nBytes - SumOver(Bytes, ToSet(items)) /\ nPackets' = nPackets - Len(items)
      /\ nDroppedAfter' = nDroppedAfter + Len(items)
      /\ priority' = priority /\ nReceived' = nReceived /\ nDroppedBefore' = nDroppedBefore
      /\ offered' = offered
  BY DEF Flush
<1>2. /\ priority \in [Packets -> Priorities] /\ nPackets \in Nat /\ nBytes \in Nat
      /\ nReceived \in Nat /\ nDroppedBefore \in Nat /\ nDroppedAfter \in Nat
      /\ offered \subseteq Packets /\ IsFiniteSet(offered) /\ left \in Seq(Packets)
      /\ ToSet(items) \subseteq offered /\ ToSet(left) \subseteq offered
      /\ Cardinality(offered) = nReceived + nDroppedBefore
      /\ nPackets = Len(items) /\ nBytes = SumOver(Bytes, ToSet(items))
      /\ nReceived = nPackets + Len(left) /\ nDroppedAfter <= Len(left)
  BY DEF PrioInv, PrioTypes, QueueCounters, PacketsKept
<1>3. out \in Seq(Packets) /\ Len(out) = nPackets /\ ToSet(out) = ToSet(items)
  BY ItemsFlushed
<1> HIDE DEF out
<1>4. /\ left' \in Seq(Packets) /\ Len(left') = Len(left) + nPackets /\ Len(left) \in Nat
      /\ DOMAIN left' = 1 .. (Len(left) + nPackets)
      /\ \A i \in 1 .. (Len(left) + nPackets) :
           left'[i] = IF i <= Len(left) THEN left[i] ELSE out[i - Len(left)]
  BY <1>1, <1>2, <1>3, SMTT(30)
<1>5. ToSet(left') \subseteq offered
  <2>1. \A i \in 1 .. Len(left) : left[i] \in offered
    BY <1>2 DEF ToSet
  <2>2. \A i \in 1 .. nPackets : out[i] \in offered
    <3>1. DOMAIN out = 1 .. nPackets
      BY <1>3, LenProperties
    <3> QED
      BY <1>2, <1>3, <3>1 DEF ToSet
  <2>3. \A i \in 1 .. (Len(left) + nPackets) : left'[i] \in offered
    <3> SUFFICES ASSUME NEW i \in 1 .. (Len(left) + nPackets)
                 PROVE  left'[i] \in offered
      OBVIOUS
    <3>1. i <= Len(left) => i \in 1 .. Len(left)
      BY <1>4
    <3>2. ~ (i <= Len(left)) => i - Len(left) \in 1 .. nPackets
      BY <1>2, <1>4
    <3> QED
      BY <1>4, <2>1, <2>2, <3>1, <3>2
  <2> QED
    BY <1>4, <2>3 DEF ToSet
<1>6. /\ <<>> \in Seq(Packets) /\ Len(<<>>) = 0 /\ ToSet(<<>>) = {}
      /\ Distinct(<<>>) /\ Ordered(<<>>, priority)
  BY DEF ToSet, Distinct, Ordered
<1>7. nPackets' = 0 /\ nBytes' = 0
  BY <1>1, <1>2
<1>8. PrioTypes'
  BY <1>1, <1>2, <1>4, <1>7 DEF PrioTypes
<1>9. IsHeap(items, ToSet(items), nPackets, priority)'
  BY <1>1, <1>6, <1>7 DEF IsHeap, Holds
<1>10. PacketsKept'
  BY <1>1, <1>5, <1>6 DEF PacketsKept
<1>11. QueueCounters'
  <2>1. SumOver(Bytes, ToSet(items')) = 0 /\ Len(items') = 0
    BY <1>1, <1>6, SumOverEmpty
  <2> QED
    BY <1>1, <1>2, <1>4, <1>7, <2>1 DEF QueueCounters
<1>12. WithinLimit'
  BY <1>7, PrioQueueAssumption DEF WithinLimit
<1> QED
  BY <1>8, <1>9, <1>10, <1>11, <1>12 DEF PrioInv

LEMMA PrioStep ==
  ASSUME PrioInv, [Next]_prioVars
  PROVE  PrioInv'
<1>1. ASSUME NEW p \in Packets, NEW r \in Priorities, Offer(p, r)
      PROVE  PrioInv'
  BY <1>1, OfferKeeps
<1>2. CASE Dequeue
  BY <1>2, PopTopKeeps DEF Dequeue
<1>3. CASE DoRemove
  BY <1>3, PopTopKeeps DEF DoRemove
<1>4. CASE Flush
  BY <1>4, FlushKeeps
<1>5. CASE UNCHANGED prioVars
  BY <1>5 DEF prioVars, counters, PrioInv, PrioTypes, IsHeap, Holds, Ordered, PacketsKept,
              QueueCounters, WithinLimit, Distinct, ToSet
<1> QED
  BY <1>1, <1>2, <1>3, <1>4, <1>5 DEF Next

LEMMA PrioTypeOK ==
  ASSUME PrioInv
  PROVE  TypeOK
<1>1. items \in Seq(Packets)
  BY DEF PrioInv, IsHeap, Holds
<1> QED
  BY <1>1 DEF PrioInv, PrioTypes, TypeOK

LEMMA PrioHeap ==
  ASSUME PrioInv
  PROVE  HeapOrdered
BY DEF PrioInv, IsHeap, Ordered, HeapOrdered

\* The counters of the queue are those of its array, and the limit is kept.
THEOREM PrioTypeCorrect == Spec => []TypeOK
<1>1. Init => PrioInv
  BY PrioInvInit
<1>2. PrioInv /\ [Next]_prioVars => PrioInv'
  BY PrioStep
<1>3. PrioInv => TypeOK
  BY PrioTypeOK
<1> QED
  BY <1>1, <1>2, <1>3, PTL DEF Spec

\* The array stays a heap, although ItemComp is not a strict order.
THEOREM HeapStaysOrdered == Spec => []HeapOrdered
<1>1. Init => PrioInv
  BY PrioInvInit
<1>2. PrioInv /\ [Next]_prioVars => PrioInv'
  BY PrioStep
<1>3. PrioInv => HeapOrdered
  BY PrioHeap
<1> QED
  BY <1>1, <1>2, <1>3, PTL DEF Spec

-----------------------------------------------------------------------------
(***************************************************************************)
(* PrioQueue implements a PIFO, step by step.                              *)
(***************************************************************************)
LEMMA PifoInitially ==
  ASSUME Init
  PROVE  PifoQueue!Init
<1>1. ToSet(<<>>) = {}
  BY DEF ToSet
<1> QED
  BY <1>1, PrioQueueAssumption DEF Init, PifoQueue!Init

LEMMA OfferPushes ==
  ASSUME PrioInv, NEW p \in Packets, NEW r \in Priorities, Offer(p, r), ~ Exceeds(p)
  PROVE  ToSet(items') = ToSet(items) \cup {p}
<1>1. /\ p \notin ToSet(items) /\ priority' = [priority EXCEPT ![p] = r]
      /\ items' = HeapPush(items, p, priority')
  BY DEF Offer, Enqueue, PrioInv, PacketsKept
<1>2. /\ priority' \in Prios /\ IsHeap(items, ToSet(items), nPackets, priority')
      /\ nPackets \in Nat
  BY <1>1, HeapOfOthers DEF PrioInv, PrioTypes
<1>3. IsHeap(items', ToSet(items) \cup {p}, nPackets + 1, priority')
  BY <1>1, <1>2, HeapPushed
<1> QED
  BY <1>3 DEF IsHeap, Holds

LEMMA OfferIsPush ==
  ASSUME PrioInv, NEW p \in Packets, NEW r \in Priorities, Offer(p, r)
  PROVE  PifoQueue!Next
<1>1. /\ p \notin offered /\ p \notin ToSet(items) /\ left' = left
      /\ priority' = [priority EXCEPT ![p] = r]
  BY DEF Offer, Enqueue, PrioInv, PacketsKept
<1>2. CASE Exceeds(p)
  <2>1. items' = items
    BY <1>2 DEF Offer, Enqueue
  <2>2. PifoQueue!Rank(p, r)
    BY <1>1, <2>1 DEF PifoQueue!Rank
  <2> QED
    BY <2>2 DEF PifoQueue!Next
<1>3. CASE ~ Exceeds(p)
  <2>1. ToSet(items') = ToSet(items) \cup {p}
    BY <1>3, OfferPushes
  <2>2. ~ PifoQueue!HasLeft(p)
    BY <1>1 DEF PifoQueue!HasLeft, PrioInv, PacketsKept, ToSet
  <2>3. PifoQueue!Push(p, r)
    BY <1>1, <2>1, <2>2 DEF PifoQueue!Push
  <2> QED
    BY <2>3 DEF PifoQueue!Next
<1> QED
  BY <1>2, <1>3

\* What is popped, one packet or all of them, may leave a PIFO in this order.
LEMMA PoppedLeaves ==
  ASSUME PrioInv, NEW n \in Nat \ {0}, NEW out \in Seq(Packets), Len(out) = n,
         ToSet(out) \subseteq ToSet(items),
         \A i \in 1 .. n, p \in ToSet(items) :
           (\A j \in 1 .. i : out[j] # p) => priority[out[i]] <= priority[p],
         left' = left \o out, ToSet(items') = ToSet(items) \ ToSet(out), priority' = priority
  PROVE  PifoQueue!Next
<1> DEFINE m == Len(left)
           S == ToSet(out)
           s == left'
<1>1. left \in Seq(Packets) /\ m \in Nat /\ DOMAIN out = 1 .. n
  BY LenProperties DEF PrioInv, PrioTypes
<1>2. /\ s \in Seq(Packets) /\ Len(s) = m + n
      /\ \A i \in 1 .. (m + n) : s[i] = IF i <= m THEN left[i] ELSE out[i - m]
  <2>1. /\ left \o out \in Seq(Packets) /\ Len(left \o out) = m + n
        /\ \A i \in 1 .. (m + n) : (left \o out)[i] = IF i <= m THEN left[i] ELSE out[i - m]
    BY <1>1, ConcatProperties
  <2>2. s = left \o out
    OBVIOUS
  <2> QED
    BY ONLY <2>1, <2>2
<1>3. S # {} /\ S \subseteq ToSet(items)
  <2>1. 1 \in DOMAIN out
    BY <1>1
  <2>2. out[1] \in S
    BY <2>1 DEF ToSet
  <2> QED
    BY <2>2
<1>4. Len(s) - m \in Nat
  BY <1>1, <1>2
<1>5. SubSeq(s, 1, m) = left
  <2>1. \A i \in 1 .. m : s[i] = left[i] /\ left[i] \in Packets
    BY <1>1, <1>2
  <2>2. \A i \in 1 .. m : s[i] \in Packets
    BY <2>1
  <2> HIDE DEF s, m
  <2>3. /\ SubSeq(s, 1, m) \in Seq(Packets) /\ Len(SubSeq(s, 1, m)) = m
        /\ \A i \in 1 .. m : SubSeq(s, 1, m)[i] = s[i]
    BY <1>1, <1>2, <2>2, SubSeqProperties
  <2>4. \A i \in 1 .. m : SubSeq(s, 1, m)[i] = left[i]
    BY <2>1, <2>3
  <2>5. Len(left) = m
    BY DEF m
  <2> QED
    BY <1>1, <2>3, <2>4, <2>5, SeqEqual
<1> HIDE DEF s, m
<1>6. \A i \in (m + 1) .. (m + n) : i - m \in 1 .. n /\ s[i] = out[i - m]
  BY <1>1, <1>2
<1>7. \A i \in 1 .. n : m + i \in (m + 1) .. (m + n) /\ (m + i) - m = i /\ s[m + i] = out[i]
  BY <1>1, <1>2
<1>8. {s[i] : i \in (m + 1) .. Len(s)} = S
  <2>1. \A i \in (m + 1) .. (m + n) : s[i] \in S
    BY <1>1, <1>6 DEF ToSet
  <2>2. \A i \in 1 .. n : out[i] \in {s[k] : k \in (m + 1) .. (m + n)}
    BY <1>7
  <2>3. \A x \in S : \E i \in 1 .. n : out[i] = x
    BY <1>1 DEF ToSet
  <2> QED
    BY <1>2, <2>1, <2>2, <2>3
<1>9. ASSUME NEW i \in (m + 1) .. Len(s), NEW p \in ToSet(items),
             \A j \in (m + 1) .. i : s[j] # p
      PROVE  priority[s[i]] <= priority[p]
  <2>1. i - m \in 1 .. n /\ s[i] = out[i - m] /\ i \in (m + 1) .. (m + n)
    BY <1>2, <1>6, <1>9
  <2>2. \A j \in 1 .. (i - m) : out[j] # p
    <3> SUFFICES ASSUME NEW j \in 1 .. (i - m)
                 PROVE  out[j] # p
      OBVIOUS
    <3>1. j \in 1 .. n /\ m + j \in (m + 1) .. i
      BY <1>1, <2>1
    <3>2. s[m + j] = out[j]
      BY <1>7, <3>1
    <3> QED
      BY <1>9, <3>1, <3>2
  <2> QED
    BY <2>1, <2>2
<1> HIDE DEF S
<1>10. ToSet(items') = ToSet(items) \ S
  BY DEF S
<1>11. PifoQueue!Leave(S, left')
  BY <1>3, <1>4, <1>5, <1>8, <1>9, <1>10 DEF PifoQueue!Leave, s, m
<1> QED
  BY <1>3, <1>11 DEF PifoQueue!Next

LEMMA PopTopLeaves ==
  ASSUME PrioInv, PopTop, priority' = priority
  PROVE  PifoQueue!Next
<1> DEFINE top == Head(items)
           out == <<top>>
<1>1. /\ top \in ToSet(items) /\ left' = Append(left, top)
      /\ ToSet(items') = ToSet(items) \ {top}
      /\ \A p \in ToSet(items) : priority[top] <= priority[p]
  BY TopPopped
<1>2. top \in Packets /\ left \in Seq(Packets)
  BY <1>1, BytesOfItems DEF PrioInv, PrioTypes
<1> HIDE DEF top
<1>3. out \in Seq(Packets) /\ Len(out) = 1 /\ out[1] = top /\ ToSet(out) = {top}
  BY <1>2 DEF ToSet
<1>4. left' = left \o out
  BY <1>1, <1>2
<1> HIDE DEF out
<1>5. \A i \in 1 .. 1, p \in ToSet(items) :
        (\A j \in 1 .. i : out[j] # p) => priority[out[i]] <= priority[p]
  BY <1>1, <1>3
<1>6. ToSet(out) \subseteq ToSet(items) /\ ToSet(items') = ToSet(items) \ ToSet(out)
  BY <1>1, <1>3
<1>7. 1 \in Nat \ {0}
  OBVIOUS
<1> QED
  BY <1>3, <1>4, <1>5, <1>6, <1>7, PoppedLeaves

LEMMA FlushLeaves ==
  ASSUME PrioInv, Flush
  PROVE  PifoQueue!Next
<1> DEFINE out == PopAll(items, priority)
<1>1. /\ items' = <<>> /\ left' = left \o out /\ priority' = priority /\ nPackets > 0
  BY DEF Flush
<1>2. nPackets \in Nat \ {0}
  BY <1>1 DEF PrioInv, PrioTypes
<1>3. /\ out \in Seq(Packets) /\ Len(out) = nPackets /\ ToSet(out) = ToSet(items)
      /\ \A i \in 1 .. nPackets, p \in ToSet(items) :
           (\A j \in 1 .. i : out[j] # p) => priority[out[i]] <= priority[p]
  BY ItemsFlushed
<1> HIDE DEF out
<1>4. ToSet(items') = ToSet(items) \ ToSet(out) /\ ToSet(out) \subseteq ToSet(items)
  <2>1. ToSet(<<>>) = {}
    BY DEF ToSet
  <2> QED
    BY <1>1, <1>3, <2>1
<1> QED
  BY <1>1, <1>2, <1>3, <1>4, PoppedLeaves

LEMMA PifoStep ==
  ASSUME PrioInv, [Next]_prioVars
  PROVE  [PifoQueue!Next]_(PifoQueue!pifoVars)
<1>1. ASSUME NEW p \in Packets, NEW r \in Priorities, Offer(p, r)
      PROVE  PifoQueue!Next
  BY <1>1, OfferIsPush
<1>2. CASE Dequeue
  BY <1>2, PopTopLeaves DEF Dequeue
<1>3. CASE DoRemove
  BY <1>3, PopTopLeaves DEF DoRemove
<1>4. CASE Flush
  BY <1>4, FlushLeaves
<1>5. CASE UNCHANGED prioVars
  BY <1>5 DEF prioVars, PifoQueue!pifoVars, ToSet
<1> QED
  BY <1>1, <1>2, <1>3, <1>4, <1>5 DEF Next

\* The queue implements a PIFO: what leaves it, by Dequeue, Remove or Flush, is always a
\* packet of the least priority.
THEOREM PrioQueueIsPifo == Spec => ImplementsPifo
<1>1. Init => PrioInv
  BY PrioInvInit
<1>2. PrioInv /\ [Next]_prioVars => PrioInv'
  BY PrioStep
<1>3. Init => PifoQueue!Init
  BY PifoInitially
<1>4. PrioInv /\ [Next]_prioVars => [PifoQueue!Next]_(PifoQueue!pifoVars)
  BY PifoStep
<1> QED
  BY <1>1, <1>2, <1>3, <1>4, PTL DEF Spec, ImplementsPifo, PifoQueue!Spec

-----------------------------------------------------------------------------
(***************************************************************************)
(* The queue disc: its steps are steps of the internal queue, or none.     *)
(***************************************************************************)
Ranks == {0} \cup (Results \ {PF_NO_MATCH})

\* A packet in the queue has its rank for a priority, as a number without a sign.
RankIsPriority == \A p \in ToSet(items) : priority[p] = SetPriority(rank[p])

DiscInv ==
  /\ PrioInv
  /\ offered \subseteq arrived
  /\ rank \in [Packets -> Ranks]
  /\ RankIsPriority
  /\ RankedIsEnqueued
  /\ PassedInOrder

LEMMA RankTyped ==
  ASSUME NEW ret \in Results
  PROVE  RankOf(ret) \in Ranks
BY DEF RankOf, Ranks

LEMMA PriorityTyped ==
  ASSUME NEW r \in Ranks
  PROVE  SetPriority(r) \in Priorities
<1>1. r \in Int /\ Modulus \in Nat \ {0} /\ Priorities = 0 .. (Modulus - 1)
  BY PifoAssumption DEF Ranks
<1>2. r % Modulus \in 0 .. (Modulus - 1)
  BY <1>1
<1> QED
  BY <1>1, <1>2 DEF SetPriority

LEMMA DiscInvInit ==
  ASSUME PifoInit
  PROVE  DiscInv
<1>1. PrioInv
  BY PrioInvInit DEF PifoInit
<1>2. items = <<>> /\ left = <<>> /\ offered = {} /\ ToSet(<<>>) = {}
  BY DEF PifoInit, Init, ToSet
<1> QED
  BY <1>1, <1>2 DEF PifoInit, DiscInv, Ranks, RankIsPriority, RankedIsEnqueued, PassedInOrder

\* A packet that passed the test of the queue disc is not refused by the internal queue.
LEMMA EnqueueSucceeds ==
  ASSUME DiscInv, NEW p \in Packets, NEW ret \in Results, DoEnqueue(p, ret), ~ Full
  PROVE  /\ Offer(p, SetPriority(RankOf(ret))) /\ ~ Exceeds(p)
         /\ ToSet(items') = ToSet(items) \cup {p} /\ left' = left
<1>1. p \notin offered /\ Enqueue(p, SetPriority(RankOf(ret)))
  BY DEF DoEnqueue, DiscInv
<1>2. ~ Exceeds(p)
  <2>1. ~ InBytes /\ Limit \in Nat /\ nPackets \in Nat
    BY PifoAssumption, PrioQueueAssumption DEF DiscInv, PrioInv, PrioTypes
  <2>2. ~ (nPackets >= Limit)
    BY DEF Full
  <2> QED
    BY <2>1, <2>2 DEF Exceeds
<1>3. Offer(p, SetPriority(RankOf(ret)))
  BY <1>1 DEF Offer
<1>4. SetPriority(RankOf(ret)) \in Priorities
  BY RankTyped, PriorityTyped
<1>5. PrioInv
  BY DEF DiscInv
<1> QED
  BY <1>1, <1>2, <1>3, <1>4, <1>5, OfferPushes DEF Enqueue

LEMMA DoEnqueueKeeps ==
  ASSUME DiscInv, NEW p \in Packets, NEW ret \in Results, DoEnqueue(p, ret)
  PROVE  [Next]_prioVars /\ DiscInv' /\ left' = left
<1>1. arrived' = arrived \cup {p} /\ requeued' = requeued /\ passed' = passed
  BY DEF DoEnqueue
<1>2. CASE UNCHANGED <<prioVars, rank, classified>>
  <2>1. PrioInv'
    BY <1>2, PrioStep DEF DiscInv
  <2>2. /\ items' = items /\ left' = left /\ priority' = priority /\ offered' = offered
        /\ rank' = rank /\ classified' = classified
    BY <1>2 DEF prioVars
  <2> QED
    BY <1>1, <1>2, <2>1, <2>2
    DEF DiscInv, RankIsPriority, SetPriority, RankedIsEnqueued, PassedInOrder
<1>3. CASE ~ UNCHANGED <<prioVars, rank, classified>>
  <2>1. /\ ~ Full /\ classified' = classified \cup {p}
        /\ rank' = [rank EXCEPT ![p] = RankOf(ret)]
    BY <1>3 DEF DoEnqueue
  <2> DEFINE r == RankOf(ret)
  <2>2. /\ Offer(p, SetPriority(r)) /\ ToSet(items') = ToSet(items) \cup {p} /\ left' = left
    BY <2>1, EnqueueSucceeds
  <2>3. r \in Ranks /\ SetPriority(r) \in Priorities
    BY RankTyped, PriorityTyped
  <2> HIDE DEF r
  <2>4. Next
    BY <2>2, <2>3 DEF Next
  <2>5. PrioInv'
    BY <2>4, PrioStep DEF DiscInv
  <2>6. offered' \subseteq arrived' /\ priority' = [priority EXCEPT ![p] = SetPriority(r)]
    BY <1>1, <2>2 DEF Offer, Enqueue, DiscInv
  <2>7. rank' = [rank EXCEPT ![p] = r] /\ rank \in [Packets -> Ranks]
    BY <2>1 DEF r, DiscInv
  <2>8. priority \in [Packets -> Priorities] /\ ToSet(items) \subseteq Packets
    BY BytesOfItems DEF DiscInv, PrioInv, PrioTypes
  <2>9. RankIsPriority'
    <3> SUFFICES ASSUME NEW q \in ToSet(items')
                 PROVE  priority'[q] = SetPriority(rank'[q])
      BY DEF RankIsPriority, SetPriority
    <3>1. CASE q = p
      BY <2>6, <2>7, <2>8, <3>1
    <3>2. CASE q # p
      <4>1. q \in ToSet(items) /\ q \in Packets
        BY <2>2, <2>8, <3>2
      <4>2. priority[q] = SetPriority(rank[q])
        BY <4>1 DEF DiscInv, RankIsPriority
      <4> QED
        BY <2>6, <2>7, <2>8, <3>2, <4>1, <4>2
    <3> QED
      BY <3>1, <3>2
  <2>10. RankedIsEnqueued'
    BY <2>1, <2>2 DEF DiscInv, RankedIsEnqueued
  <2>11. PassedInOrder'
    BY <1>1, <2>2 DEF DiscInv, PassedInOrder
  <2> QED
    BY <2>2, <2>3, <2>4, <2>5, <2>6, <2>7, <2>9, <2>10, <2>11 DEF DiscInv
<1> QED
  BY <1>2, <1>3

LEMMA ExtractKeeps ==
  ASSUME DiscInv, NEW p \in Packets, Extract(p), UNCHANGED <<rank, classified, arrived>>,
         \/ requeued' = NoPacket /\ passed' = Append(passed, p)
         \/ requeued' = p /\ UNCHANGED passed
  PROVE  /\ [Next]_prioVars /\ DiscInv'
         /\ left' # left => /\ left' = Append(left, Head(items)) /\ Head(items) \in ToSet(items)
                            /\ \A q \in ToSet(items) : priority[Head(items)] <= priority[q]
<1>1. rank' = rank /\ classified' = classified /\ arrived' = arrived
  OBVIOUS
<1>2. p # NoPacket
  BY PifoAssumption
<1>3. CASE requeued # NoPacket /\ p = requeued /\ UNCHANGED prioVars
  <2>1. PrioInv'
    BY <1>3, PrioStep DEF DiscInv
  <2>2. items' = items /\ left' = left /\ priority' = priority /\ offered' = offered
    BY <1>3 DEF prioVars
  <2>3. PassedInOrder'
    BY <1>2, <1>3, <2>2 DEF DiscInv, PassedInOrder
  <2>4. RankIsPriority' /\ RankedIsEnqueued'
    BY <1>1, <2>2 DEF DiscInv, RankIsPriority, SetPriority, RankedIsEnqueued
  <2> QED
    BY <1>1, <1>3, <2>1, <2>2, <2>3, <2>4 DEF DiscInv
<1>4. CASE requeued = NoPacket /\ Dequeue /\ p = Head(items)
  <2>1. /\ PopTop /\ priority' = priority /\ offered' = offered /\ Next
    BY <1>4 DEF Dequeue, Next
  <2>2. PrioInv /\ PrioInv'
    BY <2>1, PrioStep DEF DiscInv
  <2>3. /\ p \in ToSet(items) /\ left' = Append(left, p) /\ ToSet(items') = ToSet(items) \ {p}
        /\ \A q \in ToSet(items) : priority[p] <= priority[q]
    BY <1>4, <2>1, <2>2, TopPopped
  <2>4. RankIsPriority'
    BY <1>1, <2>1, <2>3 DEF DiscInv, RankIsPriority, SetPriority
  <2>5. ToSet(left') = ToSet(left) \cup {p}
    BY <2>2, <2>3, AppendedQueue DEF PrioInv, PrioTypes
  <2>6. RankedIsEnqueued'
    BY <1>1, <2>3, <2>5 DEF DiscInv, RankedIsEnqueued
  <2>7. PassedInOrder'
    BY <1>2, <1>4, <2>3 DEF DiscInv, PassedInOrder
  <2> QED
    BY <1>1, <1>4, <2>1, <2>2, <2>3, <2>4, <2>6, <2>7 DEF DiscInv
<1> QED
  BY <1>3, <1>4 DEF Extract

LEMMA DiscStep ==
  ASSUME DiscInv, [PifoNext]_pifoVars
  PROVE  [Next]_prioVars /\ DiscInv'
<1>1. ASSUME NEW p \in Packets, NEW ret \in Results, DoEnqueue(p, ret)
      PROVE  [Next]_prioVars /\ DiscInv'
  BY <1>1, DoEnqueueKeeps
<1>2. ASSUME NEW p \in Packets, DequeueReturns(p) \/ Restart(p)
      PROVE  [Next]_prioVars /\ DiscInv'
  BY <1>2, ExtractKeeps DEF DequeueReturns, Restart
<1>3. CASE UNCHANGED pifoVars
  <2>1. UNCHANGED prioVars
    BY <1>3 DEF pifoVars
  <2>2. PrioInv'
    BY <2>1, PrioStep DEF DiscInv
  <2> QED
    BY <1>3, <2>1, <2>2 DEF pifoVars, prioVars, discVars, DiscInv, RankIsPriority, SetPriority,
                            RankedIsEnqueued, PassedInOrder
<1> QED
  BY <1>1, <1>2, <1>3 DEF PifoNext

\* The packets that were ranked are those that were enqueued.
THEOREM FilterKeepsUp == PifoSpec => []RankedIsEnqueued
<1>1. PifoInit => DiscInv
  BY DiscInvInit
<1>2. DiscInv /\ [PifoNext]_pifoVars => DiscInv'
  BY DiscStep
<1>3. DiscInv => RankedIsEnqueued
  BY DEF DiscInv
<1> QED
  BY <1>1, <1>2, <1>3, PTL DEF PifoSpec

\* Packets are passed on in the order in which they were extracted, also around a requeue.
THEOREM ExtractedInOrder == PifoSpec => []PassedInOrder
<1>1. PifoInit => DiscInv
  BY DiscInvInit
<1>2. DiscInv /\ [PifoNext]_pifoVars => DiscInv'
  BY DiscStep
<1>3. DiscInv => PassedInOrder
  BY DEF DiscInv
<1> QED
  BY <1>1, <1>2, <1>3, PTL DEF PifoSpec

\* The internal queue of the queue disc behaves as a PrioQueue, and so as a PIFO.
THEOREM InternalQueueIsPifo == PifoSpec => ImplementsPifo
<1>1. PifoInit => DiscInv /\ PifoQueue!Init
  BY DiscInvInit, PifoInitially DEF PifoInit
<1>2. DiscInv /\ [PifoNext]_pifoVars => DiscInv'
  BY DiscStep
<1>3. DiscInv /\ [PifoNext]_pifoVars => [PifoQueue!Next]_(PifoQueue!pifoVars)
  <2>1. DiscInv => PrioInv
    BY DEF DiscInv
  <2> QED
    BY <2>1, DiscStep, PifoStep
<1> QED
  BY <1>1, <1>2, <1>3, PTL DEF PifoSpec, ImplementsPifo, PifoQueue!Spec

-----------------------------------------------------------------------------
\* A negative number converted to one without a sign.
LEMMA NegativeRemainder ==
  ASSUME NEW n \in Int, NEW d \in Nat \ {0}, n < 0, -d <= n
  PROVE  n % d = n + d
<1> DEFINE q == n \div d
           r == n % d
<1>1. q \in Int /\ r \in 0 .. (d - 1) /\ n = d * q + r
  OBVIOUS
<1> HIDE DEF q, r
<1>2. q = -1
  <2>1. q <= -2 => d * q <= -2 * d
    BY <1>1
  <2>2. q >= 0 => d * q >= 0
    BY <1>1
  <2> QED
    BY <1>1, <2>1, <2>2
<1> QED
  BY <1>1, <1>2 DEF r

LEMMA RankIsSmall ==
  ASSUME NEW r \in Ranks
  PROVE  r \in Int /\ -Modulus <= 2 * r /\ 2 * r < Modulus /\ Modulus \in Nat \ {0}
BY PifoAssumption DEF Ranks

LEMMA PriorityOfRank ==
  ASSUME NEW r \in Ranks
  PROVE  SetPriority(r) = IF r < 0 THEN r + Modulus ELSE r
<1>1. r \in Int /\ -Modulus <= 2 * r /\ 2 * r < Modulus /\ Modulus \in Nat \ {0}
  BY RankIsSmall
<1>2. CASE r < 0
  <2>1. -Modulus <= r
    BY <1>1, <1>2
  <2>2. r % Modulus = r + Modulus
    BY <1>1, <1>2, <2>1, NegativeRemainder
  <2> QED
    BY <1>2, <2>2 DEF SetPriority
<1>3. CASE ~ (r < 0)
  <2>1. r \in Nat /\ r < Modulus
    BY <1>1, <1>3
  <2>2. r % Modulus = r
    BY <1>1, <2>1, SmallRemainder
  <2> QED
    BY <1>3, <2>2 DEF SetPriority
<1> QED
  BY <1>2, <1>3

\* The order of the priorities is that of the ranks, the negative ones last.
LEMMA PriorityOrdersRanks ==
  ASSUME NEW r \in Ranks, NEW s \in Ranks, SetPriority(r) <= SetPriority(s)
  PROVE  NotAfter(r, s)
<1>1. /\ r \in Int /\ -Modulus <= 2 * r /\ 2 * r < Modulus
      /\ s \in Int /\ -Modulus <= 2 * s /\ 2 * s < Modulus /\ Modulus \in Nat \ {0}
  BY RankIsSmall
<1>2. (IF r < 0 THEN r + Modulus ELSE r) <= (IF s < 0 THEN s + Modulus ELSE s)
  BY PriorityOfRank
<1>3. CASE r < 0 /\ s < 0
  BY <1>1, <1>2, <1>3 DEF NotAfter
<1>4. CASE r < 0 /\ ~ (s < 0)
  BY <1>1, <1>2, <1>4
<1>5. CASE ~ (r < 0) /\ s < 0
  BY <1>5 DEF NotAfter
<1>6. CASE ~ (r < 0) /\ ~ (s < 0)
  BY <1>1, <1>2, <1>6 DEF NotAfter
<1> QED
  BY <1>3, <1>4, <1>5, <1>6

\* A packet that leaves the internal queue has the lowest rank of those in it, the negative
\* ranks counted as the large numbers that they become.
THEOREM LowestRankLeaves == PifoSpec => LowestRankFirst
<1>1. PifoInit => DiscInv
  BY DiscInvInit
<1>2. DiscInv /\ [PifoNext]_pifoVars => DiscInv'
  BY DiscStep
<1>3. DiscInv /\ [PifoNext]_pifoVars
        => [left' # left => \A p \in ToSet(items) : NotAfter(rank[Last(left')], rank[p])]_pifoVars
  <2> SUFFICES ASSUME DiscInv, PifoNext, left' # left, NEW p \in ToSet(items)
               PROVE  NotAfter(rank[Last(left')], rank[p])
    OBVIOUS
  <2>1. PICK q \in Packets : DequeueReturns(q) \/ Restart(q)
    BY DoEnqueueKeeps DEF PifoNext
  <2> DEFINE top == Head(items)
  <2>2. /\ left' = Append(left, top) /\ top \in ToSet(items)
        /\ priority[top] <= priority[p]
    BY <2>1, ExtractKeeps DEF DequeueReturns, Restart
  <2>3. left \in Seq(Packets) /\ top \in Packets /\ p \in Packets
    BY <2>2, BytesOfItems DEF DiscInv, PrioInv, PrioTypes
  <2>4. rank[top] \in Ranks /\ rank[p] \in Ranks
    BY <2>3 DEF DiscInv
  <2>5. SetPriority(rank[top]) <= SetPriority(rank[p])
    BY <2>2 DEF DiscInv, RankIsPriority
  <2> HIDE DEF top
  <2>6. Last(left') = top
    BY <2>2, <2>3 DEF Last
  <2> QED
    BY <2>4, <2>5, <2>6, PriorityOrdersRanks
<1> QED
  BY <1>1, <1>2, <1>3, PTL DEF PifoSpec, LowestRankFirst
=============================================================================
