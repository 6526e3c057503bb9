----------------------------- MODULE DataProofs -----------------------------
(***************************************************************************)
(* Induction over numbers and finite sets, stated for sets and not for     *)
(* predicates, and what follows from it for the sums and iterations of     *)
(* module Sums; products and quotients; sequences in which nothing occurs  *)
(* twice, and sequences of numbers.                                        *)
(***************************************************************************)
EXTENDS Sums, SequencesExt, FiniteSetTheorems, SequenceTheorems, TLAPS

-----------------------------------------------------------------------------
\* Products and quotients.
LEMMA SmallRemainder ==
  ASSUME NEW n \in Nat, NEW d \in Nat \ {0}, n < d
  PROVE  n % d = n
OBVIOUS

LEMMA QuotientProperties ==
  ASSUME NEW n \in Int, NEW d \in Nat \ {0}
  PROVE  /\ n \div d \in Int
         /\ d * (n \div d) <= n /\ n < d * (n \div d) + d
         /\ n \in Nat => n \div d \in Nat
<1>1. n \div d \in Int
  OBVIOUS
<1>2. d * (n \div d) <= n /\ n < d * (n \div d) + d
  OBVIOUS
<1>3. n \in Nat => n \div d >= 0
  OBVIOUS
<1> QED
  BY <1>1, <1>2, <1>3

LEMMA QuotientBound ==
  ASSUME NEW n \in Int, NEW d \in Nat \ {0}, NEW b \in Int, n < d * (b + 1)
  PROVE  n \div d <= b
<1> DEFINE q == n \div d
<1>1. q \in Int /\ d * q <= n
  BY QuotientProperties
<1> HIDE DEF q
<1>2. SUFFICES ASSUME q >= b + 1 PROVE FALSE
  BY <1>1 DEF q
<1>3. d * q >= d * (b + 1)
  BY <1>1, <1>2
<1>4. d * q \in Int /\ d * (b + 1) \in Int
  BY <1>1
<1> QED
  BY <1>1, <1>3, <1>4

LEMMA ProductNat == \A a, b \in Nat : a * b \in Nat
OBVIOUS

LEMMA ProductGrows ==
  ASSUME NEW a \in Nat, NEW b \in Nat, NEW d \in Nat, a <= b
  PROVE  d * a <= d * b
OBVIOUS

LEMMA FactorCancels ==
  ASSUME NEW a \in Nat, NEW b \in Nat, NEW d \in Nat \ {0}, d * a <= d * b
  PROVE  a <= b
<1> SUFFICES ASSUME a >= b + 1 PROVE FALSE
  OBVIOUS
<1>1. d * a >= d * (b + 1)
  OBVIOUS
<1>2. d * (b + 1) = d * b + d
  OBVIOUS
<1> QED
  BY <1>1, <1>2, ProductNat

-----------------------------------------------------------------------------
\* A set that holds 0 and the successors of its elements holds all numbers.
LEMMA NumberInduction ==
  ASSUME NEW S, 0 \in S, \A n \in Nat \cap S : n + 1 \in S
  PROVE  Nat \subseteq S
<1> SUFFICES ASSUME Nat \ S # {} PROVE FALSE
  OBVIOUS
<1> DEFINE R == OpToRel(<, Nat)
<1>1. IsWellFoundedOn(R, Nat)
  BY NatLessThanWellFounded
<1>2. \A y, x \in Nat : <<y, x>> \in R <=> y < x
  BY DEF OpToRel
<1> HIDE DEF R
<1>3. Nat \ S \subseteq Nat
  OBVIOUS
<1>4. PICK x \in Nat \ S : \A y \in Nat \ S : ~ (<<y, x>> \in R)
  BY <1>1, <1>3, WFMin
<1>5. x - 1 \in Nat /\ x - 1 < x /\ (x - 1) + 1 = x
  OBVIOUS
<1>6. x - 1 \in S
  BY <1>2, <1>4, <1>5
<1> QED
  BY <1>5, <1>6

\* So does a set of subsets of a finite set that holds each with all smaller ones.
LEMMA SubsetInduction ==
  ASSUME NEW S, IsFiniteSet(S), NEW B,
         \A T \in SUBSET S : (\A U \in SUBSET T : U # T => U \in B) => T \in B
  PROVE  SUBSET S \subseteq B
<1> SUFFICES ASSUME (SUBSET S) \ B # {} PROVE FALSE
  OBVIOUS
<1> DEFINE R == StrictSubsetOrdering(S)
<1>1. IsWellFoundedOn(R, SUBSET S)
  <2>1. FiniteSubsetsOf(S) = SUBSET S
    BY FS_FiniteSubsetsOfFinite
  <2>2. IsWellFoundedOn(StrictSubsetOrdering(S), FiniteSubsetsOf(S))
    BY ONLY FS_StrictSubsetOrderingWellFounded
  <2> QED
    BY <2>1, <2>2
<1>2. \A U, T \in SUBSET S : <<U, T>> \in R <=> U \subseteq T /\ U # T
  BY DEF StrictSubsetOrdering
<1> DEFINE Bad == (SUBSET S) \ B
<1>3. Bad \subseteq SUBSET S /\ Bad # {}
  OBVIOUS
<1> HIDE DEF R, Bad
<1>4. PICK T \in Bad : \A U \in Bad : ~ (<<U, T>> \in R)
  BY <1>1, <1>3, WFMin
<1> USE DEF Bad
<1>5. \A U \in SUBSET T : U # T => U \in B
  BY <1>2, <1>4
<1> QED
  BY <1>4, <1>5

-----------------------------------------------------------------------------
\* MapThenSumSet chooses an element and sums up the rest, with a function on the subsets.
Choice(S) == CHOOSE x \in S : TRUE

IsSum(f, S, g) ==
  g = [T \in SUBSET S |-> IF T = {} THEN 0 ELSE f[Choice(T)] + g[T \ {Choice(T)}]]

LEMMA ChoiceIn ==
  ASSUME NEW S, S # {}
  PROVE  Choice(S) \in S
BY DEF Choice

\* There is one such function at most,
LEMMA SumUnique ==
  ASSUME NEW f, NEW S, IsFiniteSet(S), NEW g, NEW h, IsSum(f, S, g), IsSum(f, S, h)
  PROVE  g = h
<1> DEFINE B == {T \in SUBSET S : g[T] = h[T]}
<1>1. ASSUME NEW T \in SUBSET S, \A U \in SUBSET T : U # T => U \in B
      PROVE  T \in B
  <2>1. CASE T = {}
    BY <2>1 DEF IsSum
  <2>2. CASE T # {}
    <3>1. T \ {Choice(T)} \in B
      BY <1>1, <2>2, ChoiceIn
    <3>2. /\ g[T] = f[Choice(T)] + g[T \ {Choice(T)}]
          /\ h[T] = f[Choice(T)] + h[T \ {Choice(T)}]
      BY <2>2 DEF IsSum
    <3> QED
      BY <3>1, <3>2
  <2> QED
    BY <2>1, <2>2
<1>2. SUBSET S \subseteq B
  <2> HIDE DEF B
  <2> QED
    BY <1>1, SubsetInduction
<1>3. \A T \in SUBSET S : g[T] = h[T]
  BY <1>2
<1> QED
  BY <1>3 DEF IsSum

\* which serves the subsets as well,
LEMMA SumRestricts ==
  ASSUME NEW f, NEW S, NEW g, IsSum(f, S, g), NEW T \in SUBSET S
  PROVE  IsSum(f, T, [U \in SUBSET T |-> g[U]])
<1> DEFINE h == [U \in SUBSET T |-> g[U]]
<1>1. ASSUME NEW U \in SUBSET T
      PROVE  h[U] = IF U = {} THEN 0 ELSE f[Choice(U)] + h[U \ {Choice(U)}]
  BY DEF IsSum
<1> QED
  BY <1>1 DEF IsSum

\* and there is one.
LEMMA SumExists ==
  ASSUME NEW f, NEW S, IsFiniteSet(S)
  PROVE  \E g : IsSum(f, S, g)
<1> DEFINE B == {T \in SUBSET S : \E g : IsSum(f, T, g)}
<1>1. ASSUME NEW T \in SUBSET S, \A U \in SUBSET T : U # T => U \in B
      PROVE  T \in B
  <2> DEFINE G == [x \in T |-> CHOOSE g : IsSum(f, T \ {x}, g)]
             h == [U \in SUBSET T |->
                     IF U = {} THEN 0
                     ELSE IF U = T THEN f[Choice(T)] + G[Choice(T)][T \ {Choice(T)}]
                     ELSE G[Choice(T \ U)][U]]
  <2>1. \A x \in T : IsSum(f, T \ {x}, G[x])
    <3> SUFFICES ASSUME NEW x \in T PROVE IsSum(f, T \ {x}, G[x])
      OBVIOUS
    <3>1. T \ {x} \in SUBSET T /\ T \ {x} # T
      OBVIOUS
    <3>2. \E g : IsSum(f, T \ {x}, g)
      BY <1>1, <3>1
    <3> QED
      BY <3>2
  <2>2. IsFiniteSet(T)
    BY FS_Subset
  <2> HIDE DEF G
  <2>3. ASSUME NEW x \in T, NEW y \in T, NEW U \in SUBSET T, x \notin U, y \notin U
        PROVE  G[x][U] = G[y][U]
    <3>1. U \in SUBSET (T \ {x}) /\ U \in SUBSET (T \ {y}) /\ IsFiniteSet(U)
      BY <2>2, <2>3, FS_Subset
    <3>2. /\ IsSum(f, U, [V \in SUBSET U |-> G[x][V]])
          /\ IsSum(f, U, [V \in SUBSET U |-> G[y][V]])
      BY <2>1, <3>1, SumRestricts
    <3>3. [V \in SUBSET U |-> G[x][V]] = [V \in SUBSET U |-> G[y][V]]
      BY <3>1, <3>2, SumUnique
    <3> QED
      BY <3>3
  <2>4. \A x \in T, U \in SUBSET T : x \notin U => h[U] = G[x][U]
    <3> SUFFICES ASSUME NEW x \in T, NEW U \in SUBSET T, x \notin U
                 PROVE  h[U] = G[x][U]
      OBVIOUS
    <3>1. U # T /\ U \in SUBSET (T \ {x})
      OBVIOUS
    <3>2. CASE U = {}
      BY <2>1, <3>1, <3>2 DEF IsSum
    <3>3. CASE U # {}
      <4>1. Choice(T \ U) \in T /\ Choice(T \ U) \notin U
        BY <3>1, ChoiceIn
      <4> QED
        BY <2>3, <3>1, <3>3, <4>1
    <3> QED
      BY <3>2, <3>3
  <2>5. ASSUME NEW U \in SUBSET T
        PROVE  h[U] = IF U = {} THEN 0 ELSE f[Choice(U)] + h[U \ {Choice(U)}]
    <3>1. CASE U = {}
      BY <3>1
    <3>2. CASE U # {} /\ U = T
      <4>1. Choice(T) \in T
        BY <3>2, ChoiceIn
      <4>2. h[T \ {Choice(T)}] = G[Choice(T)][T \ {Choice(T)}]
        BY <2>4, <4>1
      <4> QED
        BY <3>2, <4>2
    <3>3. CASE U # {} /\ U # T
      <4> PICK x \in T : x \notin U
        BY <3>3
      <4>1. h[U] = G[x][U] /\ h[U \ {Choice(U)}] = G[x][U \ {Choice(U)}]
        BY <2>4
      <4>2. U \in SUBSET (T \ {x})
        OBVIOUS
      <4>3. G[x][U] = f[Choice(U)] + G[x][U \ {Choice(U)}]
        BY <2>1, <3>3, <4>2 DEF IsSum
      <4> QED
        BY <3>3, <4>1, <4>3
    <3> QED
      BY <3>1, <3>2, <3>3
  <2>6. IsSum(f, T, h)
    <3> DEFINE k == [U \in SUBSET T |->
                       IF U = {} THEN 0 ELSE f[Choice(U)] + h[U \ {Choice(U)}]]
    <3>1. \A U \in SUBSET T : h[U] = k[U]
      <4> HIDE DEF h
      <4> QED
        BY <2>5
    <3>2. h = k
      BY <3>1
    <3> HIDE DEF h
    <3> QED
      BY <3>2 DEF IsSum
  <2> QED
    BY <2>6
<1>2. SUBSET S \subseteq B
  <2> HIDE DEF B
  <2> QED
    BY <1>1, SubsetInduction
<1> QED
  BY <1>2

\* SumOver is its value.
LEMMA SumOverIsSum ==
  ASSUME NEW f, NEW S, IsFiniteSet(S), NEW g, IsSum(f, S, g)
  PROVE  SumOver(f, S) = g[S]
<1> DEFINE h == CHOOSE k : k = [T \in SUBSET S |->
                   IF T = {} THEN 0 ELSE f[Choice(T)] + k[T \ {Choice(T)}]]
<1>1. SumOver(f, S) = h[S]
  BY DEF SumOver, MapThenSumSet, MapThenFoldSet, Choice
<1>2. IsSum(f, S, h)
  BY DEF IsSum
<1>3. h = g
  <2> HIDE DEF h
  <2> QED
    BY <1>2, SumUnique
<1> QED
  BY <1>1, <1>3

LEMMA SumOverChoice ==
  ASSUME NEW f, NEW S, IsFiniteSet(S)
  PROVE  /\ S = {} => SumOver(f, S) = 0
         /\ S # {} => SumOver(f, S) = f[Choice(S)] + SumOver(f, S \ {Choice(S)})
<1>1. PICK g : IsSum(f, S, g)
  BY SumExists
<1>2. SumOver(f, S) = g[S]
  BY <1>1, SumOverIsSum
<1>3. ASSUME S # {}
      PROVE  SumOver(f, S \ {Choice(S)}) = g[S \ {Choice(S)}]
  <2> DEFINE T == S \ {Choice(S)}
             h == [U \in SUBSET T |-> g[U]]
  <2>1. T \in SUBSET S /\ IsFiniteSet(T)
    BY FS_Subset
  <2>2. IsSum(f, T, h)
    BY <1>1, <2>1, SumRestricts
  <2>3. h[T] = g[T]
    OBVIOUS
  <2> HIDE DEF h, T
  <2>4. SumOver(f, T) = h[T]
    BY <2>1, <2>2, SumOverIsSum
  <2> QED
    BY <2>3, <2>4 DEF T
<1>4. g[S] = IF S = {} THEN 0 ELSE f[Choice(S)] + g[S \ {Choice(S)}]
  BY <1>1 DEF IsSum
<1> QED
  BY <1>2, <1>3, <1>4

-----------------------------------------------------------------------------
\* The sum over the empty set, and over one of sizes or numbers.
LEMMA SumOverEmpty == \A f : SumOver(f, {}) = 0
BY SumOverChoice, FS_EmptySet

LEMMA SumOverInt ==
  ASSUME NEW f, NEW S, IsFiniteSet(S), \A x \in S : f[x] \in Int
  PROVE  SumOver(f, S) \in Int
<1> DEFINE B == {T \in SUBSET S : SumOver(f, T) \in Int}
<1>1. ASSUME NEW T \in SUBSET S, \A U \in SUBSET T : U # T => U \in B
      PROVE  T \in B
  <2>1. IsFiniteSet(T)
    BY FS_Subset
  <2>2. CASE T = {}
    <3>1. SumOver(f, T) = 0
      BY <2>2, SumOverEmpty
    <3> QED
      BY <3>1
  <2>3. CASE T # {}
    <3>1. Choice(T) \in T
      BY <2>3, ChoiceIn
    <3>2. SumOver(f, T \ {Choice(T)}) \in Int
      BY <1>1, <3>1
    <3> QED
      BY <2>1, <2>3, <3>1, <3>2, SumOverChoice
  <2> QED
    BY <2>2, <2>3
<1>2. SUBSET S \subseteq B
  <2> HIDE DEF B
  <2> QED
    BY <1>1, SubsetInduction
<1> QED
  BY <1>2

LEMMA SumOverNat ==
  ASSUME NEW f, NEW S, IsFiniteSet(S), \A x \in S : f[x] \in Nat
  PROVE  SumOver(f, S) \in Nat
<1> DEFINE B == {T \in SUBSET S : SumOver(f, T) \in Nat}
<1>1. ASSUME NEW T \in SUBSET S, \A U \in SUBSET T : U # T => U \in B
      PROVE  T \in B
  <2>1. IsFiniteSet(T)
    BY FS_Subset
  <2>2. CASE T = {}
    <3>1. SumOver(f, T) = 0
      BY <2>2, SumOverEmpty
    <3> QED
      BY <3>1
  <2>3. CASE T # {}
    <3>1. Choice(T) \in T
      BY <2>3, ChoiceIn
    <3>2. SumOver(f, T \ {Choice(T)}) \in Nat
      BY <1>1, <3>1
    <3> QED
      BY <2>1, <2>3, <3>1, <3>2, SumOverChoice
  <2> QED
    BY <2>2, <2>3
<1>2. SUBSET S \subseteq B
  <2> HIDE DEF B
  <2> QED
    BY <1>1, SubsetInduction
<1> QED
  BY <1>2

\* It does not matter which element is summed up first.
LEMMA SumOverRemove ==
  ASSUME NEW f, NEW S, IsFiniteSet(S), \A x \in S : f[x] \in Int, NEW x \in S
  PROVE  SumOver(f, S) = f[x] + SumOver(f, S \ {x})
<1> DEFINE B == {T \in SUBSET S : \A y \in T : SumOver(f, T) = f[y] + SumOver(f, T \ {y})}
<1>1. ASSUME NEW T \in SUBSET S, \A U \in SUBSET T : U # T => U \in B
      PROVE  T \in B
  <2> SUFFICES ASSUME NEW y \in T PROVE SumOver(f, T) = f[y] + SumOver(f, T \ {y})
    OBVIOUS
  <2> DEFINE c == Choice(T)
  <2>1. IsFiniteSet(T) /\ c \in T
    BY FS_Subset, ChoiceIn
  <2>2. SumOver(f, T) = f[c] + SumOver(f, T \ {c})
    BY <2>1, SumOverChoice
  <2> HIDE DEF c
  <2>3. CASE y = c
    BY <2>2, <2>3
  <2>4. CASE y # c
    <3>1. T \ {c} \in B /\ T \ {y} \in B
      <4>1. T \ {c} \in SUBSET T /\ T \ {y} \in SUBSET T
        OBVIOUS
      <4>2. T \ {c} # T /\ T \ {y} # T
        BY <2>1
      <4> HIDE DEF B
      <4> QED
        BY <1>1, <4>1, <4>2
    <3>2. /\ SumOver(f, T \ {c}) = f[y] + SumOver(f, (T \ {c}) \ {y})
          /\ SumOver(f, T \ {y}) = f[c] + SumOver(f, (T \ {y}) \ {c})
      BY <2>1, <2>4, <3>1
    <3>3. (T \ {c}) \ {y} = (T \ {y}) \ {c}
      OBVIOUS
    <3>4. SumOver(f, (T \ {c}) \ {y}) \in Int /\ f[c] \in Int /\ f[y] \in Int
      <4>1. IsFiniteSet((T \ {c}) \ {y})
        BY <2>1, FS_Subset
      <4> QED
        BY <2>1, <4>1, SumOverInt
    <3> DEFINE r == SumOver(f, (T \ {c}) \ {y})
    <3>5. /\ SumOver(f, T) = f[c] + (f[y] + r)
          /\ SumOver(f, T \ {y}) = f[c] + r
          /\ r \in Int
      BY <2>2, <3>2, <3>3, <3>4
    <3> HIDE DEF r
    <3> QED
      BY <3>4, <3>5
  <2> QED
    BY <2>3, <2>4
<1>2. SUBSET S \subseteq B
  <2> HIDE DEF B
  <2> QED
    BY <1>1, SubsetInduction
<1> QED
  BY <1>2

LEMMA SumOverAdd ==
  ASSUME NEW f, NEW S, IsFiniteSet(S), NEW x, x \notin S, \A y \in S \cup {x} : f[y] \in Int
  PROVE  SumOver(f, S \cup {x}) = SumOver(f, S) + f[x]
<1>1. IsFiniteSet(S \cup {x})
  BY FS_AddElement
<1>2. (S \cup {x}) \ {x} = S
  OBVIOUS
<1>3. SumOver(f, S \cup {x}) = f[x] + SumOver(f, (S \cup {x}) \ {x})
  BY <1>1, SumOverRemove
<1>4. SumOver(f, S \cup {x}) = f[x] + SumOver(f, S)
  BY <1>2, <1>3
<1>5. SumOver(f, S) \in Int /\ f[x] \in Int
  BY SumOverInt
<1> QED
  BY <1>4, <1>5

\* The sum depends on the values for the elements only.
LEMMA SumOverSame ==
  ASSUME NEW f, NEW g, NEW S, IsFiniteSet(S), \A x \in S : f[x] = g[x]
  PROVE  SumOver(f, S) = SumOver(g, S)
<1> DEFINE B == {T \in SUBSET S : SumOver(f, T) = SumOver(g, T)}
<1>1. ASSUME NEW T \in SUBSET S, \A U \in SUBSET T : U # T => U \in B
      PROVE  T \in B
  <2>1. IsFiniteSet(T)
    BY FS_Subset
  <2>2. CASE T = {}
    BY <2>1, <2>2, SumOverChoice
  <2>3. CASE T # {}
    <3>1. Choice(T) \in T
      BY <2>3, ChoiceIn
    <3>2. SumOver(f, T \ {Choice(T)}) = SumOver(g, T \ {Choice(T)})
      BY <1>1, <3>1
    <3> QED
      BY <2>1, <2>3, <3>1, <3>2, SumOverChoice
  <2> QED
    BY <2>2, <2>3
<1>2. SUBSET S \subseteq B
  <2> HIDE DEF B
  <2> QED
    BY <1>1, SubsetInduction
<1> QED
  BY <1>2

\* Fewer numbers have a smaller sum.
LEMMA SumOverSubset ==
  ASSUME NEW f, NEW S, IsFiniteSet(S), \A x \in S : f[x] \in Nat, NEW T \in SUBSET S
  PROVE  SumOver(f, T) <= SumOver(f, S)
<1> DEFINE B == {D \in SUBSET S : SumOver(f, S \ D) <= SumOver(f, S)}
<1>1. ASSUME NEW D \in SUBSET S, \A U \in SUBSET D : U # D => U \in B
      PROVE  D \in B
  <2>1. SumOver(f, S) \in Nat
    BY SumOverNat
  <2>2. CASE D = {}
    <3>1. S \ D = S
      BY <2>2
    <3> QED
      BY <2>1, <3>1
  <2>3. CASE D # {}
    <3> PICK x \in D : TRUE
      BY <2>3
    <3>1. D \ {x} \in SUBSET D /\ D \ {x} # D
      OBVIOUS
    <3>2. D \ {x} \in B
      <4> HIDE DEF B
      <4> QED
        BY <1>1, <3>1
    <3> DEFINE R == S \ (D \ {x})
    <3>3. IsFiniteSet(R) /\ R \subseteq S /\ x \in R /\ R \ {x} = S \ D
      BY FS_Subset
    <3>4. IsFiniteSet(S \ D)
      BY FS_Subset
    <3> HIDE DEF R
    <3>5. SumOver(f, R) = f[x] + SumOver(f, R \ {x})
      <4>1. \A y \in R : f[y] \in Int
        BY <3>3
      <4> QED
        BY <3>3, <4>1, SumOverRemove
    <3>6. SumOver(f, S \ D) \in Nat /\ f[x] \in Nat
      BY <3>4, SumOverNat
    <3>7. SumOver(f, R) <= SumOver(f, S)
      BY <3>2 DEF R
    <3>8. SumOver(f, S \ D) <= SumOver(f, S)
      BY <2>1, <3>3, <3>5, <3>6, <3>7
    <3> QED
      BY <3>8
  <2> QED
    BY <2>2, <2>3
<1>2. SUBSET S \subseteq B
  <2> HIDE DEF B
  <2> QED
    BY <1>1, SubsetInduction
<1>3. S \ T \in B /\ S \ (S \ T) = T
  BY <1>2
<1> QED
  BY <1>3

-----------------------------------------------------------------------------
\* The values of an iteration: there is one function of them at most,
IsIteration(f, start, n, v) ==
  v = [i \in 0 .. n |-> IF i = 0 THEN start ELSE f[v[i - 1]]]

LEMMA IterationUnique ==
  ASSUME NEW f, NEW start, NEW n \in Nat, NEW v, NEW w,
         IsIteration(f, start, n, v), IsIteration(f, start, n, w)
  PROVE  v = w
<1> DEFINE A == {i \in Nat : i \in 0 .. n => v[i] = w[i]}
<1>1. 0 \in A
  BY DEF IsIteration
<1>2. ASSUME NEW i \in Nat \cap A
      PROVE  i + 1 \in A
  BY DEF IsIteration
<1>3. Nat \subseteq A
  <2> HIDE DEF A
  <2> QED
    BY <1>1, <1>2, NumberInduction
<1>4. \A i \in 0 .. n : v[i] = w[i]
  BY <1>3
<1> QED
  BY <1>4 DEF IsIteration

\* there is one,
LEMMA IterationExists ==
  ASSUME NEW f, NEW start, NEW n \in Nat
  PROVE  \E v : IsIteration(f, start, n, v)
<1> DEFINE A == {k \in Nat : \E v : IsIteration(f, start, k, v)}
<1>1. 0 \in A
  <2> DEFINE v == [i \in 0 .. 0 |-> start]
  <2>1. \A i \in 0 .. 0 : v[i] = IF i = 0 THEN start ELSE f[v[i - 1]]
    OBVIOUS
  <2>2. v = [i \in 0 .. 0 |-> IF i = 0 THEN start ELSE f[v[i - 1]]]
    BY <2>1
  <2> HIDE DEF v
  <2> QED
    BY <2>2 DEF IsIteration
<1>2. ASSUME NEW k \in Nat \cap A
      PROVE  k + 1 \in A
  <2>1. PICK v : IsIteration(f, start, k, v)
    OBVIOUS
  <2> DEFINE w == [i \in 0 .. (k + 1) |-> IF i = k + 1 THEN f[v[k]] ELSE v[i]]
             u == [i \in 0 .. (k + 1) |-> IF i = 0 THEN start ELSE f[w[i - 1]]]
  <2>2. ASSUME NEW i \in 0 .. (k + 1)
        PROVE  w[i] = u[i]
    <3>1. CASE i = k + 1
      BY <3>1
    <3>2. CASE i \in 0 .. k
      <4>1. v[i] = IF i = 0 THEN start ELSE f[v[i - 1]]
        BY <2>1, <3>2 DEF IsIteration
      <4>2. i # 0 => w[i - 1] = v[i - 1]
        BY <3>2
      <4> QED
        BY <3>2, <4>1, <4>2
    <3> QED
      BY <3>1, <3>2
  <2>3. w = u
    BY <2>2
  <2> HIDE DEF w
  <2> QED
    BY <2>3 DEF IsIteration
<1>3. Nat \subseteq A
  <2> HIDE DEF A
  <2> QED
    BY <1>1, <1>2, NumberInduction
<1> QED
  BY <1>3

\* and Iterate returns its last value.
LEMMA IterateIsLast ==
  ASSUME NEW f, NEW start, NEW n \in Nat, NEW v, IsIteration(f, start, n, v)
  PROVE  Iterate(f, start, n) = v[n]
<1> DEFINE w == CHOOSE u : u = [i \in 0 .. n |-> IF i = 0 THEN start ELSE f[u[i - 1]]]
<1>1. Iterate(f, start, n) = w[n]
  BY DEF Iterate
<1>2. IsIteration(f, start, n, w)
  BY DEF IsIteration
<1>3. w = v
  <2> HIDE DEF w
  <2> QED
    BY <1>2, IterationUnique
<1> QED
  BY <1>1, <1>3

LEMMA IterateZero == \A f, start : Iterate(f, start, 0) = start
<1> SUFFICES ASSUME NEW f, NEW start PROVE Iterate(f, start, 0) = start
  OBVIOUS
<1>1. PICK v : IsIteration(f, start, 0, v)
  BY IterationExists
<1>2. Iterate(f, start, 0) = v[0]
  BY <1>1, IterateIsLast
<1> QED
  BY <1>1, <1>2 DEF IsIteration

LEMMA IterateNext ==
  ASSUME NEW f, NEW start, NEW n \in Nat
  PROVE  Iterate(f, start, n + 1) = f[Iterate(f, start, n)]
<1>1. PICK v : IsIteration(f, start, n + 1, v)
  BY IterationExists
<1> DEFINE w == [i \in 0 .. n |-> v[i]]
<1>2. IsIteration(f, start, n, w)
  <2>1. \A i \in 0 .. n : w[i] = IF i = 0 THEN start ELSE f[w[i - 1]]
    BY <1>1 DEF IsIteration
  <2> QED
    BY <2>1 DEF IsIteration
<1>3. Iterate(f, start, n) = v[n]
  <2>1. Iterate(f, start, n) = w[n]
    <3> HIDE DEF w
    <3> QED
      BY <1>2, IterateIsLast
  <2> QED
    BY <2>1
<1>4. Iterate(f, start, n + 1) = v[n + 1]
  BY <1>1, IterateIsLast
<1>5. v[n + 1] = f[v[n]]
  <2>1. n + 1 \in 0 .. (n + 1) /\ n + 1 # 0 /\ (n + 1) - 1 = n
    OBVIOUS
  <2>2. v[n + 1] = f[v[(n + 1) - 1]]
    BY <1>1, <2>1 DEF IsIteration
  <2> QED
    BY <2>1, <2>2
<1> QED
  BY <1>3, <1>4, <1>5

\* What holds at the start and is kept by f holds in the end.
LEMMA IterateKeeps ==
  ASSUME NEW f, NEW A, NEW start \in A, NEW n \in Nat, \A x \in A : f[x] \in A
  PROVE  Iterate(f, start, n) \in A
<1> DEFINE B == {k \in Nat : Iterate(f, start, k) \in A}
<1>1. 0 \in B
  BY IterateZero
<1>2. \A k \in Nat \cap B : k + 1 \in B
  BY IterateNext
<1>3. Nat \subseteq B
  <2> HIDE DEF B
  <2> QED
    BY <1>1, <1>2, NumberInduction
<1> QED
  BY <1>3

-----------------------------------------------------------------------------
LEMMA PowerNat ==
  ASSUME NEW b \in Nat, NEW n \in Nat
  PROVE  Power(b, n) \in Nat
<1> DEFINE f == [x \in Nat |-> b * x]
<1>1. \A x \in Nat : f[x] \in Nat
  OBVIOUS
<1> HIDE DEF f
<1>2. Iterate(f, 1, n) \in Nat
  BY <1>1, IterateKeeps
<1> QED
  BY <1>2 DEF Power, f

LEMMA PowerZero == \A b : Power(b, 0) = 1
BY IterateZero DEF Power

LEMMA PowerNext ==
  ASSUME NEW b \in Nat, NEW n \in Nat
  PROVE  Power(b, n + 1) = b * Power(b, n)
<1>1. Power(b, n) \in Nat
  BY PowerNat
<1>2. Power(b, n + 1) = [x \in Nat |-> b * x][Power(b, n)]
  BY IterateNext DEF Power
<1> QED
  BY <1>1, <1>2

\* Powers grow with the base, and those of a positive base are positive.
LEMMA PowerGrows ==
  ASSUME NEW a \in Nat, NEW b \in Nat, a <= b, NEW n \in Nat
  PROVE  Power(a, n) <= Power(b, n)
<1> DEFINE A == {k \in Nat : Power(a, k) <= Power(b, k)}
<1>1. 0 \in A
  BY PowerZero
<1>2. ASSUME NEW k \in Nat \cap A
      PROVE  k + 1 \in A
  <2> DEFINE x == Power(a, k)
             y == Power(b, k)
  <2>1. x \in Nat /\ y \in Nat /\ x <= y
    BY PowerNat
  <2>2. Power(a, k + 1) = a * x /\ Power(b, k + 1) = b * y
    BY PowerNext
  <2> HIDE DEF x, y
  <2>3. a * x <= a * y
    BY <2>1
  <2>4. a * y <= b * y
    BY <2>1
  <2>5. a * x <= b * y
    <3>1. a * x \in Int /\ a * y \in Int /\ b * y \in Int
      BY <2>1
    <3> QED
      BY <2>3, <2>4, <3>1
  <2>6. Power(a, k + 1) <= Power(b, k + 1)
    BY <2>2, <2>5
  <2> QED
    BY <2>6
<1>3. Nat \subseteq A
  <2> HIDE DEF A
  <2> QED
    BY <1>1, <1>2, NumberInduction
<1> QED
  BY <1>3

LEMMA PowerPositive ==
  ASSUME NEW b \in Nat \ {0}, NEW n \in Nat
  PROVE  Power(b, n) \in Nat \ {0}
<1> DEFINE A == {k \in Nat : Power(b, k) # 0}
<1>1. 0 \in A
  BY PowerZero
<1>2. ASSUME NEW k \in Nat \cap A
      PROVE  k + 1 \in A
  <2> DEFINE x == Power(b, k)
  <2>1. x \in Nat \ {0}
    BY PowerNat
  <2>2. Power(b, k + 1) = b * x
    BY PowerNext
  <2> HIDE DEF x
  <2>3. b * x # 0
    BY <2>1
  <2>4. Power(b, k + 1) # 0
    BY <2>2, <2>3
  <2> QED
    BY <2>4
<1>3. Nat \subseteq A
  <2> HIDE DEF A
  <2> QED
    BY <1>1, <1>2, NumberInduction
<1> QED
  BY <1>3, PowerNat

\* The powers of 2 count subsets, and are positive for that reason.
LEMMA PowerOfTwo ==
  ASSUME NEW n \in Nat
  PROVE  2^n \in Nat \ {0}
<1> DEFINE S == 1 .. n
<1>1. IsFiniteSet(S) /\ Cardinality(S) = n
  BY FS_Interval
<1>2. IsFiniteSet(SUBSET S) /\ Cardinality(SUBSET S) = 2^n
  BY <1>1, FS_SUBSET
<1>3. SUBSET S # {}
  OBVIOUS
<1> QED
  BY <1>2, <1>3, FS_CardinalityType, FS_EmptySet

-----------------------------------------------------------------------------
\* Sequences in which nothing occurs twice: what is added at the end, and taken at the head.
Distinct(s) == \A i, j \in DOMAIN s : s[i] = s[j] => i = j

LEMMA AppendedQueue ==
  ASSUME NEW S, NEW s \in Seq(S), NEW p \in S
  PROVE  /\ Append(s, p) \in Seq(S)
         /\ ToSet(Append(s, p)) = ToSet(s) \cup {p}
         /\ Distinct(s) /\ p \notin ToSet(s) => Distinct(Append(s, p))
<1> DEFINE t == Append(s, p)
<1>1. /\ t \in Seq(S) /\ Len(s) \in Nat
      /\ DOMAIN t = 1 .. (Len(s) + 1) /\ DOMAIN s = 1 .. Len(s)
      /\ \A i \in 1 .. Len(s) : t[i] = s[i]
      /\ t[Len(s) + 1] = p
  OBVIOUS
<1> HIDE DEF t
<1>2. ToSet(t) = ToSet(s) \cup {p}
  <2>1. \A i \in DOMAIN t : t[i] \in ToSet(s) \cup {p}
    BY <1>1 DEF ToSet
  <2>2. \A i \in DOMAIN s : i \in DOMAIN t /\ s[i] = t[i]
    BY <1>1
  <2>3. Len(s) + 1 \in DOMAIN t
    BY <1>1
  <2> QED
    BY <1>1, <2>1, <2>2, <2>3 DEF ToSet
<1>3. ASSUME Distinct(s), p \notin ToSet(s)
      PROVE  Distinct(t)
  <2>1. \A i \in 1 .. Len(s) : s[i] # p
    BY <1>1, <1>3 DEF ToSet
  <2> QED
    BY <1>1, <1>3, <2>1 DEF Distinct
<1> QED
  BY <1>1, <1>2, <1>3 DEF t

LEMMA DequeuedQueue ==
  ASSUME NEW S, NEW s \in Seq(S), s # <<>>
  PROVE  /\ Head(s) \in S /\ Head(s) \in ToSet(s)
         /\ Tail(s) \in Seq(S)
         /\ Distinct(s) => ToSet(Tail(s)) = ToSet(s) \ {Head(s)} /\ Distinct(Tail(s))
<1> DEFINE t == Tail(s)
<1>1. /\ t \in Seq(S) /\ Len(s) \in Nat \ {0}
      /\ DOMAIN t = 1 .. (Len(s) - 1) /\ DOMAIN s = 1 .. Len(s)
      /\ \A i \in 1 .. (Len(s) - 1) : t[i] = s[i + 1]
      /\ Head(s) = s[1]
  OBVIOUS
<1>2. 1 \in DOMAIN s
  BY <1>1
<1> HIDE DEF t
<1>3. ASSUME Distinct(s)
      PROVE  ToSet(t) = ToSet(s) \ {Head(s)} /\ Distinct(t)
  <2>1. \A i \in DOMAIN t : i + 1 \in DOMAIN s /\ t[i] = s[i + 1] /\ i + 1 # 1
    BY <1>1
  <2>2. \A i \in DOMAIN s : i # 1 => i - 1 \in DOMAIN t /\ t[i - 1] = s[i]
    BY <1>1
  <2>3. \A i \in DOMAIN t : t[i] \in ToSet(s) \ {Head(s)}
    BY <1>1, <1>2, <1>3, <2>1 DEF ToSet, Distinct
  <2>4. \A i \in DOMAIN s : s[i] # Head(s) => s[i] \in ToSet(t)
    BY <1>1, <2>2 DEF ToSet
  <2>5. ToSet(t) = ToSet(s) \ {Head(s)}
    BY <2>3, <2>4 DEF ToSet
  <2>6. Distinct(t)
    BY <1>1, <1>3, <2>1 DEF Distinct
  <2> QED
    BY <2>5, <2>6
<1> QED
  BY <1>1, <1>2, <1>3 DEF t, ToSet

\* How many elements the sequence has, and how many there are in sets of which no two have
\* an element in common.
LEMMA DistinctCount ==
  ASSUME NEW S, NEW s \in Seq(S), Distinct(s)
  PROVE  IsFiniteSet(ToSet(s)) /\ Cardinality(ToSet(s)) = Len(s)
<1> DEFINE D == 1 .. Len(s)
           T == ToSet(s)
<1>1. Len(s) \in Nat /\ DOMAIN s = D
  OBVIOUS
<1>2. /\ s \in [D -> T] /\ \A i, j \in D : s[i] = s[j] => i = j
      /\ \A x \in T : \E i \in D : s[i] = x
  BY <1>1 DEF Distinct, ToSet
<1> HIDE DEF D, T
<1>3. ExistsBijection(D, T)
  BY <1>2 DEF ExistsBijection, Bijection, Injection, Surjection, IsInjective
<1>4. Cardinality(T) = Len(s) /\ IsFiniteSet(T)
  BY <1>1, <1>3, FS_CountingElements, FS_NatBijection DEF D
<1> QED
  BY <1>4 DEF T

LEMMA CountUnion ==
  ASSUME NEW D, IsFiniteSet(D), NEW G, \A d \in D : IsFiniteSet(G[d]),
         \A d, e \in D : d # e => G[d] \cap G[e] = {}, NEW f,
         \A d \in D : f[d] = Cardinality(G[d])
  PROVE  LET U == UNION {G[d] : d \in D}
         IN  IsFiniteSet(U) /\ Cardinality(U) = SumOver(f, D)
<1> DEFINE U(T) == UNION {G[d] : d \in T}
           B == {T \in SUBSET D : IsFiniteSet(U(T)) /\ Cardinality(U(T)) = SumOver(f, T)}
<1>1. ASSUME NEW T \in SUBSET D, \A V \in SUBSET T : V # T => V \in B
      PROVE  T \in B
  <2>1. IsFiniteSet(T)
    BY FS_Subset
  <2>2. CASE T = {}
    <3>1. U(T) = {}
      BY <2>2
    <3>2. IsFiniteSet({}) /\ Cardinality({}) = 0
      BY FS_EmptySet
    <3> QED
      BY <2>2, <3>1, <3>2, SumOverEmpty
  <2>3. CASE T # {}
    <3> DEFINE c == Choice(T)
               V == T \ {c}
    <3>1. c \in T /\ c \in D
      BY <2>3, ChoiceIn
    <3>2. V \in B
      BY <1>1, <3>1
    <3>3. IsFiniteSet(U(V)) /\ Cardinality(U(V)) = SumOver(f, V)
      BY <3>2
    <3>4. U(T) = G[c] \cup U(V) /\ G[c] \cap U(V) = {}
      BY <3>1
    <3>5. IsFiniteSet(G[c]) /\ f[c] = Cardinality(G[c])
      BY <3>1
    <3>6. SumOver(f, T) = f[c] + SumOver(f, V)
      BY <2>1, <2>3, SumOverChoice
    <3> DEFINE X == U(V)
               Y == U(T)
               Z == G[c]
    <3>7. Y = Z \cup X /\ Z \cap X = {} /\ IsFiniteSet(X) /\ IsFiniteSet(Z)
      BY <3>3, <3>4, <3>5
    <3>8. Cardinality(X) = SumOver(f, V) /\ Cardinality(Z) = f[c]
      BY <3>3, <3>5
    <3> HIDE DEF X, Y, Z, U, B, c, V
    <3>9. IsFiniteSet(Y) /\ Cardinality(Y) = Cardinality(Z) + Cardinality(X)
      <4>1. /\ IsFiniteSet(Y)
            /\ Cardinality(Y) = Cardinality(Z) + Cardinality(X) - Cardinality({})
        BY <3>7, FS_Union
      <4>2. /\ Cardinality({}) = 0 /\ Cardinality(X) \in Nat /\ Cardinality(Z) \in Nat
        BY <3>7, FS_EmptySet, FS_CardinalityType
      <4> QED
        BY <4>1, <4>2
    <3>10. IsFiniteSet(Y) /\ Cardinality(Y) = SumOver(f, T)
      BY <3>6, <3>8, <3>9
    <3> QED
      BY <3>10 DEF B, Y
  <2> QED
    BY <2>2, <2>3
<1>2. SUBSET D \subseteq B
  <2> HIDE DEF B
  <2> QED
    BY <1>1, SubsetInduction
<1> QED
  BY <1>2

-----------------------------------------------------------------------------
\* Sums over sequences of numbers: what is added at the end, and taken at the head.
LEMMA SumOfAppended ==
  ASSUME NEW s \in Seq(Int), NEW x \in Int
  PROVE  SumOver(Append(s, x), DOMAIN Append(s, x)) = SumOver(s, DOMAIN s) + x
<1> DEFINE t == Append(s, x)
           n == Len(s)
<1>1. /\ n \in Nat /\ DOMAIN s = 1 .. n /\ DOMAIN t = (1 .. n) \cup {n + 1}
      /\ \A i \in 1 .. n : t[i] = s[i] /\ s[i] \in Int
      /\ t[n + 1] = x
  OBVIOUS
<1> HIDE DEF t, n
<1>2. IsFiniteSet(1 .. n) /\ n + 1 \notin 1 .. n
  BY <1>1, FS_Interval
<1>3. \A i \in (1 .. n) \cup {n + 1} : t[i] \in Int
  <2>1. \A i \in 1 .. n : t[i] \in Int
    BY <1>1, Zenon
  <2>2. t[n + 1] \in Int
    BY <1>1
  <2> QED
    BY <2>1, <2>2, ZenonT(30)
<1>4. SumOver(t, (1 .. n) \cup {n + 1}) = SumOver(t, 1 .. n) + t[n + 1]
  <2> DEFINE I == 1 .. n
             m == n + 1
  <2>1. IsFiniteSet(I) /\ m \notin I /\ \A i \in I \cup {m} : t[i] \in Int
    BY <1>2, <1>3
  <2> HIDE DEF I, m
  <2>2. SumOver(t, I \cup {m}) = SumOver(t, I) + t[m]
    BY <2>1, SumOverAdd
  <2> QED
    BY <2>2 DEF I, m
<1>5. SumOver(t, 1 .. n) = SumOver(s, 1 .. n)
  BY <1>1, <1>2, SumOverSame
<1> QED
  BY <1>1, <1>4, <1>5 DEF t

LEMMA SumOneMore ==
  ASSUME NEW f, NEW n \in Nat, \A i \in 1 .. (n + 1) : f[i] \in Int
  PROVE  /\ SumOver(f, 1 .. (n + 1)) = SumOver(f, 1 .. n) + f[n + 1]
         /\ SumOver(f, 1 .. n) \in Int
<1> DEFINE S == 1 .. n
           m == n + 1
<1>1. IsFiniteSet(S) /\ m \notin S /\ S \cup {m} = 1 .. (n + 1)
  BY FS_Interval
<1>2. \A i \in S \cup {m} : f[i] \in Int
  BY <1>1
<1> HIDE DEF S, m
<1>3. SumOver(f, S \cup {m}) = SumOver(f, S) + f[m]
  BY <1>1, <1>2, SumOverAdd
<1>4. SumOver(f, S) \in Int
  BY <1>1, <1>2, SumOverInt
<1> QED
  BY <1>1, <1>3, <1>4 DEF S, m

LEMMA SumOfTail ==
  ASSUME NEW s \in Seq(Int), s # <<>>
  PROVE  SumOver(s, DOMAIN s) = Head(s) + SumOver(Tail(s), DOMAIN Tail(s))
<1> DEFINE t == Tail(s)
           n == Len(t)
           A == {k \in Nat : k <= n =>
                   SumOver(s, 1 .. (k + 1)) = s[1] + SumOver(t, 1 .. k)}
<1>1. /\ n \in Nat /\ DOMAIN t = 1 .. n /\ DOMAIN s = 1 .. (n + 1) /\ Head(s) = s[1]
      /\ \A i \in 1 .. n : t[i] = s[i + 1] /\ t[i] \in Int
      /\ \A i \in 1 .. (n + 1) : s[i] \in Int
  OBVIOUS
<1> HIDE DEF t, n
<1>2. 0 \in A
  <2>1. 1 .. (0 + 1) = {} \cup {1} /\ 1 .. 0 = {} /\ s[1] \in Int
    BY <1>1
  <2>2. SumOver(s, {} \cup {1}) = SumOver(s, {}) + s[1]
    BY <2>1, SumOverAdd, FS_EmptySet
  <2>3. SumOver(s, {}) = 0 /\ SumOver(t, {}) = 0
    BY SumOverEmpty
  <2>4. SumOver(s, 1 .. (0 + 1)) = s[1] + SumOver(t, 1 .. 0)
    BY <2>1, <2>2, <2>3
  <2> QED
    BY <2>4
<1>3. ASSUME NEW k \in Nat \cap A
      PROVE  k + 1 \in A
  <2> SUFFICES ASSUME k + 1 <= n
               PROVE  SumOver(s, 1 .. ((k + 1) + 1)) = s[1] + SumOver(t, 1 .. (k + 1))
    OBVIOUS
  <2>1. SumOver(s, 1 .. (k + 1)) = s[1] + SumOver(t, 1 .. k)
    BY <1>1
  <2>2. k \in Nat /\ k + 1 \in Nat
    OBVIOUS
  <2>3. \A i \in 1 .. ((k + 1) + 1) : s[i] \in Int
    BY <1>1
  <2>4. \A i \in 1 .. (k + 1) : t[i] \in Int
    BY <1>1
  <2>5. SumOver(s, 1 .. ((k + 1) + 1)) = SumOver(s, 1 .. (k + 1)) + s[(k + 1) + 1]
    BY <2>2, <2>3, SumOneMore
  <2>6. SumOver(t, 1 .. (k + 1)) = SumOver(t, 1 .. k) + t[k + 1] /\ SumOver(t, 1 .. k) \in Int
    BY <2>2, <2>4, SumOneMore
  <2>7. s[(k + 1) + 1] = t[k + 1] /\ s[1] \in Int /\ t[k + 1] \in Int
    BY <1>1
  <2> QED
    BY <2>1, <2>5, <2>6, <2>7
<1>4. Nat \subseteq A
  <2> HIDE DEF A
  <2> QED
    BY <1>2, <1>3, NumberInduction
<1>5. SumOver(s, 1 .. (n + 1)) = s[1] + SumOver(t, 1 .. n)
  BY <1>1, <1>4
<1> QED
  BY <1>1, <1>5 DEF t
=============================================================================
