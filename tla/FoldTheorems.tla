---------------------------- MODULE FoldTheorems ----------------------------
(***************************************************************************)
(* What the folds of the models compute.  MapThenSumSet is a fold in an    *)
(* arbitrary order: the lemmas on sums show, by the smallest set that would*)
(* be an exception, that each element counts once, whatever the order.     *)
(* FoldLeft is a fold from the first to the last element of a sequence,    *)
(* whose values a function on numbers can list; FoldSet is one in an       *)
(* arbitrary order, whose values are listed for the sets of elements.      *)
(***************************************************************************)
EXTENDS Integers, Sequences, FiniteSets, FiniteSetsExt, FiniteSetTheorems,
        WellFoundedInduction, TLAPS

\* Among sets of subsets of a finite set, there is always a smallest one.
LEMMA SmallestSet ==
  ASSUME NEW S, IsFiniteSet(S), NEW T \in SUBSET SUBSET S, T # {}
  PROVE  \E U \in T : \A V \in SUBSET U : V # U => V \notin T
<1> DEFINE R == StrictSubsetOrdering(S)
<1>1. IsWellFoundedOn(R, SUBSET S)
  BY FS_StrictSubsetOrderingWellFounded, FS_FiniteSubsetsOfFinite
<1> HIDE DEF R
<1>2. \E U \in T : \A V \in T : ~(<<V, U>> \in R)
  BY <1>1, WFMin
<1> QED BY <1>2 DEF R, StrictSubsetOrdering

\* A set of numbers with zero and every successor has all of them.
LEMMA AllNumbers ==
  ASSUME NEW T, 0 \in T, \A n \in Nat : n \in T => n + 1 \in T
  PROVE  \A n \in Nat : n \in T
<1> DEFINE Bad == Nat \ T
           R == OpToRel(<, Nat)
<1>1. SUFFICES Bad = {}
  OBVIOUS
<1>2. SUFFICES ASSUME Bad # {} PROVE FALSE
  OBVIOUS
<1>3. IsWellFoundedOn(R, Nat) /\ Bad \subseteq Nat
  BY NatLessThanWellFounded
<1> HIDE DEF R, Bad
<1>4. PICK n \in Bad : \A m \in Bad : ~(<<m, n>> \in R)
  BY <1>2, <1>3, WFMin
<1>5. n \in Nat /\ n # 0 /\ n - 1 \in Nat
  BY <1>4 DEF Bad
<1>6. <<n - 1, n>> \in R
  BY <1>5 DEF R, OpToRel
<1>7. n - 1 \in T
  BY <1>4, <1>5, <1>6 DEF Bad
<1> QED BY <1>4, <1>5, <1>7 DEF Bad

SumOf(c, S) == MapThenSumSet(LAMBDA x : c[x], S)
Chosen(s) == CHOOSE x \in s : TRUE

\* What the fold computes for the subsets s of a set, with its values f for them.
Added(c, f, s) == IF s = {} THEN 0 ELSE c[Chosen(s)] + f[s \ {Chosen(s)}]
SumFold(c, S) == CHOOSE f : f = [s \in SUBSET S |-> Added(c, f, s)]

LEMMA SumIsFold == ASSUME NEW c, NEW S PROVE SumOf(c, S) = SumFold(c, S)[S]
  BY DEF SumOf, MapThenSumSet, MapThenFoldSet, SumFold, Added, Chosen

LEMMA ChosenIn == ASSUME NEW s, s # {} PROVE Chosen(s) \in s
  BY DEF Chosen

LEMMA SumFoldExists ==
  ASSUME NEW c, NEW S, IsFiniteSet(S)
  PROVE  \A s \in SUBSET S : SumFold(c, S)[s] = Added(c, SumFold(c, S), s)
<1> DEFINE G(n) == {s \in SUBSET S : Cardinality(s) <= n}
           Computes(n, f) == \A s \in G(n) : f[s] = Added(c, f, s)
           T == {n \in Nat : \E f : Computes(n, f)}
<1>1. \A s \in SUBSET S : IsFiniteSet(s) /\ Cardinality(s) \in Nat
  BY FS_Subset, FS_CardinalityType
<1>2. 0 \in T
  <2>1. \A s \in G(0) : s = {}
    BY <1>1, FS_EmptySet
  <2>2. Computes(0, [s \in G(0) |-> 0])
    BY <2>1 DEF Added
  <2> QED BY <2>2
<1>3. ASSUME NEW n \in Nat, n \in T PROVE n + 1 \in T
  <2>1. PICK f : Computes(n, f)
    BY <1>3
  <2> DEFINE g == [s \in G(n + 1) |-> IF s \in G(n) THEN f[s] ELSE Added(c, f, s)]
  <2>2. ASSUME NEW s \in G(n + 1), s # {} PROVE s \ {Chosen(s)} \in G(n)
    <3>1. Chosen(s) \in s /\ IsFiniteSet(s)
      BY <1>1, <2>2, ChosenIn
    <3>2. Cardinality(s \ {Chosen(s)}) = Cardinality(s) - 1
      BY <3>1, FS_RemoveElement
    <3>3. s \ {Chosen(s)} \in SUBSET S
      OBVIOUS
    <3> DEFINE a == Cardinality(s)
               b == Cardinality(s \ {Chosen(s)})
    <3>4. a \in Nat /\ b \in Nat /\ b = a - 1 /\ a <= n + 1
      BY <1>1, <3>2, <3>3
    <3> HIDE DEF a, b
    <3>5. b <= n
      BY <3>4
    <3> QED BY <3>3, <3>5 DEF b
  <2>3. G(n) \subseteq G(n + 1)
    <3>1. ASSUME NEW s \in G(n) PROVE Cardinality(s) <= n + 1
      <4> DEFINE a == Cardinality(s)
      <4>1. a \in Nat /\ a <= n
        BY <1>1
      <4> HIDE DEF a
      <4>2. a <= n + 1
        BY <4>1
      <4> QED BY <4>2 DEF a
    <3> QED BY <3>1
  <2> HIDE DEF G
  <2>4. ASSUME NEW s \in G(n + 1) PROVE Added(c, g, s) = Added(c, f, s)
    BY <2>2, <2>3 DEF Added
  <2>5. ASSUME NEW s \in G(n + 1) PROVE g[s] = Added(c, g, s)
    BY <2>1, <2>4
  <2>6. Computes(n + 1, g)
    BY <2>5
  <2> HIDE DEF g, Computes
  <2>7. \E x : Computes(n + 1, x)
    BY <2>6
  <2> QED BY <2>7
<1> HIDE DEF T
<1>4. \A n \in Nat : n \in T
  BY <1>2, <1>3, AllNumbers
<1>5. PICK f : Computes(Cardinality(S), f)
  BY <1>1, <1>4 DEF T
<1>6. G(Cardinality(S)) = SUBSET S
  BY FS_Subset
<1> DEFINE h == [s \in SUBSET S |-> f[s]]
<1>7. \A s \in SUBSET S : h[s] = Added(c, h, s)
  BY <1>5, <1>6 DEF Added
<1>8. h = [s \in SUBSET S |-> Added(c, h, s)]
  BY <1>7
<1>9. \E x : x = [s \in SUBSET S |-> Added(c, x, s)]
  BY <1>8
<1>10. SumFold(c, S) = [s \in SUBSET S |-> Added(c, SumFold(c, S), s)]
  BY <1>9 DEF SumFold
<1> QED BY <1>10

\* The sum of a set takes the values of its subsets from the same fold.
LEMMA SumOfSubset ==
  ASSUME NEW c, NEW S, IsFiniteSet(S), NEW U \in SUBSET S
  PROVE  SumFold(c, S)[U] = SumOf(c, U)
<1> DEFINE f == SumFold(c, S)
           g == SumFold(c, U)
           Bad == {V \in SUBSET U : f[V] # g[V]}
<1>1. IsFiniteSet(U)
  BY FS_Subset
<1>2. /\ \A V \in SUBSET S : f[V] = Added(c, f, V)
      /\ \A V \in SUBSET U : g[V] = Added(c, g, V)
  BY <1>1, SumFoldExists, Zenon
<1> HIDE DEF f, g
<1>3. ASSUME Bad # {} PROVE FALSE
  <2>0. Bad \in SUBSET SUBSET U
    OBVIOUS
  <2> HIDE DEF Bad
  <2>1. PICK V \in Bad : \A W \in SUBSET V : W # V => W \notin Bad
    BY <1>1, <1>3, <2>0, SmallestSet
  <2> USE DEF Bad
  <2>2. V # {}
    BY <1>2, <2>1 DEF Added
  <2>3. Chosen(V) \in V
    BY <2>2, ChosenIn
  <2>4. f[V \ {Chosen(V)}] = g[V \ {Chosen(V)}]
    BY <2>1, <2>3
  <2>5. V \in SUBSET S /\ V \in SUBSET U
    OBVIOUS
  <2>6. f[V] = g[V]
    BY <1>2, <2>2, <2>4, <2>5 DEF Added
  <2> QED BY <2>1, <2>6
<1>4. f[U] = g[U]
  BY <1>3
<1> QED BY <1>4, SumIsFold DEF f, g

\* The empty sum, and a sum in the order of the fold.
LEMMA SumUnfolds ==
  ASSUME NEW c, NEW S, IsFiniteSet(S)
  PROVE  /\ S = {} => SumOf(c, S) = 0
         /\ S # {} => SumOf(c, S) = c[Chosen(S)] + SumOf(c, S \ {Chosen(S)})
<1> DEFINE f == SumFold(c, S)
<1>1. f[S] = Added(c, f, S) /\ SumOf(c, S) = f[S]
  BY SumFoldExists, SumIsFold, Zenon
<1>2. f[S \ {Chosen(S)}] = SumOf(c, S \ {Chosen(S)})
  BY SumOfSubset
<1> HIDE DEF f
<1> QED BY <1>1, <1>2 DEF Added

\* Natural numbers add up to one.
LEMMA SumType ==
  ASSUME NEW c, NEW S, IsFiniteSet(S), \A x \in S : c[x] \in Nat
  PROVE  SumOf(c, S) \in Nat
<1> DEFINE Bad == {U \in SUBSET S : SumOf(c, U) \notin Nat}
<1>1. ASSUME Bad # {} PROVE FALSE
  <2>0. Bad \in SUBSET SUBSET S
    OBVIOUS
  <2> HIDE DEF Bad
  <2>1. PICK U \in Bad : \A V \in SUBSET U : V # U => V \notin Bad
    BY <1>1, <2>0, SmallestSet
  <2> USE DEF Bad
  <2>2. IsFiniteSet(U)
    BY FS_Subset
  <2>3. U # {}
    <3>1. U = {} => SumOf(c, U) = 0
      BY <2>2, SumUnfolds
    <3> QED BY <2>1, <3>1
  <2>4. Chosen(U) \in U /\ c[Chosen(U)] \in Nat
    BY <2>3, ChosenIn
  <2>5. SumOf(c, U \ {Chosen(U)}) \in Nat
    BY <2>1, <2>4
  <2>6. SumOf(c, U) = c[Chosen(U)] + SumOf(c, U \ {Chosen(U)})
    BY <2>2, <2>3, SumUnfolds
  <2> QED BY <2>1, <2>4, <2>5, <2>6
<1> QED BY <1>1

\* Whatever element is taken out, it counts once.
LEMMA SumWithout ==
  ASSUME NEW c, NEW S, IsFiniteSet(S), \A x \in S : c[x] \in Nat, NEW y \in S
  PROVE  SumOf(c, S) = c[y] + SumOf(c, S \ {y})
<1> DEFINE Splits(U, x) == SumOf(c, U) = c[x] + SumOf(c, U \ {x})
           Bad == {U \in SUBSET S : \E x \in U : ~Splits(U, x)}
<1>1. ASSUME Bad # {} PROVE FALSE
  <2>0. Bad \in SUBSET SUBSET S
    OBVIOUS
  <2> HIDE DEF Bad
  <2>1. PICK U \in Bad : \A V \in SUBSET U : V # U => V \notin Bad
    BY <1>1, <2>0, SmallestSet
  <2> USE DEF Bad
  <2>2. PICK x \in U : ~Splits(U, x)
    BY <2>1
  <2> DEFINE p == Chosen(U)
  <2>3. p \in U /\ U \in SUBSET S
    BY <2>2, ChosenIn
  <2>4. \A V \in SUBSET S : IsFiniteSet(V) /\ SumOf(c, V) \in Nat
    BY FS_Subset, SumType
  <2>5. Splits(U, p)
    BY <2>3, <2>4, SumUnfolds
  <2> HIDE DEF p
  <2>6. x # p
    BY <2>2, <2>5
  <2>7. Splits(U \ {p}, x) /\ Splits(U \ {x}, p)
    BY <2>1, <2>3, <2>6
  <2>8. (U \ {p}) \ {x} = (U \ {x}) \ {p}
    OBVIOUS
  <2> DEFINE a == SumOf(c, U)
             b == SumOf(c, U \ {p})
             d == SumOf(c, U \ {x})
             e == SumOf(c, (U \ {x}) \ {p})
  <2>9. a \in Nat /\ b \in Nat /\ d \in Nat /\ e \in Nat /\ c[x] \in Nat /\ c[p] \in Nat
    BY <2>3, <2>4
  <2>10. a = c[p] + b /\ b = c[x] + e /\ d = c[p] + e
    BY <2>5, <2>7, <2>8
  <2> HIDE DEF a, b, d, e
  <2>11. a = c[x] + d
    BY <2>9, <2>10
  <2> QED BY <2>2, <2>11 DEF a, d
<1> QED BY <1>1

\* One more element counts once.
LEMMA SumWith ==
  ASSUME NEW c, NEW S, IsFiniteSet(S), NEW y, y \notin S,
         \A x \in S \union {y} : c[x] \in Nat
  PROVE  SumOf(c, S \union {y}) = SumOf(c, S) + c[y]
<1>1. IsFiniteSet(S \union {y}) /\ (S \union {y}) \ {y} = S
  BY FS_AddElement
<1>2. SumOf(c, S \union {y}) = c[y] + SumOf(c, S)
  BY <1>1, SumWithout
<1>3. SumOf(c, S) \in Nat /\ c[y] \in Nat
  BY SumType
<1> QED BY <1>2, <1>3

\* A sum sees no more of a function than its values on the set.
LEMMA SumSame ==
  ASSUME NEW c, NEW d, NEW S, IsFiniteSet(S), \A x \in S : c[x] = d[x]
  PROVE  SumOf(c, S) = SumOf(d, S)
<1> DEFINE Bad == {U \in SUBSET S : SumOf(c, U) # SumOf(d, U)}
<1>1. ASSUME Bad # {} PROVE FALSE
  <2>0. Bad \in SUBSET SUBSET S
    OBVIOUS
  <2> HIDE DEF Bad
  <2>1. PICK U \in Bad : \A V \in SUBSET U : V # U => V \notin Bad
    BY <1>1, <2>0, SmallestSet
  <2> USE DEF Bad
  <2>2. IsFiniteSet(U)
    BY FS_Subset
  <2>3. /\ U = {} => SumOf(c, U) = 0 /\ SumOf(d, U) = 0
        /\ U # {} => /\ SumOf(c, U) = c[Chosen(U)] + SumOf(c, U \ {Chosen(U)})
                     /\ SumOf(d, U) = d[Chosen(U)] + SumOf(d, U \ {Chosen(U)})
    BY <2>2, SumUnfolds
  <2>4. U # {} => Chosen(U) \in U
    BY ChosenIn
  <2>5. U # {} => SumOf(c, U \ {Chosen(U)}) = SumOf(d, U \ {Chosen(U)})
    BY <2>1, <2>4
  <2> QED BY <2>1, <2>3, <2>4, <2>5
<1> QED BY <1>1

\* The sum of a function of which one value changes.
LEMMA SumChanges ==
  ASSUME NEW c, NEW d, NEW S, IsFiniteSet(S), NEW y \in S,
         \A x \in S : c[x] \in Nat /\ d[x] \in Nat,
         \A x \in S \ {y} : c[x] = d[x]
  PROVE  SumOf(d, S) + c[y] = SumOf(c, S) + d[y]
<1> DEFINE a == SumOf(c, S)
           b == SumOf(d, S)
           r == SumOf(c, S \ {y})
           u == c[y]
           v == d[y]
<1>1. a = u + r /\ b = v + SumOf(d, S \ {y})
  BY SumWithout
<1>2. IsFiniteSet(S \ {y})
  BY FS_Subset
<1>3. SumOf(d, S \ {y}) = r
  BY <1>2, SumSame
<1>4. r \in Nat /\ u \in Nat /\ v \in Nat
  BY <1>2, SumType
<1> HIDE DEF a, b, r, u, v
<1>5. b + u = a + v
  BY <1>1, <1>3, <1>4
<1> QED BY <1>5 DEF a, b, u, v

\* The sum of the first numbers' values, one by one.
LEMMA SumUpTo ==
  ASSUME NEW c, NEW n \in Nat, \A k \in 1 .. n + 1 : c[k] \in Nat
  PROVE  /\ SumOf(c, 1 .. 0) = 0
         /\ SumOf(c, 1 .. n + 1) = SumOf(c, 1 .. n) + c[n + 1]
         /\ SumOf(c, 1 .. n) \in Nat
<1>1. IsFiniteSet(1 .. 0) /\ IsFiniteSet(1 .. n) /\ 1 .. 0 = {}
  BY FS_Interval
<1>2. (1 .. n) \union {n + 1} = 1 .. n + 1 /\ n + 1 \notin 1 .. n
  OBVIOUS
<1>3. \A k \in 1 .. n : c[k] \in Nat
  OBVIOUS
<1>4. SumOf(c, 1 .. 0) = 0
  BY <1>1, SumUnfolds
<1>5. SumOf(c, (1 .. n) \union {n + 1}) = SumOf(c, 1 .. n) + c[n + 1]
  BY <1>1, <1>2, SumWith
<1>6. SumOf(c, 1 .. n) \in Nat
  BY <1>1, <1>3, SumType
<1> QED BY <1>2, <1>4, <1>5, <1>6

\* A sum over a set is the one over its elements' numbers.
LEMMA SumNumbered ==
  ASSUME NEW N \in Nat, NEW S, NEW o \in [1 .. N -> S],
         \A i, k \in 1 .. N : o[i] = o[k] => i = k,
         \A x \in S : \E k \in 1 .. N : o[k] = x,
         NEW c, \A x \in S : c[x] \in Nat
  PROVE  SumOf(c, S) = SumOf([k \in 1 .. N |-> c[o[k]]], 1 .. N)
<1> DEFINE d == [k \in 1 .. N |-> c[o[k]]]
           Seen(n) == {o[k] : k \in 1 .. n}
           T == {n \in Nat : n <= N => /\ SumOf(c, Seen(n)) = SumOf(d, 1 .. n)
                                       /\ IsFiniteSet(Seen(n))}
<1>1. \A k \in 1 .. N : d[k] = c[o[k]] /\ d[k] \in Nat /\ o[k] \in S
  OBVIOUS
<1> HIDE DEF d
<1>2. 0 \in T
  <2>1. Seen(0) = {} /\ 1 .. 0 = {} /\ IsFiniteSet({})
    BY FS_EmptySet
  <2> HIDE DEF Seen
  <2> QED BY <2>1, SumUnfolds
<1>3. ASSUME NEW n \in Nat, n \in T PROVE n + 1 \in T
  <2>1. SUFFICES ASSUME n + 1 <= N
                 PROVE  /\ SumOf(c, Seen(n + 1)) = SumOf(d, 1 .. n + 1)
                        /\ IsFiniteSet(Seen(n + 1))
    OBVIOUS
  <2>2. SumOf(c, Seen(n)) = SumOf(d, 1 .. n) /\ IsFiniteSet(Seen(n))
    BY <1>3, <2>1
  <2>3. n + 1 \in 1 .. N /\ \A k \in 1 .. n : k \in 1 .. N /\ k # n + 1
    BY <2>1
  <2>4. Seen(n + 1) = Seen(n) \union {o[n + 1]}
    OBVIOUS
  <2>5. o[n + 1] \notin Seen(n)
    BY <2>3
  <2>6. \A x \in Seen(n) \union {o[n + 1]} : c[x] \in Nat
    BY <1>1, <2>3
  <2> HIDE DEF Seen
  <2>7. SumOf(c, Seen(n + 1)) = SumOf(c, Seen(n)) + c[o[n + 1]]
    BY <2>2, <2>4, <2>5, <2>6, SumWith
  <2>8. \A k \in 1 .. n + 1 : d[k] \in Nat
    BY <1>1, <2>1
  <2>9. SumOf(d, 1 .. n + 1) = SumOf(d, 1 .. n) + d[n + 1]
    BY <2>8, SumUpTo
  <2>10. d[n + 1] = c[o[n + 1]]
    BY <1>1, <2>3
  <2>11. IsFiniteSet(Seen(n + 1))
    BY <2>2, <2>4, FS_AddElement
  <2> QED BY <2>2, <2>7, <2>9, <2>10, <2>11
<1>4. Seen(N) = S
  BY <1>1
<1> HIDE DEF T, Seen
<1>5. N \in T
  BY <1>2, <1>3, AllNumbers
<1>6. SumOf(c, S) = SumOf(d, 1 .. N)
  BY <1>4, <1>5 DEF T
<1> QED BY <1>6, Zenon DEF d
-----------------------------------------------------------------------------
(* Folds of steps *)

\* The value of a fold at the indices s, when step i makes F[i][a] of a.
Stepped(F, base, f, s) == IF s = {} THEN base ELSE F[Max(s)][f[s \ {Max(s)}]]

\* What the fold takes on at each set of indices, all of it in A.
StepsFrom(base, A, N, F, f) ==
    /\ f \in [SUBSET (1 .. N) -> A]
    /\ \A s \in SUBSET (1 .. N) : f[s] = Stepped(F, base, f, s)

LEMMA MaxOfUpTo ==
  ASSUME NEW n \in Nat, NEW s \in SUBSET (1 .. n + 1), n + 1 \in s
  PROVE  Max(s) = n + 1
<1>1. \A y \in s : n + 1 >= y
  OBVIOUS
<1>2. \A x \in s : (\A y \in s : x >= y) => x = n + 1
  OBVIOUS
<1> QED BY <1>1, <1>2 DEF Max

\* The last of the first numbers, and those before it.
LEMMA LastUpTo ==
  ASSUME NEW n \in Nat
  PROVE  /\ 1 .. n + 1 # {} /\ Max(1 .. n + 1) = n + 1
         /\ (1 .. n + 1) \ {n + 1} = 1 .. n
<1>1. n + 1 \in 1 .. n + 1 /\ (1 .. n + 1) \ {n + 1} = 1 .. n
  OBVIOUS
<1>2. Max(1 .. n + 1) = n + 1
  BY <1>1, MaxOfUpTo
<1> QED BY <1>1, <1>2

\* Among the first numbers, some have a last one.
LEMMA MaxIn ==
  ASSUME NEW N \in Nat, NEW s \in SUBSET (1 .. N), s # {}
  PROVE  Max(s) \in s /\ \A y \in s : Max(s) >= y
<1> DEFINE Bound(n) == \A y \in s : y <= n
           T == {n \in Nat : Bound(n) => \E m \in s : Bound(m)}
<1>1. 0 \in T
  <2>1. PICK y \in s : TRUE
    OBVIOUS
  <2>2. y \in 1 .. N
    BY <2>1
  <2>3. ~(y <= 0)
    BY <2>2
  <2> QED BY <2>3
<1>2. ASSUME NEW n \in Nat, n \in T PROVE n + 1 \in T
  <2>1. SUFFICES ASSUME Bound(n + 1) PROVE \E m \in s : Bound(m)
    OBVIOUS
  <2>2. CASE n + 1 \in s
    BY <2>1, <2>2
  <2>3. CASE n + 1 \notin s
    <3>1. Bound(n)
      BY <2>1, <2>3
    <3> QED BY <1>2, <3>1
  <2> QED BY <2>2, <2>3
<1> HIDE DEF T
<1>3. N \in T
  BY <1>1, <1>2, AllNumbers
<1>4. PICK m \in s : Bound(m)
  BY <1>3 DEF T
<1>5. \A y \in s : m >= y
  BY <1>4
<1> QED BY <1>5 DEF Max

\* Steps that stay within a set can be taken one after the other.
LEMMA StepsExist ==
  ASSUME NEW A, NEW base \in A, NEW N \in Nat, NEW F \in [1 .. N -> [A -> A]]
  PROVE  \E f : StepsFrom(base, A, N, F, f)
<1> DEFINE Upto(n) == SUBSET (1 .. n)
           Computes(n, f) == \A s \in Upto(n) : f[s] = Stepped(F, base, f, s)
           Reached(n) == \E f \in [Upto(n) -> A] : Computes(n, f)
           T == {n \in Nat : n <= N => Reached(n)}
<1>1. 0 \in T
  <2>1. \A s \in Upto(0) : s = {}
    OBVIOUS
  <2>2. [s \in Upto(0) |-> base] \in [Upto(0) -> A] /\ Computes(0, [s \in Upto(0) |-> base])
    BY <2>1 DEF Stepped
  <2>3. Reached(0)
    BY <2>2
  <2> QED BY <2>3
<1> HIDE DEF Reached
<1>2. ASSUME NEW n \in Nat, n \in T PROVE n + 1 \in T
  <2>1. SUFFICES ASSUME n + 1 <= N PROVE Reached(n + 1)
    OBVIOUS
  <2>2. Reached(n)
    BY <1>2, <2>1
  <2> HIDE DEF Upto, Computes, T
  <2>3. PICK f \in [Upto(n) -> A] : Computes(n, f)
    BY <2>2, Zenon DEF Reached
  <2> DEFINE g == [s \in Upto(n + 1) |->
                     IF n + 1 \in s THEN F[n + 1][f[s \ {n + 1}]] ELSE f[s]]
  <2>4. \A s \in Upto(n + 1) : s \ {n + 1} \in Upto(n) /\ (n + 1 \notin s => s \in Upto(n))
    BY DEF Upto
  <2>5. \A s \in Upto(n) : /\ s \in Upto(n + 1) /\ n + 1 \notin s
                           /\ s \ {Max(s)} \in Upto(n)
    <3>1. 1 .. n \subseteq 1 .. n + 1 /\ n + 1 \notin 1 .. n
      OBVIOUS
    <3>2. \A s \in Upto(n) : s \subseteq 1 .. n
      BY DEF Upto
    <3>3. \A s \in Upto(n) : s \subseteq 1 .. n + 1 /\ n + 1 \notin s
      BY <3>1, <3>2
    <3>4. \A s \in Upto(n) : \A m : s \ {m} \subseteq 1 .. n
      BY <3>2
    <3> QED BY <3>3, <3>4 DEF Upto
  <2>6. F[n + 1] \in [A -> A]
    BY <2>1
  <2>7. g \in [Upto(n + 1) -> A]
    BY <2>4, <2>6
  <2>8. \A s \in Upto(n) : g[s] = f[s]
    BY <2>5
  <2>9. ASSUME NEW s \in Upto(n + 1), n + 1 \in s PROVE g[s] = Stepped(F, base, g, s)
    <3>1. Max(s) = n + 1
      BY <2>9, MaxOfUpTo DEF Upto
    <3>2. g[s \ {n + 1}] = f[s \ {n + 1}]
      BY <2>4, <2>8
    <3>3. g[s] = F[n + 1][f[s \ {n + 1}]]
      BY <2>9
    <3> HIDE DEF g
    <3> QED BY <2>9, <3>1, <3>2, <3>3 DEF Stepped
  <2>10. ASSUME NEW s \in Upto(n + 1), n + 1 \notin s PROVE g[s] = Stepped(F, base, g, s)
    <3>1. s \in Upto(n) /\ g[s] = f[s]
      BY <2>4, <2>8, <2>10
    <3>2. s \ {Max(s)} \in Upto(n)
      BY <2>5, <3>1
    <3>3. g[s \ {Max(s)}] = f[s \ {Max(s)}]
      BY <2>8, <3>2
    <3>4. f[s] = Stepped(F, base, f, s)
      BY <2>3, <3>1 DEF Computes
    <3> HIDE DEF g
    <3> QED BY <3>1, <3>3, <3>4 DEF Stepped
  <2> HIDE DEF g
  <2>11. Computes(n + 1, g)
    BY <2>9, <2>10 DEF Computes
  <2> QED BY <2>7, <2>11, Zenon DEF Reached
<1>3. \A n \in Nat : n \in T
  <2> HIDE DEF T
  <2> QED BY <1>1, <1>2, AllNumbers
<1>4. Reached(N)
  BY <1>3
<1>5. PICK f \in [Upto(N) -> A] : Computes(N, f)
  BY <1>4, Zenon DEF Reached
<1>6. StepsFrom(base, A, N, F, f)
  BY <1>5 DEF StepsFrom
<1> QED BY <1>6
-----------------------------------------------------------------------------
(* Folds of choices *)

\* The value of a fold at the members s, when one x makes F[x][a] of a.
Picked(F, base, f, s) == IF s = {} THEN base ELSE F[Chosen(s)][f[s \ {Chosen(s)}]]

Picks(F, base, S, f) == f = [s \in SUBSET S |-> Picked(F, base, f, s)]

\* What the fold takes on at each set of members, in A[s] for each s.
ChoicesFrom(base, A, S, F, f) ==
    /\ Picks(F, base, S, f)
    /\ \A s \in SUBSET S : f[s] \in A[s]

LEMMA PickedExists ==
  ASSUME NEW F, NEW base, NEW S, IsFiniteSet(S)
  PROVE  \E f : Picks(F, base, S, f)
<1> DEFINE G(n) == {s \in SUBSET S : Cardinality(s) <= n}
           Computes(n, f) == \A s \in G(n) : f[s] = Picked(F, base, f, s)
           T == {n \in Nat : \E f : Computes(n, f)}
<1>1. \A s \in SUBSET S : IsFiniteSet(s) /\ Cardinality(s) \in Nat
  BY FS_Subset, FS_CardinalityType
<1>2. 0 \in T
  <2>1. \A s \in G(0) : s = {}
    BY <1>1, FS_EmptySet
  <2>2. Computes(0, [s \in G(0) |-> base])
    BY <2>1 DEF Picked
  <2> QED BY <2>2
<1>3. ASSUME NEW n \in Nat, n \in T PROVE n + 1 \in T
  <2>1. PICK f : Computes(n, f)
    BY <1>3
  <2> DEFINE g == [s \in G(n + 1) |-> IF s \in G(n) THEN f[s] ELSE Picked(F, base, f, s)]
  <2>2. ASSUME NEW s \in G(n + 1), s # {} PROVE s \ {Chosen(s)} \in G(n)
    <3>1. Chosen(s) \in s /\ IsFiniteSet(s)
      BY <1>1, <2>2, ChosenIn
    <3>2. Cardinality(s \ {Chosen(s)}) = Cardinality(s) - 1
      BY <3>1, FS_RemoveElement
    <3>3. s \ {Chosen(s)} \in SUBSET S
      OBVIOUS
    <3> DEFINE a == Cardinality(s)
               b == Cardinality(s \ {Chosen(s)})
    <3>4. a \in Nat /\ b \in Nat /\ b = a - 1 /\ a <= n + 1
      BY <1>1, <3>2, <3>3
    <3> HIDE DEF a, b
    <3>5. b <= n
      BY <3>4
    <3> QED BY <3>3, <3>5 DEF b
  <2>3. G(n) \subseteq G(n + 1)
    <3>1. ASSUME NEW s \in G(n) PROVE Cardinality(s) <= n + 1
      <4> DEFINE a == Cardinality(s)
      <4>1. a \in Nat /\ a <= n
        BY <1>1
      <4> HIDE DEF a
      <4>2. a <= n + 1
        BY <4>1
      <4> QED BY <4>2 DEF a
    <3> QED BY <3>1
  <2> HIDE DEF G
  <2>4. ASSUME NEW s \in G(n + 1) PROVE Picked(F, base, g, s) = Picked(F, base, f, s)
    BY <2>2, <2>3 DEF Picked
  <2>5. ASSUME NEW s \in G(n + 1) PROVE g[s] = Picked(F, base, g, s)
    BY <2>1, <2>4
  <2>6. Computes(n + 1, g)
    BY <2>5
  <2> HIDE DEF g, Computes
  <2>7. \E x : Computes(n + 1, x)
    BY <2>6
  <2> QED BY <2>7
<1> HIDE DEF T
<1>4. \A n \in Nat : n \in T
  BY <1>2, <1>3, AllNumbers
<1>5. PICK f : Computes(Cardinality(S), f)
  BY <1>1, <1>4 DEF T
<1>6. G(Cardinality(S)) = SUBSET S
  BY FS_Subset
<1> DEFINE h == [s \in SUBSET S |-> f[s]]
<1>7. \A s \in SUBSET S : h[s] = Picked(F, base, h, s)
  BY <1>5, <1>6 DEF Picked
<1>8. Picks(F, base, S, h)
  BY <1>7 DEF Picks
<1> QED BY <1>8

\* Members that lead from a set of values to the next one can be taken in
\* any order.
LEMMA ChoicesExist ==
  ASSUME NEW S, IsFiniteSet(S), NEW A, NEW base \in A[{}], NEW F,
         \A s \in SUBSET S : s # {} => \A a \in A[s \ {Chosen(s)}] : F[Chosen(s)][a] \in A[s]
  PROVE  \E f : ChoicesFrom(base, A, S, F, f)
<1>1. PICK f : Picks(F, base, S, f)
  BY PickedExists
<1> DEFINE Bad == {s \in SUBSET S : f[s] \notin A[s]}
<1>2. ASSUME Bad # {} PROVE FALSE
  <2>0. Bad \in SUBSET SUBSET S
    OBVIOUS
  <2> HIDE DEF Bad
  <2>1. PICK U \in Bad : \A V \in SUBSET U : V # U => V \notin Bad
    BY <1>2, <2>0, SmallestSet
  <2> USE DEF Bad
  <2>2. U \in SUBSET S /\ f[U] = Picked(F, base, f, U)
    BY <1>1 DEF Picks
  <2>3. U # {}
    BY <2>1, <2>2 DEF Picked
  <2>4. Chosen(U) \in U
    BY <2>3, ChosenIn
  <2>5. f[U \ {Chosen(U)}] \in A[U \ {Chosen(U)}]
    BY <2>1, <2>4
  <2>6. F[Chosen(U)][f[U \ {Chosen(U)}]] \in A[U]
    BY <2>2, <2>3, <2>5
  <2> QED BY <2>1, <2>2, <2>3, <2>6 DEF Picked
<1>3. \A s \in SUBSET S : f[s] \in A[s]
  BY <1>2
<1>4. ChoicesFrom(base, A, S, F, f)
  BY <1>1, <1>3 DEF ChoicesFrom
<1> QED BY <1>4
=============================================================================
