------------------------ MODULE Calculations_proofs ------------------------
(***************************************************************************)
(* Proofs about calculations that loop over their data.                    *)
(*                                                                         *)
(* The allocation paradigms: no assets of the pool are given out twice or  *)
(* get lost but in calls that raise, and each way serves just the requests *)
(* it should, for any number of nodes, jobs and assets.                    *)
(*                                                                         *)
(* The grades of evaluations: they are fractions, forecasts that are right *)
(* have full marks, and a prediction that is lost raises no value, for any *)
(* levels, thresholds, weights, locations and metric schemes.              *)
(***************************************************************************)
EXTENDS AllocationParadigms, MetricScores, FoldTheorems, NaturalsInduction, FunctionTheorems,
        SequenceTheorems, TLAPS

-----------------------------------------------------------------------------
(* What grants add up to *)

LEMMA OnSetIsSum == ASSUME NEW c, NEW S PROVE SumFunctionOnSet(c, S) = SumOf(c, S)
  BY DEF SumFunctionOnSet, FoldFunctionOnSet, SumOf, MapThenSumSet, MapThenFoldSet

LEMMA SumUpIsSum ==
  ASSUME NEW grants, NEW I
  PROVE  /\ SumUp(grants, I).cpus = SumOf(Cpus(grants), I)
         /\ SumUp(grants, I).memory = SumOf(Memory(grants), I)
  BY OnSetIsSum DEF SumUp

LEMMA GrantTypes ==
  ASSUME NEW g \in Seq(GrantsOnNodes), NEW i \in DOMAIN g
  PROVE  /\ g[i] \in GrantsOnNodes /\ g[i].node \in Nodes
         /\ Cpus(g)[i] = g[i].cpus /\ Cpus(g)[i] \in Nat
         /\ Memory(g)[i] = g[i].memory /\ Memory(g)[i] \in Nat
<1>1. g[i] \in GrantsOnNodes
  OBVIOUS
<1> QED BY <1>1 DEF Cpus, Memory, GrantsOnNodes

\* Sums of the grants are assets, and nothing adds up to nothing.
LEMMA SumUpType ==
  ASSUME NEW g \in Seq(GrantsOnNodes), NEW I \in SUBSET DOMAIN g
  PROVE  SumUp(g, I) \in Assets /\ (I = {} => SumUp(g, I) = NoAssets)
<1>1. IsFiniteSet(I)
  BY FS_Interval, FS_Subset
<1>2. \A i \in I : Cpus(g)[i] \in Nat /\ Memory(g)[i] \in Nat
  BY GrantTypes
<1>3. SumOf(Cpus(g), I) \in Nat /\ SumOf(Memory(g), I) \in Nat
  BY <1>1, <1>2, SumType
<1>4. I = {} => SumOf(Cpus(g), I) = 0 /\ SumOf(Memory(g), I) = 0
  BY <1>1, SumUnfolds
<1> QED BY <1>3, <1>4, SumUpIsSum DEF SumUp, Assets, NoAssets

\* One more grant.
LEMMA SumUpWith ==
  ASSUME NEW g \in Seq(GrantsOnNodes), NEW x \in GrantsOnNodes, NEW I \in SUBSET DOMAIN g
  PROVE  LET h == Append(g, x)
         IN  /\ SumUp(h, I) = SumUp(g, I)
             /\ SumUp(h, I \union {Len(h)}) = Plus(SumUp(g, I), x)
<1> DEFINE h == Append(g, x)
           n == Len(h)
<1>1. IsFiniteSet(I) /\ n \notin I /\ h[n] = x /\ n \in DOMAIN h
  BY FS_Interval, FS_Subset
<1>2. \A i \in I : i \in DOMAIN h /\ h[i] = g[i]
  OBVIOUS
<1>3. h \in Seq(GrantsOnNodes)
  OBVIOUS
<1> HIDE DEF h, n
<1>4. \A i \in I : Cpus(h)[i] = Cpus(g)[i] /\ Memory(h)[i] = Memory(g)[i]
  BY <1>2 DEF Cpus, Memory
<1>5. SumOf(Cpus(h), I) = SumOf(Cpus(g), I) /\ SumOf(Memory(h), I) = SumOf(Memory(g), I)
  BY <1>1, <1>4, SumSame
<1>6. Cpus(h)[n] = x.cpus /\ Memory(h)[n] = x.memory
  BY <1>1 DEF Cpus, Memory
<1>7. \A i \in I \union {n} : Cpus(h)[i] \in Nat /\ Memory(h)[i] \in Nat
  BY <1>1, <1>2, <1>3, GrantTypes
<1>8. /\ SumOf(Cpus(h), I \union {n}) = SumOf(Cpus(h), I) + Cpus(h)[n]
      /\ SumOf(Memory(h), I \union {n}) = SumOf(Memory(h), I) + Memory(h)[n]
  BY <1>1, <1>7, SumWith
<1>9. /\ SumUp(h, I) = SumUp(g, I)
      /\ SumUp(h, I \union {n}) = Plus(SumUp(g, I), x)
  BY <1>5, <1>6, <1>8, SumUpIsSum DEF SumUp, Plus
<1> QED BY <1>9 DEF h, n

LEMMA AmountType ==
  ASSUME NEW g \in Seq(GrantsOnNodes)
  PROVE  Amount(g) \in Assets /\ \A n : OnNode(g, n) \in Assets
<1>1. ASSUME NEW n PROVE OnNode(g, n) \in Assets
  BY SumUpType DEF OnNode
<1>2. Amount(g) \in Assets
  BY SumUpType DEF Amount
<1> QED BY <1>1, <1>2

LEMMA AmountOfNone ==
  Amount(<<>>) = NoAssets /\ \A n : OnNode(<<>>, n) = NoAssets
<1> DEFINE g == <<>>
<1>1. g \in Seq(GrantsOnNodes) /\ DOMAIN g = {}
  OBVIOUS
<1> HIDE DEF g
<1>2. ASSUME NEW n PROVE OnNode(g, n) = NoAssets
  BY <1>1, SumUpType DEF OnNode
<1>3. Amount(g) = NoAssets
  BY <1>1, SumUpType DEF Amount
<1> QED BY <1>2, <1>3 DEF g

LEMMA AmountWith ==
  ASSUME NEW g \in Seq(GrantsOnNodes), NEW x \in GrantsOnNodes
  PROVE  /\ Amount(Append(g, x)) = Plus(Amount(g), x)
         /\ \A n : OnNode(Append(g, x), n)
                    = IF n = x.node THEN Plus(OnNode(g, n), x) ELSE OnNode(g, n)
<1> DEFINE h == Append(g, x)
           On(s, n) == {i \in DOMAIN s : s[i].node = n}
<1>1. DOMAIN h = DOMAIN g \union {Len(h)}
  OBVIOUS
<1>2. ASSUME NEW n PROVE On(h, n) = IF n = x.node THEN On(g, n) \union {Len(h)} ELSE On(g, n)
  OBVIOUS
<1>3. \A n : On(g, n) \in SUBSET DOMAIN g
  OBVIOUS
<1>4. \A I \in SUBSET DOMAIN g : /\ SumUp(h, I) = SumUp(g, I)
                                 /\ SumUp(h, I \union {Len(h)}) = Plus(SumUp(g, I), x)
  BY SumUpWith
<1> HIDE DEF h, On
<1>5. Amount(h) = Plus(Amount(g), x)
  BY <1>1, <1>4 DEF Amount
<1>6. ASSUME NEW n PROVE OnNode(h, n) = IF n = x.node THEN Plus(OnNode(g, n), x) ELSE OnNode(g, n)
  BY <1>2, <1>3, <1>4 DEF OnNode, On
<1> QED BY <1>5, <1>6 DEF h
-----------------------------------------------------------------------------
(* FILL_NODES *)

Requests == [cpus : Nat \ {0}, memory : Nat \ {0}]

LEMMA AsksAreRequests == Asks \subseteq Requests
  BY ParadigmAssumption DEF Asks, Requests

\* A call on the way: what was taken from the records has been granted, and
\* what was granted is no longer asked for.
Filling(records, ask) ==
    {s \in [avail : [Nodes -> Assets], grants : Seq(GrantsOnNodes), left : Assets,
            raised : BOOLEAN] :
        /\ \A n \in Nodes : Plus(s.avail[n], OnNode(s.grants, n)) = records[n]
        /\ Plus(Amount(s.grants), s.left) = ask
        /\ s.raised <=> s.left.cpus = 0}

LEMMA TakenFits ==
  ASSUME NEW a \in Assets, NEW b \in Assets
  PROVE  LET t == Taken(a, b)
         IN  t \in Assets /\ Less(a, t) \in Assets /\ Less(b, t) \in Assets
  BY DEF Assets, Taken, Less, Least

LEMMA MoveGrant ==
  ASSUME NEW a \in Assets, NEW b \in Assets, NEW t \in Assets
  PROVE  /\ Plus(Less(a, t), Plus(b, t)) = Plus(a, b)
         /\ Plus(Plus(b, t), Less(a, t)) = Plus(b, a)
  BY DEF Assets, Plus, Less

LEMMA GrantType ==
  ASSUME NEW n \in Nodes, NEW t \in Assets
  PROVE  /\ Grant(n, t) \in GrantsOnNodes /\ Grant(n, t).node = n
         /\ \A a : Plus(a, Grant(n, t)) = Plus(a, t)
  BY DEF Grant, GrantsOnNodes, Assets, Plus

LEMMA FillNodeFills ==
  ASSUME NEW records, NEW ask, NEW s \in Filling(records, ask), NEW n \in Nodes
  PROVE  FillNode(s, n) \in Filling(records, ask)
<1> DEFINE t == Taken(s.avail[n], s.left)
           g == Append(s.grants, Grant(n, t))
           a == [s.avail EXCEPT ![n] = Less(@, t)]
           l == Less(s.left, t)
           r == t.cpus = s.left.cpus
<1>1. /\ s.avail \in [Nodes -> Assets] /\ s.grants \in Seq(GrantsOnNodes)
      /\ s.left \in Assets /\ s.raised \in BOOLEAN
  BY DEF Filling
<1>2. /\ t \in Assets /\ Less(s.avail[n], t) \in Assets /\ l \in Assets
  BY <1>1, TakenFits
<1>3. r <=> l.cpus = 0
  BY <1>1, <1>2 DEF Less, Assets
<1> HIDE DEF t
<1>4. Grant(n, t) \in GrantsOnNodes /\ g \in Seq(GrantsOnNodes)
  BY <1>1, <1>2, GrantType
<1>5. /\ Amount(g) = Plus(Amount(s.grants), t)
      /\ \A m : OnNode(g, m) = IF m = n THEN Plus(OnNode(s.grants, m), t) ELSE OnNode(s.grants, m)
  BY <1>1, <1>2, <1>4, AmountWith, GrantType
<1>6. Amount(s.grants) \in Assets /\ \A m : OnNode(s.grants, m) \in Assets
  BY <1>1, AmountType
<1>7. ASSUME NEW m \in Nodes PROVE Plus(a[m], OnNode(g, m)) = records[m]
  <2>1. Plus(s.avail[m], OnNode(s.grants, m)) = records[m] /\ s.avail[m] \in Assets
    BY <1>1 DEF Filling
  <2>2. m = n => a[m] = Less(s.avail[m], t)
    BY <1>1
  <2>3. m # n => a[m] = s.avail[m]
    BY <1>1
  <2> QED BY <1>2, <1>5, <1>6, <2>1, <2>2, <2>3, MoveGrant
<1>8. Plus(Amount(g), l) = ask
  <2>1. Plus(Amount(s.grants), s.left) = ask
    BY DEF Filling
  <2> QED BY <1>1, <1>2, <1>5, <1>6, <2>1, MoveGrant
<1>9. a \in [Nodes -> Assets]
  BY <1>1, <1>2
<1> DEFINE next == [avail |-> a, grants |-> g, left |-> l, raised |-> r]
<1>10. /\ next.avail = a /\ next.grants = g /\ next.left = l /\ next.raised = r
       /\ next \in [avail : [Nodes -> Assets], grants : Seq(GrantsOnNodes), left : Assets,
                   raised : BOOLEAN]
  BY <1>2, <1>4, <1>9
<1>11. FillNode(s, n) = s \/ FillNode(s, n) = next
  BY DEF FillNode, t
<1> HIDE DEF a, g, l, r, next
<1>12. next \in Filling(records, ask)
  BY <1>3, <1>7, <1>8, <1>10 DEF Filling
<1> QED BY <1>11, <1>12

FillStart(records, ask) ==
    [avail |-> records, grants |-> <<>>, left |-> ask, raised |-> FALSE]

LEMMA FillStarts ==
  ASSUME NEW records \in [Nodes -> Assets], NEW ask \in Requests
  PROVE  FillStart(records, ask) \in Filling(records, ask)
<1> DEFINE s == FillStart(records, ask)
<1>1. /\ s.avail = records /\ s.grants = <<>> /\ s.left = ask /\ s.raised = FALSE
      /\ s \in [avail : [Nodes -> Assets], grants : Seq(GrantsOnNodes), left : Assets,
                raised : BOOLEAN]
  BY DEF FillStart, Requests, Assets
<1> HIDE DEF s
<1>2. \A a \in Assets : Plus(a, NoAssets) = a /\ Plus(NoAssets, a) = a
  BY DEF Assets, NoAssets, Plus
<1>3. ask \in Assets /\ ask.cpus # 0 /\ \A n \in Nodes : records[n] \in Assets
  BY DEF Requests, Assets
<1>4. s \in Filling(records, ask)
  BY <1>1, <1>2, <1>3, AmountOfNone DEF Filling
<1> QED BY <1>4 DEF s

\* The fold of FillNode, and its values at the numbers s of nodes.
FillFold(records, order, ask) ==
    CHOOSE f : f = [s \in SUBSET DOMAIN order |->
                      IF s = {} THEN FillStart(records, ask)
                      ELSE FillNode(f[s \ {Max(s)}], order[Max(s)])]

LEMMA FilledIsFold ==
  ASSUME NEW records, NEW order, NEW ask
  PROVE  Filled(records, order, ask) = FillFold(records, order, ask)[DOMAIN order]
  BY DEF Filled, FoldLeft, MapThenFoldSet, FillFold, FillStart

LEMMA FilledFills ==
  ASSUME NEW records \in [Nodes -> Assets], NEW order \in Seq(Nodes), NEW ask \in Requests
  PROVE  Filled(records, order, ask) \in Filling(records, ask)
<1> DEFINE A == Filling(records, ask)
           base == FillStart(records, ask)
           N == Len(order)
           F == [i \in 1 .. N |-> [a \in A |-> FillNode(a, order[i])]]
           Step(f, s) == IF s = {} THEN base ELSE FillNode(f[s \ {Max(s)}], order[Max(s)])
           h == FillFold(records, order, ask)
           T == {n \in Nat : n <= N => h[1 .. n] \in A}
<1>1. base \in A /\ N \in Nat /\ DOMAIN order = 1 .. N /\ \A i \in 1 .. N : order[i] \in Nodes
  BY FillStarts
<1>2. \A a \in A, n \in Nodes : FillNode(a, n) \in A
  BY FillNodeFills
<1> HIDE DEF A, base, N
<1>3. F \in [1 .. N -> [A -> A]]
  BY <1>1, <1>2
<1> HIDE DEF F
<1>4. PICK f : StepsFrom(base, A, N, F, f)
  BY <1>1, <1>3, StepsExist
<1>5. ASSUME NEW s \in SUBSET (1 .. N) PROVE f[s] = Step(f, s)
  <2>1. f[s \ {Max(s)}] \in A
    BY <1>4 DEF StepsFrom
  <2>2. s # {} => Max(s) \in 1 .. N
    BY <1>1, MaxIn
  <2> QED BY <1>4, <2>1, <2>2 DEF StepsFrom, Stepped, F
<1>6. f = [s \in SUBSET (1 .. N) |-> Step(f, s)]
  BY <1>4, <1>5 DEF StepsFrom
<1>7. h = [s \in SUBSET (1 .. N) |-> Step(h, s)]
  BY <1>1, <1>6 DEF FillFold, base
<1> HIDE DEF h
<1>8. 0 \in T
  BY <1>1, <1>7
<1>9. ASSUME NEW n \in Nat, n \in T PROVE n + 1 \in T
  <2>1. SUFFICES ASSUME n + 1 <= N PROVE h[1 .. n + 1] \in A
    OBVIOUS
  <2>2. h[1 .. n] \in A /\ order[n + 1] \in Nodes
    BY <1>1, <1>9, <2>1
  <2>3. h[1 .. n + 1] = FillNode(h[1 .. n], order[n + 1])
    <3>1. 1 .. n + 1 \in SUBSET (1 .. N)
      BY <1>1, <2>1
    <3>2. h[1 .. n + 1] = Step(h, 1 .. n + 1)
      BY <1>7, <3>1
    <3> QED BY <3>2, LastUpTo
  <2> QED BY <1>2, <2>2, <2>3
<1> HIDE DEF T
<1>10. N \in T
  BY <1>1, <1>8, <1>9, AllNumbers
<1> QED BY <1>1, <1>10, FilledIsFold DEF T, A, h
-----------------------------------------------------------------------------
(* ROUND_ROBIN *)

\* An order of nodes has each of them once.
LEMMA Orders ==
  ASSUME NEW R \in SUBSET Nodes, NEW order \in SetToSeqs(R)
  PROVE  /\ IsFiniteSet(R) /\ Len(order) = Cardinality(R) /\ Len(order) \in Nat
         /\ order \in [1 .. Len(order) -> R] /\ order \in Seq(Nodes)
         /\ \A i, k \in 1 .. Len(order) : order[i] = order[k] => i = k
         /\ \A n \in R : \E k \in 1 .. Len(order) : order[k] = n
         /\ order = <<>> <=> R = {}
<1> DEFINE N == Cardinality(R)
<1>1. IsFiniteSet(R) /\ N \in Nat
  BY ParadigmAssumption, FS_Subset, FS_CardinalityType
<1>2. order \in [1 .. N -> R] /\ \A i, k \in 1 .. N : order[i] = order[k] => i = k
  BY DEF SetToSeqs
<1>3. IsFiniteSet(1 .. N) /\ Cardinality(1 .. N) = N
  BY <1>1, FS_Interval
<1>4. order \in Injection(1 .. N, R)
  BY <1>2 DEF Injection, IsInjective
<1>5. order \in Surjection(1 .. N, R)
  BY <1>1, <1>3, <1>4, FS_Injection
<1>6. \A n \in R : \E k \in 1 .. N : order[k] = n
  BY <1>5 DEF Surjection
<1> HIDE DEF N
<1>7. order \in Seq(Nodes) /\ Len(order) = N
  <2>1. order \in [1 .. N -> Nodes]
    BY <1>2
  <2> QED BY <1>1, <2>1
<1>8. order = <<>> <=> R = {}
  <2>1. order = <<>> <=> N = 0
    BY <1>1, <1>7
  <2>2. N = 0 <=> R = {}
    BY <1>1, FS_EmptySet DEF N
  <2> QED BY <2>1, <2>2
<1> QED BY <1>1, <1>2, <1>6, <1>7, <1>8 DEF N

\* Shares and remainders make up what is divided.
LEMMA Division ==
  ASSUME NEW a \in Nat, NEW k \in Nat \ {0}
  PROVE  /\ a \div k \in Nat /\ a % k \in Nat /\ a % k < k
         /\ a = k * (a \div k) + (a % k)
         /\ a >= k => a \div k >= 1
<1> DEFINE q == a \div k
           r == a % k
<1>1. a % k \in Nat /\ a % k < k
  OBVIOUS
<1>2. a \div k \in Nat
  OBVIOUS
<1>3. a = k * (a \div k) + (a % k)
  OBVIOUS
<1>4. ASSUME a >= k PROVE q >= 1
  <2>1. a = k * q + r /\ q \in Nat /\ r \in Nat /\ r < k
    BY <1>1, <1>2, <1>3
  <2> HIDE DEF q, r
  <2> QED BY <1>4, <2>1
<1> QED BY <1>1, <1>2, <1>3, <1>4

\* The number of shares.
Parts(order, ask) == Least(ask.cpus, Len(order))

LEMMA Shares ==
  ASSUME NEW order \in Seq(Nodes), order # <<>>, NEW ask \in Requests
  PROVE  LET k == Parts(order, ask)
             share == Share(order, ask)
             rem == Remainder(order, ask)
         IN  /\ k \in Nat \ {0} /\ share \in Assets /\ rem \in Assets
             /\ ask.cpus = k * share.cpus + rem.cpus
             /\ ask.memory = k * share.memory + rem.memory
             /\ rem.cpus < k /\ share.cpus >= 1
             /\ ask.cpus < Len(order) => k = ask.cpus
             /\ ask.cpus >= Len(order) => k = Len(order)
<1>1. Parts(order, ask) \in Nat \ {0} /\ Parts(order, ask) <= ask.cpus
  BY DEF Parts, Least, Requests
<1>2. ask.cpus \in Nat /\ ask.memory \in Nat
  BY DEF Requests
<1>3. /\ ask.cpus < Len(order) => Parts(order, ask) = ask.cpus
      /\ ask.cpus >= Len(order) => Parts(order, ask) = Len(order)
  BY <1>2 DEF Parts, Least
<1> DEFINE k == Parts(order, ask)
           share == Share(order, ask)
           rem == Remainder(order, ask)
<1>4. /\ share = [cpus |-> ask.cpus \div k, memory |-> ask.memory \div k]
      /\ rem = [cpus |-> ask.cpus % k, memory |-> ask.memory % k]
  BY DEF Share, Remainder, Parts
<1> HIDE DEF k, share, rem
<1>5. /\ ask.cpus \div k \in Nat /\ ask.cpus % k \in Nat /\ ask.cpus % k < k
      /\ ask.cpus = k * (ask.cpus \div k) + (ask.cpus % k)
      /\ ask.cpus \div k >= 1
  BY <1>1, <1>2, Division DEF k
<1>6. /\ ask.memory \div k \in Nat /\ ask.memory % k \in Nat
      /\ ask.memory = k * (ask.memory \div k) + (ask.memory % k)
  BY <1>1, <1>2, Division DEF k
<1>7. share \in Assets /\ rem \in Assets
  BY <1>4, <1>5, <1>6 DEF Assets
<1> QED BY <1>1, <1>3, <1>4, <1>5, <1>6, <1>7 DEF k, share, rem

Shared == [grants : Seq(GrantsOnNodes), left : Assets, refused : BOOLEAN]

\* What Visit adds to the share of a node.
Extra(records, order, ask, s, n) ==
    [cpus   |-> OneMore(records[n].cpus, Share(order, ask).cpus, s.left.cpus),
     memory |-> OneMore(records[n].memory, Share(order, ask).memory, s.left.memory)]

Granted(records, order, ask, s, n) ==
    Grant(n, Plus(Share(order, ask), Extra(records, order, ask, s, n)))

LEMMA OneMoreType ==
  ASSUME NEW has \in Nat, NEW share \in Nat, NEW left \in Nat
  PROVE  LET e == OneMore(has, share, left)
         IN  /\ e \in {0, 1} /\ left - e \in Nat /\ share + e \in Nat
             /\ has >= share => has >= share + e
             /\ has > share /\ left > 0 => e = 1
  BY DEF OneMore

LEMMA ExtraType ==
  ASSUME NEW records \in [Nodes -> Assets], NEW order \in Seq(Nodes), order # <<>>,
         NEW ask \in Requests, NEW s \in Shared, NEW n \in Nodes
  PROVE  LET share == Share(order, ask)
             e == Extra(records, order, ask, s, n)
             g == Granted(records, order, ask, s, n)
         IN  /\ e.cpus \in {0, 1} /\ e.memory \in {0, 1} /\ e \in Assets
             /\ Less(s.left, e) \in Assets
             /\ g \in GrantsOnNodes /\ g.node = n
             /\ g.cpus = share.cpus + e.cpus /\ g.memory = share.memory + e.memory
             /\ Suffices(records[n], share) => Suffices(records[n], g)
             /\ \A a : Plus(a, g) = Plus(a, Plus(share, e))
             /\ records[n].cpus > share.cpus /\ s.left.cpus > 0 => e.cpus = 1
             /\ records[n].memory > share.memory /\ s.left.memory > 0 => e.memory = 1
<1> DEFINE share == Share(order, ask)
           e == Extra(records, order, ask, s, n)
           g == Granted(records, order, ask, s, n)
<1>1. /\ share \in Assets /\ records[n] \in Assets /\ s.left \in Assets
  BY Shares DEF Shared
<1>2. /\ share.cpus \in Nat /\ share.memory \in Nat /\ records[n].cpus \in Nat
      /\ records[n].memory \in Nat /\ s.left.cpus \in Nat /\ s.left.memory \in Nat
  BY <1>1 DEF Assets
<1>3. /\ e.cpus = OneMore(records[n].cpus, share.cpus, s.left.cpus)
      /\ e.memory = OneMore(records[n].memory, share.memory, s.left.memory)
      /\ e = [cpus |-> e.cpus, memory |-> e.memory]
      /\ g = Grant(n, Plus(share, e))
  BY DEF Extra, Granted
<1> HIDE DEF share, e, g
<1>4. /\ e.cpus \in {0, 1} /\ s.left.cpus - e.cpus \in Nat /\ share.cpus + e.cpus \in Nat
      /\ records[n].cpus >= share.cpus => records[n].cpus >= share.cpus + e.cpus
      /\ records[n].cpus > share.cpus /\ s.left.cpus > 0 => e.cpus = 1
  <2> DEFINE a == records[n].cpus
             b == share.cpus
             l == s.left.cpus
  <2>1. a \in Nat /\ b \in Nat /\ l \in Nat /\ e.cpus = OneMore(a, b, l)
    BY <1>2, <1>3
  <2> HIDE DEF a, b, l
  <2>2. /\ e.cpus \in {0, 1} /\ l - e.cpus \in Nat /\ b + e.cpus \in Nat
        /\ a >= b => a >= b + e.cpus
        /\ a > b /\ l > 0 => e.cpus = 1
    BY <2>1, OneMoreType
  <2> QED BY <2>2 DEF a, b, l
<1>5. /\ e.memory \in {0, 1} /\ s.left.memory - e.memory \in Nat
      /\ share.memory + e.memory \in Nat
      /\ records[n].memory >= share.memory => records[n].memory >= share.memory + e.memory
      /\ records[n].memory > share.memory /\ s.left.memory > 0 => e.memory = 1
  <2> DEFINE a == records[n].memory
             b == share.memory
             l == s.left.memory
  <2>1. a \in Nat /\ b \in Nat /\ l \in Nat /\ e.memory = OneMore(a, b, l)
    BY <1>2, <1>3
  <2> HIDE DEF a, b, l
  <2>2. /\ e.memory \in {0, 1} /\ l - e.memory \in Nat /\ b + e.memory \in Nat
        /\ a >= b => a >= b + e.memory
        /\ a > b /\ l > 0 => e.memory = 1
    BY <2>1, OneMoreType
  <2> QED BY <2>2 DEF a, b, l
<1>6. e \in Assets /\ Less(s.left, e) \in Assets /\ Plus(share, e) \in Assets
  BY <1>3, <1>4, <1>5 DEF Assets, Less, Plus
<1>7. /\ g \in GrantsOnNodes /\ g.node = n /\ \A a : Plus(a, g) = Plus(a, Plus(share, e))
  BY <1>3, <1>6, GrantType
<1>8. g.cpus = share.cpus + e.cpus /\ g.memory = share.memory + e.memory
  BY <1>3 DEF Grant, Plus
<1>9. Suffices(records[n], share) => Suffices(records[n], g)
  BY <1>4, <1>5, <1>8 DEF Suffices
<1> QED BY <1>4, <1>5, <1>6, <1>7, <1>8, <1>9 DEF share, e, g

\* A visit leaves things as they are, refuses, or grants.
Finished(ask, s) == s.refused \/ Amount(s.grants).cpus = ask.cpus

Refusal(order, ask, s) == [grants |-> s.grants, left |-> s.left,
                           refused |-> ask.cpus >= Len(order)]

With(s, g, e) == [grants |-> Append(s.grants, g), left |-> Less(s.left, e),
                  refused |-> FALSE]

LEMMA Visits ==
  ASSUME NEW records, NEW order, NEW ask, NEW s \in Shared, NEW n
  PROVE  Visit(records, order, ask, s, n) =
            IF Finished(ask, s) THEN s
            ELSE IF ~Suffices(records[n], Share(order, ask)) THEN Refusal(order, ask, s)
            ELSE With(s, Granted(records, order, ask, s, n), Extra(records, order, ask, s, n))
<1>1. s = [grants |-> s.grants, left |-> s.left, refused |-> s.refused]
  BY DEF Shared
<1>2. \A r : [s EXCEPT !.refused = r] = [grants |-> s.grants, left |-> s.left, refused |-> r]
  BY <1>1
<1> QED BY <1>2, Zenon DEF Visit, Granted, Extra, Finished, Refusal, With

\* After the first i nodes: no node has two grants, nor one it has no room
\* for, each grant is a share or one more, they add up to what is divided,
\* and a search for a share on each node has found one on each so far.
Spread(order, i, s) ==
    /\ Len(s.grants) <= i
    /\ \A k \in DOMAIN s.grants : \E m \in 1 .. i : s.grants[k].node = order[m]
    /\ \A k, l \in DOMAIN s.grants : s.grants[k].node = s.grants[l].node => k = l

Even(records, share, s) ==
    \A k \in DOMAIN s.grants :
        /\ Suffices(records[s.grants[k].node], s.grants[k])
        /\ s.grants[k].cpus - share.cpus \in {0, 1}
        /\ s.grants[k].memory - share.memory \in {0, 1}

AddsUp(share, rem, s) ==
    /\ Amount(s.grants).cpus + s.left.cpus = Len(s.grants) * share.cpus + rem.cpus
    /\ Amount(s.grants).memory + s.left.memory = Len(s.grants) * share.memory + rem.memory
    /\ s.left.cpus <= rem.cpus

Complete(records, order, share, i, s) ==
    IF s.refused THEN \E m \in 1 .. i : ~Suffices(records[order[m]], share)
    ELSE Len(s.grants) = i /\ \A k \in 1 .. i : s.grants[k].node = order[k]

Sharing(records, order, ask, i, s) ==
    /\ s \in Shared
    /\ Spread(order, i, s)
    /\ Even(records, Share(order, ask), s)
    /\ AddsUp(Share(order, ask), Remainder(order, ask), s)
    /\ ask.cpus >= Len(order) => Complete(records, order, Share(order, ask), i, s)

LEMMA OnePart ==
  ASSUME NEW a \in Nat, NEW l \in Nat, NEW n \in Nat, NEW b \in Nat, NEW r \in Nat,
         NEW e \in {0, 1}, l - e \in Nat, a + l = n * b + r
  PROVE  (a + (b + e)) + (l - e) = (n + 1) * b + r /\ (l <= r => l - e <= r)
<1>1. (n + 1) * b = n * b + b /\ n * b \in Nat
  OBVIOUS
<1> DEFINE p == n * b
           q == (n + 1) * b
<1> HIDE DEF p, q
<1>2. q = p + b /\ p \in Nat /\ a + l = p + r
  BY <1>1 DEF p, q
<1>3. (a + (b + e)) + (l - e) = q + r /\ (l <= r => l - e <= r)
  BY <1>2
<1> QED BY <1>3 DEF q

LEMMA FewParts ==
  ASSUME NEW a \in Nat, NEW l \in Nat, NEW n \in Nat, NEW b \in Nat, NEW r \in Nat,
         NEW k \in Nat, a + l = n * b + r, n < k, b >= 1
  PROVE  a # k * b + r
<1>1. k * b = n * b + (k - n) * b
  OBVIOUS
<1>2. (k - n) * b >= 1 /\ (k - n) * b \in Nat /\ n * b \in Nat
  OBVIOUS
<1> DEFINE p == n * b
           q == (k - n) * b
           z == k * b
<1> HIDE DEF p, q, z
<1>3. z = p + q /\ q >= 1 /\ q \in Nat /\ p \in Nat /\ a + l = p + r
  BY <1>1, <1>2 DEF p, q, z
<1>4. a # z + r
  BY <1>3
<1> QED BY <1>4 DEF z

LEMMA WithType ==
  ASSUME NEW s \in Shared, NEW g \in GrantsOnNodes, NEW e, Less(s.left, e) \in Assets
  PROVE  LET v == With(s, g, e)
         IN  /\ v \in Shared /\ v.left = Less(s.left, e) /\ ~v.refused
             /\ Len(v.grants) = Len(s.grants) + 1
             /\ DOMAIN v.grants = DOMAIN s.grants \union {Len(s.grants) + 1}
             /\ v.grants[Len(s.grants) + 1] = g
             /\ Len(s.grants) \in Nat /\ DOMAIN s.grants = 1 .. Len(s.grants)
             /\ \A k \in DOMAIN s.grants : v.grants[k] = s.grants[k]
             /\ v.grants = Append(s.grants, g)
<1>1. s.grants \in Seq(GrantsOnNodes) /\ s.refused \in BOOLEAN
  BY DEF Shared
<1>2. With(s, g, e).grants = Append(s.grants, g)
  BY DEF With
<1>3. With(s, g, e) \in Shared
  BY <1>1 DEF With, Shared
<1> QED BY <1>1, <1>2, <1>3 DEF With

LEMMA SpreadOn ==
  ASSUME NEW order \in Seq(Nodes), \A k, l \in 1 .. Len(order) : order[k] = order[l] => k = l,
         NEW i \in Nat, i + 1 <= Len(order), NEW s \in Shared, Spread(order, i, s),
         NEW g \in GrantsOnNodes, g.node = order[i + 1], NEW e, Less(s.left, e) \in Assets
  PROVE  Spread(order, i + 1, s) /\ Spread(order, i + 1, With(s, g, e))
<1> DEFINE v == With(s, g, e)
           L == Len(s.grants)
           D == DOMAIN s.grants
<1>1. /\ Len(v.grants) = L + 1 /\ DOMAIN v.grants = D \union {L + 1} /\ L \in Nat
      /\ v.grants[L + 1] = g /\ \A k \in D : v.grants[k] = s.grants[k]
  BY WithType
<1>2. /\ L <= i
      /\ \A k \in D : \E m \in 1 .. i : s.grants[k].node = order[m]
      /\ \A k, l \in D : s.grants[k].node = s.grants[l].node => k = l
  BY DEF Spread
<1> HIDE DEF v, L, D
<1>3. \A m \in 1 .. i : m \in 1 .. i + 1 /\ order[m] # order[i + 1]
  OBVIOUS
<1>4. \A k \in D : s.grants[k].node # g.node
  BY <1>2, <1>3
<1>5. \A k \in D : \E m \in 1 .. i + 1 : s.grants[k].node = order[m]
  BY <1>2, <1>3
<1>6. L <= i + 1 /\ L + 1 <= i + 1
  BY <1>1, <1>2
<1>7. Spread(order, i + 1, s)
  BY <1>2, <1>5, <1>6 DEF Spread, L, D
<1>8. \A k \in D \union {L + 1} : \E m \in 1 .. i + 1 : v.grants[k].node = order[m]
  BY <1>1, <1>5
<1>9. \A k, l \in D \union {L + 1} : v.grants[k].node = v.grants[l].node => k = l
  BY <1>1, <1>2, <1>4
<1>10. Spread(order, i + 1, v)
  BY <1>1, <1>6, <1>8, <1>9 DEF Spread
<1> QED BY <1>7, <1>10 DEF v

ShareStart(order, ask) == [grants |-> <<>>, left |-> Remainder(order, ask), refused |-> FALSE]

LEMMA StartsSharing ==
  ASSUME NEW records \in [Nodes -> Assets], NEW order \in Seq(Nodes), order # <<>>,
         NEW ask \in Requests
  PROVE  Sharing(records, order, ask, 0, ShareStart(order, ask))
<1> DEFINE s == ShareStart(order, ask)
           g == s.grants
           share == Share(order, ask)
           rem == Remainder(order, ask)
<1>1. share \in Assets /\ rem \in Assets
  BY Shares
<1>2. s \in Shared /\ s.left = rem /\ s.refused = FALSE /\ Len(g) = 0 /\ DOMAIN g = {} /\ g = <<>>
  BY <1>1 DEF Shared, ShareStart
<1> HIDE DEF s, share, rem
<1>3. Amount(g).cpus = 0 /\ Amount(g).memory = 0
  BY <1>2, AmountOfNone DEF NoAssets
<1>4. /\ share.cpus \in Nat /\ share.memory \in Nat /\ rem.cpus \in Nat /\ rem.memory \in Nat
  BY <1>1 DEF Assets
<1>5. Spread(order, 0, s) /\ Even(records, share, s) /\ Complete(records, order, share, 0, s)
  BY <1>2 DEF Spread, Even, Complete
<1>6. AddsUp(share, rem, s)
  BY <1>2, <1>3, <1>4 DEF AddsUp
<1> QED BY <1>2, <1>5, <1>6 DEF Sharing, s, share, rem

LEMMA VisitType ==
  ASSUME NEW records \in [Nodes -> Assets], NEW order \in Seq(Nodes), order # <<>>,
         NEW ask \in Requests, NEW s \in Shared, NEW n \in Nodes
  PROVE  Visit(records, order, ask, s, n) \in Shared
<1> DEFINE v == Visit(records, order, ask, s, n)
           share == Share(order, ask)
           e == Extra(records, order, ask, s, n)
           g == Granted(records, order, ask, s, n)
<1>1. v = s \/ v = Refusal(order, ask, s) \/ v = With(s, g, e)
  BY Visits
<1>2. g \in GrantsOnNodes /\ Less(s.left, e) \in Assets
  BY ExtraType
<1> HIDE DEF v, g, e
<1>3. With(s, g, e) \in Shared
  BY <1>2, WithType
<1>4. Refusal(order, ask, s) \in Shared
  BY DEF Shared, Refusal, Requests
<1> QED BY <1>1, <1>3, <1>4 DEF v

LEMMA EvenOn ==
  ASSUME NEW records, NEW share, NEW s \in Shared, Even(records, share, s),
         NEW g \in GrantsOnNodes, NEW e, Less(s.left, e) \in Assets,
         Suffices(records[g.node], g), g.cpus - share.cpus \in {0, 1},
         g.memory - share.memory \in {0, 1}
  PROVE  Even(records, share, With(s, g, e))
<1> DEFINE v == With(s, g, e)
           L == Len(s.grants)
           D == DOMAIN s.grants
<1>1. /\ DOMAIN v.grants = D \union {L + 1} /\ v.grants[L + 1] = g
      /\ \A k \in D : v.grants[k] = s.grants[k]
  BY WithType
<1>2. \A k \in D : /\ Suffices(records[s.grants[k].node], s.grants[k])
                   /\ s.grants[k].cpus - share.cpus \in {0, 1}
                   /\ s.grants[k].memory - share.memory \in {0, 1}
  BY DEF Even
<1> HIDE DEF v, L, D
<1>3. \A k \in D \union {L + 1} : /\ Suffices(records[v.grants[k].node], v.grants[k])
                                 /\ v.grants[k].cpus - share.cpus \in {0, 1}
                                 /\ v.grants[k].memory - share.memory \in {0, 1}
  BY <1>1, <1>2
<1> QED BY <1>1, <1>3, Zenon DEF Even, v

LEMMA AddsUpOn ==
  ASSUME NEW share \in Assets, NEW rem \in Assets, NEW s \in Shared, AddsUp(share, rem, s),
         NEW g \in GrantsOnNodes, NEW e \in Assets, Less(s.left, e) \in Assets,
         e.cpus \in {0, 1}, e.memory \in {0, 1},
         \A a : Plus(a, g) = Plus(a, Plus(share, e))
  PROVE  AddsUp(share, rem, With(s, g, e))
<1> DEFINE v == With(s, g, e)
           L == Len(s.grants)
           am == Amount(s.grants)
<1>1. /\ Len(v.grants) = L + 1 /\ L \in Nat /\ v.left = Less(s.left, e)
      /\ v.grants = Append(s.grants, g) /\ s.grants \in Seq(GrantsOnNodes)
  BY WithType DEF Shared
<1>2. am \in Assets /\ Amount(v.grants) = Plus(am, Plus(share, e))
  BY <1>1, AmountType, AmountWith
<1>3. s.left \in Assets
  BY DEF Shared
<1> HIDE DEF v, L, am
<1>4. /\ am.cpus \in Nat /\ am.memory \in Nat /\ s.left.cpus \in Nat /\ s.left.memory \in Nat
      /\ share.cpus \in Nat /\ share.memory \in Nat /\ rem.cpus \in Nat /\ rem.memory \in Nat
      /\ s.left.cpus - e.cpus \in Nat /\ s.left.memory - e.memory \in Nat
  BY <1>2, <1>3 DEF Assets, Less
<1>5. /\ am.cpus + s.left.cpus = L * share.cpus + rem.cpus /\ s.left.cpus <= rem.cpus
      /\ am.memory + s.left.memory = L * share.memory + rem.memory
  BY DEF AddsUp, am, L
<1>6. /\ (am.cpus + (share.cpus + e.cpus)) + (s.left.cpus - e.cpus)
            = (L + 1) * share.cpus + rem.cpus
      /\ s.left.cpus - e.cpus <= rem.cpus
  <2> DEFINE a == am.cpus
             l == s.left.cpus
             b == share.cpus
             r == rem.cpus
             x == e.cpus
  <2>1. /\ a \in Nat /\ l \in Nat /\ b \in Nat /\ r \in Nat /\ x \in {0, 1} /\ l - x \in Nat
        /\ a + l = L * b + r /\ l <= r
    BY <1>4, <1>5
  <2> HIDE DEF a, l, b, r, x
  <2>2. (a + (b + x)) + (l - x) = (L + 1) * b + r /\ (l <= r => l - x <= r)
    BY <1>1, <2>1, OnePart
  <2> QED BY <2>1, <2>2 DEF a, l, b, r, x
<1>7. (am.memory + (share.memory + e.memory)) + (s.left.memory - e.memory)
            = (L + 1) * share.memory + rem.memory
  <2> DEFINE a == am.memory
             l == s.left.memory
             b == share.memory
             r == rem.memory
             x == e.memory
  <2>1. /\ a \in Nat /\ l \in Nat /\ b \in Nat /\ r \in Nat /\ x \in {0, 1} /\ l - x \in Nat
        /\ a + l = L * b + r
    BY <1>4, <1>5
  <2> HIDE DEF a, l, b, r, x
  <2>2. (a + (b + x)) + (l - x) = (L + 1) * b + r /\ (l <= r => l - x <= r)
    BY <1>1, <2>1, OnePart
  <2> QED BY <2>1, <2>2 DEF a, l, b, r, x
<1>8. /\ Amount(v.grants).cpus = am.cpus + (share.cpus + e.cpus)
      /\ Amount(v.grants).memory = am.memory + (share.memory + e.memory)
      /\ v.left.cpus = s.left.cpus - e.cpus /\ v.left.memory = s.left.memory - e.memory
  BY <1>1, <1>2 DEF Plus, Less
<1> QED BY <1>1, <1>6, <1>7, <1>8 DEF AddsUp, v

LEMMA SharingOn ==
  ASSUME NEW records \in [Nodes -> Assets], NEW order \in Seq(Nodes), order # <<>>,
         \A k, l \in 1 .. Len(order) : order[k] = order[l] => k = l,
         NEW ask \in Requests, NEW i \in Nat, i + 1 <= Len(order),
         NEW s, Sharing(records, order, ask, i, s)
  PROVE  Sharing(records, order, ask, i + 1, Visit(records, order, ask, s, order[i + 1]))
<1> DEFINE n == order[i + 1]
           v == Visit(records, order, ask, s, n)
           share == Share(order, ask)
           rem == Remainder(order, ask)
           e == Extra(records, order, ask, s, n)
           g == Granted(records, order, ask, s, n)
           r == ask.cpus >= Len(order)
           done == Finished(ask, s)
           refusal == Refusal(order, ask, s)
<1>1. n \in Nodes /\ share \in Assets /\ rem \in Assets /\ r \in BOOLEAN
  BY Shares DEF Requests
<1>2. /\ s \in Shared /\ Spread(order, i, s) /\ Even(records, share, s)
      /\ AddsUp(share, rem, s) /\ (r => Complete(records, order, share, i, s))
  BY DEF Sharing
<1>3. v = IF done THEN s ELSE IF ~Suffices(records[n], share) THEN refusal ELSE With(s, g, e)
  BY <1>2, Visits
<1>4. /\ e.cpus \in {0, 1} /\ e.memory \in {0, 1} /\ e \in Assets
      /\ Less(s.left, e) \in Assets
      /\ g \in GrantsOnNodes /\ g.node = n
      /\ g.cpus = share.cpus + e.cpus /\ g.memory = share.memory + e.memory
      /\ Suffices(records[n], share) => Suffices(records[n], g)
      /\ \A a : Plus(a, g) = Plus(a, Plus(share, e))
  BY <1>1, <1>2, ExtraType
<1>5. ASSUME r, ~s.refused PROVE ~done
  <2>1. /\ ask.cpus = Len(order) * share.cpus + rem.cpus /\ share.cpus >= 1
    BY <1>5, Shares
  <2>2. Len(s.grants) = i /\ Amount(s.grants).cpus + s.left.cpus = i * share.cpus + rem.cpus
    BY <1>2, <1>5 DEF Complete, AddsUp
  <2>3. Amount(s.grants).cpus \in Nat /\ s.left.cpus \in Nat
    BY <1>2, AmountType DEF Shared, Assets
  <2>4. share.cpus \in Nat /\ rem.cpus \in Nat /\ Len(order) \in Nat /\ i < Len(order)
    BY <1>1 DEF Assets
  <2> DEFINE a == Amount(s.grants).cpus
             l == s.left.cpus
             b == share.cpus
             c == rem.cpus
             k == Len(order)
  <2>5. /\ a \in Nat /\ l \in Nat /\ b \in Nat /\ c \in Nat /\ k \in Nat /\ i < k /\ b >= 1
        /\ a + l = i * b + c
    BY <2>1, <2>2, <2>3, <2>4
  <2>6. ask.cpus = k * b + c
    BY <2>1
  <2> HIDE DEF a, l, b, c, k
  <2>7. a # k * b + c
    BY <2>5, FewParts
  <2>8. a # ask.cpus
    BY <2>6, <2>7
  <2> QED BY <1>5, <2>8 DEF Finished, a
<1>11. ~done => ~s.refused
  BY DEF Finished
<1>12. refusal \in Shared /\ refusal.grants = s.grants /\ refusal.left = s.left /\ refusal.refused = r
  BY <1>1, <1>2 DEF Shared, Refusal
<1> HIDE DEF v, share, rem, e, g, r, refusal, done
<1>6. /\ Spread(order, i + 1, s) /\ Spread(order, i + 1, With(s, g, e))
  BY <1>2, <1>4, SpreadOn
<1>7. \A m \in 1 .. i : m \in 1 .. i + 1
  OBVIOUS
<1>8. CASE done
  <2>1. r => Complete(records, order, share, i + 1, s)
    BY <1>2, <1>5, <1>7, <1>8 DEF Complete
  <2> QED BY <1>2, <1>3, <1>6, <1>8, <2>1 DEF Sharing, v, share, rem, r
<1>9. CASE ~done /\ ~Suffices(records[n], share)
  <2>2. Spread(order, i + 1, refusal) /\ Even(records, share, refusal) /\ AddsUp(share, rem, refusal)
    BY <1>2, <1>6, <1>12 DEF Spread, Even, AddsUp
  <2>3. r => Complete(records, order, share, i + 1, refusal)
    BY <1>9, <1>12 DEF Complete
  <2> QED BY <1>3, <1>9, <1>12, <2>2, <2>3 DEF Sharing, v, share, rem, r
<1>10. CASE ~done /\ Suffices(records[n], share)
  <2>1. g.cpus - share.cpus \in {0, 1} /\ g.memory - share.memory \in {0, 1}
    <3>1. share.cpus \in Nat /\ share.memory \in Nat
      BY <1>1 DEF Assets
    <3> QED BY <1>4, <3>1
  <2>2. With(s, g, e) \in Shared
    BY <1>2, <1>4, WithType
  <2>3. Even(records, share, With(s, g, e))
    BY <1>2, <1>4, <1>10, <2>1, EvenOn
  <2>4. AddsUp(share, rem, With(s, g, e))
    BY <1>1, <1>2, <1>4, AddsUpOn
  <2>5. r => Complete(records, order, share, i + 1, With(s, g, e))
    <3>1. SUFFICES ASSUME r PROVE Complete(records, order, share, i + 1, With(s, g, e))
      OBVIOUS
    <3>2. /\ Len(s.grants) = i /\ \A k \in 1 .. i : s.grants[k].node = order[k]
      BY <1>2, <1>10, <1>11, <3>1 DEF Complete
    <3> DEFINE w == With(s, g, e)
    <3>3. /\ Len(w.grants) = i + 1 /\ ~w.refused /\ w.grants[i + 1] = g
          /\ \A k \in 1 .. i : w.grants[k] = s.grants[k]
      BY <1>2, <1>4, <3>2, WithType
    <3> HIDE DEF w
    <3>4. \A k \in 1 .. i + 1 : w.grants[k].node = order[k]
      BY <1>4, <3>2, <3>3
    <3>5. ~w.refused
      BY <1>10, <1>11, <3>3
    <3>6. Complete(records, order, share, i + 1, w)
      BY <3>3, <3>4, <3>5 DEF Complete
    <3> QED BY <3>6 DEF w
  <2> QED BY <1>3, <1>6, <1>10, <2>2, <2>3, <2>4, <2>5 DEF Sharing, v, share, rem, r
<1> QED BY <1>8, <1>9, <1>10 DEF v

\* The fold of Visit, and its values at the numbers s of nodes.
ShareFold(records, order, ask) ==
    CHOOSE f : f = [s \in SUBSET DOMAIN order |->
                      IF s = {} THEN ShareStart(order, ask)
                      ELSE Visit(records, order, ask, f[s \ {Max(s)}], order[Max(s)])]

LEMMA ShareOutIsFold ==
  ASSUME NEW records, NEW order, NEW ask
  PROVE  ShareOut(records, order, ask) = ShareFold(records, order, ask)[DOMAIN order]
  BY DEF ShareOut, FoldLeft, MapThenFoldSet, ShareFold, ShareStart

\* The states p of the visits.
Visiting(records, order, ask, p) ==
    /\ p[0] = ShareStart(order, ask)
    /\ \A i \in 0 .. Len(order) - 1 : p[i + 1] = Visit(records, order, ask, p[i], order[i + 1])
    /\ p[Len(order)] = ShareOut(records, order, ask)

LEMMA ShareOutVisits ==
  ASSUME NEW records \in [Nodes -> Assets], NEW order \in Seq(Nodes), order # <<>>,
         NEW ask \in Requests
  PROVE  \E p : Visiting(records, order, ask, p)
<1> DEFINE base == ShareStart(order, ask)
           N == Len(order)
           F == [i \in 1 .. N |-> [a \in Shared |-> Visit(records, order, ask, a, order[i])]]
           Step(f, s) == IF s = {} THEN base
                         ELSE Visit(records, order, ask, f[s \ {Max(s)}], order[Max(s)])
           h == ShareFold(records, order, ask)
           p == [i \in 0 .. N |-> h[1 .. i]]
<1>1. base \in Shared /\ N \in Nat /\ DOMAIN order = 1 .. N /\ \A i \in 1 .. N : order[i] \in Nodes
  <2>1. Sharing(records, order, ask, 0, base)
    BY StartsSharing
  <2>2. base \in Shared
    BY <2>1 DEF Sharing
  <2> QED BY <2>2
<1>2. \A a \in Shared, n \in Nodes : Visit(records, order, ask, a, n) \in Shared
  BY VisitType
<1> HIDE DEF base, N
<1>3. F \in [1 .. N -> [Shared -> Shared]]
  BY <1>1, <1>2
<1> HIDE DEF F
<1>4. PICK f : StepsFrom(base, Shared, N, F, f)
  BY <1>1, <1>3, StepsExist
<1>5. ASSUME NEW s \in SUBSET (1 .. N) PROVE f[s] = Step(f, s)
  <2>1. f[s \ {Max(s)}] \in Shared
    BY <1>4 DEF StepsFrom
  <2>2. s # {} => Max(s) \in 1 .. N
    BY <1>1, MaxIn
  <2> QED BY <1>4, <2>1, <2>2 DEF StepsFrom, Stepped, F
<1>6. f = [s \in SUBSET (1 .. N) |-> Step(f, s)]
  BY <1>4, <1>5 DEF StepsFrom
<1>7. h = [s \in SUBSET (1 .. N) |-> Step(h, s)]
  BY <1>1, <1>6 DEF ShareFold, base
<1> HIDE DEF h
<1>8. p[0] = base
  BY <1>1, <1>7
<1>9. ASSUME NEW i \in 0 .. N - 1 PROVE p[i + 1] = Visit(records, order, ask, p[i], order[i + 1])
  <2>1. 1 .. i + 1 \in SUBSET (1 .. N) /\ i \in Nat /\ i \in 0 .. N /\ i + 1 \in 0 .. N
    BY <1>1
  <2>2. h[1 .. i + 1] = Step(h, 1 .. i + 1)
    BY <1>7, <2>1
  <2>3. h[1 .. i + 1] = Visit(records, order, ask, h[1 .. i], order[i + 1])
    BY <2>1, <2>2, LastUpTo
  <2> QED BY <2>1, <2>3
<1>10. p[N] = ShareOut(records, order, ask)
  BY <1>1, ShareOutIsFold DEF h
<1> HIDE DEF p
<1>11. Visiting(records, order, ask, p)
  BY <1>8, <1>9, <1>10, Zenon DEF Visiting, base, N
<1> QED BY <1>11

LEMMA AlwaysSharing ==
  ASSUME NEW records \in [Nodes -> Assets], NEW order \in Seq(Nodes), order # <<>>,
         \A k, l \in 1 .. Len(order) : order[k] = order[l] => k = l,
         NEW ask \in Requests, NEW p, Visiting(records, order, ask, p)
  PROVE  \A i \in 0 .. Len(order) : Sharing(records, order, ask, i, p[i])
<1> DEFINE N == Len(order)
           T == {n \in Nat : n <= N => Sharing(records, order, ask, n, p[n])}
<1>1. /\ p[0] = ShareStart(order, ask) /\ N \in Nat
      /\ \A i \in 0 .. N - 1 : p[i + 1] = Visit(records, order, ask, p[i], order[i + 1])
  BY DEF Visiting
<1>2. 0 \in T
  BY <1>1, StartsSharing
<1>3. ASSUME NEW n \in Nat, n \in T PROVE n + 1 \in T
  <2>1. SUFFICES ASSUME n + 1 <= N PROVE Sharing(records, order, ask, n + 1, p[n + 1])
    OBVIOUS
  <2>2. Sharing(records, order, ask, n, p[n]) /\ n \in 0 .. N - 1
    BY <1>1, <1>3, <2>1
  <2>3. p[n + 1] = Visit(records, order, ask, p[n], order[n + 1])
    BY <1>1, <2>2
  <2>4. Sharing(records, order, ask, n + 1, Visit(records, order, ask, p[n], order[n + 1]))
    BY <2>1, <2>2, SharingOn
  <2> QED BY <2>3, <2>4
<1> HIDE DEF T
<1>4. \A n \in Nat : n \in T
  BY <1>2, <1>3, AllNumbers
<1> QED BY <1>4 DEF T
-----------------------------------------------------------------------------
(* What a call returns *)

\* Every asset of the records is left, granted or leaked.
Accounts(records, r) ==
    /\ r.avail \in [Nodes -> Assets]
    /\ r.grants \in Seq(GrantsOnNodes) /\ r.leak \in Seq(GrantsOnNodes)
    /\ \A n \in Nodes :
          Plus(r.avail[n], Plus(OnNode(r.grants, n), OnNode(r.leak, n))) = records[n]

LEMMA NothingMore ==
  ASSUME NEW a \in Assets
  PROVE  Plus(a, NoAssets) = a /\ Plus(NoAssets, a) = a
  BY DEF Assets, NoAssets, Plus

LEMMA NoneAccounts ==
  ASSUME NEW records \in [Nodes -> Assets], NEW raised
  PROVE  Accounts(records, [grants |-> <<>>, avail |-> records, leak |-> <<>>, raised |-> raised])
<1> DEFINE r == [grants |-> <<>>, avail |-> records, leak |-> <<>>, raised |-> raised]
<1>1. r.grants = <<>> /\ r.avail = records /\ r.leak = <<>> /\ <<>> \in Seq(GrantsOnNodes)
  OBVIOUS
<1>2. NoAssets \in Assets
  BY DEF NoAssets, Assets
<1> HIDE DEF r
<1>3. \A n \in Nodes : Plus(records[n], Plus(NoAssets, NoAssets)) = records[n]
  BY <1>2, NothingMore
<1>4. Accounts(records, r)
  BY <1>1, <1>3, AmountOfNone DEF Accounts
<1> QED BY <1>4 DEF r

\* Grants of which no two are on a node.
LEMMA OneOnNode ==
  ASSUME NEW g \in Seq(GrantsOnNodes),
         \A k, l \in DOMAIN g : g[k].node = g[l].node => k = l,
         NEW k \in DOMAIN g
  PROVE  OnNode(g, g[k].node) = [cpus |-> g[k].cpus, memory |-> g[k].memory]
<1> DEFINE I == {i \in DOMAIN g : g[i].node = g[k].node}
<1>1. I = {} \union {k} /\ k \notin {} /\ IsFiniteSet({})
  BY FS_EmptySet
<1> HIDE DEF I
<1>2. \A x \in {} \union {k} : Cpus(g)[x] \in Nat /\ Memory(g)[x] \in Nat
  BY GrantTypes
<1>3. SumOf(Cpus(g), I) = SumOf(Cpus(g), {}) + Cpus(g)[k]
  BY <1>1, <1>2, SumWith
<1>4. SumOf(Memory(g), I) = SumOf(Memory(g), {}) + Memory(g)[k]
  BY <1>1, <1>2, SumWith
<1>5. SumOf(Cpus(g), {}) = 0 /\ SumOf(Memory(g), {}) = 0
  BY <1>1, SumUnfolds
<1>6. /\ Cpus(g)[k] = g[k].cpus /\ Cpus(g)[k] \in Nat
      /\ Memory(g)[k] = g[k].memory /\ Memory(g)[k] \in Nat
  BY GrantTypes
<1>7. /\ SumUp(g, I).cpus = g[k].cpus /\ SumUp(g, I).memory = g[k].memory
  BY <1>3, <1>4, <1>5, <1>6, SumUpIsSum
<1>8. OnNode(g, g[k].node) = SumUp(g, I)
  BY DEF OnNode, I
<1> QED BY <1>7, <1>8 DEF SumUp

LEMMA NoneOnNode ==
  ASSUME NEW g \in Seq(GrantsOnNodes), NEW n, \A k \in DOMAIN g : g[k].node # n
  PROVE  OnNode(g, n) = NoAssets
<1>1. {i \in DOMAIN g : g[i].node = n} = {}
  OBVIOUS
<1> QED BY <1>1, SumUpType DEF OnNode

\* Grants that fit can be taken out.
LEMMA GrantsAccount ==
  ASSUME NEW records \in [Nodes -> Assets], NEW g \in Seq(GrantsOnNodes),
         \A k, l \in DOMAIN g : g[k].node = g[l].node => k = l,
         \A k \in DOMAIN g : Suffices(records[g[k].node], g[k])
  PROVE  Accounts(records, Returned(TakeOut(records, g), g))
<1> DEFINE r == Returned(TakeOut(records, g), g)
<1>1. r.grants = g /\ r.leak = <<>> /\ <<>> \in Seq(GrantsOnNodes) /\ r.avail = TakeOut(records, g)
  BY DEF Returned
<1>2. ASSUME NEW n \in Nodes
      PROVE  /\ Less(records[n], OnNode(g, n)) \in Assets
             /\ Plus(Less(records[n], OnNode(g, n)), Plus(OnNode(g, n), NoAssets)) = records[n]
  <2> DEFINE a == records[n]
             b == OnNode(g, n)
  <2>1. a \in Assets /\ b \in Assets
    BY AmountType
  <2>2. a.cpus >= b.cpus /\ a.memory >= b.memory
    <3>1. CASE \E k \in DOMAIN g : g[k].node = n
      <4>1. PICK k \in DOMAIN g : g[k].node = n
        BY <3>1
      <4>2. b = [cpus |-> g[k].cpus, memory |-> g[k].memory]
        BY <4>1, OneOnNode
      <4>3. Suffices(a, g[k])
        BY <4>1
      <4> HIDE DEF a, b
      <4> QED BY <4>2, <4>3 DEF Suffices
    <3>2. CASE \A k \in DOMAIN g : g[k].node # n
      <4>1. b = NoAssets
        BY <3>2, NoneOnNode
      <4> HIDE DEF a, b
      <4> QED BY <2>1, <4>1 DEF NoAssets, Assets
    <3> QED BY <3>1, <3>2
  <2> HIDE DEF a, b
  <2>3. Less(a, b) \in Assets /\ Plus(Less(a, b), Plus(b, NoAssets)) = a
    BY <2>1, <2>2 DEF Assets, Less, Plus, NoAssets
  <2> QED BY <2>3 DEF a, b
<1>3. TakeOut(records, g) \in [Nodes -> Assets]
  BY <1>2 DEF TakeOut
<1>4. \A n \in Nodes : Plus(TakeOut(records, g)[n], Plus(OnNode(g, n), NoAssets)) = records[n]
  BY <1>2 DEF TakeOut
<1> HIDE DEF r
<1>5. Accounts(records, r)
  BY <1>1, <1>3, <1>4, AmountOfNone DEF Accounts
<1> QED BY <1>5 DEF r

LEMMA RoundRobinAccounts ==
  ASSUME NEW records \in [Nodes -> Assets], NEW R \in SUBSET Nodes,
         NEW order \in SetToSeqs(R), NEW ask \in Requests
  PROVE  Accounts(records, RoundRobin(records, order, ask))
<1> DEFINE s == ShareOut(records, order, ask)
           r == RoundRobin(records, order, ask)
<1>1. CASE order = <<>>
  BY <1>1, NoneAccounts DEF RoundRobin, Raised
<1>2. CASE order # <<>> /\ (s.refused \/ Amount(s.grants) # ask)
  BY <1>2, NoneAccounts DEF RoundRobin, NoneOf, Returned
<1>3. CASE order # <<>> /\ ~(s.refused \/ Amount(s.grants) # ask)
  <2>1. r = Returned(TakeOut(records, s.grants), s.grants)
    BY <1>3, Zenon DEF RoundRobin
  <2>2. /\ order \in Seq(Nodes) /\ Len(order) \in Nat
        /\ \A k, l \in 1 .. Len(order) : order[k] = order[l] => k = l
    BY Orders
  <2>3. PICK p : Visiting(records, order, ask, p)
    BY <1>3, <2>2, ShareOutVisits
  <2>4. Sharing(records, order, ask, Len(order), p[Len(order)])
    BY <1>3, <2>2, <2>3, AlwaysSharing
  <2>5. Sharing(records, order, ask, Len(order), s)
    BY <2>3, <2>4 DEF Visiting
  <2> HIDE DEF s, r
  <2>6. /\ s.grants \in Seq(GrantsOnNodes)
        /\ \A k, l \in DOMAIN s.grants : s.grants[k].node = s.grants[l].node => k = l
        /\ \A k \in DOMAIN s.grants : Suffices(records[s.grants[k].node], s.grants[k])
    BY <2>5 DEF Sharing, Shared, Spread, Even
  <2>7. Accounts(records, r)
    BY <2>1, <2>6, GrantsAccount
  <2> QED BY <2>7 DEF r
<1> QED BY <1>1, <1>2, <1>3

LEMMA FillNodesAccounts ==
  ASSUME NEW records \in [Nodes -> Assets], NEW order \in Seq(Nodes), NEW ask \in Requests
  PROVE  LET r == FillNodes(records, order, ask)
         IN  /\ Accounts(records, r)
             /\ r.raised => Amount(r.leak).cpus = ask.cpus /\ Amount(r.leak).memory <= ask.memory
<1> DEFINE s == Filled(records, order, ask)
           r == FillNodes(records, order, ask)
<1>1. /\ s \in Filling(records, ask)
  BY FilledFills
<1>2. r = IF s.raised THEN Raised(s.avail, s.grants) ELSE NoneOf(PutBack(s.avail, s.grants))
  BY Zenon DEF FillNodes
<1> HIDE DEF s, r
<1>3. /\ s.avail \in [Nodes -> Assets] /\ s.grants \in Seq(GrantsOnNodes) /\ s.left \in Assets
      /\ \A n \in Nodes : Plus(s.avail[n], OnNode(s.grants, n)) = records[n]
      /\ Plus(Amount(s.grants), s.left) = ask /\ (s.raised <=> s.left.cpus = 0)
  BY <1>1 DEF Filling
<1>4. CASE s.raised
  <2>1. r.grants = <<>> /\ r.avail = s.avail /\ r.leak = s.grants /\ <<>> \in Seq(GrantsOnNodes)
    BY <1>2, <1>4 DEF Raised
  <2>2. \A n : OnNode(r.grants, n) = NoAssets /\ OnNode(r.leak, n) \in Assets
    BY <1>3, <2>1, AmountOfNone, AmountType
  <2>3. \A n : Plus(OnNode(r.grants, n), OnNode(r.leak, n)) = OnNode(r.leak, n)
    BY <2>2, NothingMore
  <2>4. Accounts(records, r)
    BY <1>3, <2>1, <2>3 DEF Accounts
  <2>5. Amount(r.leak).cpus = ask.cpus /\ Amount(r.leak).memory <= ask.memory
    <3> DEFINE a == Amount(r.leak)
    <3>1. a \in Assets /\ Plus(a, s.left) = ask /\ s.left.cpus = 0 /\ s.left \in Assets
      BY <1>3, <1>4, <2>1, AmountType
    <3> HIDE DEF a
    <3>2. a.cpus = ask.cpus /\ a.memory <= ask.memory
      BY <3>1 DEF Assets, Plus
    <3> QED BY <3>2 DEF a
  <2> QED BY <2>4, <2>5 DEF r
<1>5. CASE ~s.raised
  <2>1. r = NoneOf(PutBack(s.avail, s.grants)) /\ ~r.raised
    BY <1>2, <1>5 DEF NoneOf, Returned
  <2>2. PutBack(s.avail, s.grants) = records
    BY <1>3 DEF PutBack
  <2>3. Accounts(records, r)
    BY <2>1, <2>2, NoneAccounts DEF NoneOf, Returned
  <2> QED BY <2>1, <2>3 DEF r
<1> QED BY <1>4, <1>5

\* The first node that has room, if there is one.
LEMMA LeastNumber ==
  ASSUME NEW S \in SUBSET Nat, S # {}
  PROVE  Min(S) \in S
<1> DEFINE R == OpToRel(<, Nat)
<1>1. IsWellFoundedOn(R, Nat)
  BY NatLessThanWellFounded
<1>2. \A m, n \in Nat : m < n => <<m, n>> \in R
  BY DEF OpToRel
<1> HIDE DEF R
<1>3. PICK n \in S : \A m \in S : ~(<<m, n>> \in R)
  BY <1>1, WFMin
<1>4. ASSUME NEW m \in S PROVE n <= m
  <2>1. m \in Nat /\ n \in Nat
    OBVIOUS
  <2>2. ~(m < n)
    BY <1>2, <1>3, <2>1, Zenon
  <2> QED BY <2>1, <2>2
<1> QED BY <1>4 DEF Min

LEMMA SingleNodeServes ==
  ASSUME NEW records \in [Nodes -> Assets], NEW R \in SUBSET Nodes,
         NEW order \in SetToSeqs(R), NEW ask \in Requests
  PROVE  LET r == SingleNode(records, order, ask)
         IN  /\ Accounts(records, r) /\ ~r.raised
             /\ r.grants # <<>> <=> \E n \in R : Suffices(records[n], ask)
             /\ \A g \in ToSet(r.grants) : Suffices(records[g.node], ask)
             /\ r.grants # <<>> => Amount(r.grants) = ask
<1> DEFINE fit == {i \in DOMAIN order : Suffices(records[order[i]], ask)}
           n == order[Min(fit)]
           g == <<Grant(n, ask)>>
           r == SingleNode(records, order, ask)
<1>1. /\ order \in Seq(Nodes) /\ order \in [1 .. Len(order) -> R] /\ Len(order) \in Nat
      /\ \A m \in R : \E k \in 1 .. Len(order) : order[k] = m
  BY Orders
<1>2. r = IF fit = {} THEN NoneOf(records) ELSE Returned(TakeOut(records, g), g)
  BY Zenon DEF SingleNode
<1>3. fit # {} <=> \E m \in R : Suffices(records[m], ask)
  BY <1>1
<1>4. fit # {} => Min(fit) \in fit
  <2>1. fit \in SUBSET Nat
    BY <1>1
  <2> HIDE DEF fit
  <2> QED BY <2>1, LeastNumber
<1>5. fit # {} => n \in Nodes /\ Suffices(records[n], ask)
  BY <1>1, <1>4
<1> HIDE DEF fit, n, r
<1>6. CASE fit = {}
  <2>1. r = [grants |-> <<>>, avail |-> records, leak |-> <<>>, raised |-> FALSE]
    BY <1>2, <1>6 DEF NoneOf, Returned
  <2>2. Accounts(records, r) /\ r.grants = <<>> /\ ~r.raised
    BY <2>1, NoneAccounts
  <2>3. ToSet(r.grants) = {}
    BY <2>2 DEF ToSet
  <2> QED BY <1>3, <1>6, <2>2, <2>3 DEF r
<1>7. CASE fit # {}
  <2>1. r = Returned(TakeOut(records, g), g) /\ ask \in Assets
    BY <1>2, <1>7 DEF Requests, Assets
  <2>2. Grant(n, ask) \in GrantsOnNodes /\ Grant(n, ask).node = n
    BY <1>5, <1>7, <2>1, GrantType
  <2>3. g \in Seq(GrantsOnNodes) /\ DOMAIN g = {1} /\ g[1] = Grant(n, ask) /\ g # <<>>
    BY <2>2
  <2>4. Suffices(records[n], Grant(n, ask))
    BY <1>5, <1>7 DEF Suffices, Grant
  <2>5. g = Append(<<>>, Grant(n, ask))
    OBVIOUS
  <2>6. Amount(g) = ask
    <3> DEFINE e == <<>>
               x == Grant(n, ask)
    <3>0. e \in Seq(GrantsOnNodes) /\ x \in GrantsOnNodes /\ g = Append(e, x)
      BY <2>2, <2>5
    <3> HIDE DEF e, x, g
    <3>1. Amount(g) = Plus(Amount(e), x)
      BY <3>0, AmountWith
    <3> USE DEF e, x
    <3>2. Plus(NoAssets, Grant(n, ask)) = Plus(NoAssets, ask)
      BY <1>5, <1>7, <2>1, GrantType
    <3> QED BY <2>1, <3>1, <3>2, AmountOfNone, NothingMore
  <2>7. \A x \in ToSet(g) : x = Grant(n, ask)
    BY <2>3 DEF ToSet
  <2> HIDE DEF g
  <2>8. Accounts(records, r)
    BY <2>1, <2>2, <2>3, <2>4, GrantsAccount
  <2>9. r.grants = g /\ ~r.raised
    BY <2>1 DEF Returned
  <2> QED BY <1>3, <1>5, <1>7, <2>2, <2>3, <2>6, <2>7, <2>8, <2>9 DEF r
<1> QED BY <1>6, <1>7
-----------------------------------------------------------------------------
(* What ROUND_ROBIN serves *)

LEMMA OnlyOnes ==
  ASSUME NEW a \in Nat \ {0}, NEW b \in Nat, b >= 1, NEW r \in Nat, a = a * b + r
  PROVE  b = 1 /\ r = 0
<1>1. a * b = a + a * (b - 1) /\ a * (b - 1) \in Nat
  OBVIOUS
<1>2. r = 0 /\ a * (b - 1) = 0
  <2> DEFINE x == a * b
             y == a * (b - 1)
  <2> HIDE DEF x, y
  <2>1. x = a + y /\ y \in Nat /\ a = x + r
    BY <1>1 DEF x, y
  <2>2. r = 0 /\ y = 0
    BY <2>1
  <2> QED BY <2>2 DEF y
<1>3. ASSUME b > 1 PROVE FALSE
  <2>1. a * (b - 1) = a + a * (b - 2) /\ a * (b - 2) \in Nat
    BY <1>3
  <2> DEFINE y == a * (b - 1)
             z == a * (b - 2)
  <2> HIDE DEF y, z
  <2>2. y = a + z /\ z \in Nat /\ y = 0
    BY <1>2, <2>1 DEF y, z
  <2> QED BY <2>2
<1> QED BY <1>2, <1>3

\* Who has granted everything has granted each share.
LEMMA AllParts ==
  ASSUME NEW a \in Nat \ {0}, NEW l \in Nat, NEW n \in Nat, NEW b \in Nat, NEW r \in Nat,
         NEW k \in Nat \ {0}, a + l = n * b + r, a = k * b + r, b >= 1, l <= r,
         k = a \/ n <= k
  PROVE  n = k
<1>1. CASE k = a
  <2>1. b = 1 /\ r = 0
    BY <1>1, OnlyOnes
  <2>2. n * 1 = n
    OBVIOUS
  <2> QED BY <1>1, <2>1, <2>2
<1>2. CASE n <= k
  BY <1>2, FewParts
<1> QED BY <1>1, <1>2

LEMMA AllShared ==
  ASSUME NEW records \in [Nodes -> Assets], NEW order \in Seq(Nodes), order # <<>>,
         \A k, l \in 1 .. Len(order) : order[k] = order[l] => k = l, NEW ask \in Requests
  PROVE  LET s == ShareOut(records, order, ask)
         IN  /\ Sharing(records, order, ask, Len(order), s)
             /\ s.grants \in Seq(GrantsOnNodes) /\ s.left \in Assets
             /\ Amount(s.grants) \in Assets
<1>1. PICK p : Visiting(records, order, ask, p)
  BY ShareOutVisits
<1>2. Sharing(records, order, ask, Len(order), p[Len(order)])
  BY <1>1, AlwaysSharing
<1>3. Sharing(records, order, ask, Len(order), ShareOut(records, order, ask))
  BY <1>1, <1>2 DEF Visiting
<1>4. ShareOut(records, order, ask) \in Shared
  BY <1>3 DEF Sharing
<1>5. /\ ShareOut(records, order, ask).grants \in Seq(GrantsOnNodes)
      /\ ShareOut(records, order, ask).left \in Assets
  BY <1>4 DEF Shared
<1>6. Amount(ShareOut(records, order, ask).grants) \in Assets
  BY <1>5, AmountType
<1> QED BY <1>3, <1>5, <1>6

\* Grants of everything lie on as many nodes as there can be.
LEMMA AllNodes ==
  ASSUME NEW records \in [Nodes -> Assets], NEW order \in Seq(Nodes), order # <<>>,
         \A k, l \in 1 .. Len(order) : order[k] = order[l] => k = l, NEW ask \in Requests,
         Amount(ShareOut(records, order, ask).grants) = ask
  PROVE  LET g == ShareOut(records, order, ask).grants
         IN  /\ Len(g) = Parts(order, ask)
             /\ Cardinality({x.node : x \in ToSet(g)}) = Len(g)
<1> DEFINE s == ShareOut(records, order, ask)
           share == Share(order, ask)
           rem == Remainder(order, ask)
           k == Parts(order, ask)
           g == s.grants
           L == Len(g)
<1>1. /\ Spread(order, Len(order), s) /\ AddsUp(share, rem, s)
      /\ g \in Seq(GrantsOnNodes) /\ s.left \in Assets
  BY AllShared DEF Sharing
<1>2. /\ k \in Nat \ {0} /\ share \in Assets /\ rem \in Assets
      /\ ask.cpus = k * share.cpus + rem.cpus /\ share.cpus >= 1
      /\ ask.cpus < Len(order) => k = ask.cpus
      /\ ask.cpus >= Len(order) => k = Len(order)
  BY Shares
<1>3. Amount(g) = ask
  OBVIOUS
<1> HIDE DEF s, share, rem, k
<1>4. L \in Nat /\ DOMAIN g = 1 .. L
  BY <1>1
<1>5. L = k
  <2> DEFINE a == ask.cpus
             l == s.left.cpus
             b == share.cpus
             r == rem.cpus
  <2>0. a \in Nat \ {0}
    BY DEF Requests
  <2>5. l \in Nat /\ b \in Nat /\ r \in Nat
    BY <1>1, <1>2 DEF Assets
  <2>1. k \in Nat \ {0} /\ b >= 1 /\ a = k * b + r /\ Len(order) \in Nat /\ L \in Nat
    BY <1>2, <1>4
  <2>2. a + l = L * b + r /\ l <= r
    BY <1>1, <1>3 DEF AddsUp
  <2>3. L <= Len(order)
    BY <1>1 DEF Spread
  <2>4. k = a \/ k = Len(order)
    BY <1>2, <2>0, <2>1
  <2> HIDE DEF a, l, b, r, g, L
  <2> QED BY <2>0, <2>1, <2>2, <2>3, <2>4, <2>5, AllParts
<1>6. Cardinality({x.node : x \in ToSet(g)}) = L
  <2> DEFINE S == {x.node : x \in ToSet(g)}
             f == [m \in 1 .. L |-> g[m].node]
  <2>1. \A m, n \in 1 .. L : g[m].node = g[n].node => m = n
    BY <1>1, <1>4 DEF Spread
  <2>2. S = {g[m].node : m \in 1 .. L}
    BY <1>4 DEF ToSet
  <2>3. f \in Bijection(1 .. L, S)
    BY <2>1, <2>2 DEF Bijection, Injection, Surjection, IsInjective
  <2>4. IsFiniteSet(1 .. L) /\ Cardinality(1 .. L) = L
    <3>1. L \in Nat
      BY <1>4
    <3> HIDE DEF L
    <3>2. IsFiniteSet(1 .. L)
      BY <3>1, FS_Interval
    <3>3. Cardinality(1 .. L) = IF 1 > L THEN 0 ELSE L - 1 + 1
      BY <3>1, FS_Interval
    <3> QED BY <3>1, <3>2, <3>3
  <2> HIDE DEF S, f
  <2>5. Cardinality(S) = Cardinality(1 .. L)
    BY <2>3, <2>4, FS_Bijection DEF ExistsBijection
  <2> QED BY <2>4, <2>5 DEF S
<1> QED BY <1>5, <1>6 DEF s, k

\* The greedy handing out of remainders: what is left of rem after each of
\* N nodes got one more if it has room.  Any balanced distribution d for
\* which there is room leaves nothing of it.
LEMMA Greedy ==
  ASSUME NEW N \in Nat, NEW d, NEW has, NEW left, NEW share \in Nat, NEW rem \in Nat,
         left[0] = rem, \A i \in 0 .. N : left[i] \in Nat,
         \A i \in 0 .. N - 1 : left[i + 1] = left[i] - OneMore(has[i + 1], share, left[i]),
         \A k \in 1 .. N : has[k] \in Nat /\ d[k] \in Nat /\ d[k] <= has[k] /\ d[k] <= share + 1,
         SumOf(d, 1 .. N) = N * share + rem
  PROVE  left[N] = 0
<1> DEFINE Upto(i) == SumOf(d, 1 .. i)
           T == {n \in Nat : n <= N => left[n] = 0 \/ left[n] + Upto(n) <= n * share + rem}
<1>1. 0 \in T
  <2>0. 1 .. 0 = {} /\ IsFiniteSet({})
    BY FS_EmptySet
  <2>1. Upto(0) = 0
    BY <2>0, SumUnfolds
  <2> HIDE DEF Upto
  <2>2. 0 * share = 0
    OBVIOUS
  <2>3. left[0] + Upto(0) <= 0 * share + rem
    BY <2>1, <2>2
  <2> QED BY <2>3
<1>2. ASSUME NEW n \in Nat, n \in T PROVE n + 1 \in T
  <2>1. SUFFICES ASSUME n + 1 <= N
                 PROVE  left[n + 1] = 0 \/ left[n + 1] + Upto(n + 1) <= (n + 1) * share + rem
    OBVIOUS
  <2>2. left[n] = 0 \/ left[n] + Upto(n) <= n * share + rem
    BY <1>2, <2>1
  <2>3. Upto(n + 1) = Upto(n) + d[n + 1] /\ Upto(n) \in Nat
    <3>1. \A k \in 1 .. n + 1 : d[k] \in Nat
      BY <2>1
    <3> QED BY <3>1, SumUpTo
  <2>4. (n + 1) * share = n * share + share /\ n * share \in Nat
    OBVIOUS
  <2>5. /\ left[n + 1] = left[n] - OneMore(has[n + 1], share, left[n])
        /\ left[n] \in Nat /\ left[n + 1] \in Nat
        /\ has[n + 1] \in Nat /\ d[n + 1] \in Nat /\ d[n + 1] <= has[n + 1] /\ d[n + 1] <= share + 1
    BY <2>1
  <2> DEFINE l == left[n]
             m == left[n + 1]
             h == has[n + 1]
             x == d[n + 1]
             S == Upto(n)
             U == Upto(n + 1)
             p == n * share
             q == (n + 1) * share
  <2> HIDE DEF l, m, h, x, S, U, p, q, Upto
  <2>6. /\ l = 0 \/ l + S <= p + rem
        /\ U = S + x /\ S \in Nat /\ q = p + share /\ p \in Nat
        /\ l \in Nat /\ m \in Nat /\ h \in Nat /\ x \in Nat /\ x <= h /\ x <= share + 1
        /\ m = l - OneMore(h, share, l)
    BY <2>2, <2>3, <2>4, <2>5 DEF l, m, h, x, S, U, p, q
  <2>7. m = 0 \/ m + U <= q + rem
    <3>1. CASE h > share /\ l > 0
      <4>1. m = l - 1
        BY <2>6, <3>1 DEF OneMore
      <4> QED BY <2>6, <3>1, <4>1
    <3>2. CASE ~(h > share /\ l > 0)
      <4>1. m = l
        BY <2>6, <3>2 DEF OneMore
      <4>2. x <= share \/ l = 0
        BY <2>6, <3>2
      <4> QED BY <2>6, <4>1, <4>2
    <3> QED BY <3>1, <3>2
  <2> QED BY <2>7 DEF m, U, q
<1> HIDE DEF T
<1>3. N \in T
  BY <1>1, <1>2, AllNumbers
<1>4. left[N] = 0 \/ left[N] + Upto(N) <= N * share + rem
  BY <1>3 DEF T
<1> DEFINE z == N * share
           l == left[N]
           S == Upto(N)
<1>5. z \in Nat /\ l \in Nat /\ S = z + rem /\ (l = 0 \/ l + S <= z + rem)
  BY <1>4
<1> HIDE DEF z, l, S
<1>6. l = 0
  BY <1>5
<1> QED BY <1>6 DEF l

\* A balanced distribution gives each node its share or one more, as far as
\* there is room, and adds up along any order of the nodes.
LEMMA Ways ==
  ASSUME TypeOK, NEW order \in SetToSeqs(ready), order # <<>>, NEW ask \in Requests,
         NEW w \in BalancedWays(order, ask)
  PROVE  LET share == Share(order, ask)
             N == Len(order)
         IN  /\ \A n \in ready :
                   /\ w[n].cpus \in Nat /\ w[n].cpus <= share.cpus + 1
                   /\ w[n].memory \in Nat /\ w[n].memory <= share.memory + 1
                   /\ avail[n].cpus >= w[n].cpus /\ avail[n].memory >= w[n].memory
                   /\ Suffices(avail[n], share)
             /\ SumOf([k \in 1 .. N |-> w[order[k]].cpus], 1 .. N) = ask.cpus
             /\ SumOf([k \in 1 .. N |-> w[order[k]].memory], 1 .. N) = ask.memory
<1> DEFINE share == Share(order, ask)
           N == Len(order)
           near == {Plus(share, [cpus |-> c, memory |-> m]) : c \in 0 .. 1, m \in 0 .. 1}
<1>1. /\ order \in Seq(Nodes) /\ N \in Nat /\ order \in [1 .. N -> ready]
      /\ \A i, k \in 1 .. N : order[i] = order[k] => i = k
      /\ \A n \in ready : \E k \in 1 .. N : order[k] = n
  BY Orders DEF TypeOK
<1>2. share \in Assets
  BY <1>1, Shares
<1>3. /\ w \in [ready -> near]
      /\ SumFunction(Cpus(w)) = ask.cpus /\ SumFunction(Memory(w)) = ask.memory
      /\ \A n \in ready : Suffices(avail[n], w[n])
  <2>1. w \in BalancedWays(order, ask)
    OBVIOUS
  <2> QED BY <2>1 DEF BalancedWays
<1>4. \A n \in ready : avail[n] \in Assets
  BY DEF TypeOK
<1> HIDE DEF share
<1>5. ASSUME NEW n \in ready
      PROVE  /\ w[n].cpus \in Nat /\ w[n].cpus <= share.cpus + 1
             /\ w[n].memory \in Nat /\ w[n].memory <= share.memory + 1
             /\ avail[n].cpus >= w[n].cpus /\ avail[n].memory >= w[n].memory
             /\ Suffices(avail[n], share)
  <2>1. PICK c \in 0 .. 1, m \in 0 .. 1 : w[n] = Plus(share, [cpus |-> c, memory |-> m])
    BY <1>3
  <2>2. w[n].cpus = share.cpus + c /\ w[n].memory = share.memory + m
    BY <2>1 DEF Plus
  <2>3. /\ share.cpus \in Nat /\ share.memory \in Nat
        /\ avail[n].cpus \in Nat /\ avail[n].memory \in Nat
    BY <1>2, <1>4 DEF Assets
  <2>4. avail[n].cpus >= w[n].cpus /\ avail[n].memory >= w[n].memory
    BY <1>3 DEF Suffices
  <2> QED BY <2>2, <2>3, <2>4 DEF Suffices
<1> HIDE DEF near
<1>6. DOMAIN w = ready /\ DOMAIN Cpus(w) = ready /\ DOMAIN Memory(w) = ready
  BY <1>3 DEF Cpus, Memory
<1>7. \A n \in ready : Cpus(w)[n] = w[n].cpus /\ Memory(w)[n] = w[n].memory
  BY <1>6 DEF Cpus, Memory
<1> DEFINE c == Cpus(w)
           m == Memory(w)
<1>8. SumOf(c, ready) = ask.cpus /\ SumOf(m, ready) = ask.memory
  BY <1>3, <1>6, OnSetIsSum DEF SumFunction
<1>9. \A n \in ready : c[n] = w[n].cpus /\ m[n] = w[n].memory /\ c[n] \in Nat /\ m[n] \in Nat
  BY <1>5, <1>7
<1> HIDE DEF c, m, N
<1>10. /\ SumOf(c, ready) = SumOf([k \in 1 .. N |-> c[order[k]]], 1 .. N)
       /\ SumOf(m, ready) = SumOf([k \in 1 .. N |-> m[order[k]]], 1 .. N)
  <2>1. \A i, k \in 1 .. N : order[i] = order[k] => i = k
    BY <1>1
  <2>2. \A n \in ready : \E k \in 1 .. N : order[k] = n
    BY <1>1
  <2>3. order \in [1 .. N -> ready] /\ N \in Nat
    BY <1>1
  <2>4. (\A n \in ready : c[n] \in Nat) /\ (\A n \in ready : m[n] \in Nat)
    BY <1>9
  <2>5. SumOf(c, ready) = SumOf([k \in 1 .. N |-> c[order[k]]], 1 .. N)
    BY <2>1, <2>2, <2>3, <2>4, SumNumbered
  <2>6. SumOf(m, ready) = SumOf([k \in 1 .. N |-> m[order[k]]], 1 .. N)
    BY <2>1, <2>2, <2>3, <2>4, SumNumbered
  <2> QED BY <2>5, <2>6
<1>11. /\ [k \in 1 .. N |-> c[order[k]]] = [k \in 1 .. N |-> w[order[k]].cpus]
       /\ [k \in 1 .. N |-> m[order[k]]] = [k \in 1 .. N |-> w[order[k]].memory]
  BY <1>1, <1>9
<1> QED BY <1>5, <1>8, <1>10, <1>11 DEF share, N

\* Where each node has its share, no visit refuses and each one grants.
LEMMA NoneRefused ==
  ASSUME NEW records \in [Nodes -> Assets], NEW order \in Seq(Nodes), order # <<>>,
         \A k, l \in 1 .. Len(order) : order[k] = order[l] => k = l,
         NEW ask \in Requests, ask.cpus >= Len(order),
         \A k \in 1 .. Len(order) : Suffices(records[order[k]], Share(order, ask)),
         NEW p, Visiting(records, order, ask, p)
  PROVE  /\ \A i \in 0 .. Len(order) :
                ~p[i].refused /\ Len(p[i].grants) = i /\ p[i] \in Shared
         /\ \A i \in 0 .. Len(order) - 1 :
                p[i + 1].left = Less(p[i].left, Extra(records, order, ask, p[i], order[i + 1]))
<1> DEFINE N == Len(order)
<1>1. ASSUME NEW i \in 0 .. N PROVE ~p[i].refused /\ Len(p[i].grants) = i /\ p[i] \in Shared
  <2>1. Sharing(records, order, ask, i, p[i])
    BY AlwaysSharing
  <2>2. Complete(records, order, Share(order, ask), i, p[i]) /\ p[i] \in Shared
    BY <2>1 DEF Sharing
  <2>3. \A m \in 1 .. i : m \in 1 .. N
    OBVIOUS
  <2> QED BY <2>2, <2>3 DEF Complete
<1>2. ASSUME NEW i \in 0 .. N - 1
      PROVE  p[i + 1].left = Less(p[i].left, Extra(records, order, ask, p[i], order[i + 1]))
  <2> DEFINE s == p[i]
             n == order[i + 1]
             e == Extra(records, order, ask, s, n)
             g == Granted(records, order, ask, s, n)
  <2>1. /\ i \in 0 .. N /\ i + 1 \in 0 .. N /\ i + 1 \in 1 .. N /\ i # i + 1
    OBVIOUS
  <2>2. p[i + 1] = Visit(records, order, ask, s, n)
    BY DEF Visiting
  <2>3. s \in Shared /\ Suffices(records[n], Share(order, ask))
    BY <1>1, <2>1
  <2>4. p[i + 1] # s
    BY <1>1, <2>1
  <2>5. Visit(records, order, ask, s, n) = s \/ Visit(records, order, ask, s, n) = With(s, g, e)
    BY <2>3, Visits
  <2>6. p[i + 1] = With(s, g, e)
    BY <2>2, <2>4, <2>5
  <2> QED BY <2>6 DEF With
<1> QED BY <1>1, <1>2

LEMMA LessExtra ==
  ASSUME NEW records, NEW order, NEW ask, NEW s, NEW n
  PROVE  LET l == Less(s.left, Extra(records, order, ask, s, n))
         IN  /\ l.cpus = s.left.cpus
                          - OneMore(records[n].cpus, Share(order, ask).cpus, s.left.cpus)
             /\ l.memory = s.left.memory
                            - OneMore(records[n].memory, Share(order, ask).memory, s.left.memory)
<1> DEFINE e == Extra(records, order, ask, s, n)
<1>1. /\ e.cpus = OneMore(records[n].cpus, Share(order, ask).cpus, s.left.cpus)
      /\ e.memory = OneMore(records[n].memory, Share(order, ask).memory, s.left.memory)
  BY DEF Extra
<1> HIDE DEF e
<1>2. Less(s.left, e).cpus = s.left.cpus - e.cpus /\ Less(s.left, e).memory = s.left.memory - e.memory
  BY DEF Less
<1> QED BY <1>1, <1>2 DEF e

\* Where a balanced distribution fits, the shares add up to the request.
LEMMA AllHandedOut ==
  ASSUME TypeOK, NEW order \in SetToSeqs(ready), order # <<>>, NEW ask \in Requests,
         ask.cpus >= Len(order), BalancedWays(order, ask) # {}
  PROVE  LET s == ShareOut(avail, order, ask)
         IN  ~s.refused /\ Amount(s.grants) = ask /\ Len(s.grants) = Len(order)
<1> DEFINE N == Len(order)
           share == Share(order, ask)
           rem == Remainder(order, ask)
           s == ShareOut(avail, order, ask)
<1>1. /\ order \in Seq(Nodes) /\ N \in Nat /\ order \in [1 .. N -> ready]
      /\ \A i, k \in 1 .. N : order[i] = order[k] => i = k
  BY Orders DEF TypeOK
<1>2. avail \in [Nodes -> Assets] /\ \A n \in ready : avail[n] \in Assets
  BY DEF TypeOK
<1>3. PICK w : w \in BalancedWays(order, ask)
  OBVIOUS
<1>4. /\ \A n \in ready :
            /\ w[n].cpus \in Nat /\ w[n].cpus <= share.cpus + 1
            /\ w[n].memory \in Nat /\ w[n].memory <= share.memory + 1
            /\ avail[n].cpus >= w[n].cpus /\ avail[n].memory >= w[n].memory
            /\ Suffices(avail[n], share)
      /\ SumOf([k \in 1 .. N |-> w[order[k]].cpus], 1 .. N) = ask.cpus
      /\ SumOf([k \in 1 .. N |-> w[order[k]].memory], 1 .. N) = ask.memory
  BY <1>3, Ways
<1>5. PICK p : Visiting(avail, order, ask, p)
  BY <1>1, <1>2, ShareOutVisits
<1>6. \A k \in 1 .. N : order[k] \in ready /\ Suffices(avail[order[k]], share)
  BY <1>1, <1>4
<1>7. /\ \A i \in 0 .. N : ~p[i].refused /\ Len(p[i].grants) = i /\ p[i] \in Shared
      /\ \A i \in 0 .. N - 1 :
            p[i + 1].left = Less(p[i].left, Extra(avail, order, ask, p[i], order[i + 1]))
  BY <1>1, <1>2, <1>5, <1>6, NoneRefused
<1>8. p[0] = ShareStart(order, ask) /\ p[N] = s
  BY <1>5 DEF Visiting
<1>9. /\ share \in Assets /\ rem \in Assets
      /\ ask.cpus = N * share.cpus + rem.cpus /\ ask.memory = N * share.memory + rem.memory
  BY <1>1, Shares
<1>10. \A i \in 0 .. N : p[i].left \in Assets
  BY <1>7 DEF Shared
<1>11. p[0].left = rem
  BY <1>8 DEF ShareStart
<1> HIDE DEF s, share, rem, N
<1>12. s.left.cpus = 0
  <2> DEFINE d == [k \in 1 .. N |-> w[order[k]].cpus]
             has == [k \in 1 .. N |-> avail[order[k]].cpus]
             left == [i \in 0 .. N |-> p[i].left.cpus]
             b == share.cpus
             r == rem.cpus
  <2>1. left[0] = r /\ left[N] = s.left.cpus
    BY <1>1, <1>8, <1>11
  <2>2. b \in Nat /\ r \in Nat
    BY <1>9 DEF Assets
  <2>3. \A i \in 0 .. N : left[i] \in Nat
    BY <1>10 DEF Assets
  <2>4. ASSUME NEW i \in 0 .. N - 1 PROVE left[i + 1] = left[i] - OneMore(has[i + 1], b, left[i])
    <3>1. i \in 0 .. N /\ i + 1 \in 0 .. N /\ i + 1 \in 1 .. N
      BY <1>1
    <3>3. p[i + 1].left = Less(p[i].left, Extra(avail, order, ask, p[i], order[i + 1]))
      BY <1>7
    <3>2. p[i + 1].left.cpus
            = p[i].left.cpus - OneMore(avail[order[i + 1]].cpus, b, p[i].left.cpus)
      BY <3>3, LessExtra DEF share
    <3> QED BY <3>1, <3>2
  <2>5. ASSUME NEW k \in 1 .. N
        PROVE  has[k] \in Nat /\ d[k] \in Nat /\ d[k] <= has[k] /\ d[k] <= b + 1
    <3>1. order[k] \in ready /\ avail[order[k]].cpus \in Nat
      BY <1>2, <1>6 DEF Assets
    <3>2. w[order[k]].cpus \in Nat /\ w[order[k]].cpus <= b + 1 /\ avail[order[k]].cpus >= w[order[k]].cpus
      BY <1>4, <3>1
    <3> QED BY <3>1, <3>2
  <2>6. SumOf(d, 1 .. N) = N * b + r
    BY <1>4, <1>9
  <2>8. N \in Nat
    BY <1>1
  <2>9. left[0] = r
    BY <2>1
  <2> HIDE DEF d, has, left, b, r
  <2>7. left[N] = 0
    BY <2>8, <2>9, <2>2, <2>3, <2>4, <2>5, <2>6, Greedy
  <2> QED BY <2>1, <2>7
<1>13. s.left.memory = 0
  <2> DEFINE d == [k \in 1 .. N |-> w[order[k]].memory]
             has == [k \in 1 .. N |-> avail[order[k]].memory]
             left == [i \in 0 .. N |-> p[i].left.memory]
             b == share.memory
             r == rem.memory
  <2>1. left[0] = r /\ left[N] = s.left.memory
    BY <1>1, <1>8, <1>11
  <2>2. b \in Nat /\ r \in Nat
    BY <1>9 DEF Assets
  <2>3. \A i \in 0 .. N : left[i] \in Nat
    BY <1>10 DEF Assets
  <2>4. ASSUME NEW i \in 0 .. N - 1 PROVE left[i + 1] = left[i] - OneMore(has[i + 1], b, left[i])
    <3>1. i \in 0 .. N /\ i + 1 \in 0 .. N /\ i + 1 \in 1 .. N
      BY <1>1
    <3>3. p[i + 1].left = Less(p[i].left, Extra(avail, order, ask, p[i], order[i + 1]))
      BY <1>7
    <3>2. p[i + 1].left.memory
            = p[i].left.memory - OneMore(avail[order[i + 1]].memory, b, p[i].left.memory)
      BY <3>3, LessExtra DEF share
    <3> QED BY <3>1, <3>2
  <2>5. ASSUME NEW k \in 1 .. N
        PROVE  has[k] \in Nat /\ d[k] \in Nat /\ d[k] <= has[k] /\ d[k] <= b + 1
    <3>1. order[k] \in ready /\ avail[order[k]].memory \in Nat
      BY <1>2, <1>6 DEF Assets
    <3>2. w[order[k]].memory \in Nat /\ w[order[k]].memory <= b + 1 /\ avail[order[k]].memory >= w[order[k]].memory
      BY <1>4, <3>1
    <3> QED BY <3>1, <3>2
  <2>6. SumOf(d, 1 .. N) = N * b + r
    BY <1>4, <1>9
  <2>8. N \in Nat
    BY <1>1
  <2>9. left[0] = r
    BY <2>1
  <2> HIDE DEF d, has, left, b, r
  <2>7. left[N] = 0
    BY <2>8, <2>9, <2>2, <2>3, <2>4, <2>5, <2>6, Greedy
  <2> QED BY <2>1, <2>7
<1>14. ~s.refused /\ Len(s.grants) = N
  <2>1. N \in 0 .. N
    BY <1>1
  <2> QED BY <1>7, <1>8, <2>1
<1>15. Amount(s.grants) = ask
  <2>1. AddsUp(share, rem, s) /\ Amount(s.grants) \in Assets
    BY <1>1, <1>2, AllShared DEF Sharing, s, share, rem, N
  <2>2. /\ Amount(s.grants).cpus + 0 = N * share.cpus + rem.cpus
        /\ Amount(s.grants).memory + 0 = N * share.memory + rem.memory
    BY <1>12, <1>13, <1>14, <2>1 DEF AddsUp
  <2>3. Amount(s.grants).cpus \in Nat /\ Amount(s.grants).memory \in Nat
    BY <2>1 DEF Assets
  <2>4. Amount(s.grants).cpus = ask.cpus /\ Amount(s.grants).memory = ask.memory
    BY <1>9, <2>2, <2>3
  <2>5. ask \in Assets
    BY DEF Requests, Assets
  <2> QED BY <2>1, <2>4, <2>5 DEF Assets
<1> QED BY <1>14, <1>15 DEF s, N

\* Grants to every node that add up to the request are such a distribution.
LEMMA GrantsAreBalanced ==
  ASSUME TypeOK, NEW order \in SetToSeqs(ready), order # <<>>, NEW ask \in Requests,
         ask.cpus >= Len(order), ~ShareOut(avail, order, ask).refused,
         Amount(ShareOut(avail, order, ask).grants) = ask
  PROVE  BalancedWays(order, ask) # {}
<1> DEFINE N == Len(order)
           share == Share(order, ask)
           s == ShareOut(avail, order, ask)
           g == s.grants
           near == {Plus(share, [cpus |-> c, memory |-> m]) : c \in 0 .. 1, m \in 0 .. 1}
           At(n) == CHOOSE k \in 1 .. N : order[k] = n
           w == [n \in ready |-> [cpus |-> g[At(n)].cpus, memory |-> g[At(n)].memory]]
           c == Cpus(w)
           m == Memory(w)
<1>1. /\ order \in Seq(Nodes) /\ N \in Nat /\ order \in [1 .. N -> ready]
      /\ \A i, k \in 1 .. N : order[i] = order[k] => i = k
      /\ \A n \in ready : \E k \in 1 .. N : order[k] = n
  BY Orders DEF TypeOK
<1>2. avail \in [Nodes -> Assets] /\ g \in Seq(GrantsOnNodes) /\ share \in Assets
  BY <1>1, AllShared, Shares DEF TypeOK
<1>3. Even(avail, share, s) /\ Complete(avail, order, share, N, s)
  BY <1>1, <1>2, AllShared DEF Sharing
<1>4. ~s.refused /\ Amount(g) = ask
  OBVIOUS
<1> HIDE DEF s, share, N
<1>5. Len(g) = N /\ DOMAIN g = 1 .. N /\ \A k \in 1 .. N : g[k].node = order[k]
  BY <1>1, <1>2, <1>3, <1>4 DEF Complete
<1>6. share.cpus \in Nat /\ share.memory \in Nat
  BY <1>2 DEF Assets
<1>7. \A k \in 1 .. N : At(order[k]) = k
  BY <1>1
<1>8. \A n \in ready : At(n) \in 1 .. N /\ order[At(n)] = n
  BY <1>1
<1> HIDE DEF At
<1>9. ASSUME NEW n \in ready
      PROVE  /\ w[n] \in near /\ Suffices(avail[n], w[n])
             /\ w[n].cpus \in Nat /\ w[n].memory \in Nat
  <2> DEFINE k == At(n)
             a == g[k].cpus - share.cpus
             b == g[k].memory - share.memory
  <2>1. k \in 1 .. N /\ k \in DOMAIN g /\ g[k].node = n
    BY <1>5, <1>8
  <2> HIDE DEF k
  <2>2. g[k].cpus \in Nat /\ g[k].memory \in Nat
    BY <1>2, <2>1, GrantTypes
  <2>3. a \in 0 .. 1 /\ b \in 0 .. 1 /\ Suffices(avail[n], g[k])
    BY <1>3, <2>1 DEF Even
  <2>4. share.cpus + a = g[k].cpus /\ share.memory + b = g[k].memory
    BY <1>6, <2>2
  <2> HIDE DEF a, b, g
  <2>5. w[n] = [cpus |-> g[k].cpus, memory |-> g[k].memory]
    BY DEF k
  <2>6. w[n] = Plus(share, [cpus |-> a, memory |-> b])
    BY <2>4, <2>5 DEF Plus
  <2>7. Suffices(avail[n], w[n])
    BY <2>3, <2>5 DEF Suffices
  <2> QED BY <2>2, <2>3, <2>5, <2>6, <2>7
<1>10. \A k \in 1 .. N : w[order[k]].cpus = g[k].cpus /\ w[order[k]].memory = g[k].memory
  BY <1>1, <1>7
<1>11. w \in [ready -> near] /\ DOMAIN w = ready
  BY <1>9
<1> HIDE DEF w, near, g
<1>12. /\ DOMAIN c = ready /\ DOMAIN m = ready
       /\ \A n \in ready : c[n] = w[n].cpus /\ c[n] \in Nat /\ m[n] = w[n].memory /\ m[n] \in Nat
  BY <1>9, <1>11 DEF Cpus, Memory
<1>13. SumFunction(c) = SumOf(c, ready) /\ SumFunction(m) = SumOf(m, ready)
  BY <1>12, OnSetIsSum DEF SumFunction
<1> HIDE DEF c, m
<1>14. /\ SumOf(c, ready) = SumOf([k \in 1 .. N |-> c[order[k]]], 1 .. N)
       /\ SumOf(m, ready) = SumOf([k \in 1 .. N |-> m[order[k]]], 1 .. N)
  <2>1. \A i, k \in 1 .. N : order[i] = order[k] => i = k
    BY <1>1
  <2>2. \A n \in ready : \E k \in 1 .. N : order[k] = n
    BY <1>1
  <2>3. order \in [1 .. N -> ready] /\ N \in Nat
    BY <1>1
  <2>4. (\A n \in ready : c[n] \in Nat) /\ (\A n \in ready : m[n] \in Nat)
    BY <1>12
  <2>5. SumOf(c, ready) = SumOf([k \in 1 .. N |-> c[order[k]]], 1 .. N)
    BY <2>1, <2>2, <2>3, <2>4, SumNumbered
  <2>6. SumOf(m, ready) = SumOf([k \in 1 .. N |-> m[order[k]]], 1 .. N)
    BY <2>1, <2>2, <2>3, <2>4, SumNumbered
  <2> QED BY <2>5, <2>6
<1>15. /\ [k \in 1 .. N |-> c[order[k]]] = Cpus(g)
       /\ [k \in 1 .. N |-> m[order[k]]] = Memory(g)
  <2>1. \A k \in 1 .. N : c[order[k]] = g[k].cpus /\ m[order[k]] = g[k].memory
    BY <1>1, <1>10, <1>12
  <2>2. /\ Cpus(g) = [k \in 1 .. N |-> g[k].cpus]
        /\ Memory(g) = [k \in 1 .. N |-> g[k].memory]
    BY <1>5 DEF Cpus, Memory
  <2> QED BY <2>1, <2>2
<1>16. ask.cpus = SumOf(Cpus(g), 1 .. N) /\ ask.memory = SumOf(Memory(g), 1 .. N)
  BY <1>4, <1>5, SumUpIsSum DEF Amount
<1>17. SumFunction(Cpus(w)) = ask.cpus /\ SumFunction(Memory(w)) = ask.memory
  BY <1>13, <1>14, <1>15, <1>16 DEF c, m
<1>18. w \in BalancedWays(order, ask)
  BY <1>9, <1>11, <1>17 DEF BalancedWays, near, share
<1> QED BY <1>18

LEMMA RoundRobinServes ==
  ASSUME TypeOK, NEW order \in SetToSeqs(ready), NEW ask \in Requests
  PROVE  LET r == RoundRobin(avail, order, ask)
         IN  /\ r.raised <=> ready = {}
             /\ r.grants # <<>> =>
                   /\ Amount(r.grants) = ask
                   /\ Cardinality({g.node : g \in ToSet(r.grants)})
                        = Least(ask.cpus, Cardinality(ready))
                   /\ \A g, h \in ToSet(r.grants) :
                         g.cpus <= h.cpus + 1 /\ g.memory <= h.memory + 1
             /\ ready # {} /\ ask.cpus >= Cardinality(ready)
                   => (r.grants # <<>> <=> BalancedWays(order, ask) # {})
<1> DEFINE s == ShareOut(avail, order, ask)
           r == RoundRobin(avail, order, ask)
<1>1. /\ order \in Seq(Nodes) /\ Len(order) = Cardinality(ready) /\ Len(order) \in Nat
      /\ \A i, k \in 1 .. Len(order) : order[i] = order[k] => i = k
      /\ order = <<>> <=> ready = {}
  BY Orders DEF TypeOK
<1>2. avail \in [Nodes -> Assets]
  BY DEF TypeOK
<1>3. CASE order = <<>>
  <2>1. r.raised /\ r.grants = <<>>
    BY <1>3 DEF RoundRobin, Raised
  <2> QED BY <1>1, <1>3, <2>1
<1>4. CASE order # <<>>
  <2>1. r = IF s.refused \/ Amount(s.grants) # ask THEN NoneOf(avail)
            ELSE Returned(TakeOut(avail, s.grants), s.grants)
    BY <1>4, Zenon DEF RoundRobin
  <2>2. ~r.raised
    BY <2>1 DEF NoneOf, Returned
  <2>3. r.grants = IF s.refused \/ Amount(s.grants) # ask THEN <<>> ELSE s.grants
    BY <2>1 DEF NoneOf, Returned
  <2>4. s.grants \in Seq(GrantsOnNodes) /\ Even(avail, Share(order, ask), s)
    BY <1>1, <1>2, <1>4, AllShared DEF Sharing
  <2>5. Share(order, ask) \in Assets
    BY <1>1, <1>4, Shares
  <2>6. ASSUME r.grants # <<>>
        PROVE  /\ Amount(r.grants) = ask
               /\ Cardinality({g.node : g \in ToSet(r.grants)})
                    = Least(ask.cpus, Cardinality(ready))
               /\ \A g, h \in ToSet(r.grants) :
                     g.cpus <= h.cpus + 1 /\ g.memory <= h.memory + 1
               /\ ~s.refused
    <3>1. ~s.refused /\ Amount(s.grants) = ask /\ r.grants = s.grants
      BY <2>3, <2>6
    <3>2. /\ Len(s.grants) = Parts(order, ask)
          /\ Cardinality({x.node : x \in ToSet(s.grants)}) = Len(s.grants)
      BY <1>1, <1>2, <1>4, <3>1, AllNodes
    <3>3. Parts(order, ask) = Least(ask.cpus, Cardinality(ready))
      BY <1>1 DEF Parts
    <3> DEFINE share == Share(order, ask)
    <3> HIDE DEF s, r, share
    <3>4. ASSUME NEW k \in DOMAIN s.grants, NEW l \in DOMAIN s.grants
          PROVE  /\ s.grants[k].cpus <= s.grants[l].cpus + 1
                 /\ s.grants[k].memory <= s.grants[l].memory + 1
      <4> DEFINE a == s.grants[k].cpus
                 b == s.grants[l].cpus
                 c == s.grants[k].memory
                 d == s.grants[l].memory
                 x == share.cpus
                 y == share.memory
      <4>1. a \in Nat /\ b \in Nat /\ c \in Nat /\ d \in Nat
        BY <2>4, GrantTypes
      <4>2. x \in Nat /\ y \in Nat
        BY <2>5 DEF Assets, share
      <4>3. a - x \in {0, 1} /\ b - x \in {0, 1} /\ c - y \in {0, 1} /\ d - y \in {0, 1}
        BY <2>4 DEF Even, share
      <4> HIDE DEF a, b, c, d, x, y
      <4>4. a <= b + 1 /\ c <= d + 1
        BY <4>1, <4>2, <4>3
      <4> QED BY <4>4 DEF a, b, c, d
    <3>5. \A g, h \in ToSet(s.grants) : g.cpus <= h.cpus + 1 /\ g.memory <= h.memory + 1
      BY <3>4 DEF ToSet
    <3> QED BY <3>1, <3>2, <3>3, <3>5
  <2>7. ASSUME ask.cpus >= Len(order), r.grants # <<>> PROVE BalancedWays(order, ask) # {}
    <3>1. ~s.refused /\ Amount(s.grants) = ask
      BY <2>3, <2>7
    <3> QED BY <1>4, <2>7, <3>1, GrantsAreBalanced
  <2>8. ASSUME ask.cpus >= Len(order), BalancedWays(order, ask) # {} PROVE r.grants # <<>>
    <3>1. ~s.refused /\ Amount(s.grants) = ask /\ Len(s.grants) = Len(order)
      BY <1>4, <2>8, AllHandedOut
    <3>2. Len(order) # 0
      BY <1>1, <1>4
    <3>3. r.grants = s.grants
      BY <2>3, <3>1
    <3> HIDE DEF s, r
    <3> QED BY <3>1, <3>2, <3>3
  <2> HIDE DEF s, r
  <2> QED BY <1>1, <1>4, <2>2, <2>6, <2>7, <2>8 DEF r
<1> QED BY <1>3, <1>4
-----------------------------------------------------------------------------
(* The pool *)

\* What all jobs hold on node n.
HeldCpus(h, n) == SumFunction([j \in Jobs |-> OnNode(h[j], n).cpus])
HeldMemory(h, n) == SumFunction([j \in Jobs |-> OnNode(h[j], n).memory])

\* The allocations of one job change.
LEMMA HeldChanges ==
  ASSUME NEW h \in [Jobs -> Seq(GrantsOnNodes)], NEW j \in Jobs, NEW x \in Seq(GrantsOnNodes),
         NEW n
  PROVE  LET k == [h EXCEPT ![j] = x]
         IN  /\ HeldCpus(k, n) + OnNode(h[j], n).cpus = HeldCpus(h, n) + OnNode(x, n).cpus
             /\ HeldMemory(k, n) + OnNode(h[j], n).memory = HeldMemory(h, n) + OnNode(x, n).memory
             /\ HeldCpus(h, n) \in Nat /\ HeldMemory(h, n) \in Nat
             /\ HeldCpus(k, n) \in Nat /\ HeldMemory(k, n) \in Nat
<1> DEFINE k == [h EXCEPT ![j] = x]
           C(f) == [i \in Jobs |-> OnNode(f[i], n).cpus]
           M(f) == [i \in Jobs |-> OnNode(f[i], n).memory]
<1>1. k \in [Jobs -> Seq(GrantsOnNodes)] /\ k[j] = x /\ \A i \in Jobs \ {j} : k[i] = h[i]
  OBVIOUS
<1>2. IsFiniteSet(Jobs)
  BY ParadigmAssumption
<1> HIDE DEF k
<1>3. ASSUME NEW f \in [Jobs -> Seq(GrantsOnNodes)]
      PROVE  /\ HeldCpus(f, n) = SumOf(C(f), Jobs) /\ HeldMemory(f, n) = SumOf(M(f), Jobs)
             /\ \A i \in Jobs : /\ C(f)[i] = OnNode(f[i], n).cpus /\ C(f)[i] \in Nat
                               /\ M(f)[i] = OnNode(f[i], n).memory /\ M(f)[i] \in Nat
  <2>1. DOMAIN C(f) = Jobs /\ DOMAIN M(f) = Jobs
    OBVIOUS
  <2>2. ASSUME NEW i \in Jobs PROVE OnNode(f[i], n).cpus \in Nat /\ OnNode(f[i], n).memory \in Nat
    <3>1. OnNode(f[i], n) \in Assets
      BY AmountType
    <3> QED BY <3>1 DEF Assets
  <2>3. HeldCpus(f, n) = SumFunctionOnSet(C(f), Jobs) /\ HeldMemory(f, n) = SumFunctionOnSet(M(f), Jobs)
    BY <2>1, Zenon DEF HeldCpus, HeldMemory, SumFunction
  <2> QED BY <2>2, <2>3, OnSetIsSum
<1> HIDE DEF C, M
<1>4. /\ SumOf(C(k), Jobs) + C(h)[j] = SumOf(C(h), Jobs) + C(k)[j]
  <2>1. ASSUME NEW i \in Jobs PROVE C(h)[i] \in Nat /\ C(k)[i] \in Nat
    BY <1>1, <1>3
  <2>2. ASSUME NEW i \in Jobs, i # j PROVE C(h)[i] = C(k)[i]
    <3>1. C(h)[i] = OnNode(h[i], n).cpus /\ C(k)[i] = OnNode(k[i], n).cpus
      BY <1>1, <1>3
    <3> QED BY <1>1, <2>2, <3>1
  <2> QED BY <1>2, <2>1, <2>2, SumChanges
<1>5. /\ SumOf(M(k), Jobs) + M(h)[j] = SumOf(M(h), Jobs) + M(k)[j]
  <2>1. ASSUME NEW i \in Jobs PROVE M(h)[i] \in Nat /\ M(k)[i] \in Nat
    BY <1>1, <1>3
  <2>2. ASSUME NEW i \in Jobs, i # j PROVE M(h)[i] = M(k)[i]
    <3>1. M(h)[i] = OnNode(h[i], n).memory /\ M(k)[i] = OnNode(k[i], n).memory
      BY <1>1, <1>3
    <3> QED BY <1>1, <2>2, <3>1
  <2> QED BY <1>2, <2>1, <2>2, SumChanges
<1>6. /\ SumOf(C(h), Jobs) \in Nat /\ SumOf(C(k), Jobs) \in Nat
      /\ SumOf(M(h), Jobs) \in Nat /\ SumOf(M(k), Jobs) \in Nat
  <2>1. \A i \in Jobs : C(h)[i] \in Nat /\ C(k)[i] \in Nat /\ M(h)[i] \in Nat /\ M(k)[i] \in Nat
    BY <1>1, <1>3
  <2> QED BY <1>2, <2>1, SumType
<1>7. /\ C(h)[j] = OnNode(h[j], n).cpus /\ C(k)[j] = OnNode(x, n).cpus
      /\ M(h)[j] = OnNode(h[j], n).memory /\ M(k)[j] = OnNode(x, n).memory
  BY <1>1, <1>3
<1>8. /\ HeldCpus(h, n) = SumOf(C(h), Jobs) /\ HeldMemory(h, n) = SumOf(M(h), Jobs)
      /\ HeldCpus(k, n) = SumOf(C(k), Jobs) /\ HeldMemory(k, n) = SumOf(M(k), Jobs)
  BY <1>1, <1>3
<1> QED BY <1>4, <1>5, <1>6, <1>7, <1>8 DEF k

Balanced(n) ==
    /\ avail[n].cpus + lost[n].cpus + HeldCpus(held, n) = Total[n].cpus
    /\ avail[n].memory + lost[n].memory + HeldMemory(held, n) = Total[n].memory

LEMMA ConservationIs == Conservation <=> TypeOK /\ \A n \in Nodes : Balanced(n)
  BY Zenon DEF Conservation, Balanced, HeldCpus, HeldMemory

LEMMA HeldAtFirst ==
  ASSUME NEW n
  PROVE  LET h == [j \in Jobs |-> <<>>] IN HeldCpus(h, n) = 0 /\ HeldMemory(h, n) = 0
<1> DEFINE h == [j \in Jobs |-> <<>>]
           c == [j \in Jobs |-> OnNode(h[j], n).cpus]
           m == [j \in Jobs |-> OnNode(h[j], n).memory]
           T == {U \in SUBSET Jobs : SumOf(c, U) # 0 \/ SumOf(m, U) # 0}
<1>1. IsFiniteSet(Jobs)
  BY ParadigmAssumption
<1>2. \A j \in Jobs : c[j] = 0 /\ m[j] = 0
  BY AmountOfNone DEF NoAssets
<1>3. DOMAIN c = Jobs /\ DOMAIN m = Jobs
  OBVIOUS
<1>4. HeldCpus(h, n) = SumOf(c, Jobs) /\ HeldMemory(h, n) = SumOf(m, Jobs)
  BY <1>3, OnSetIsSum DEF HeldCpus, HeldMemory, SumFunction
<1> HIDE DEF c, m
<1>5. ASSUME T # {} PROVE FALSE
  <2>0. T \in SUBSET SUBSET Jobs
    OBVIOUS
  <2> HIDE DEF T
  <2>1. PICK U \in T : \A V \in SUBSET U : V # U => V \notin T
    BY <1>1, <1>5, <2>0, SmallestSet
  <2> USE DEF T
  <2>2. IsFiniteSet(U)
    BY <1>1, FS_Subset
  <2>3. /\ U = {} => SumOf(c, U) = 0 /\ SumOf(m, U) = 0
        /\ U # {} => /\ SumOf(c, U) = c[Chosen(U)] + SumOf(c, U \ {Chosen(U)})
                     /\ SumOf(m, U) = m[Chosen(U)] + SumOf(m, U \ {Chosen(U)})
    BY <2>2, SumUnfolds
  <2>4. U # {} => Chosen(U) \in U
    BY ChosenIn
  <2>5. U # {} => SumOf(c, U \ {Chosen(U)}) = 0 /\ SumOf(m, U \ {Chosen(U)}) = 0
    BY <2>1, <2>4
  <2> QED BY <1>2, <2>1, <2>3, <2>4, <2>5
<1>6. SumOf(c, Jobs) = 0 /\ SumOf(m, Jobs) = 0
  BY <1>5
<1> QED BY <1>4, <1>6

LEMMA InitConserves == Init => Conservation
<1> SUFFICES ASSUME Init PROVE Conservation
  OBVIOUS
<1>1. /\ ready \in SUBSET Nodes /\ avail = Total /\ held = [j \in Jobs |-> <<>>]
      /\ lost = [n \in Nodes |-> NoAssets] /\ Total \in [Nodes -> Assets]
      /\ NoAssets \in Assets
  BY ParadigmAssumption DEF Init, NoAssets, Assets
<1>2. TypeOK
  BY <1>1 DEF TypeOK
<1>3. ASSUME NEW n \in Nodes PROVE Balanced(n)
  <2>1. avail[n] \in Assets /\ avail[n] = Total[n] /\ lost[n] = NoAssets
    BY <1>1
  <2>2. HeldCpus(held, n) = 0 /\ HeldMemory(held, n) = 0
    BY <1>1, HeldAtFirst
  <2> QED BY <2>1, <2>2 DEF Balanced, Assets, NoAssets
<1> QED BY <1>2, <1>3, ConservationIs

LEMMA CallBalance ==
  ASSUME NEW a \in Nat, NEW g \in Nat, NEW l \in Nat, NEW q \in Nat, NEW c \in Nat, NEW d \in Nat,
         d + 0 = c + g
  PROVE  a + (q + l) + d = (a + (g + l)) + q + c
  OBVIOUS

\* A call that accounts for the records keeps the balance.
LEMMA EndsConserve ==
  ASSUME TypeOK, \A n \in Nodes : Balanced(n), NEW j \in Jobs, NEW r,
         held[j] = <<>>, Accounts(avail, r), Ends(j, r)
  PROVE  TypeOK' /\ \A n \in Nodes : Balanced(n)'
<1>1. /\ ready \subseteq Nodes /\ avail \in [Nodes -> Assets] /\ lost \in [Nodes -> Assets]
      /\ held \in [Jobs -> Seq(GrantsOnNodes)]
  BY DEF TypeOK
<1>2. /\ avail' = r.avail /\ held' = [held EXCEPT ![j] = r.grants]
      /\ lost' = PutBack(lost, r.leak) /\ ready' = ready
  BY DEF Ends
<1>3. /\ r.avail \in [Nodes -> Assets]
      /\ r.grants \in Seq(GrantsOnNodes) /\ r.leak \in Seq(GrantsOnNodes)
      /\ \A n \in Nodes :
            Plus(r.avail[n], Plus(OnNode(r.grants, n), OnNode(r.leak, n))) = avail[n]
  BY DEF Accounts
<1>4. \A n \in Nodes : OnNode(r.grants, n) \in Assets /\ OnNode(r.leak, n) \in Assets
  BY <1>3, AmountType
<1>5. \A n \in Nodes : Plus(lost[n], OnNode(r.leak, n)) \in Assets
  BY <1>1, <1>4 DEF Plus, Assets
<1>6. lost' \in [Nodes -> Assets] /\ \A n \in Nodes : lost'[n] = Plus(lost[n], OnNode(r.leak, n))
  BY <1>2, <1>5 DEF PutBack
<1>7. TypeOK'
  BY <1>1, <1>2, <1>3, <1>6 DEF TypeOK
<1>8. ASSUME NEW n \in Nodes PROVE Balanced(n)'
  <2>0. /\ HeldCpus(held', n) + OnNode(held[j], n).cpus = HeldCpus(held, n) + OnNode(r.grants, n).cpus
        /\ HeldMemory(held', n) + OnNode(held[j], n).memory
             = HeldMemory(held, n) + OnNode(r.grants, n).memory
        /\ HeldCpus(held, n) \in Nat /\ HeldCpus(held', n) \in Nat
        /\ HeldMemory(held, n) \in Nat /\ HeldMemory(held', n) \in Nat
    BY <1>1, <1>2, <1>3, HeldChanges
  <2> DEFINE a == r.avail[n]
             g == OnNode(r.grants, n)
             l == OnNode(r.leak, n)
             c == HeldCpus(held, n)
             d == HeldCpus(held', n)
             m == HeldMemory(held, n)
             o == HeldMemory(held', n)
             q == lost[n]
             p == avail[n]
  <2>1. /\ a \in Assets /\ g \in Assets /\ l \in Assets /\ q \in Assets
        /\ p = Plus(a, Plus(g, l)) /\ lost'[n] = Plus(q, l)
    BY <1>1, <1>3, <1>4, <1>6
  <2>2. OnNode(held[j], n) = NoAssets
    BY AmountOfNone
  <2>3. /\ d + 0 = c + g.cpus /\ o + 0 = m + g.memory
        /\ c \in Nat /\ d \in Nat /\ m \in Nat /\ o \in Nat
    BY <2>0, <2>2 DEF NoAssets
  <2>4. /\ p.cpus + q.cpus + c = Total[n].cpus /\ p.memory + q.memory + m = Total[n].memory
    BY DEF Balanced
  <2> HIDE DEF a, g, l, c, d, m, o, q, p
  <2>8. /\ p.cpus = a.cpus + (g.cpus + l.cpus) /\ p.memory = a.memory + (g.memory + l.memory)
        /\ a.cpus \in Nat /\ g.cpus \in Nat /\ l.cpus \in Nat /\ q.cpus \in Nat
        /\ a.memory \in Nat /\ g.memory \in Nat /\ l.memory \in Nat /\ q.memory \in Nat
    BY <2>1 DEF Plus, Assets
  <2>5. /\ a.cpus + (q.cpus + l.cpus) + d = Total[n].cpus
        /\ a.memory + (q.memory + l.memory) + o = Total[n].memory
    <3>1. a.cpus + (q.cpus + l.cpus) + d = (a.cpus + (g.cpus + l.cpus)) + q.cpus + c
      <4> DEFINE A == a.cpus
                 B == g.cpus
                 C == l.cpus
                 D == q.cpus
      <4>1. A \in Nat /\ B \in Nat /\ C \in Nat /\ D \in Nat /\ c \in Nat /\ d \in Nat /\ d + 0 = c + B
        BY <2>3, <2>8
      <4> HIDE DEF A, B, C, D
      <4>2. A + (D + C) + d = (A + (B + C)) + D + c
        BY <4>1, CallBalance
      <4> QED BY <4>2 DEF A, B, C, D
    <3>2. a.memory + (q.memory + l.memory) + o = (a.memory + (g.memory + l.memory)) + q.memory + m
      <4> DEFINE A == a.memory
                 B == g.memory
                 C == l.memory
                 D == q.memory
      <4>1. A \in Nat /\ B \in Nat /\ C \in Nat /\ D \in Nat /\ m \in Nat /\ o \in Nat /\ o + 0 = m + B
        BY <2>3, <2>8
      <4> HIDE DEF A, B, C, D
      <4>2. A + (D + C) + o = (A + (B + C)) + D + m
        BY <4>1, CallBalance
      <4> QED BY <4>2 DEF A, B, C, D
    <3> QED BY <2>4, <2>8, <3>1, <3>2
  <2>6. lost'[n].cpus = q.cpus + l.cpus /\ lost'[n].memory = q.memory + l.memory
    BY <2>1 DEF Plus
  <2>7. avail'[n] = a
    BY <1>2 DEF a
  <2> QED BY <2>5, <2>6, <2>7 DEF Balanced, d, o
<1> QED BY <1>7, <1>8

LEMMA ReleaseConserves ==
  ASSUME TypeOK, \A n \in Nodes : Balanced(n), NEW j \in Jobs, Release(j)
  PROVE  TypeOK' /\ \A n \in Nodes : Balanced(n)'
<1>1. /\ ready \subseteq Nodes /\ avail \in [Nodes -> Assets] /\ lost \in [Nodes -> Assets]
      /\ held \in [Jobs -> Seq(GrantsOnNodes)] /\ <<>> \in Seq(GrantsOnNodes)
  BY DEF TypeOK
<1>2. /\ avail' = PutBack(avail, held[j]) /\ held' = [held EXCEPT ![j] = <<>>]
      /\ lost' = lost /\ ready' = ready
  BY DEF Release
<1>3. \A n \in Nodes : OnNode(held[j], n) \in Assets
  BY <1>1, AmountType
<1>4. \A n \in Nodes : Plus(avail[n], OnNode(held[j], n)) \in Assets
  BY <1>1, <1>3 DEF Plus, Assets
<1>5. /\ avail' \in [Nodes -> Assets]
      /\ \A n \in Nodes : avail'[n] = Plus(avail[n], OnNode(held[j], n))
  BY <1>2, <1>4 DEF PutBack
<1>6. TypeOK'
  BY <1>1, <1>2, <1>5 DEF TypeOK
<1>7. ASSUME NEW n \in Nodes PROVE Balanced(n)'
  <2>0. /\ HeldCpus(held', n) + OnNode(held[j], n).cpus = HeldCpus(held, n) + OnNode(<<>>, n).cpus
        /\ HeldMemory(held', n) + OnNode(held[j], n).memory
             = HeldMemory(held, n) + OnNode(<<>>, n).memory
        /\ HeldCpus(held, n) \in Nat /\ HeldCpus(held', n) \in Nat
        /\ HeldMemory(held, n) \in Nat /\ HeldMemory(held', n) \in Nat
    BY <1>1, <1>2, HeldChanges
  <2> DEFINE g == OnNode(held[j], n)
             c == HeldCpus(held, n)
             d == HeldCpus(held', n)
             m == HeldMemory(held, n)
             o == HeldMemory(held', n)
             q == lost[n]
             p == avail[n]
  <2>1. p \in Assets /\ g \in Assets /\ q \in Assets /\ avail'[n] = Plus(p, g)
    BY <1>1, <1>3, <1>5
  <2>2. OnNode(<<>>, n) = NoAssets
    BY AmountOfNone
  <2>3. /\ d + g.cpus = c + 0 /\ o + g.memory = m + 0
        /\ c \in Nat /\ d \in Nat /\ m \in Nat /\ o \in Nat
    BY <2>0, <2>2 DEF NoAssets
  <2>4. /\ p.cpus + q.cpus + c = Total[n].cpus /\ p.memory + q.memory + m = Total[n].memory
    BY DEF Balanced
  <2> HIDE DEF g, c, d, m, o, q, p
  <2>5. /\ (p.cpus + g.cpus) + q.cpus + d = Total[n].cpus
        /\ (p.memory + g.memory) + q.memory + o = Total[n].memory
    BY <2>1, <2>3, <2>4 DEF Assets
  <2>6. avail'[n].cpus = p.cpus + g.cpus /\ avail'[n].memory = p.memory + g.memory
    BY <2>1 DEF Plus
  <2>7. lost'[n] = q
    BY <1>2 DEF q
  <2> QED BY <2>5, <2>6, <2>7 DEF Balanced, d, o
<1> QED BY <1>6, <1>7

(***************************************************************************)
(* What is left of a node, what jobs hold on it and what calls that raised *)
(* have lost on it make up the node, for any pool, any jobs and requests,  *)
(* and any order in which Redis lists the nodes.                           *)
(***************************************************************************)
THEOREM NodesAreConserved == Spec => []Conservation
<1>1. Conservation /\ [Next]_vars => Conservation'
  <2> SUFFICES ASSUME TypeOK, \A n \in Nodes : Balanced(n), [Next]_vars
               PROVE  TypeOK' /\ \A n \in Nodes : Balanced(n)'
    <3>1. Conservation' <=> TypeOK' /\ \A n \in Nodes : Balanced(n)'
      BY Zenon DEF Conservation, Balanced, HeldCpus, HeldMemory
    <3> QED BY <3>1, ConservationIs
  <2>1. ASSUME NEW j \in Jobs, NEW ask \in Asks, NEW order \in SetToSeqs(ready),
               Allocate(j, ask, order)
        PROVE  TypeOK' /\ \A n \in Nodes : Balanced(n)'
    <3>1. held[j] = <<>> /\ avail \in [Nodes -> Assets] /\ ready \in SUBSET Nodes
      BY <2>1 DEF Allocate, TypeOK
    <3>2. ask \in Requests /\ order \in Seq(Nodes)
      BY <3>1, AsksAreRequests, Orders
    <3>3. /\ Accounts(avail, SingleNode(avail, order, ask))
          /\ Accounts(avail, FillNodes(avail, order, ask))
          /\ Accounts(avail, RoundRobin(avail, order, ask))
      BY <3>1, <3>2, SingleNodeServes, FillNodesAccounts, RoundRobinAccounts
    <3>4. PICK r : Accounts(avail, r) /\ Ends(j, r)
      BY <2>1, <3>3, Zenon DEF Allocate
    <3> QED BY <3>1, <3>4, EndsConserve
  <2>2. ASSUME NEW j \in Jobs, Release(j) PROVE TypeOK' /\ \A n \in Nodes : Balanced(n)'
    BY <2>2, ReleaseConserves
  <2>3. ASSUME UNCHANGED vars PROVE TypeOK' /\ \A n \in Nodes : Balanced(n)'
    BY <2>3 DEF vars, TypeOK, Balanced
  <2> QED BY <2>1, <2>2, <2>3 DEF Next
<1> QED BY <1>1, InitConserves, PTL DEF Spec

(***************************************************************************)
(* In every state each of the three ways serves what it should: SINGLE_NODE*)
(* serves a request exactly when a ready node has room for it, ROUND_ROBIN *)
(* serves one of at least a CPU per ready node exactly when a balanced     *)
(* distribution of it fits, whatever the order in which Redis lists the    *)
(* nodes, and a FILL_NODES that raises has granted, and lost, every CPU    *)
(* asked for.                                                              *)
(***************************************************************************)
THEOREM WhatFitsIsServed == Spec => []ServesWhatFits
<1>1. TypeOK => ServesWhatFits
  <2> SUFFICES ASSUME TypeOK PROVE ServesWhatFits
    OBVIOUS
  <2>1. avail \in [Nodes -> Assets] /\ ready \in SUBSET Nodes
    BY DEF TypeOK
  <2>2. ASSUME NEW ask \in Asks, NEW order \in SetToSeqs(ready)
        PROVE  ask \in Requests /\ order \in Seq(Nodes)
    BY <2>1, AsksAreRequests, Orders
  <2>3. ASSUME NEW ask \in Asks, NEW order \in SetToSeqs(ready)
        PROVE  LET r == SingleNode(avail, order, ask)
               IN  /\ ~r.raised
                   /\ r.grants # <<>> <=> \E n \in ready : Suffices(avail[n], ask)
                   /\ \A g \in ToSet(r.grants) : Suffices(avail[g.node], ask)
                   /\ r.grants # <<>> => Amount(r.grants) = ask
    BY <2>1, <2>2, SingleNodeServes
  <2>4. ASSUME NEW ask \in Asks, NEW order \in SetToSeqs(ready)
        PROVE  LET r == RoundRobin(avail, order, ask)
               IN  /\ r.raised <=> ready = {}
                   /\ r.grants # <<>> =>
                         /\ Amount(r.grants) = ask
                         /\ Cardinality({g.node : g \in ToSet(r.grants)})
                              = Least(ask.cpus, Cardinality(ready))
                         /\ \A g, h \in ToSet(r.grants) :
                               g.cpus <= h.cpus + 1 /\ g.memory <= h.memory + 1
                   /\ ready # {} /\ ask.cpus >= Cardinality(ready)
                         => (r.grants # <<>> <=> BalancedWays(order, ask) # {})
    BY <2>2, RoundRobinServes
  <2>5. ASSUME NEW ask \in Asks, NEW order \in SetToSeqs(ready)
        PROVE  LET r == FillNodes(avail, order, ask)
               IN  r.raised => Amount(r.leak).cpus = ask.cpus /\ Amount(r.leak).memory <= ask.memory
    BY <2>1, <2>2, FillNodesAccounts
  <2> QED BY <2>3, <2>4, <2>5, Zenon DEF ServesWhatFits, ForEveryCall
<1>2. Conservation => TypeOK
  BY DEF Conservation
<1> QED BY <1>1, <1>2, NodesAreConserved, PTL
-----------------------------------------------------------------------------
(* Fractions in lowest terms *)

Divides(d, a) == \E k \in Nat : a = d * k

LEMMA DivMod ==
  ASSUME NEW a \in Nat, NEW b \in Nat \ {0}
  PROVE  /\ a \div b \in Nat /\ a % b \in 0 .. b - 1
         /\ a = b * (a \div b) + (a % b)
  OBVIOUS

LEMMA SumOfMultiples ==
  ASSUME NEW d \in Nat, NEW k \in Nat, NEW l \in Nat, NEW q \in Nat
  PROVE  (d * k) * q + d * l = d * (k * q + l) /\ k * q + l \in Nat
  OBVIOUS

LEMMA DifferenceOfMultiples ==
  ASSUME NEW d \in Nat \ {0}, NEW k \in Nat, NEW l \in Nat, NEW q \in Nat, NEW r \in Nat,
         d * k = (d * l) * q + r
  PROVE  r = d * (k - l * q) /\ k - l * q \in Nat
<1> DEFINE x == k - l * q
<1>1. x \in Int /\ r = d * x
  OBVIOUS
<1> HIDE DEF x
<1>2. x >= 0
  BY <1>1
<1> QED BY <1>1, <1>2 DEF x

\* The divisors of two numbers are those of the lower and the remainder.
LEMMA SameDivisors ==
  ASSUME NEW a \in Nat, NEW b \in Nat \ {0}, NEW d \in Nat \ {0}
  PROVE  Divides(d, b) => (Divides(d, a) <=> Divides(d, a % b))
<1> DEFINE q == a \div b
           r == a % b
<1>1. q \in Nat /\ r \in Nat /\ a = b * q + r
  BY DivMod
<1> HIDE DEF q, r
<1>2. SUFFICES ASSUME NEW l \in Nat, b = d * l
               PROVE  Divides(d, a) <=> Divides(d, r)
  BY DEF Divides, r
<1>3. ASSUME NEW k \in Nat, a = d * k PROVE Divides(d, r)
  <2>1. d * k = (d * l) * q + r
    BY <1>1, <1>2, <1>3
  <2>2. r = d * (k - l * q) /\ k - l * q \in Nat
    BY <1>1, <2>1, DifferenceOfMultiples
  <2> QED BY <2>2 DEF Divides
<1>4. ASSUME NEW k \in Nat, r = d * k PROVE Divides(d, a)
  <2>1. a = (d * l) * q + d * k
    BY <1>1, <1>2, <1>4
  <2>2. a = d * (l * q + k) /\ l * q + k \in Nat
    BY <1>1, <2>1, SumOfMultiples
  <2> QED BY <2>2 DEF Divides
<1> QED BY <1>3, <1>4 DEF Divides

LEMMA DividesUpTo ==
  ASSUME NEW a \in Nat \ {0}, NEW d \in Nat, Divides(d, a)
  PROVE  d \in 1 .. a
<1>1. PICK k \in Nat : a = d * k
  BY DEF Divides
<1>2. k >= 1 /\ d >= 1
  BY <1>1
<1>3. d * k >= d
  BY <1>2
<1> QED BY <1>1, <1>2, <1>3

LEMMA DividesItself ==
  ASSUME NEW a \in Nat
  PROVE  Divides(a, a) /\ Divides(a, 0)
<1>1. a = a * 1 /\ 0 = a * 0
  OBVIOUS
<1> QED BY <1>1 DEF Divides

CommonDivisors(a, b) == {d \in Nat \ {0} : Divides(d, a) /\ Divides(d, b)}
Greatest(S) == CHOOSE g \in S : \A d \in S : d <= g

LEMMA CommonOfRest ==
  ASSUME NEW a \in Nat, NEW b \in Nat \ {0}
  PROVE  CommonDivisors(a, b) = CommonDivisors(b, a % b)
  BY SameDivisors DEF CommonDivisors

LEMMA CommonOfZero ==
  ASSUME NEW a \in Nat \ {0}
  PROVE  Greatest(CommonDivisors(a, 0)) = a
<1> DEFINE S == CommonDivisors(a, 0)
<1>1. a \in S
  BY DividesItself DEF CommonDivisors
<1>2. \A d \in S : d \in 1 .. a
  BY DividesUpTo DEF CommonDivisors
<1> HIDE DEF S
<1>3. \A g \in S : (\A d \in S : d <= g) => g = a
  BY <1>1, <1>2
<1>4. \A d \in S : d <= a
  BY <1>2
<1>5. Greatest(S) = a
  BY <1>1, <1>3, <1>4 DEF Greatest
<1> QED BY <1>5 DEF S

\* The recursive function exists: the greatest common divisor is one.
LEMMA gcdUnfolds ==
  ASSUME NEW a \in Nat, NEW b \in Nat
  PROVE  gcd[<<a, b>>] = IF b = 0 THEN a ELSE gcd[<<b, a % b>>]
<1> DEFINE G == [p \in Nat \X Nat |-> IF p[1] = 0 /\ p[2] = 0 THEN 0
                                      ELSE Greatest(CommonDivisors(p[1], p[2]))]
<1>1. ASSUME NEW p \in Nat \X Nat
      PROVE  G[p] = IF p[2] = 0 THEN p[1] ELSE G[<<p[2], p[1] % p[2]>>]
  <2>1. PICK x \in Nat, y \in Nat : p = <<x, y>>
    OBVIOUS
  <2>2. CASE y = 0 /\ x = 0
    BY <2>1, <2>2
  <2>3. CASE y = 0 /\ x # 0
    BY <2>1, <2>3, CommonOfZero
  <2>4. CASE y # 0
    <3>1. x % y \in Nat
      BY <2>4, DivMod
    <3>2. G[<<x, y>>] = Greatest(CommonDivisors(x, y))
      BY <2>4
    <3>3. <<y, x % y>> \in Nat \X Nat
      BY <3>1
    <3>4. G[<<y, x % y>>] = Greatest(CommonDivisors(y, x % y))
      BY <2>4, <3>3
    <3>5. CommonDivisors(x, y) = CommonDivisors(y, x % y)
      BY <2>4, CommonOfRest
    <3> HIDE DEF G
    <3> QED BY <2>1, <2>4, <3>2, <3>4, <3>5
  <2> QED BY <2>2, <2>3, <2>4
<1> HIDE DEF G
<1>2. G = [p \in Nat \X Nat |-> IF p[2] = 0 THEN p[1] ELSE G[<<p[2], p[1] % p[2]>>]]
  <2>1. G = [p \in Nat \X Nat |-> G[p]]
    BY DEF G
  <2> QED BY <1>1, <2>1
<1>3. \E g : g = [p \in Nat \X Nat |-> IF p[2] = 0 THEN p[1] ELSE g[<<p[2], p[1] % p[2]>>]]
  BY <1>2
<1>4. gcd = [p \in Nat \X Nat |-> IF p[2] = 0 THEN p[1] ELSE gcd[<<p[2], p[1] % p[2]>>]]
  BY <1>3 DEF gcd
<1> HIDE DEF gcd
<1> QED BY <1>4

\* A common divisor of two numbers that are not both nought.
LEMMA gcdDivides ==
  ASSUME NEW b \in Nat
  PROVE  \A a \in Nat : a # 0 \/ b # 0 => gcd[<<a, b>>] \in CommonDivisors(a, b)
<1> DEFINE P(y) == \A x \in Nat : x # 0 \/ y # 0 => gcd[<<x, y>>] \in CommonDivisors(x, y)
           T == {n \in Nat : \A y \in 0 .. n : P(y)}
<1>1. 0 \in T
  <2>1. ASSUME NEW x \in Nat, x # 0 PROVE gcd[<<x, 0>>] \in CommonDivisors(x, 0)
    BY <2>1, gcdUnfolds, DividesItself DEF CommonDivisors
  <2>2. P(0)
    BY <2>1
  <2> HIDE DEF P
  <2>3. 0 .. 0 = {0}
    OBVIOUS
  <2> QED BY <2>2, <2>3
<1>2. ASSUME NEW n \in Nat, n \in T PROVE n + 1 \in T
  <2>1. ASSUME NEW x \in Nat
        PROVE  gcd[<<x, n + 1>>] \in CommonDivisors(x, n + 1)
    <3>1. x % (n + 1) \in 0 .. n
      BY DivMod
    <3>2. gcd[<<x, n + 1>>] = gcd[<<n + 1, x % (n + 1)>>]
      BY gcdUnfolds
    <3>3. CommonDivisors(x, n + 1) = CommonDivisors(n + 1, x % (n + 1))
      BY CommonOfRest
    <3>4. P(x % (n + 1))
      BY <1>2, <3>1
    <3>5. gcd[<<n + 1, x % (n + 1)>>] \in CommonDivisors(n + 1, x % (n + 1))
      BY <3>4
    <3> QED BY <3>2, <3>3, <3>5
  <2>2. P(n + 1)
    BY <2>1
  <2> HIDE DEF P
  <2>3. \A y \in 0 .. n + 1 : y = n + 1 \/ y \in 0 .. n
    OBVIOUS
  <2> QED BY <1>2, <2>2, <2>3
<1> HIDE DEF T
<1>3. b \in T
  BY <1>1, <1>2, AllNumbers
<1> QED BY <1>3 DEF T

\* Every fraction but NaN.
Numbers == {q \in [num : Int, den : Int] : q.den > 0}

LEMMA Quotient ==
  ASSUME NEW g \in Nat \ {0}, NEW k \in Int
  PROVE  (g * k) \div g = k
<1> DEFINE a == g * k
           q == a \div g
           r == a % g
           d == k - q
<1>1. a \in Int
  OBVIOUS
<1>2. q \in Int /\ r \in 0 .. g - 1 /\ a = g * q + r
  BY <1>1
<1> HIDE DEF q, r
<1>3. d \in Int /\ g * d = g * k - g * q
  BY <1>2
<1>4. g * d = r
  BY <1>2, <1>3
<1>5. k = q + d
  BY <1>2
<1> HIDE DEF a, d
<1>6. ~(d >= 1)
  BY <1>2, <1>3, <1>4
<1>7. ~(d <= -1)
  BY <1>2, <1>3, <1>4
<1>8. d = 0
  BY <1>3, <1>6, <1>7
<1> QED BY <1>2, <1>5, <1>8 DEF q, a

\* Both parts of a ratio are taken down by the same number.
LEMMA RatioReduces ==
  ASSUME NEW a \in Int, NEW b \in Int, b # 0
  PROVE  \E g \in Nat \ {0}, s \in {1, -1} : \E k \in Int, l \in Nat \ {0} :
            s * a = g * k /\ s * b = g * l /\ Ratio(a, b) = [num |-> k, den |-> l]
<1> DEFINE s == IF b < 0 THEN -1 ELSE 1
           x == IF a < 0 THEN -a ELSE a
           y == s * b
           g == gcd[<<x, y>>]
<1>1. x \in Nat /\ y \in Nat \ {0} /\ s \in {1, -1}
  OBVIOUS
<1> HIDE DEF x, y
<1>2. g \in CommonDivisors(x, y)
  BY <1>1, gcdDivides
<1> HIDE DEF g
<1>3. g \in Nat \ {0}
  BY <1>2 DEF CommonDivisors
<1>4. PICK k \in Nat : x = g * k
  BY <1>2 DEF CommonDivisors, Divides
<1>5. PICK l \in Nat : y = g * l
  BY <1>2 DEF CommonDivisors, Divides
<1>6. l # 0
  BY <1>1, <1>3, <1>5
<1>7. PICK j \in Int : s * a = g * j
  <2>1. CASE s * a = x
    BY <1>4, <2>1
  <2>2. CASE s * a = - x
    <3>1. g * (- k) = - (g * k)
      BY <1>3
    <3>2. s * a = g * (- k) /\ - k \in Int
      BY <1>4, <2>2, <3>1
    <3> QED BY <3>2
  <2>3. s * a = x \/ s * a = - x
    BY DEF x
  <2> QED BY <2>1, <2>2, <2>3
<1>8. (s * a) \div g = j /\ (s * b) \div g = l
  BY <1>3, <1>5, <1>7, Quotient DEF y
<1>9. Ratio(a, b) = [num |-> (s * a) \div g, den |-> (s * b) \div g]
  BY DEF Ratio, g, x, y
<1>10. Ratio(a, b) = [num |-> j, den |-> l]
  BY <1>8, <1>9
<1>11. s * b = g * l
  BY <1>5 DEF y
<1> HIDE DEF s
<1> QED BY <1>1, <1>3, <1>6, <1>7, <1>10, <1>11

LEMMA CrossProduct ==
  ASSUME NEW s \in {1, -1}, NEW a \in Int, NEW b \in Int,
         NEW g \in Nat \ {0}, NEW k \in Int, NEW l \in Int,
         s * a = g * k, s * b = g * l
  PROVE  k * b = a * l
<1>1. (s * a) * l = (g * k) * l /\ (s * b) * k = (g * l) * k
  OBVIOUS
<1>2. (g * k) * l = (g * l) * k
  OBVIOUS
<1>3. (s * a) * l = s * (a * l) /\ (s * b) * k = s * (k * b)
  OBVIOUS
<1>4. s * (a * l) = s * (k * b)
  BY <1>1, <1>2, <1>3
<1> DEFINE x == a * l
           y == k * b
<1>5. x \in Int /\ y \in Int /\ s * x = s * y
  BY <1>4
<1> HIDE DEF x, y
<1>6. x = y
  BY <1>5
<1> QED BY <1>6 DEF x, y

\* A ratio has the value of the fraction it is made of.
LEMMA RatioIs ==
  ASSUME NEW a \in Int, NEW b \in Int, b # 0
  PROVE  Ratio(a, b) \in Numbers /\ Ratio(a, b).num * b = a * Ratio(a, b).den
<1>1. PICK g \in Nat \ {0}, s \in {1, -1} : \E k \in Int, l \in Nat \ {0} :
            s * a = g * k /\ s * b = g * l /\ Ratio(a, b) = [num |-> k, den |-> l]
  BY RatioReduces
<1>2. PICK k \in Int, l \in Nat \ {0} :
            s * a = g * k /\ s * b = g * l /\ Ratio(a, b) = [num |-> k, den |-> l]
  BY <1>1
<1>3. k * b = a * l
  BY <1>2, CrossProduct
<1> QED BY <1>2, <1>3 DEF Numbers

LEMMA gcdOfOne ==
  ASSUME NEW a \in Nat
  PROVE  /\ gcd[<<a, 1>>] = 1
         /\ a # 0 => gcd[<<a, a>>] = a /\ gcd[<<0, a>>] = a
<1>1. gcd[<<a, 1>>] \in CommonDivisors(a, 1)
  BY gcdDivides
<1>2. gcd[<<a, 1>>] \in 1 .. 1
  BY <1>1, DividesUpTo DEF CommonDivisors
<1>3. ASSUME a # 0 PROVE gcd[<<a, a>>] = a /\ gcd[<<0, a>>] = a
  <2>1. a % a = 0 /\ 0 % a = 0
    <3>1. a = a * 1 + 0 /\ 0 = a * 0 + 0
      OBVIOUS
    <3>2. a % a = 0
      <4> DEFINE q == a \div a
                 r == a % a
      <4>1. q \in Nat /\ r \in 0 .. a - 1 /\ a = a * q + r
        BY <1>3, DivMod
      <4> HIDE DEF q, r
      <4>2. q >= 2 => a * q >= a * 2
        BY <4>1
      <4>3. q = 0 \/ q = 1 \/ q >= 2
        BY <4>1
      <4>4. r = 0
        BY <1>3, <4>1, <4>2, <4>3
      <4> QED BY <4>4 DEF r
    <3> QED BY <1>3, <3>2
  <2>2. gcd[<<a, 0>>] = a
    BY gcdUnfolds
  <2>3. gcd[<<a, a>>] = gcd[<<a, a % a>>] /\ gcd[<<0, a>>] = gcd[<<a, 0 % a>>]
    BY <1>3, gcdUnfolds
  <2> QED BY <2>1, <2>2, <2>3
<1> QED BY <1>2, <1>3

\* Ratios that are whole numbers.
LEMMA WholeRatios ==
  ASSUME NEW a \in Int
  PROVE  /\ a # 0 => Ratio(a, a) = One /\ Ratio(0, a) = Zero
         /\ Ratio(a, 1) = Whole(a)
         /\ Ratio(a, 0) = NaN
<1> DEFINE x == IF a < 0 THEN - a ELSE a
           s == IF a < 0 THEN -1 ELSE 1
<1>1. x \in Nat /\ s * a = x /\ (a # 0 => x # 0) /\ s \in {1, -1}
  OBVIOUS
<1>2. ASSUME a # 0 PROVE Ratio(a, a) = One /\ Ratio(0, a) = Zero
  <2>1. gcd[<<x, x>>] = x /\ gcd[<<0, x>>] = x
    BY <1>1, <1>2, gcdOfOne
  <2>2. Ratio(a, a) = [num |-> (s * a) \div gcd[<<x, s * a>>], den |-> (s * a) \div gcd[<<x, s * a>>]]
    BY <1>2 DEF Ratio
  <2>3. Ratio(0, a) = [num |-> (s * 0) \div gcd[<<0, s * a>>], den |-> (s * a) \div gcd[<<0, s * a>>]]
    BY <1>2 DEF Ratio
  <2>4. s * 0 = 0
    BY <1>1
  <2> HIDE DEF x, s
  <2>5. x * 1 = x /\ x * 0 = 0
    BY <1>1
  <2>6. x \div x = 1 /\ 0 \div x = 0
    BY <1>1, <1>2, <2>5, Quotient
  <2> QED BY <1>1, <2>1, <2>2, <2>3, <2>4, <2>6 DEF One, Zero, Whole
<1>3. Ratio(a, 1) = Whole(a)
  <2>1. gcd[<<x, 1>>] = 1
    BY <1>1, gcdOfOne
  <2>2. Ratio(a, 1) = [num |-> (1 * a) \div gcd[<<x, 1 * 1>>], den |-> (1 * 1) \div gcd[<<x, 1 * 1>>]]
    BY DEF Ratio
  <2>3. 1 * a = a /\ 1 * 1 = 1
    OBVIOUS
  <2>4. a \div 1 = a /\ 1 \div 1 = 1
    OBVIOUS
  <2> QED BY <2>1, <2>2, <2>3, <2>4 DEF Whole
<1> QED BY <1>2, <1>3 DEF Ratio
-----------------------------------------------------------------------------
(* Fractions from nought to a whole number *)

Upto(n) == {q \in Numbers : 0 <= q.num /\ q.num <= n * q.den}

LEMMA CrossBounds ==
  ASSUME NEW a \in Nat, NEW b \in Nat \ {0}, NEW n \in Nat, a <= n * b,
         NEW k \in Int, NEW l \in Nat \ {0}, k * b = a * l
  PROVE  0 <= k /\ k <= n * l
<1>1. a * l >= 0
  OBVIOUS
<1>2. 0 <= k
  <2>1. k < 0 => k * b < 0
    OBVIOUS
  <2> QED BY <1>1, <2>1
<1>3. a * l <= (n * b) * l
  OBVIOUS
<1>4. (n * b) * l = (n * l) * b
  OBVIOUS
<1>5. k * b <= (n * l) * b
  BY <1>3, <1>4
<1> DEFINE m == n * l
<1>6. m \in Nat /\ k * b <= m * b
  BY <1>5
<1> HIDE DEF m
<1>7. k > m => k * b >= (m + 1) * b
  BY <1>6
<1>8. (m + 1) * b = m * b + b
  BY <1>6
<1>9. k <= m
  BY <1>6, <1>7, <1>8
<1> QED BY <1>2, <1>9 DEF m

LEMMA RatioUpto ==
  ASSUME NEW n \in Nat, NEW a \in Nat, NEW b \in Nat \ {0}, a <= n * b
  PROVE  Ratio(a, b) \in Upto(n)
<1> DEFINE q == Ratio(a, b)
           k == q.num
           l == q.den
<1>1. q \in Numbers /\ k * b = a * l
  BY RatioIs
<1>2. k \in Int /\ l \in Nat \ {0}
  BY <1>1 DEF Numbers
<1> HIDE DEF q, k, l
<1>3. 0 <= k /\ k <= n * l
  BY <1>1, <1>2, CrossBounds
<1> QED BY <1>1, <1>3 DEF Upto, q, k, l
-----------------------------------------------------------------------------
(* Results of calculations *)

LEMMA NumberParts ==
  ASSUME NEW q \in Numbers
  PROVE  q.num \in Int /\ q.den \in Nat \ {0} /\ ~IsNaN(q) /\ q = [num |-> q.num, den |-> q.den]
  BY DEF Numbers, IsNaN

LEMMA Wholes ==
  ASSUME NEW n \in Int
  PROVE  /\ Whole(n) \in Numbers /\ Whole(n).num = n /\ Whole(n).den = 1
         /\ n \in Nat => Whole(n) \in Upto(n)
         /\ Whole(n) = Zero <=> n = 0
<1>1. Whole(n) \in [num : Int, den : Int] /\ Whole(n).num = n /\ Whole(n).den = 1 /\ Zero.num = 0
  BY DEF Whole, Zero
<1> QED BY <1>1 DEF Numbers, Upto, Zero

LEMMA SumBounds ==
  ASSUME NEW m \in Nat, NEW n \in Nat, NEW x \in Nat, NEW y \in Nat,
         NEW u \in Nat \ {0}, NEW v \in Nat \ {0}, x <= m * u, y <= n * v
  PROVE  /\ x * v + y * u \in Nat /\ u * v \in Nat \ {0}
         /\ x * v + y * u <= (m + n) * (u * v)
<1>1. x * v <= (m * u) * v /\ y * u <= (n * v) * u
  OBVIOUS
<1>2. (m * u) * v = m * (u * v) /\ (n * v) * u = n * (u * v)
  OBVIOUS
<1>3. (m + n) * (u * v) = m * (u * v) + n * (u * v)
  OBVIOUS
<1>4. x * v \in Nat /\ y * u \in Nat /\ u * v \in Nat /\ u * v # 0
  OBVIOUS
<1> DEFINE a == x * v
           b == y * u
           c == m * (u * v)
           d == n * (u * v)
<1>5. a \in Nat /\ b \in Nat /\ c \in Nat /\ d \in Nat /\ a <= c /\ b <= d
  BY <1>1, <1>2, <1>4
<1> HIDE DEF a, b, c, d
<1>6. a + b \in Nat /\ a + b <= c + d
  BY <1>5
<1> QED BY <1>3, <1>4, <1>6 DEF a, b, c, d

LEMMA AddUpto ==
  ASSUME NEW m \in Nat, NEW n \in Nat, NEW p \in Upto(m), NEW q \in Upto(n)
  PROVE  Add(p, q) \in Upto(m + n)
<1> DEFINE x == p.num
           u == p.den
           y == q.num
           v == q.den
<1>1. /\ x \in Nat /\ u \in Nat \ {0} /\ x <= m * u
      /\ y \in Nat /\ v \in Nat \ {0} /\ y <= n * v
  BY NumberParts DEF Upto
<1> HIDE DEF x, u, y, v
<1>2. /\ x * v + y * u \in Nat /\ u * v \in Nat \ {0}
      /\ x * v + y * u <= (m + n) * (u * v)
  BY <1>1, SumBounds
<1> DEFINE a == x * v + y * u
           b == u * v
           k == m + n
<1>3. k \in Nat /\ a \in Nat /\ b \in Nat \ {0} /\ a <= k * b
  BY <1>2
<1> HIDE DEF a, b, k
<1>4. Ratio(a, b) \in Upto(k)
  BY <1>3, RatioUpto
<1> QED BY <1>4 DEF Add, a, b, k, x, y, u, v

\* A share of a weight, and what part of the weight it is.
LEMMA WeightShares ==
  ASSUME NEW n \in Nat
  PROVE  /\ \A q \in Upto(1) : Times(q, Whole(n)) \in Upto(n)
         /\ n # 0 => \A q \in Upto(n) : Over(q, Whole(n)) \in Upto(1)
         /\ Times(One, Whole(n)) = Whole(n) /\ Times(NaN, Whole(n)) = NaN
         /\ n # 0 => Over(Whole(n), Whole(n)) = One
<1>1. ASSUME NEW q \in Upto(1) PROVE Times(q, Whole(n)) \in Upto(n)
  <2> DEFINE x == q.num
             u == q.den
  <2>1. x \in Nat /\ u \in Nat \ {0} /\ x <= 1 * u
    BY NumberParts DEF Upto
  <2> HIDE DEF x, u
  <2>2. x * n \in Nat /\ u * 1 \in Nat \ {0} /\ x * n <= n * (u * 1)
    BY <2>1
  <2>3. Ratio(x * n, u * 1) \in Upto(n)
    BY <2>2, RatioUpto
  <2> QED BY <2>3, Wholes DEF Times, x, u
<1>2. ASSUME n # 0, NEW q \in Upto(n) PROVE Over(q, Whole(n)) \in Upto(1)
  <2> DEFINE x == q.num
             u == q.den
  <2>1. x \in Nat /\ u \in Nat \ {0} /\ x <= n * u
    BY NumberParts DEF Upto
  <2> HIDE DEF x, u
  <2>2. x * 1 \in Nat /\ u * n \in Nat \ {0} /\ x * 1 <= 1 * (u * n)
    BY <1>2, <2>1
  <2>3. Ratio(x * 1, u * n) \in Upto(1)
    BY <2>2, RatioUpto
  <2> QED BY <2>3, Wholes, NumberParts DEF Over, x, u
<1>3. Times(One, Whole(n)) = Whole(n) /\ Times(NaN, Whole(n)) = NaN
  <2>1. /\ Times(One, Whole(n)) = Ratio(1 * n, 1 * 1)
        /\ Times(NaN, Whole(n)) = Ratio(0 * n, 0 * 1)
    BY Wholes DEF Times, NaN, One
  <2>2. 1 * n = n /\ 1 * 1 = 1 /\ 0 * n = 0 /\ 0 * 1 = 0
    OBVIOUS
  <2> QED BY <2>1, <2>2, WholeRatios
<1>4. ASSUME n # 0 PROVE Over(Whole(n), Whole(n)) = One
  <2>1. Over(Whole(n), Whole(n)) = Ratio(n * 1, 1 * n)
    BY Wholes, NumberParts DEF Over
  <2>2. n * 1 = n /\ 1 * n = n
    OBVIOUS
  <2> QED BY <1>4, <2>1, <2>2, WholeRatios
<1> QED BY <1>1, <1>2, <1>3, <1>4

LEMMA AddWholes ==
  ASSUME NEW m \in Int, NEW n \in Int
  PROVE  /\ Add(Whole(m), Whole(n)) = Whole(m + n)
         /\ Subtract(Whole(m), Whole(n)) = Whole(m - n)
         /\ Times(Whole(m), Whole(n)) = Whole(m * n)
         /\ AtMost(Whole(m), Whole(n)) <=> m <= n
<1>1. /\ Add(Whole(m), Whole(n)) = Ratio(m * 1 + n * 1, 1 * 1)
      /\ Subtract(Whole(m), Whole(n)) = Ratio(m * 1 - n * 1, 1 * 1)
      /\ Times(Whole(m), Whole(n)) = Ratio(m * n, 1 * 1)
      /\ AtMost(Whole(m), Whole(n)) <=> m * 1 <= n * 1
  BY Wholes DEF Add, Subtract, Times, AtMost
<1>2. m * 1 + n * 1 = m + n /\ 1 * 1 = 1 /\ m * 1 - n * 1 = m - n /\ m * 1 = m /\ n * 1 = n
  OBVIOUS
<1>3. m + n \in Int /\ m - n \in Int /\ m * n \in Int
  OBVIOUS
<1> QED BY <1>1, <1>2, <1>3, WholeRatios

\* Results are numbers, unless something is divided by nought.
LEMMA NumbersClosed ==
  ASSUME NEW p \in Numbers, NEW q \in Numbers
  PROVE  /\ Add(p, q) \in Numbers /\ Subtract(p, q) \in Numbers /\ Times(p, q) \in Numbers
         /\ Over(p, q) \in Numbers \union {NaN}
         /\ q.num # 0 => Over(p, q) \in Numbers
<1> DEFINE x == p.num
           u == p.den
           y == q.num
           v == q.den
<1>1. x \in Int /\ u \in Nat \ {0} /\ y \in Int /\ v \in Nat \ {0} /\ ~IsNaN(q)
  BY NumberParts
<1> HIDE DEF x, u, y, v
<1>2. x * v + y * u \in Int /\ x * v - y * u \in Int /\ x * y \in Int /\ x * v \in Int
      /\ u * y \in Int
  BY <1>1
<1>3. u * v \in Int /\ u * v # 0
  BY <1>1
<1>4. /\ Ratio(x * v + y * u, u * v) \in Numbers
      /\ Ratio(x * v - y * u, u * v) \in Numbers
      /\ Ratio(x * y, u * v) \in Numbers
  BY <1>2, <1>3, RatioIs
<1>5. Ratio(x * v, u * y) \in Numbers \union {NaN}
  BY <1>2, RatioIs DEF Ratio
<1>6. ASSUME y # 0 PROVE Ratio(x * v, u * y) \in Numbers
  <2>1. u * y # 0
    BY <1>1, <1>6
  <2> QED BY <1>2, <2>1, RatioIs
<1> QED BY <1>1, <1>4, <1>5, <1>6 DEF Add, Subtract, Times, Over, x, y, u, v

\* What is kept between nought and one.
LEMMA Clipped ==
  ASSUME NEW q \in Numbers
  PROVE  /\ Greater(Smaller(q, One), Zero) \in Upto(1)
         /\ AtMost(q, One) => Greater(q, Zero) \in Upto(1)
<1> DEFINE x == q.num
           u == q.den
<1>1. x \in Int /\ u \in Nat \ {0}
  BY NumberParts
<1>2. One.num = 1 /\ One.den = 1 /\ Zero.num = 0 /\ Zero.den = 1
  BY Wholes DEF One, Zero
<1>3. (AtMost(q, One) <=> x * 1 <= 1 * u) /\ (AtMost(q, Zero) <=> x * 1 <= 0 * u)
      /\ ~AtMost(One, Zero)
  BY <1>2 DEF AtMost
<1>4. q \in Upto(1) <=> 0 <= x /\ x <= 1 * u
  BY DEF Upto
<1>5. One \in Upto(1) /\ Zero \in Upto(1)
  <2>1. Zero \in Numbers /\ One \in Numbers
    BY Wholes DEF One, Zero
  <2> QED BY <1>2, <2>1 DEF Upto
<1> HIDE DEF x, u
<1>6. /\ AtMost(q, One) => x <= 1 * u
      /\ ~AtMost(q, Zero) => 0 <= x
  BY <1>1, <1>3
<1>7. AtMost(q, One) /\ ~AtMost(q, Zero) => q \in Upto(1)
  BY <1>4, <1>6
<1> QED BY <1>3, <1>5, <1>7 DEF Greater, Smaller
-----------------------------------------------------------------------------
(* Scaled values *)

LEMMA Units ==
  /\ Zero \in Numbers /\ One \in Numbers /\ Whole(-1) \in Numbers
  /\ Zero \in Upto(1) /\ One \in Upto(1) /\ One # Zero
  /\ Times(Whole(-1), Zero) = Zero /\ Times(One, One) = One /\ Times(Zero, One) = Zero
  /\ Subtract(One, Zero) = One /\ Subtract(One, One) = Zero
  /\ Add(Zero, One) = One /\ Add(One, Zero) = One /\ Add(Zero, Zero) = Zero
  /\ Smaller(One, One) = One /\ Greater(One, Zero) = One /\ AtMost(One, One)
<1>1. (-1) * 0 = 0 /\ 1 * 1 = 1 /\ 0 * 1 = 0 /\ 1 - 0 = 1 /\ 1 - 1 = 0 /\ 0 + 1 = 1
      /\ 1 + 0 = 1 /\ 0 + 0 = 0 /\ 1 <= 1 /\ ~(1 <= 0) /\ 1 # 0 /\ 1 \in Int /\ 0 \in Int
      /\ -1 \in Int
  OBVIOUS
<1>2. /\ Times(Whole(-1), Whole(0)) = Whole((-1) * 0) /\ Times(Whole(1), Whole(1)) = Whole(1 * 1)
      /\ Times(Whole(0), Whole(1)) = Whole(0 * 1)
      /\ Subtract(Whole(1), Whole(0)) = Whole(1 - 0) /\ Subtract(Whole(1), Whole(1)) = Whole(1 - 1)
      /\ Add(Whole(0), Whole(1)) = Whole(0 + 1) /\ Add(Whole(1), Whole(0)) = Whole(1 + 0)
      /\ Add(Whole(0), Whole(0)) = Whole(0 + 0)
      /\ AtMost(Whole(1), Whole(1)) /\ ~AtMost(Whole(1), Whole(0))
  BY <1>1, AddWholes
<1>3. Whole(0) \in Numbers /\ Whole(1) \in Numbers /\ Whole(-1) \in Numbers
      /\ Whole(1) \in Upto(1) /\ Whole(1) # Whole(0)
  BY <1>1, Wholes DEF Zero
<1>4. Whole(0) \in Upto(1)
  BY <1>3, Wholes DEF Upto
<1> QED BY <1>1, <1>2, <1>3, <1>4 DEF Zero, One, Smaller, Greater

LEMMA Ideals ==
  ASSUME NEW metric
  PROVE  ideal_value(metric) \in {Zero, One}
  BY DEF ideal_value

\* The value of any number is a fraction, and the ideal one's is one.
LEMMA ScalesToUnit ==
  ASSUME NEW metric, NEW raw \in Numbers
  PROVE  /\ scale_value(metric, raw) \in Upto(1)
         /\ raw = ideal_value(metric) => scale_value(metric, raw) = One
<1> DEFINE slope == Slope(metric, raw)
           intercept == Subtract(One, Times(slope, ideal_value(metric)))
           scaled == Add(Times(slope, raw), intercept)
           capped == IF HasUpperBound(metric) THEN Smaller(scaled, One) ELSE scaled
<1>1. scale_value(metric, raw) = Greater(capped, Zero)
  BY NumberParts DEF scale_value
<1>2. slope \in {Whole(-1), One, Zero} /\ slope \in Numbers
  BY Units DEF Slope
<1>3. ideal_value(metric) \in Numbers
  BY Units, Ideals
<1> HIDE DEF slope
<1>4. intercept \in Numbers
  <2>1. Times(slope, ideal_value(metric)) \in Numbers
    BY <1>2, <1>3, NumbersClosed
  <2> QED BY <2>1, Units, NumbersClosed
<1> HIDE DEF intercept
<1>5. scaled \in Numbers
  <2>1. Times(slope, raw) \in Numbers
    BY <1>2, NumbersClosed
  <2> QED BY <1>4, <2>1, NumbersClosed
<1> HIDE DEF scaled
<1>6. ASSUME HasUpperBound(metric) PROVE scale_value(metric, raw) \in Upto(1)
  BY <1>1, <1>5, <1>6, Clipped
<1>7. ASSUME ~HasUpperBound(metric) PROVE scale_value(metric, raw) \in Upto(1)
  <2>1. ideal_value(metric) = One
    BY <1>7 DEF ideal_value, HasUpperBound
  <2>2. CASE AtMost(raw, One)
    <3>1. slope = One
      BY <1>7, <2>1, <2>2, Units DEF slope, Slope
    <3>2. intercept = Zero
      BY <2>1, <3>1, Units DEF intercept
    <3>3. AtMost(scaled, One)
      <4> DEFINE t == Times(One, raw)
                 x == raw.num
                 u == raw.den
                 a == t.num
                 b == t.den
                 k == scaled.num
                 l == scaled.den
      <4>1. /\ x \in Int /\ u \in Nat \ {0} /\ x * 1 <= 1 * u
        BY <2>2, NumberParts, Wholes DEF AtMost, One
      <4>2. t \in Numbers
        BY Units, NumbersClosed
      <4>3. a \in Int /\ b \in Nat \ {0}
        BY <4>2, NumberParts
      <4>4. k \in Int /\ l \in Nat \ {0}
        BY <1>5, NumberParts
      <4>5. t = Ratio(1 * x, 1 * u)
        BY Wholes DEF Times, One
      <4>6. scaled = Ratio(a * 1 + 0 * b, b * 1)
        BY <3>1, <3>2, Wholes DEF scaled, Add, Zero
      <4> HIDE DEF t, x, u, a, b, k, l
      <4>7. 1 * x = x /\ 1 * u = u /\ a * 1 + 0 * b = a /\ b * 1 = b
        BY <4>1, <4>3
      <4>8. t.num * u = x * t.den
        BY <4>1, <4>5, <4>7, RatioIs
      <4>9. scaled.num * b = a * scaled.den
        BY <4>3, <4>6, <4>7, RatioIs
      <4>10. a * u = x * b /\ k * b = a * l
        BY <4>8, <4>9 DEF a, b, k, l
      <4>11. a <= b
        <5>1. x <= u
          BY <4>1
        <5>2. x * b <= u * b
          BY <4>1, <4>3, <5>1
        <5>3. a > b => a * u > b * u
          BY <4>1, <4>3
        <5> QED BY <4>1, <4>3, <4>10, <5>2, <5>3
      <4>12. k <= l
        <5>1. a * l <= b * l
          BY <4>3, <4>4, <4>11
        <5>2. k > l => k * b > l * b
          BY <4>3, <4>4
        <5> QED BY <4>3, <4>4, <4>10, <5>1, <5>2
      <4>13. k * 1 <= 1 * l
        BY <4>4, <4>12
      <4> QED BY <4>13, Wholes DEF AtMost, One, k, l
    <3> QED BY <1>1, <1>5, <1>7, <3>3, Clipped
  <2>3. CASE ~AtMost(raw, One)
    <3>1. slope = Zero
      BY <1>7, <2>1, <2>3, Units DEF slope, Slope
    <3>2. intercept = One
      BY <2>1, <3>1, Units DEF intercept
    <3>3. Times(Zero, raw) = Zero
      <4> DEFINE x == raw.num
                 u == raw.den
      <4>1. x \in Int /\ u \in Nat \ {0}
        BY NumberParts
      <4>2. Times(Zero, raw) = Ratio(0 * x, 1 * u)
        BY Wholes DEF Times, Zero
      <4> HIDE DEF x, u
      <4>3. 0 * x = 0 /\ 1 * u = u
        BY <4>1
      <4> QED BY <4>1, <4>2, <4>3, WholeRatios
    <3>4. scaled = One
      BY <3>1, <3>2, <3>3, Units DEF scaled
    <3> QED BY <1>1, <1>7, <2>1, <2>3, <3>4, Units
  <2> QED BY <2>2, <2>3
<1>8. scale_value(metric, raw) \in Upto(1)
  BY <1>6, <1>7
<1>9. ASSUME raw = ideal_value(metric) PROVE scale_value(metric, raw) = One
  <2>1. CASE raw = Zero
    <3>1. slope = Whole(-1)
      BY <1>9, <2>1 DEF slope, Slope
    <3>2. intercept = One
      BY <1>9, <2>1, <3>1, Units DEF intercept
    <3>3. scaled = One
      BY <2>1, <3>1, <3>2, Units DEF scaled
    <3> QED BY <1>1, <3>3, Units
  <2>2. CASE raw = One
    <3>1. slope = One
      BY <1>9, <2>2, Units DEF slope, Slope
    <3>2. intercept = Zero
      BY <1>9, <2>2, <3>1, Units DEF intercept
    <3>3. scaled = One
      BY <2>2, <3>1, <3>2, Units DEF scaled
    <3> QED BY <1>1, <3>3, Units
  <2> QED BY <1>9, <2>1, <2>2, Ideals
<1> QED BY <1>8, <1>9
-----------------------------------------------------------------------------
(* Values of metrics *)

TruthTablesOf == [threshold : Thresholds, hits : Nat, misses : Nat,
                  false_positives : Nat, true_negatives : Nat]

LEMMA TableTypes ==
  ASSUME NEW t \in TruthTablesOf
  PROVE  /\ t.hits \in Nat /\ t.misses \in Nat /\ t.false_positives \in Nat
         /\ t.true_negatives \in Nat /\ t.threshold \in Thresholds
         /\ observed_positives(t) \in Nat /\ observed_negatives(t) \in Nat
         /\ predicted_positives(t) \in Nat /\ predicted_negatives(t) \in Nat
         /\ size(t) \in Nat
  BY DEF TruthTablesOf, observed_positives, observed_negatives, predicted_positives,
         predicted_negatives, size

LEMMA RatioOrType ==
  ASSUME NEW a \in Int, NEW b \in Int, NEW e \in {NaN, Zero, One}
  PROVE  RatioOr(a, b, e) \in Numbers \union {NaN}
  BY RatioIs, Units DEF RatioOr

LEMMA SkillTerms ==
  ASSUME NEW h \in Nat, NEW m \in Nat, NEW f \in Nat, NEW n \in Nat
  PROVE  /\ 2 * (h * n - m * f) \in Int
         /\ (h + m) * (m + n) + (h + f) * (f + n) \in Nat
  OBVIOUS

\* A metric is a number or undefined.
LEMMA ValueType ==
  ASSUME NEW metric \in Metrics, NEW t \in TruthTablesOf
  PROVE  Value(metric, t) \in Numbers \union {NaN}
<1>1. probability_of_detection(t) \in Numbers \union {NaN}
  BY TableTypes, RatioOrType DEF probability_of_detection
<1>2. false_alarm_ratio(t) \in Numbers \union {NaN}
  BY TableTypes, RatioOrType DEF false_alarm_ratio
<1>3. probability_of_false_detection(t) \in Numbers \union {NaN}
  BY TableTypes, RatioOrType DEF probability_of_false_detection
<1>4. frequency_bias(t) \in Numbers \union {NaN}
  BY TableTypes, RatioOrType DEF frequency_bias
<1>5. critical_success_index(t) \in Numbers \union {NaN}
  BY TableTypes, RatioOrType DEF critical_success_index
<1>6. accuracy(t) \in Numbers \union {NaN}
  BY TableTypes, RatioOrType DEF accuracy
<1>7. is_useful(t) => equitable_threat_score(t) \in Numbers \union {NaN}
  <2> SUFFICES ASSUME is_useful(t)
               PROVE  equitable_threat_score(t) \in Numbers \union {NaN}
    OBVIOUS
  <2> DEFINE P == observed_positives(t)
             Q == predicted_positives(t)
             N == size(t)
             random == Ratio(P * Q, N)
             top == Subtract(Whole(t.hits), random)
             bottom == Subtract(Whole(t.hits + t.misses + t.false_positives), random)
  <2>1. P \in Nat /\ Q \in Nat /\ N \in Nat /\ N # 0
    BY TableTypes DEF is_useful, size, observed_positives, observed_negatives
  <2> HIDE DEF P, Q, N
  <2>2. P * Q \in Int
    BY <2>1
  <2>3. random \in Numbers
    BY <2>1, <2>2, RatioIs
  <2>4. t.hits \in Int /\ t.hits + t.misses + t.false_positives \in Int
    BY TableTypes
  <2> HIDE DEF random
  <2>5. top \in Numbers /\ bottom \in Numbers
    BY <2>3, <2>4, Wholes, NumbersClosed
  <2>6. equitable_threat_score(t) = IF Zero \in {top, bottom} THEN NaN ELSE Over(top, bottom)
    BY DEF equitable_threat_score, top, bottom, random, P, Q, N
  <2> HIDE DEF top, bottom
  <2> QED BY <2>5, <2>6, NumbersClosed
<1>8. general_skill(t) \in Numbers \union {NaN}
  BY TableTypes, SkillTerms, RatioOrType
     DEF general_skill, observed_positives, predicted_negatives, predicted_positives,
         observed_negatives
<1>9. precision(t) \in Numbers \union {NaN}
  BY TableTypes, RatioOrType DEF precision
<1> QED BY <1>1, <1>2, <1>3, <1>4, <1>5, <1>6, <1>7, <1>8, <1>9 DEF Value, Metrics

LEMMA PerfectSkill ==
  ASSUME NEW h \in Nat, NEW n \in Nat
  PROVE  2 * (h * n - 0 * 0) = (h + 0) * (0 + n) + (h + 0) * (0 + n)
  OBVIOUS

\* On a table without a mistake a metric is ideal or undefined.
LEMMA PerfectValue ==
  ASSUME NEW metric \in Metrics, NEW t \in TruthTablesOf, t.misses + t.false_positives = 0
  PROVE  Value(metric, t) \in {ideal_value(metric), NaN}
<1> DEFINE h == t.hits
           n == t.true_negatives
<1>1. /\ h \in Nat /\ n \in Nat /\ t.misses = 0 /\ t.false_positives = 0
      /\ observed_positives(t) = h /\ predicted_positives(t) = h
      /\ observed_negatives(t) = n /\ predicted_negatives(t) = n /\ size(t) = h + n
  BY TableTypes DEF observed_positives, observed_negatives, predicted_positives,
         predicted_negatives, size
<1>2. SUFFICES ASSUME is_useful(t) PROVE Value(metric, t) \in {ideal_value(metric), NaN}
  BY DEF Value
<1>3. h # 0 /\ h + n # 0 /\ h + t.misses + t.false_positives = h
  BY <1>1, <1>2 DEF is_useful
<1>4. \A x \in Int : x # 0 => Ratio(x, x) = One /\ Ratio(0, x) = Zero
  BY WholeRatios
<1>5. h \in Int /\ n \in Int /\ h + n \in Int
  BY <1>1
<1> HIDE DEF h, n
<1>6. probability_of_detection(t) = One
  BY <1>1, <1>3, <1>4, <1>5 DEF probability_of_detection, RatioOr, h
<1>7. false_alarm_ratio(t) = Zero
  BY <1>1, <1>3, <1>4, <1>5 DEF false_alarm_ratio, RatioOr
<1>8. probability_of_false_detection(t) = Zero
  BY <1>1, <1>4, <1>5 DEF probability_of_false_detection, RatioOr
<1>9. frequency_bias(t) = One
  BY <1>1, <1>3, <1>4, <1>5 DEF frequency_bias, RatioOr
<1>10. critical_success_index(t) = One
  BY <1>1, <1>3, <1>4, <1>5 DEF critical_success_index, RatioOr, h
<1>11. accuracy(t) = One
  BY <1>1, <1>3, <1>4, <1>5 DEF accuracy, RatioOr, h, n
<1>12. equitable_threat_score(t) \in {One, NaN}
  <2> DEFINE random == Ratio(h * h, h + n)
             top == Subtract(Whole(h), random)
  <2>1. equitable_threat_score(t) = IF Zero \in {top, top} THEN NaN ELSE Over(top, top)
    BY <1>1, <1>3 DEF equitable_threat_score, h
  <2>2. random \in Numbers
    <3>1. h * h \in Int
      BY <1>5
    <3> QED BY <1>3, <1>5, <3>1, RatioIs
  <2>3. top \in Numbers
    <3> HIDE DEF random
    <3> QED BY <1>5, <2>2, Wholes, NumbersClosed
  <2> HIDE DEF top
  <2>4. Over(top, top) = Ratio(top.num * top.den, top.den * top.num)
    BY <2>3, NumberParts DEF Over
  <2> DEFINE a == top.num * top.den
  <2>5. a \in Int /\ top.den * top.num = a
    BY <2>3, NumberParts
  <2>6. a = 0 => Ratio(a, a) = NaN
    BY DEF Ratio
  <2> HIDE DEF a
  <2>7. Ratio(a, a) \in {One, NaN}
    BY <1>4, <2>5, <2>6
  <2> QED BY <2>1, <2>4, <2>5, <2>7 DEF a
<1>13. general_skill(t) \in {One, NaN}
  <2> DEFINE a == (h + 0) * (0 + n) + (h + 0) * (0 + n)
  <2>1. a \in Int /\ 2 * (h * n - 0 * 0) = a
    BY <1>1, PerfectSkill
  <2>2. h + 0 = h /\ 0 + n = n
    BY <1>1
  <2>3. general_skill(t) = RatioOr(2 * (h * n - 0 * 0), h * n + h * n, NaN)
    BY <1>1 DEF general_skill, h, n
  <2>4. h * n + h * n = a
    BY <2>2
  <2> HIDE DEF a
  <2> QED BY <1>4, <2>1, <2>3, <2>4 DEF RatioOr
<1>14. precision(t) = One
  BY <1>1, <1>3, <1>4, <1>5 DEF precision, RatioOr, h
<1> QED BY <1>6, <1>7, <1>8, <1>9, <1>10, <1>11, <1>12, <1>13, <1>14
        DEF Value, Metrics, ideal_value
-----------------------------------------------------------------------------
(* Descriptions of scores *)

Descriptions == [total : Numbers, maximum : Numbers, counted : SUBSET Thresholds]
ScoresOf == [threshold : Thresholds, scaled : Numbers \union {NaN}]
NoScores == [total |-> Zero, maximum |-> Zero, counted |-> {}]

AddScore(d, s) ==
    IF IsNaN(s.scaled) THEN d
    ELSE [total |-> Add(d.total, s.scaled),
          maximum |-> Add(d.maximum, Whole(ThresholdWeight[s.threshold])),
          counted |-> d.counted \union {s.threshold}]

ScoreFold(scores) ==
    CHOOSE f : f = [s \in SUBSET DOMAIN scores |->
                      IF s = {} THEN NoScores
                      ELSE AddScore(f[s \ {Max(s)}], scores[Max(s)])]

LEMMA DescriptionIsFold ==
  ASSUME NEW scores
  PROVE  ScoreDescription(scores) = ScoreFold(scores)[DOMAIN scores]
  BY DEF ScoreDescription, FoldLeft, MapThenFoldSet, ScoreFold, AddScore, NoScores

LEMMA Weights ==
  /\ \A h \in Thresholds : /\ ThresholdWeight[h] \in Nat
                           /\ Whole(ThresholdWeight[h]) \in Numbers
  /\ \A m \in Metrics : MetricWeight[m] \in Nat /\ Whole(MetricWeight[m]) \in Numbers
<1>1. ThresholdWeight \in [Thresholds -> Nat] /\ MetricWeight \in [Metrics -> Nat]
  BY ScoresAssumption
<1> QED BY <1>1, Wholes

LEMMA AddScoreType ==
  ASSUME NEW d \in Descriptions, NEW s \in ScoresOf
  PROVE  AddScore(d, s) \in Descriptions
<1>1. /\ s.threshold \in Thresholds /\ d.total \in Numbers /\ d.maximum \in Numbers
      /\ d.counted \subseteq Thresholds
      /\ Whole(ThresholdWeight[s.threshold]) \in Numbers
      /\ s.scaled \in Numbers \union {NaN}
  BY Weights DEF Descriptions, ScoresOf
<1>2. ~IsNaN(s.scaled) => s.scaled \in Numbers
  BY <1>1 DEF IsNaN, NaN
<1>3. /\ Add(d.maximum, Whole(ThresholdWeight[s.threshold])) \in Numbers
      /\ ~IsNaN(s.scaled) => Add(d.total, s.scaled) \in Numbers
  BY <1>1, <1>2, NumbersClosed
<1> QED BY <1>1, <1>3 DEF AddScore, Descriptions

\* A description after each of the scores.
Describes(D, scores) ==
    /\ D[0] = NoScores
    /\ \A i \in 0 .. Len(scores) - 1 : D[i + 1] = AddScore(D[i], scores[i + 1])
    /\ \A i \in 0 .. Len(scores) : D[i] \in Descriptions
    /\ ScoreDescription(scores) = D[Len(scores)]

LEMMA ScoresAreDescribed ==
  ASSUME NEW scores \in Seq(ScoresOf)
  PROVE  \E D : Describes(D, scores)
<1> DEFINE A == Descriptions
           N == Len(scores)
           F == [i \in 1 .. N |-> [a \in A |-> AddScore(a, scores[i])]]
           Step(f, s) == IF s = {} THEN NoScores ELSE AddScore(f[s \ {Max(s)}], scores[Max(s)])
           h == ScoreFold(scores)
           D == [i \in 0 .. N |-> h[1 .. i]]
<1>1. /\ N \in Nat /\ DOMAIN scores = 1 .. N /\ \A i \in 1 .. N : scores[i] \in ScoresOf
      /\ NoScores \in A
  BY Units DEF NoScores, Descriptions
<1>2. \A a \in A, s \in ScoresOf : AddScore(a, s) \in A
  BY AddScoreType
<1> HIDE DEF A, N
<1>3. F \in [1 .. N -> [A -> A]]
  BY <1>1, <1>2
<1> HIDE DEF F
<1>4. PICK f : StepsFrom(NoScores, A, N, F, f)
  BY <1>1, <1>3, StepsExist
<1>5. ASSUME NEW s \in SUBSET (1 .. N) PROVE f[s] = Step(f, s)
  <2>1. f[s \ {Max(s)}] \in A
    BY <1>4 DEF StepsFrom
  <2>2. s # {} => Max(s) \in 1 .. N
    BY <1>1, MaxIn
  <2> QED BY <1>4, <2>1, <2>2 DEF StepsFrom, Stepped, F
<1>6. f = [s \in SUBSET (1 .. N) |-> Step(f, s)]
  BY <1>4, <1>5 DEF StepsFrom
<1>7. h = [s \in SUBSET (1 .. N) |-> Step(h, s)]
  BY <1>1, <1>6 DEF ScoreFold
<1> HIDE DEF h
<1>8. D[0] = NoScores
  BY <1>1, <1>7
<1>9. ASSUME NEW i \in 0 .. N - 1 PROVE D[i + 1] = AddScore(D[i], scores[i + 1])
  <2>1. i \in Nat /\ i + 1 \in 0 .. N /\ i \in 0 .. N /\ 1 .. i + 1 \in SUBSET (1 .. N)
    BY <1>1
  <2>2. h[1 .. i + 1] = Step(h, 1 .. i + 1)
    BY <1>7, <2>1
  <2>3. h[1 .. i + 1] = AddScore(h[1 .. i], scores[i + 1])
    BY <2>1, <2>2, LastUpTo
  <2> QED BY <2>1, <2>3
<1>10. D[N] = ScoreDescription(scores)
  BY <1>1, DescriptionIsFold DEF h
<1> HIDE DEF D
<1>11. \A i \in 0 .. N : D[i] \in A
  <2> DEFINE T == {n \in Nat : n <= N => D[n] \in A}
  <2>1. 0 \in T
    BY <1>1, <1>8
  <2>2. ASSUME NEW n \in Nat, n \in T PROVE n + 1 \in T
    <3>1. n + 1 <= N => n \in 0 .. N - 1 /\ n <= N /\ scores[n + 1] \in ScoresOf
      BY <1>1
    <3> QED BY <1>2, <1>9, <2>2, <3>1
  <2> HIDE DEF T
  <2>3. \A n \in Nat : n \in T
    BY <2>1, <2>2, AllNumbers
  <2> QED BY <1>1, <2>3 DEF T
<1>12. Describes(D, scores)
  BY <1>8, <1>9, <1>10, <1>11 DEF Describes, A, N
<1> QED BY <1>12

\* No more than there could be.
Fair(d) == \E n \in Nat : d.maximum = Whole(n) /\ d.total \in Upto(n)

LEMMA AddScoreFair ==
  ASSUME NEW d \in Descriptions, Fair(d), NEW s \in ScoresOf,
         ~IsNaN(s.scaled) => s.scaled \in Upto(ThresholdWeight[s.threshold])
  PROVE  /\ Fair(AddScore(d, s))
         /\ /\ d.total = d.maximum
            /\ ~IsNaN(s.scaled) => s.scaled = Whole(ThresholdWeight[s.threshold])
            => AddScore(d, s).total = AddScore(d, s).maximum
<1>1. CASE IsNaN(s.scaled)
  BY <1>1 DEF AddScore
<1>2. CASE ~IsNaN(s.scaled)
  <2>1. PICK n \in Nat : d.maximum = Whole(n) /\ d.total \in Upto(n)
    BY DEF Fair
  <2> DEFINE w == ThresholdWeight[s.threshold]
             e == AddScore(d, s)
  <2>2. w \in Nat
    BY Weights DEF ScoresOf
  <2>3. e.total = Add(d.total, s.scaled) /\ e.maximum = Add(d.maximum, Whole(w))
    BY <1>2 DEF AddScore
  <2>4. s.scaled \in Upto(w)
    BY <1>2
  <2> HIDE DEF e, w
  <2>5. e.maximum = Whole(n + w) /\ n + w \in Nat
    BY <2>1, <2>2, <2>3, AddWholes
  <2>6. e.total \in Upto(n + w)
    BY <2>1, <2>2, <2>3, <2>4, AddUpto
  <2>7. Fair(e)
    BY <2>5, <2>6 DEF Fair
  <2> QED BY <1>2, <2>3, <2>7 DEF e, w
<1> QED BY <1>1, <1>2

\* Scores that are no higher than the weights of their thresholds.
LEMMA DescriptionIsFair ==
  ASSUME NEW scores \in Seq(ScoresOf),
         \A i \in DOMAIN scores : ~IsNaN(scores[i].scaled)
            => scores[i].scaled \in Upto(ThresholdWeight[scores[i].threshold])
  PROVE  LET d == ScoreDescription(scores)
         IN  /\ d \in Descriptions /\ Fair(d)
             /\ (\A i \in DOMAIN scores : ~IsNaN(scores[i].scaled)
                   => scores[i].scaled = Whole(ThresholdWeight[scores[i].threshold]))
                => d.total = d.maximum
<1> DEFINE N == Len(scores)
           Full == \A i \in 1 .. N : ~IsNaN(scores[i].scaled)
                     => scores[i].scaled = Whole(ThresholdWeight[scores[i].threshold])
<1>1. PICK D : Describes(D, scores)
  BY ScoresAreDescribed
<1>2. N \in Nat /\ DOMAIN scores = 1 .. N /\ \A i \in 1 .. N : scores[i] \in ScoresOf
  OBVIOUS
<1> DEFINE T == {n \in Nat : n <= N => Fair(D[n]) /\ (Full => D[n].total = D[n].maximum)}
<1>3. 0 \in T
  <2>1. NoScores.total = Whole(0) /\ NoScores.maximum = Whole(0) /\ Whole(0) \in Upto(0)
    BY Wholes DEF NoScores, Zero
  <2>2. Fair(NoScores) /\ NoScores.total = NoScores.maximum
    BY <2>1 DEF Fair
  <2> QED BY <1>1, <2>2 DEF Describes
<1>4. ASSUME NEW n \in Nat, n \in T PROVE n + 1 \in T
  <2>1. SUFFICES ASSUME n + 1 <= N
                 PROVE  Fair(D[n + 1]) /\ (Full => D[n + 1].total = D[n + 1].maximum)
    OBVIOUS
  <2>2. n \in 0 .. N - 1 /\ n \in 0 .. N /\ n + 1 \in 1 .. N /\ n <= N
    BY <1>2, <2>1
  <2>3. D[n] \in Descriptions /\ D[n + 1] = AddScore(D[n], scores[n + 1])
    BY <1>1, <2>2 DEF Describes
  <2>4. Fair(D[n]) /\ (Full => D[n].total = D[n].maximum)
    BY <1>4, <2>2
  <2>5. scores[n + 1] \in ScoresOf
        /\ (~IsNaN(scores[n + 1].scaled)
              => scores[n + 1].scaled \in Upto(ThresholdWeight[scores[n + 1].threshold]))
    BY <1>2, <2>2
  <2>6. Full => (~IsNaN(scores[n + 1].scaled)
                   => scores[n + 1].scaled = Whole(ThresholdWeight[scores[n + 1].threshold]))
    BY <2>2
  <2> HIDE DEF Full, N
  <2> QED BY <2>3, <2>4, <2>5, <2>6, AddScoreFair
<1> HIDE DEF T
<1>5. N \in T
  BY <1>2, <1>3, <1>4, AllNumbers
<1>6. Fair(D[N]) /\ (Full => D[N].total = D[N].maximum)
  BY <1>2, <1>5 DEF T
<1>7. D[N] = ScoreDescription(scores) /\ D[N] \in Descriptions
  BY <1>1, <1>2 DEF Describes
<1> QED BY <1>2, <1>6, <1>7

LEMMA NotANumber ==
  ASSUME NEW q \in Numbers \union {NaN}
  PROVE  /\ IsNaN(q) <=> q = NaN
         /\ ~IsNaN(q) => q \in Numbers
  BY NumberParts DEF IsNaN, NaN

\* What a metric says of a table: nothing, or no more than the threshold's
\* weight, which it says of tables without a mistake.
LEMMA ScaledValues ==
  ASSUME NEW metric \in Metrics, NEW t \in TruthTablesOf
  PROVE  LET w == ThresholdWeight[t.threshold]
             q == scaled_value(metric, t)
         IN  /\ q \in Upto(w) \union {NaN}
             /\ t.misses + t.false_positives = 0 => q \in {Whole(w), NaN}
<1> DEFINE w == ThresholdWeight[t.threshold]
           q == scaled_value(metric, t)
           raw == Value(metric, t)
           r == scale_value(metric, raw)
<1>1. w \in Nat
  BY Weights, TableTypes
<1>2. q = Times(r, Whole(w))
  BY DEF scaled_value
<1>3. raw \in Numbers \union {NaN}
  BY ValueType
<1>4. t.misses + t.false_positives = 0 => raw \in {ideal_value(metric), NaN}
  BY PerfectValue
<1> HIDE DEF q, raw, w
<1>5. raw = NaN => r = NaN
  BY DEF scale_value, IsNaN, NaN
<1>6. raw # NaN => r \in Upto(1) /\ (raw = ideal_value(metric) => r = One)
  BY <1>3, ScalesToUnit
<1> HIDE DEF r
<1>7. r = NaN => q = NaN
  BY <1>1, <1>2, WeightShares
<1>8. r = One => q = Whole(w)
  BY <1>1, <1>2, WeightShares
<1>9. r \in Upto(1) => q \in Upto(w)
  BY <1>1, <1>2, WeightShares
<1>10. q \in Upto(w) \union {NaN}
  BY <1>5, <1>6, <1>7, <1>9
<1>11. t.misses + t.false_positives = 0 => q \in {Whole(w), NaN}
  BY <1>4, <1>5, <1>6, <1>7, <1>8
<1> QED BY <1>10, <1>11 DEF q, w

LEMMA ScoresType ==
  ASSUME NEW metric \in Metrics, NEW tables \in Seq(TruthTablesOf)
  PROVE  LET s == Scores(metric, tables)
         IN  /\ s \in Seq(ScoresOf) /\ Len(s) = Len(tables)
             /\ \A i \in 1 .. Len(tables) :
                   /\ s[i].threshold = tables[i].threshold
                   /\ s[i].scaled = scaled_value(metric, tables[i])
                   /\ ~IsNaN(s[i].scaled) => s[i].scaled \in Upto(ThresholdWeight[s[i].threshold])
             /\ IsPerfect(tables) =>
                   \A i \in DOMAIN s : ~IsNaN(s[i].scaled)
                      => s[i].scaled = Whole(ThresholdWeight[s[i].threshold])
<1> DEFINE s == Scores(metric, tables)
           N == Len(tables)
           w(i) == ThresholdWeight[tables[i].threshold]
           q(i) == scaled_value(metric, tables[i])
<1>1. N \in Nat /\ DOMAIN tables = 1 .. N /\ \A i \in 1 .. N : tables[i] \in TruthTablesOf
  OBVIOUS
<1>2. s = [i \in 1 .. N |-> [threshold |-> tables[i].threshold, scaled |-> q(i)]]
  BY <1>1 DEF Scores
<1>3. \A i \in 1 .. N : /\ q(i) \in Upto(w(i)) \union {NaN}
                        /\ tables[i].misses + tables[i].false_positives = 0
                           => q(i) \in {Whole(w(i)), NaN}
  BY <1>1, ScaledValues
<1>4. \A i \in 1 .. N : tables[i].threshold \in Thresholds
  BY <1>1, TableTypes
<1>5. IsNaN(NaN)
  BY DEF IsNaN, NaN
<1>6. \A i \in 1 .. N : q(i) \in Numbers \union {NaN} /\ (~IsNaN(q(i)) => q(i) \in Upto(w(i)))
  BY <1>3, <1>5 DEF Upto
<1>7. IsPerfect(tables) => \A i \in 1 .. N : ~IsNaN(q(i)) => q(i) = Whole(w(i))
  BY <1>1, <1>3, <1>5 DEF IsPerfect
<1> HIDE DEF s, q, N
<1>8. \A i \in 1 .. N : /\ s[i] \in ScoresOf
                        /\ s[i].threshold = tables[i].threshold /\ s[i].scaled = q(i)
  BY <1>2, <1>4, <1>6 DEF ScoresOf
<1>9. s \in Seq(ScoresOf) /\ Len(s) = N /\ DOMAIN s = 1 .. N
  BY <1>1, <1>2, <1>8
<1> HIDE DEF w
<1>10. \A i \in 1 .. N : ThresholdWeight[s[i].threshold] = w(i)
  BY <1>8 DEF w
<1> QED BY <1>6, <1>7, <1>8, <1>9, <1>10 DEF s, q, N
-----------------------------------------------------------------------------
(* Results *)

ResultsOf == [total : Numbers, maximum : Numbers]
NoResults == [total |-> Zero, maximum |-> Zero]

\* What is true of results, after any number of metrics.
FairResults(tables) ==
    {r \in ResultsOf : Fair(r) /\ (IsPerfect(tables) => r.total = r.maximum)}

AddMetric(tables, metric, r) ==
    LET d == ScoreDescription(Scores(metric, tables))
        weight == Whole(MetricWeight[metric])
    IN  IF ~has_value(d, metric) THEN r
        ELSE [total |-> Add(r.total, Times(Over(d.total, d.maximum), weight)),
              maximum |-> Add(r.maximum, weight)]

ResultsFold(metrics, tables) ==
    CHOOSE f : f = [s \in SUBSET metrics |->
                      IF s = {} THEN NoResults
                      ELSE AddMetric(tables, Chosen(s), f[s \ {Chosen(s)}])]

LEMMA ResultsAreFold ==
  ASSUME NEW metrics, NEW tables
  PROVE  MetricResults(metrics, tables) = ResultsFold(metrics, tables)[metrics]
  BY DEF MetricResults, FoldSet, MapThenFoldSet, ResultsFold, AddMetric, NoResults, Chosen

LEMMA FairDescription ==
  ASSUME NEW metric \in Metrics, NEW tables \in Seq(TruthTablesOf)
  PROVE  LET d == ScoreDescription(Scores(metric, tables))
         IN  d \in Descriptions /\ Fair(d) /\ (IsPerfect(tables) => d.total = d.maximum)
<1> DEFINE s == Scores(metric, tables)
<1>1. /\ s \in Seq(ScoresOf) /\ Len(s) = Len(tables)
      /\ \A i \in 1 .. Len(tables) :
            ~IsNaN(s[i].scaled) => s[i].scaled \in Upto(ThresholdWeight[s[i].threshold])
      /\ IsPerfect(tables) =>
            \A i \in DOMAIN s : ~IsNaN(s[i].scaled)
               => s[i].scaled = Whole(ThresholdWeight[s[i].threshold])
  BY ScoresType
<1> HIDE DEF s
<1>2. DOMAIN s = 1 .. Len(tables)
  BY <1>1
<1>3. \A i \in DOMAIN s : ~IsNaN(s[i].scaled)
            => s[i].scaled \in Upto(ThresholdWeight[s[i].threshold])
  BY <1>1, <1>2
<1> DEFINE d == ScoreDescription(s)
<1>4. d \in Descriptions /\ Fair(d)
  BY <1>1, <1>3, DescriptionIsFair
<1>5. IsPerfect(tables) => d.total = d.maximum
  <2>1. (\A i \in DOMAIN s : ~IsNaN(s[i].scaled)
           => s[i].scaled = Whole(ThresholdWeight[s[i].threshold])) => d.total = d.maximum
    BY <1>1, <1>3, DescriptionIsFair
  <2> QED BY <1>1, <2>1
<1> QED BY <1>4, <1>5 DEF s

LEMMA AddMetricFair ==
  ASSUME NEW tables \in Seq(TruthTablesOf), NEW metric \in Metrics, NEW r \in FairResults(tables)
  PROVE  AddMetric(tables, metric, r) \in FairResults(tables)
<1> DEFINE d == ScoreDescription(Scores(metric, tables))
           w == MetricWeight[metric]
           e == AddMetric(tables, metric, r)
<1>1. d \in Descriptions /\ Fair(d) /\ (IsPerfect(tables) => d.total = d.maximum)
  BY FairDescription
<1>2. w \in Nat /\ r \in ResultsOf /\ Fair(r) /\ (IsPerfect(tables) => r.total = r.maximum)
  BY Weights DEF FairResults
<1>3. e = IF ~has_value(d, metric) THEN r
          ELSE [total |-> Add(r.total, Times(Over(d.total, d.maximum), Whole(w))),
                maximum |-> Add(r.maximum, Whole(w))]
  BY DEF AddMetric
<1>4. SUFFICES ASSUME has_value(d, metric) PROVE e \in FairResults(tables)
  BY <1>3
<1>5. d.maximum # Zero
  BY <1>4 DEF has_value
<1> HIDE DEF d, w, e
<1>6. PICK n \in Nat : d.maximum = Whole(n) /\ d.total \in Upto(n)
  BY <1>1 DEF Fair
<1>7. PICK k \in Nat : r.maximum = Whole(k) /\ r.total \in Upto(k)
  BY <1>2 DEF Fair
<1>8. n # 0
  BY <1>5, <1>6 DEF Zero
<1>9. Over(d.total, d.maximum) \in Upto(1)
  BY <1>6, <1>8, WeightShares
<1>10. Times(Over(d.total, d.maximum), Whole(w)) \in Upto(w)
  BY <1>2, <1>9, WeightShares
<1>11. e.total \in Upto(k + w)
  BY <1>2, <1>3, <1>4, <1>7, <1>10, AddUpto
<1>12. e.maximum = Whole(k + w) /\ k + w \in Nat /\ Whole(k + w) \in Numbers
  BY <1>2, <1>3, <1>4, <1>7, AddWholes, Wholes
<1>13. IsPerfect(tables) => e.total = e.maximum
  <2> SUFFICES ASSUME IsPerfect(tables) PROVE e.total = e.maximum
    OBVIOUS
  <2>1. Over(d.total, d.maximum) = One
    BY <1>1, <1>6, <1>8, WeightShares
  <2>2. Times(One, Whole(w)) = Whole(w)
    BY <1>2, WeightShares
  <2> QED BY <1>2, <1>3, <1>4, <2>1, <2>2
<1>14. e \in ResultsOf
  <2>1. e.total \in Numbers /\ e.maximum \in Numbers
    BY <1>11, <1>12 DEF Upto
  <2> QED BY <1>3, <1>4, <2>1 DEF ResultsOf
<1>15. Fair(e)
  BY <1>11, <1>12 DEF Fair
<1> QED BY <1>13, <1>14, <1>15 DEF FairResults

LEMMA MetricsFinite == IsFiniteSet(Metrics)
<1> DEFINE a == {"probability_of_detection"} \union {"false_alarm_ratio"}
           b == a \union {"probability_of_false_detection"}
           c == b \union {"frequency_bias"}
           d == c \union {"critical_success_index"}
           e == d \union {"accuracy"}
           f == e \union {"equitable_threat_score"}
           g == f \union {"general_skill"}
           h == g \union {"precision"}
<1>1. Metrics = h
  BY DEF Metrics
<1>2. IsFiniteSet({"probability_of_detection"})
  BY FS_Singleton
<1> HIDE DEF h
<1>3. IsFiniteSet(a)
  BY <1>2, FS_AddElement
<1> HIDE DEF a
<1>4. IsFiniteSet(b)
  BY <1>3, FS_AddElement
<1> HIDE DEF b
<1>5. IsFiniteSet(c)
  BY <1>4, FS_AddElement
<1> HIDE DEF c
<1>6. IsFiniteSet(d)
  BY <1>5, FS_AddElement
<1> HIDE DEF d
<1>7. IsFiniteSet(e)
  BY <1>6, FS_AddElement
<1> HIDE DEF e
<1>8. IsFiniteSet(f)
  BY <1>7, FS_AddElement
<1> HIDE DEF f
<1>9. IsFiniteSet(g)
  BY <1>8, FS_AddElement
<1> HIDE DEF g
<1>10. IsFiniteSet(h)
  BY <1>9, FS_AddElement DEF h
<1> QED BY <1>1, <1>10

\* Results after each set of metrics.
Accumulates(H, metrics, tables) ==
    /\ H[{}] = NoResults
    /\ \A s \in SUBSET metrics : s # {} => H[s] = AddMetric(tables, Chosen(s), H[s \ {Chosen(s)}])
    /\ \A s \in SUBSET metrics : H[s] \in FairResults(tables)
    /\ MetricResults(metrics, tables) = H[metrics]

LEMMA ResultsAccumulate ==
  ASSUME NEW metrics \in SUBSET Metrics, NEW tables \in Seq(TruthTablesOf)
  PROVE  \E H : Accumulates(H, metrics, tables)
<1> DEFINE R == FairResults(tables)
           A == [s \in SUBSET metrics |-> R]
           F == [m \in metrics |-> [r \in R |-> AddMetric(tables, m, r)]]
           Step(f, s) == IF s = {} THEN NoResults
                         ELSE AddMetric(tables, Chosen(s), f[s \ {Chosen(s)}])
           h == ResultsFold(metrics, tables)
<1>1. IsFiniteSet(metrics)
  BY MetricsFinite, FS_Subset
<1>2. NoResults \in R
  <2>1. NoResults \in ResultsOf /\ NoResults.total = Zero /\ NoResults.maximum = Zero
    BY Units DEF NoResults, ResultsOf
  <2>2. Zero = Whole(0) /\ Whole(0) \in Upto(0)
    BY Wholes DEF Zero
  <2>3. Fair(NoResults)
    BY <2>1, <2>2 DEF Fair
  <2> QED BY <2>1, <2>3 DEF FairResults
<1>3. \A m \in metrics : \A r \in R : AddMetric(tables, m, r) \in R
  BY AddMetricFair
<1>4. \A s \in SUBSET metrics : s # {} => Chosen(s) \in metrics
  BY ChosenIn
<1> HIDE DEF R
<1>5. \A s \in SUBSET metrics :
         s # {} => \A a \in A[s \ {Chosen(s)}] : F[Chosen(s)][a] \in A[s]
  BY <1>3, <1>4
<1>6. NoResults \in A[{}]
  BY <1>2
<1>7. \A s \in SUBSET metrics : A[s] = R
  OBVIOUS
<1>8. \A m \in metrics, r \in R : F[m][r] = AddMetric(tables, m, r)
  OBVIOUS
<1> HIDE DEF A, F, h
<1>9. PICK f : ChoicesFrom(NoResults, A, metrics, F, f)
  BY <1>1, <1>5, <1>6, ChoicesExist
<1>10. f = [s \in SUBSET metrics |-> Picked(F, NoResults, f, s)]
       /\ \A s \in SUBSET metrics : f[s] \in R
  BY <1>7, <1>9 DEF ChoicesFrom, Picks
<1>11. \A s \in SUBSET metrics : Picked(F, NoResults, f, s) = Step(f, s)
  <2> SUFFICES ASSUME NEW s \in SUBSET metrics, s # {}
               PROVE  F[Chosen(s)][f[s \ {Chosen(s)}]]
                        = AddMetric(tables, Chosen(s), f[s \ {Chosen(s)}])
    BY DEF Picked
  <2>1. Chosen(s) \in metrics /\ f[s \ {Chosen(s)}] \in R
    BY <1>4, <1>10
  <2> QED BY <1>8, <2>1
<1>12. f = [s \in SUBSET metrics |-> Step(f, s)]
  <2> HIDE DEF Step
  <2> QED BY <1>10, <1>11
<1>13. h = [s \in SUBSET metrics |-> Step(h, s)]
  BY <1>12 DEF h, ResultsFold
<1>14. \A s \in SUBSET metrics : h[s] \in R
  <2> DEFINE Bad == {s \in SUBSET metrics : h[s] \notin R}
  <2>1. ASSUME Bad # {} PROVE FALSE
    <3>0. Bad \in SUBSET SUBSET metrics
      OBVIOUS
    <3> HIDE DEF Bad
    <3>1. PICK U \in Bad : \A V \in SUBSET U : V # U => V \notin Bad
      BY <1>1, <2>1, <3>0, SmallestSet
    <3> USE DEF Bad
    <3>2. U \in SUBSET metrics /\ h[U] = Step(h, U)
      BY <1>13
    <3>3. U # {}
      BY <1>2, <3>1, <3>2
    <3>4. Chosen(U) \in U
      BY <3>3, ChosenIn
    <3>5. h[U \ {Chosen(U)}] \in R
      BY <3>1, <3>4
    <3> QED BY <1>3, <1>4, <3>1, <3>2, <3>3, <3>5
  <2> QED BY <2>1
<1>15. MetricResults(metrics, tables) = h[metrics]
  BY ResultsAreFold DEF h
<1>16. Accumulates(h, metrics, tables)
  BY <1>13, <1>14, <1>15 DEF Accumulates, R
<1> QED BY <1>16

LEMMA ResultsAreFair ==
  ASSUME NEW metrics \in SUBSET Metrics, NEW tables \in Seq(TruthTablesOf)
  PROVE  LET r == MetricResults(metrics, tables)
         IN  /\ r \in FairResults(tables)
             /\ LocationValue(r) \in Upto(1)
             /\ IsPerfect(tables) => LocationValue(r) = IF r.maximum = Zero THEN Zero ELSE One
<1> DEFINE r == MetricResults(metrics, tables)
           v == LocationValue(r)
<1>1. r \in FairResults(tables)
  <2>1. PICK H : Accumulates(H, metrics, tables)
    BY ResultsAccumulate
  <2>2. metrics \in SUBSET metrics /\ \A s \in SUBSET metrics : H[s] \in FairResults(tables)
    BY <2>1 DEF Accumulates
  <2>3. r = H[metrics]
    BY <2>1 DEF Accumulates
  <2> HIDE DEF r
  <2> QED BY <2>2, <2>3
<1> HIDE DEF r
<1>2. Fair(r) /\ (IsPerfect(tables) => r.total = r.maximum)
  BY <1>1 DEF FairResults
<1>3. PICK n \in Nat : r.maximum = Whole(n) /\ r.total \in Upto(n)
  BY <1>2 DEF Fair
<1>4. v = IF Zero \in {r.total, r.maximum} THEN Zero ELSE Over(r.total, r.maximum)
  BY DEF LocationValue
<1> HIDE DEF v
<1>5. r.maximum # Zero => n # 0
  BY <1>3 DEF Zero
<1>6. v \in Upto(1)
  BY <1>3, <1>4, <1>5, Units, WeightShares
<1>7. IsPerfect(tables) => v = IF r.maximum = Zero THEN Zero ELSE One
  BY <1>2, <1>3, <1>4, <1>5, WeightShares
<1> QED BY <1>1, <1>6, <1>7 DEF r, v
-----------------------------------------------------------------------------
(* Truth tables *)

LEMMA CellsFinite == IsFiniteSet(Cells)
<1> DEFINE P == Levels \X Levels
           f == [x \in P |-> [observed |-> x[1], predicted |-> x[2]]]
<1>1. IsFiniteSet(P)
  BY ScoresAssumption, FS_Product
<1>2. f \in Surjection(P, Cells)
  <2>1. \A x \in P : f[x] \in Cells
    BY DEF Cells
  <2>2. ASSUME NEW c \in Cells PROVE \E x \in P : f[x] = c
    <3>1. <<c.observed, c.predicted>> \in P
          /\ c = [observed |-> c.observed, predicted |-> c.predicted]
      BY DEF Cells
    <3> QED BY <3>1
  <2> QED BY <2>1, <2>2 DEF Surjection
<1> HIDE DEF P, f
<1> QED BY <1>1, <1>2, FS_Surjection

\* The cells of a table, and how many pairs there are.
CellsOf(threshold, o, p) ==
    {c \in Cells : (c.observed >= Cut[threshold]) = o /\ (c.predicted >= Cut[threshold]) = p}

LEMMA TableCounts ==
  ASSUME NEW pairs, NEW threshold
  PROVE  TruthTable(pairs, threshold) =
           [threshold |-> threshold,
            hits |-> SumOf(pairs, CellsOf(threshold, TRUE, TRUE)),
            misses |-> SumOf(pairs, CellsOf(threshold, TRUE, FALSE)),
            false_positives |-> SumOf(pairs, CellsOf(threshold, FALSE, TRUE)),
            true_negatives |-> SumOf(pairs, CellsOf(threshold, FALSE, FALSE))]
<1>1. \A o, p : SumFunctionOnSet(pairs, CellsOf(threshold, o, p))
                  = SumOf(pairs, CellsOf(threshold, o, p))
  BY OnSetIsSum
<1>2. TruthTable(pairs, threshold) =
           [threshold |-> threshold,
            hits |-> SumFunctionOnSet(pairs, CellsOf(threshold, TRUE, TRUE)),
            misses |-> SumFunctionOnSet(pairs, CellsOf(threshold, TRUE, FALSE)),
            false_positives |-> SumFunctionOnSet(pairs, CellsOf(threshold, FALSE, TRUE)),
            true_negatives |-> SumFunctionOnSet(pairs, CellsOf(threshold, FALSE, FALSE))]
  BY Zenon DEF TruthTable, CellsOf
<1> QED BY <1>1, <1>2

LEMMA TruthTableType ==
  ASSUME NEW pairs \in [Cells -> Nat], NEW threshold \in Thresholds
  PROVE  TruthTable(pairs, threshold) \in TruthTablesOf
<1>1. ASSUME NEW o, NEW p PROVE SumOf(pairs, CellsOf(threshold, o, p)) \in Nat
  <2> DEFINE S == CellsOf(threshold, o, p)
  <2>1. S \in SUBSET Cells
    BY DEF CellsOf
  <2> HIDE DEF S
  <2>2. IsFiniteSet(S) /\ \A c \in S : pairs[c] \in Nat
    BY <2>1, CellsFinite, FS_Subset
  <2>3. SumOf(pairs, S) \in Nat
    BY <2>2, SumType
  <2> QED BY <2>3 DEF S
<1> QED BY <1>1, TableCounts DEF TruthTablesOf

TablesFold(pairs, thresholds) ==
    CHOOSE f : f = [s \in SUBSET DOMAIN thresholds |->
                      IF s = {} THEN <<>>
                      ELSE Append(f[s \ {Max(s)}], TruthTable(pairs, thresholds[Max(s)]))]

LEMMA TablesAreFold ==
  ASSUME NEW pairs, NEW thresholds
  PROVE  TruthTables(pairs, thresholds) = TablesFold(pairs, thresholds)[DOMAIN thresholds]
  BY DEF TruthTables, FoldLeft, MapThenFoldSet, TablesFold

\* One table for each of the thresholds, in their order.
LEMMA TablesOfThresholds ==
  ASSUME NEW pairs \in [Cells -> Nat], NEW thresholds \in Seq(Thresholds)
  PROVE  LET tables == TruthTables(pairs, thresholds)
         IN  /\ tables \in Seq(TruthTablesOf) /\ Len(tables) = Len(thresholds)
             /\ \A i \in 1 .. Len(thresholds) : tables[i] = TruthTable(pairs, thresholds[i])
<1> DEFINE A == Seq(TruthTablesOf)
           N == Len(thresholds)
           t(i) == TruthTable(pairs, thresholds[i])
           F == [i \in 1 .. N |-> [a \in A |-> Append(a, t(i))]]
           Step(f, s) == IF s = {} THEN <<>> ELSE Append(f[s \ {Max(s)}], t(Max(s)))
           h == TablesFold(pairs, thresholds)
           Upwards(n) == /\ h[1 .. n] \in A /\ Len(h[1 .. n]) = n
                         /\ \A i \in 1 .. n : h[1 .. n][i] = t(i)
           T == {n \in Nat : n <= N => Upwards(n)}
<1>1. /\ N \in Nat /\ DOMAIN thresholds = 1 .. N
      /\ \A i \in 1 .. N : t(i) \in TruthTablesOf
  BY TruthTableType
<1> HIDE DEF t, N
<1>2. \A a \in A, i \in 1 .. N : Append(a, t(i)) \in A
  BY <1>1
<1>3. F \in [1 .. N -> [A -> A]] /\ <<>> \in A
  BY <1>2
<1> HIDE DEF A, F
<1>4. PICK f : StepsFrom(<<>>, A, N, F, f)
  BY <1>1, <1>3, StepsExist
<1>5. ASSUME NEW s \in SUBSET (1 .. N) PROVE f[s] = Step(f, s)
  <2>1. f[s \ {Max(s)}] \in A
    BY <1>4 DEF StepsFrom
  <2>2. s # {} => Max(s) \in 1 .. N
    BY <1>1, MaxIn
  <2> QED BY <1>4, <2>1, <2>2 DEF StepsFrom, Stepped, F
<1>6. f = [s \in SUBSET (1 .. N) |-> Step(f, s)]
  BY <1>4, <1>5 DEF StepsFrom
<1>7. h = [s \in SUBSET (1 .. N) |-> Step(h, s)]
  BY <1>1, <1>6 DEF TablesFold, t
<1> HIDE DEF h
<1>8. 0 \in T
  <2>1. h[1 .. 0] = <<>>
    BY <1>1, <1>7
  <2> QED BY <2>1, <1>3
<1>9. ASSUME NEW n \in Nat, n \in T PROVE n + 1 \in T
  <2>1. SUFFICES ASSUME n + 1 <= N PROVE Upwards(n + 1)
    OBVIOUS
  <2>2. Upwards(n) /\ n + 1 \in 1 .. N
    BY <1>1, <1>9, <2>1
  <2>3. h[1 .. n + 1] = Append(h[1 .. n], t(n + 1))
    <3>1. 1 .. n + 1 \in SUBSET (1 .. N)
      BY <1>1, <2>1
    <3>2. h[1 .. n + 1] = Step(h, 1 .. n + 1)
      BY <1>7, <3>1
    <3> QED BY <3>2, LastUpTo
  <2>4. h[1 .. n + 1] \in A
    BY <1>2, <2>2, <2>3
  <2> DEFINE a == h[1 .. n]
             b == h[1 .. n + 1]
  <2>5. a \in Seq(TruthTablesOf) /\ Len(a) = n /\ \A i \in 1 .. n : a[i] = t(i)
    BY <2>2 DEF A
  <2>6. b = Append(a, t(n + 1))
    BY <2>3
  <2> HIDE DEF a, b
  <2>7. Len(b) = n + 1 /\ b[n + 1] = t(n + 1) /\ \A i \in 1 .. n : b[i] = t(i)
    BY <2>5, <2>6
  <2>8. \A i \in 1 .. n + 1 : i = n + 1 \/ i \in 1 .. n
    OBVIOUS
  <2> QED BY <2>4, <2>7, <2>8 DEF b
<1> HIDE DEF T, Upwards
<1>10. N \in T
  BY <1>1, <1>8, <1>9, AllNumbers
<1>11. Upwards(N)
  BY <1>1, <1>10 DEF T
<1>12. TruthTables(pairs, thresholds) = h[1 .. N]
  BY <1>1, TablesAreFold DEF h
<1> QED BY <1>11, <1>12 DEF Upwards, A, N, t
-----------------------------------------------------------------------------
(* The grade *)

TotalFold(values) ==
    CHOOSE f : f = [s \in SUBSET DOMAIN values |->
                      IF s = {} THEN Zero
                      ELSE Add(values[Chosen(s)], f[s \ {Chosen(s)}])]

LEMMA TotalIsFold == ASSUME NEW values
                     PROVE  FoldSeq(Add, Zero, values) = TotalFold(values)[DOMAIN values]
  BY DEF FoldSeq, FoldFunction, FoldFunctionOnSet, MapThenFoldSet, TotalFold, Chosen

LEMMA TotalsAdd ==
  ASSUME NEW values \in Seq(Upto(1))
  PROVE  FoldSeq(Add, Zero, values) \in Upto(Len(values))
<1> DEFINE N == Len(values)
           S == 1 .. N
           A == [s \in SUBSET S |-> Upto(Cardinality(s))]
           F == [i \in S |-> [q \in Numbers |-> Add(values[i], q)]]
           h == TotalFold(values)
<1>1. N \in Nat /\ DOMAIN values = S /\ \A i \in S : values[i] \in Upto(1)
  OBVIOUS
<1> HIDE DEF N
<1>2. IsFiniteSet(S) /\ Cardinality(S) = N
  <2>1. IsFiniteSet(S)
    BY <1>1, FS_Interval
  <2>2. Cardinality(S) = IF 1 > N THEN 0 ELSE N - 1 + 1
    BY <1>1, FS_Interval
  <2> QED BY <1>1, <2>1, <2>2
<1> HIDE DEF S
<1>3. Zero \in A[{}]
  <2>1. Zero = Whole(0) /\ Whole(0) \in Upto(0) /\ Cardinality({}) = 0
    BY Wholes, FS_EmptySet DEF Zero
  <2> QED BY <2>1
<1>4. ASSUME NEW s \in SUBSET S, s # {}, NEW q \in A[s \ {Chosen(s)}]
      PROVE  /\ F[Chosen(s)][q] = Add(values[Chosen(s)], q)
             /\ F[Chosen(s)][q] \in A[s]
  <2>1. Chosen(s) \in s /\ Chosen(s) \in S /\ values[Chosen(s)] \in Upto(1)
    BY <1>1, <1>4, ChosenIn
  <2>2. IsFiniteSet(s) /\ IsFiniteSet(s \ {Chosen(s)})
    BY <1>2, FS_Subset
  <2> DEFINE a == Cardinality(s)
             b == Cardinality(s \ {Chosen(s)})
  <2>3. b = a - 1
    BY <2>1, <2>2, FS_RemoveElement
  <2>4. a \in Nat /\ b \in Nat
    BY <2>2, FS_CardinalityType
  <2>5. q \in Upto(b)
    BY <1>4
  <2>6. A[s] = Upto(a)
    OBVIOUS
  <2> HIDE DEF a, b, A
  <2>7. Add(values[Chosen(s)], q) \in Upto(1 + b)
    BY <2>1, <2>4, <2>5, AddUpto
  <2>8. 1 + b = a
    BY <2>3, <2>4
  <2>9. q \in Numbers
    BY <2>5 DEF Upto
  <2> QED BY <2>1, <2>6, <2>7, <2>8, <2>9
<1> HIDE DEF A, F
<1>5. \A s \in SUBSET S :
         s # {} => \A a \in A[s \ {Chosen(s)}] : F[Chosen(s)][a] \in A[s]
  BY <1>4
<1>6. PICK f : ChoicesFrom(Zero, A, S, F, f)
  BY <1>2, <1>3, <1>5, ChoicesExist
<1>7. f = [s \in SUBSET S |-> Picked(F, Zero, f, s)] /\ \A s \in SUBSET S : f[s] \in A[s]
  BY <1>6 DEF ChoicesFrom, Picks
<1> DEFINE Step(g, s) == IF s = {} THEN Zero ELSE Add(values[Chosen(s)], g[s \ {Chosen(s)}])
<1>8. \A s \in SUBSET S : Picked(F, Zero, f, s) = Step(f, s)
  <2> SUFFICES ASSUME NEW s \in SUBSET S, s # {}
               PROVE  F[Chosen(s)][f[s \ {Chosen(s)}]]
                        = Add(values[Chosen(s)], f[s \ {Chosen(s)}])
    BY DEF Picked
  <2>1. f[s \ {Chosen(s)}] \in A[s \ {Chosen(s)}]
    BY <1>7
  <2> QED BY <1>4, <2>1
<1>9. f = [s \in SUBSET S |-> Step(f, s)]
  <2> HIDE DEF Step
  <2> QED BY <1>7, <1>8
<1>10. h = [s \in SUBSET S |-> Step(h, s)]
  BY <1>1, <1>9 DEF TotalFold
<1> HIDE DEF h
<1> DEFINE Bad == {s \in SUBSET S : h[s] # f[s]}
<1>11. ASSUME Bad # {} PROVE FALSE
  <2>0. Bad \in SUBSET SUBSET S
    OBVIOUS
  <2> HIDE DEF Bad
  <2>1. PICK U \in Bad : \A V \in SUBSET U : V # U => V \notin Bad
    BY <1>2, <1>11, <2>0, SmallestSet
  <2> USE DEF Bad
  <2>2. U \in SUBSET S /\ h[U] = Step(h, U) /\ f[U] = Step(f, U)
    <3>1. U \in SUBSET S
      OBVIOUS
    <3> HIDE DEF Step, Bad
    <3>2. h[U] = Step(h, U)
      BY <1>10, <3>1
    <3>3. f[U] = Step(f, U)
      BY <1>9, <3>1
    <3> QED BY <3>1, <3>2, <3>3
  <2>3. U # {}
    BY <2>1, <2>2
  <2>4. Chosen(U) \in U
    BY <2>3, ChosenIn
  <2>5. h[U \ {Chosen(U)}] = f[U \ {Chosen(U)}]
    BY <2>1, <2>4
  <2> QED BY <2>1, <2>2, <2>3, <2>5
<1>12. h[S] = f[S] /\ f[S] \in A[S]
  BY <1>7, <1>11
<1>13. FoldSeq(Add, Zero, values) = h[S]
  BY <1>1, TotalIsFold DEF h
<1>14. A[S] = Upto(N)
  BY <1>2 DEF A
<1> QED BY <1>12, <1>13, <1>14 DEF N

LEMMA FractionsUpto ==
  ASSUME NEW q \in Upto(1)
  PROVE  IsFraction(q)
<1> DEFINE x == q.num
           u == q.den
<1>1. x \in Int /\ u \in Nat \ {0} /\ ~IsNaN(q) /\ 0 <= x /\ x <= 1 * u
  BY NumberParts DEF Upto
<1>2. (AtMost(Zero, q) <=> 0 * u <= x * 1) /\ (AtMost(q, One) <=> x * 1 <= 1 * u)
  BY Wholes DEF AtMost, Zero, One
<1> HIDE DEF x, u
<1>3. 0 * u <= x * 1 /\ x * 1 <= 1 * u
  BY <1>1
<1> QED BY <1>1, <1>2, <1>3 DEF IsFraction

\* What is scored is a fraction, and what is to be scored has a type.
ScoresInv ==
    /\ scheme \subseteq Metrics
    /\ scored \in Seq(Upto(1))
    /\ group # NoGroup => group \in [pairs : [Cells -> Nat], thresholds : Seq(Thresholds)]

LEMMA ScoresInvInit == ScoresInit => ScoresInv
  BY DEF ScoresInit, ScoresInv

LEMMA GroupTypes ==
  ASSUME ScoresInv, group # NoGroup
  PROVE  Tables \in Seq(TruthTablesOf) /\ scheme \in SUBSET Metrics
<1>1. group.pairs \in [Cells -> Nat] /\ group.thresholds \in Seq(Thresholds)
  BY DEF ScoresInv
<1> QED BY <1>1, TablesOfThresholds DEF ScoresInv, Tables

LEMMA ScoresInvNext == ScoresInv /\ [ScoresNext]_scoresVars => ScoresInv'
<1> SUFFICES ASSUME ScoresInv, [ScoresNext]_scoresVars PROVE ScoresInv'
  OBVIOUS
<1>1. ASSUME Begin PROVE ScoresInv'
  <2>1. Schemes \subseteq SUBSET Metrics
    BY ScoresAssumption
  <2> QED BY <1>1, <2>1 DEF Begin, ScoresInv
<1>2. ASSUME NextGroup PROVE ScoresInv'
  <2> DEFINE l == Locations[Len(scored) + 1]
  <2>1. PICK pairs \in Groups[l], thresholds \in ThresholdLists :
           group' = [pairs |-> pairs, thresholds |-> thresholds]
    BY <1>2 DEF NextGroup
  <2>2. Len(scored) \in Nat /\ Len(scored) < Len(Locations)
    BY <1>2 DEF NextGroup, ScoresInv
  <2>3. Locations \in Seq(ToSet(Locations)) /\ MaxPairs \in [ToSet(Locations) -> Nat]
    BY ScoresAssumption
  <2>4. Len(scored) + 1 \in 1 .. Len(Locations)
    BY <2>2, <2>3
  <2>5. l \in ToSet(Locations)
    BY <2>3, <2>4
  <2> HIDE DEF l
  <2>6. pairs \in [Cells -> 0 .. MaxPairs[l]]
    BY <2>1, <2>5 DEF Groups
  <2>7. 0 .. MaxPairs[l] \subseteq Nat
    BY <2>3, <2>5
  <2>8. pairs \in [Cells -> Nat]
    BY <2>6, <2>7
  <2>9. thresholds \in Seq(Thresholds)
    BY ScoresAssumption
  <2>10. scheme' = scheme /\ scored' = scored
    BY <1>2 DEF NextGroup
  <2> QED BY <2>1, <2>8, <2>9, <2>10 DEF ScoresInv
<1>3. ASSUME Score PROVE ScoresInv'
  <2>1. group # NoGroup /\ group' = NoGroup /\ scheme' = scheme
        /\ (scored' = scored \/ scored' = Append(scored, LocationValue(Results)))
    BY <1>3 DEF Score
  <2>2. LocationValue(Results) \in Upto(1)
    BY <2>1, GroupTypes, ResultsAreFair DEF Results
  <2> DEFINE v == LocationValue(Results)
  <2>3. v \in Upto(1)
    BY <2>2
  <2> HIDE DEF v
  <2>4. scored \in Seq(Upto(1)) /\ scheme \subseteq Metrics
    BY DEF ScoresInv
  <2>5. Append(scored, v) \in Seq(Upto(1))
    BY <2>3, <2>4
  <2>6. scored' \in Seq(Upto(1))
    BY <2>1, <2>4, <2>5 DEF v
  <2> QED BY <2>1, <2>4, <2>6 DEF ScoresInv
<1>4. ASSUME Grade PROVE ScoresInv'
  BY <1>4 DEF Grade, ScoresInv
<1>5. ASSUME UNCHANGED scoresVars PROVE ScoresInv'
  BY <1>5 DEF scoresVars, ScoresInv
<1> QED BY <1>1, <1>2, <1>3, <1>4, <1>5 DEF ScoresNext

\* In those states, grades are fractions and right forecasts have full marks.
LEMMA FullMarks == ScoresInv => FullMarksForPerfection
<1> SUFFICES ASSUME ScoresInv PROVE FullMarksForPerfection
  OBVIOUS
<1>1. scored \in Seq(Upto(1))
  BY DEF ScoresInv
<1>2. \A i \in DOMAIN scored : IsFraction(scored[i])
  BY <1>1, FractionsUpto
<1>3. IsFraction(performance)
  <2>1. CASE scored = <<>>
    BY <2>1, Units, FractionsUpto DEF performance
  <2>2. CASE scored # <<>>
    <3> DEFINE N == Len(scored)
    <3>1. N \in Nat \ {0}
      BY <1>1, <2>2
    <3>2. total_value \in Upto(N)
      BY <1>1, TotalsAdd DEF total_value
    <3> HIDE DEF N
    <3>3. Over(total_value, Whole(N)) \in Upto(1)
      BY <3>1, <3>2, WeightShares
    <3>4. performance \in Upto(1)
      BY <2>2, <3>3 DEF performance, maximum_value, N
    <3> QED BY <3>4, FractionsUpto
  <2> QED BY <2>1, <2>2
<1>4. InTables /\ IsPerfect(Tables) =>
         LocationValue(Results) = IF Results.maximum = Zero THEN Zero ELSE One
  <2> SUFFICES ASSUME InTables, IsPerfect(Tables)
               PROVE  LocationValue(Results) = IF Results.maximum = Zero THEN Zero ELSE One
    OBVIOUS
  <2>1. Tables \in Seq(TruthTablesOf) /\ scheme \in SUBSET Metrics
    BY GroupTypes DEF InTables
  <2> QED BY <2>1, ResultsAreFair DEF Results
<1> QED BY <1>2, <1>3, <1>4 DEF FullMarksForPerfection

(***************************************************************************)
(* Every value of a location that scoring writes, and the grade made of    *)
(* them, is a fraction between nought and one; and where nothing observed  *)
(* was missed and nothing predicted did not happen, the value is one, or   *)
(* nought if no metric of the scheme has a value: for any pairs, levels,   *)
(* thresholds, weights and metrics.                                        *)
(***************************************************************************)
THEOREM RightForecastsHaveFullMarks == ScoresSpec => []FullMarksForPerfection
<1>1. ScoresSpec => []ScoresInv
  BY ScoresInvInit, ScoresInvNext, PTL DEF ScoresSpec
<1> QED BY <1>1, FullMarks, PTL
-----------------------------------------------------------------------------
(* The order of fractions *)

\* q is the fraction a / b.
IsRatio(q, a, b) == q \in Numbers /\ q.num * b = a * q.den

LEMMA CancelsLeft ==
  ASSUME NEW x \in Int, NEW y \in Int, NEW c \in Nat \ {0}
  PROVE  /\ x * c <= y * c => x <= y
         /\ x * c = y * c => x = y
<1>1. x > y => x * c > y * c
  OBVIOUS
<1>2. x < y => x * c < y * c
  OBVIOUS
<1> DEFINE a == x * c
           b == y * c
<1>3. a \in Int /\ b \in Int
  OBVIOUS
<1> HIDE DEF a, b
<1>4. (a <= b => ~(a > b)) /\ (a = b => ~(a > b) /\ ~(a < b))
  BY <1>3
<1> QED BY <1>1, <1>2, <1>4 DEF a, b

LEMMA OrderOfRatios ==
  ASSUME NEW k \in Int, NEW l \in Nat \ {0}, NEW a \in Int, NEW b \in Nat \ {0},
         NEW i \in Int, NEW j \in Nat \ {0}, NEW c \in Int, NEW d \in Nat \ {0},
         k * b = a * l, i * d = c * j
  PROVE  a * d <= c * b <=> k * j <= i * l
<1> DEFINE e == b * d
           g == l * j
<1>1. e \in Nat \ {0} /\ g \in Nat \ {0}
  OBVIOUS
<1>2. (k * j) * e = (k * b) * (j * d) /\ (i * l) * e = (i * d) * (l * b)
  OBVIOUS
<1>3. (a * l) * (j * d) = (a * d) * g /\ (c * j) * (l * b) = (c * b) * g
  OBVIOUS
<1>4. (k * j) * e = (a * d) * g /\ (i * l) * e = (c * b) * g
  BY <1>2, <1>3
<1>5. a * d \in Int /\ c * b \in Int /\ k * j \in Int /\ i * l \in Int
  OBVIOUS
<1> DEFINE A == a * d
           B == c * b
           C == k * j
           D == i * l
<1>6. A \in Int /\ B \in Int /\ C \in Int /\ D \in Int /\ C * e = A * g /\ D * e = B * g
  BY <1>4, <1>5
<1> HIDE DEF A, B, C, D, e, g
<1>7. A <= B => A * g <= B * g
  BY <1>1, <1>6
<1>8. C <= D => C * e <= D * e
  BY <1>1, <1>6
<1>9. /\ A * g <= B * g => A <= B
      /\ C * e <= D * e => C <= D
  BY <1>1, <1>6, CancelsLeft
<1>10. A <= B <=> C <= D
  BY <1>6, <1>7, <1>8, <1>9
<1> QED BY <1>10 DEF A, B, C, D

\* Fractions are compared crosswise, in whatever terms they are.
LEMMA Compare ==
  ASSUME NEW p, NEW a \in Int, NEW b \in Nat \ {0}, IsRatio(p, a, b),
         NEW q, NEW c \in Int, NEW d \in Nat \ {0}, IsRatio(q, c, d)
  PROVE  AtMost(p, q) <=> a * d <= c * b
<1> DEFINE k == p.num
           l == p.den
           i == q.num
           j == q.den
<1>1. /\ k \in Int /\ l \in Nat \ {0} /\ i \in Int /\ j \in Nat \ {0}
      /\ k * b = a * l /\ i * d = c * j
  BY NumberParts DEF IsRatio
<1>2. AtMost(p, q) <=> k * j <= i * l
  BY DEF AtMost
<1> HIDE DEF k, l, i, j
<1>3. a * d <= c * b <=> k * j <= i * l
  BY <1>1, OrderOfRatios
<1> QED BY <1>2, <1>3

LEMMA OwnRatio ==
  ASSUME NEW q \in Numbers
  PROVE  IsRatio(q, q.num, q.den)
  BY DEF IsRatio

LEMMA RatioIsRatio ==
  ASSUME NEW a \in Int, NEW b \in Nat \ {0}
  PROVE  IsRatio(Ratio(a, b), a, b)
  BY RatioIs DEF IsRatio

LEMMA WholeIsRatio ==
  ASSUME NEW n \in Int, NEW b \in Nat \ {0}
  PROVE  IsRatio(Whole(n), n * b, b)
<1>1. n * b = (n * b) * 1
  OBVIOUS
<1> QED BY <1>1, Wholes DEF IsRatio

LEMMA CrossTransitive ==
  ASSUME NEW x \in Int, NEW u \in Nat \ {0}, NEW y \in Int, NEW v \in Nat \ {0},
         NEW z \in Int, NEW w \in Nat \ {0}, x * v <= y * u, y * w <= z * v
  PROVE  x * w <= z * u
<1>1. (x * v) * w <= (y * u) * w
  OBVIOUS
<1>2. (y * w) * u <= (z * v) * u
  OBVIOUS
<1>3. (x * v) * w = (x * w) * v /\ (y * u) * w = (y * w) * u /\ (z * v) * u = (z * u) * v
  OBVIOUS
<1> DEFINE a == x * w
           b == z * u
           c == (y * w) * u
<1>4. a \in Int /\ b \in Int /\ c \in Int /\ a * v <= c /\ c <= b * v
      /\ a * v \in Int /\ b * v \in Int
  BY <1>1, <1>2, <1>3
<1> HIDE DEF a, b, c
<1> DEFINE d == a * v
           e == b * v
<1>5. d \in Int /\ e \in Int /\ d <= c /\ c <= e
  BY <1>4
<1> HIDE DEF d, e
<1>6. d <= e
  BY <1>4, <1>5
<1>7. a * v <= b * v
  BY <1>6 DEF d, e
<1>8. a <= b
  BY <1>4, <1>7, CancelsLeft
<1> QED BY <1>8 DEF a, b

\* Numbers are in a total order.
LEMMA TotalOrder ==
  ASSUME NEW p \in Numbers, NEW q \in Numbers
  PROVE  /\ AtMost(p, p)
         /\ AtMost(p, q) \/ AtMost(q, p)
         /\ \A r \in Numbers : AtMost(p, q) /\ AtMost(q, r) => AtMost(p, r)
<1> DEFINE x == p.num
           u == p.den
           y == q.num
           v == q.den
<1>1. x \in Int /\ u \in Nat \ {0} /\ y \in Int /\ v \in Nat \ {0}
  BY NumberParts
<1>2. /\ AtMost(p, p) <=> x * u <= x * u
      /\ AtMost(p, q) <=> x * v <= y * u
      /\ AtMost(q, p) <=> y * u <= x * v
  BY DEF AtMost
<1>3. ASSUME NEW r \in Numbers, AtMost(p, q), AtMost(q, r) PROVE AtMost(p, r)
  <2> DEFINE z == r.num
             w == r.den
  <2>1. z \in Int /\ w \in Nat \ {0}
    BY NumberParts
  <2>2. x * v <= y * u /\ y * w <= z * v
    BY <1>3 DEF AtMost
  <2> HIDE DEF x, u, y, v, z, w
  <2>3. x * w <= z * u
    BY <1>1, <2>1, <2>2, CrossTransitive
  <2> QED BY <2>3 DEF AtMost, x, u, z, w
<1> HIDE DEF x, u, y, v
<1> DEFINE a == x * v
           b == y * u
           c == x * u
<1>4. a \in Int /\ b \in Int /\ c \in Int
  BY <1>1
<1> HIDE DEF a, b, c
<1>5. c <= c /\ (a <= b \/ b <= a)
  BY <1>4
<1> QED BY <1>2, <1>3, <1>5 DEF a, b, c

LEMMA CrossSums ==
  ASSUME NEW x \in Int, NEW u \in Nat \ {0}, NEW y \in Int, NEW v \in Nat \ {0},
         NEW x1 \in Int, NEW u1 \in Nat \ {0}, NEW y1 \in Int, NEW v1 \in Nat \ {0},
         x * u1 <= x1 * u, y * v1 <= y1 * v
  PROVE  (x * v + y * u) * (u1 * v1) <= (x1 * v1 + y1 * u1) * (u * v)
<1> DEFINE c == v * v1
           d == u * u1
           a == x * u1
           a1 == x1 * u
           b == y * v1
           b1 == y1 * v
<1>1. /\ (x * v + y * u) * (u1 * v1) = a * c + b * d
      /\ (x1 * v1 + y1 * u1) * (u * v) = a1 * c + b1 * d
  OBVIOUS
<1>2. /\ c \in Nat /\ d \in Nat /\ a \in Int /\ a1 \in Int /\ b \in Int /\ b1 \in Int
      /\ a <= a1 /\ b <= b1
  OBVIOUS
<1> HIDE DEF a, a1, b, b1, c, d
<1>3. a * c <= a1 * c /\ b * d <= b1 * d
  BY <1>2
<1> DEFINE e == a * c
           e1 == a1 * c
           g == b * d
           g1 == b1 * d
<1>4. e \in Int /\ e1 \in Int /\ g \in Int /\ g1 \in Int /\ e <= e1 /\ g <= g1
  BY <1>2, <1>3
<1> HIDE DEF e, e1, g, g1
<1>5. e + g <= e1 + g1
  BY <1>4
<1> QED BY <1>1, <1>5 DEF e, e1, g, g1

LEMMA AddIsMonotonic ==
  ASSUME NEW p \in Numbers, NEW q \in Numbers, NEW p1 \in Numbers, NEW q1 \in Numbers,
         AtMost(p, p1), AtMost(q, q1)
  PROVE  AtMost(Add(p, q), Add(p1, q1))
<1> DEFINE x == p.num
           u == p.den
           y == q.num
           v == q.den
           x1 == p1.num
           u1 == p1.den
           y1 == q1.num
           v1 == q1.den
           a == x * v + y * u
           b == u * v
           a1 == x1 * v1 + y1 * u1
           b1 == u1 * v1
<1>1. /\ x \in Int /\ u \in Nat \ {0} /\ y \in Int /\ v \in Nat \ {0}
      /\ x1 \in Int /\ u1 \in Nat \ {0} /\ y1 \in Int /\ v1 \in Nat \ {0}
      /\ x * u1 <= x1 * u /\ y * v1 <= y1 * v
  BY NumberParts DEF AtMost
<1>2. Add(p, q) = Ratio(a, b) /\ Add(p1, q1) = Ratio(a1, b1)
  BY DEF Add
<1> HIDE DEF x, u, y, v, x1, u1, y1, v1
<1>3. a * b1 <= a1 * b
  BY <1>1, CrossSums
<1>4. a \in Int /\ b \in Nat \ {0} /\ a1 \in Int /\ b1 \in Nat \ {0}
  BY <1>1
<1> HIDE DEF a, b, a1, b1
<1>5. IsRatio(Ratio(a, b), a, b) /\ IsRatio(Ratio(a1, b1), a1, b1)
  BY <1>4, RatioIsRatio
<1> QED BY <1>2, <1>3, <1>4, <1>5, Compare

LEMMA CrossProducts ==
  ASSUME NEW x \in Int, NEW u \in Nat \ {0}, NEW y \in Int, NEW v \in Nat \ {0},
         x * v <= y * u, NEW n \in Nat
  PROVE  /\ (x * n) * (v * 1) <= (y * n) * (u * 1)
         /\ (x * 1) * (v * n) <= (y * 1) * (u * n)
         /\ (1 * x) * (1 * v) <= (1 * y) * (1 * u)
         /\ (-1 * y) * (1 * u) <= (-1 * x) * (1 * v)
<1> DEFINE a == x * v
           b == y * u
<1>1. a \in Int /\ b \in Int /\ a <= b
  OBVIOUS
<1>2. /\ (x * n) * (v * 1) = a * n /\ (y * n) * (u * 1) = b * n
      /\ (x * 1) * (v * n) = a * n /\ (y * 1) * (u * n) = b * n
      /\ (1 * x) * (1 * v) = a /\ (1 * y) * (1 * u) = b
      /\ (-1 * y) * (1 * u) = -b /\ (-1 * x) * (1 * v) = -a
  OBVIOUS
<1> HIDE DEF a, b
<1>3. a * n <= b * n /\ -b <= -a
  BY <1>1
<1> QED BY <1>1, <1>2, <1>3

LEMMA WeighingIsMonotonic ==
  ASSUME NEW p \in Numbers, NEW q \in Numbers, AtMost(p, q), NEW n \in Nat
  PROVE  /\ AtMost(Times(p, Whole(n)), Times(q, Whole(n)))
         /\ n # 0 => AtMost(Over(p, Whole(n)), Over(q, Whole(n)))
         /\ AtMost(Times(One, p), Times(One, q))
         /\ AtMost(Times(Whole(-1), q), Times(Whole(-1), p))
<1> DEFINE x == p.num
           u == p.den
           y == q.num
           v == q.den
<1>1. x \in Int /\ u \in Nat \ {0} /\ y \in Int /\ v \in Nat \ {0} /\ x * v <= y * u
  BY NumberParts DEF AtMost
<1>2. /\ Times(p, Whole(n)) = Ratio(x * n, u * 1) /\ Times(q, Whole(n)) = Ratio(y * n, v * 1)
      /\ Over(p, Whole(n)) = Ratio(x * 1, u * n) /\ Over(q, Whole(n)) = Ratio(y * 1, v * n)
      /\ Times(One, p) = Ratio(1 * x, 1 * u) /\ Times(One, q) = Ratio(1 * y, 1 * v)
      /\ Times(Whole(-1), p) = Ratio(-1 * x, 1 * u)
      /\ Times(Whole(-1), q) = Ratio(-1 * y, 1 * v)
  BY Wholes, NumberParts DEF Times, Over, One
<1> HIDE DEF x, u, y, v
<1>3. /\ (x * n) * (v * 1) <= (y * n) * (u * 1)
      /\ (x * 1) * (v * n) <= (y * 1) * (u * n)
      /\ (1 * x) * (1 * v) <= (1 * y) * (1 * u)
      /\ (-1 * y) * (1 * u) <= (-1 * x) * (1 * v)
  BY <1>1, CrossProducts
<1>4. /\ x * n \in Int /\ u * 1 \in Nat \ {0} /\ y * n \in Int /\ v * 1 \in Nat \ {0}
      /\ x * 1 \in Int /\ y * 1 \in Int /\ 1 * x \in Int /\ 1 * y \in Int
      /\ 1 * u \in Nat \ {0} /\ 1 * v \in Nat \ {0} /\ -1 * x \in Int /\ -1 * y \in Int
      /\ n # 0 => u * n \in Nat \ {0} /\ v * n \in Nat \ {0}
  BY <1>1
<1>5. ASSUME NEW a \in Int, NEW b \in Nat \ {0}, NEW c \in Int, NEW d \in Nat \ {0},
             a * d <= c * b
      PROVE  AtMost(Ratio(a, b), Ratio(c, d))
  <2>1. IsRatio(Ratio(a, b), a, b) /\ IsRatio(Ratio(c, d), c, d)
    BY RatioIsRatio
  <2> QED BY <1>5, <2>1, Compare
<1>6. AtMost(Ratio(x * n, u * 1), Ratio(y * n, v * 1))
  BY <1>3, <1>4, <1>5
<1>7. n # 0 => AtMost(Ratio(x * 1, u * n), Ratio(y * 1, v * n))
  BY <1>3, <1>4, <1>5
<1>8. AtMost(Ratio(1 * x, 1 * u), Ratio(1 * y, 1 * v))
  BY <1>3, <1>4, <1>5
<1>9. AtMost(Ratio(-1 * y, 1 * v), Ratio(-1 * x, 1 * u))
  BY <1>3, <1>4, <1>5
<1> QED BY <1>2, <1>6, <1>7, <1>8, <1>9

LEMMA ClippingIsMonotonic ==
  ASSUME NEW p \in Numbers, NEW q \in Numbers, AtMost(p, q)
  PROVE  /\ AtMost(Smaller(p, One), Smaller(q, One))
         /\ AtMost(Greater(p, Zero), Greater(q, Zero))
         /\ Smaller(p, One) \in Numbers /\ Greater(p, Zero) \in Numbers
<1>1. Zero \in Numbers /\ One \in Numbers
  BY Units
<1>2. AtMost(One, One) /\ AtMost(Zero, Zero) /\ AtMost(p, p)
  BY <1>1, TotalOrder
<1>3. ~AtMost(p, One) => AtMost(One, p) /\ ~AtMost(q, One)
  BY <1>1, TotalOrder
<1>4. ~AtMost(q, One) => AtMost(One, q)
  BY <1>1, TotalOrder
<1>5. AtMost(p, One) /\ ~AtMost(q, One) => AtMost(p, One)
  OBVIOUS
<1>6. AtMost(q, Zero) => AtMost(p, Zero)
  BY <1>1, TotalOrder
<1>7. ~AtMost(q, Zero) => AtMost(Zero, q)
  BY <1>1, TotalOrder
<1>8. AtMost(Smaller(p, One), Smaller(q, One))
  BY <1>2, <1>3 DEF Smaller
<1>9. AtMost(Greater(p, Zero), Greater(q, Zero))
  BY <1>2, <1>6, <1>7 DEF Greater
<1> QED BY <1>1, <1>8, <1>9 DEF Smaller, Greater
-----------------------------------------------------------------------------
(* Scaling keeps the order *)

LEMMA UnitsAreBounds ==
  ASSUME NEW q \in Upto(1)
  PROVE  q \in Numbers /\ AtMost(Zero, q) /\ AtMost(q, One)
  BY FractionsUpto DEF IsFraction, Upto

\* How a metric is scaled whose ideal is one.
LEMMA ScaledUp ==
  ASSUME NEW metric, ideal_value(metric) = One, NEW q \in Numbers,
         HasUpperBound(metric) \/ AtMost(q, One)
  PROVE  LET scaled == Add(Times(One, q), Zero)
         IN  /\ scaled \in Numbers
             /\ scale_value(metric, q) =
                  Greater(IF HasUpperBound(metric) THEN Smaller(scaled, One) ELSE scaled, Zero)
<1>1. Slope(metric, q) = One
  BY Units DEF Slope
<1>2. Subtract(One, Times(One, One)) = Zero
  BY Units
<1>3. Times(One, q) \in Numbers /\ Zero \in Numbers
  BY Units, NumbersClosed
<1>4. Add(Times(One, q), Zero) \in Numbers
  BY <1>3, NumbersClosed
<1> QED BY <1>1, <1>2, <1>4, NumberParts DEF scale_value

LEMMA ScaledDown ==
  ASSUME NEW metric, ideal_value(metric) = Zero, NEW q \in Numbers
  PROVE  LET scaled == Add(Times(Whole(-1), q), One)
         IN  /\ scaled \in Numbers
             /\ scale_value(metric, q) = Greater(Smaller(scaled, One), Zero)
<1>1. Slope(metric, q) = Whole(-1) /\ HasUpperBound(metric)
  BY Units DEF Slope, ideal_value, HasUpperBound
<1>2. Subtract(One, Times(Whole(-1), Zero)) = One
  BY Units
<1>3. Times(Whole(-1), q) \in Numbers /\ One \in Numbers
  BY Units, NumbersClosed
<1>4. Add(Times(Whole(-1), q), One) \in Numbers
  BY <1>3, NumbersClosed
<1> QED BY <1>1, <1>2, <1>4, NumberParts DEF scale_value

\* The nearer to the ideal, the higher the score.
LEMMA ScalingIsMonotonic ==
  ASSUME NEW metric, NEW p \in Numbers, NEW q \in Numbers,
         \/ ideal_value(metric) = Zero /\ AtMost(q, p)
         \/ ideal_value(metric) = One /\ AtMost(p, q)
         \/ ideal_value(metric) = One /\ HasUpperBound(metric) /\ AtMost(p, Zero)
  PROVE  AtMost(scale_value(metric, p), scale_value(metric, q))
<1>0. /\ Zero \in Numbers /\ One \in Numbers
      /\ scale_value(metric, p) \in Upto(1) /\ scale_value(metric, q) \in Upto(1)
  BY Units, ScalesToUnit
<1>1. CASE ideal_value(metric) = Zero /\ AtMost(q, p)
  <2> DEFINE a == Times(Whole(-1), p)
             b == Times(Whole(-1), q)
             c == Add(a, One)
             d == Add(b, One)
  <2>1. a \in Numbers /\ b \in Numbers
    BY Units, NumbersClosed
  <2>2. AtMost(a, b)
    <3>1. 0 \in Nat
      OBVIOUS
    <3> QED BY <1>1, <3>1, WeighingIsMonotonic
  <2>3. AtMost(One, One)
    BY Units
  <2>4. /\ c \in Numbers /\ scale_value(metric, p) = Greater(Smaller(c, One), Zero)
        /\ d \in Numbers /\ scale_value(metric, q) = Greater(Smaller(d, One), Zero)
    BY <1>1, ScaledDown
  <2>5. AtMost(c, d)
    <3> HIDE DEF a, b
    <3> QED BY <1>0, <2>1, <2>2, <2>3, AddIsMonotonic
  <2> HIDE DEF a, b, c, d
  <2>6. AtMost(Smaller(c, One), Smaller(d, One))
        /\ Smaller(c, One) \in Numbers /\ Smaller(d, One) \in Numbers
    BY <2>4, <2>5, ClippingIsMonotonic, TotalOrder
  <2> QED BY <2>4, <2>6, ClippingIsMonotonic
<1>2. ASSUME ideal_value(metric) = One, NEW x \in Numbers, NEW y \in Numbers, AtMost(x, y)
      PROVE  AtMost(scale_value(metric, x), scale_value(metric, y))
  <2>1. scale_value(metric, x) \in Upto(1)
    BY ScalesToUnit
  <2>2. CASE ~HasUpperBound(metric) /\ ~AtMost(y, One)
    <3>1. Slope(metric, y) = Zero
      BY <1>2, <2>2, Units DEF Slope
    <3>2. Times(Zero, y) = Zero
      <4> DEFINE u == y.den
                 z == y.num
      <4>1. u \in Nat \ {0} /\ z \in Int
        BY NumberParts
      <4>2. Times(Zero, y) = Ratio(0 * z, 1 * u)
        BY Wholes DEF Times, Zero
      <4> HIDE DEF u, z
      <4>3. 0 * z = 0 /\ 1 * u = u
        BY <4>1
      <4> QED BY <4>1, <4>2, <4>3, WholeRatios
    <3>3. scale_value(metric, y) = One
      BY <1>2, <2>2, <3>1, <3>2, Units, NumberParts DEF scale_value
    <3> QED BY <2>1, <3>3, UnitsAreBounds
  <2>3. CASE HasUpperBound(metric) \/ AtMost(y, One)
    <3> DEFINE a == Times(One, x)
               b == Times(One, y)
               c == Add(a, Zero)
               d == Add(b, Zero)
    <3>1. a \in Numbers /\ b \in Numbers
      BY Units, NumbersClosed
    <3>2. AtMost(a, b)
      <4>1. 0 \in Nat
        OBVIOUS
      <4> QED BY <1>2, <4>1, WeighingIsMonotonic
    <3>3. AtMost(Zero, Zero)
      BY <1>0, TotalOrder
    <3>4. HasUpperBound(metric) \/ AtMost(x, One)
      BY <1>0, <1>2, <2>3, TotalOrder
    <3>5. /\ c \in Numbers /\ d \in Numbers
          /\ scale_value(metric, x) =
               Greater(IF HasUpperBound(metric) THEN Smaller(c, One) ELSE c, Zero)
          /\ scale_value(metric, y) =
               Greater(IF HasUpperBound(metric) THEN Smaller(d, One) ELSE d, Zero)
      BY <1>2, <2>3, <3>4, ScaledUp
    <3>6. AtMost(c, d)
      <4> HIDE DEF a, b
      <4> QED BY <1>0, <3>1, <3>2, <3>3, AddIsMonotonic
    <3> HIDE DEF a, b, c, d
    <3>7. AtMost(Smaller(c, One), Smaller(d, One))
          /\ Smaller(c, One) \in Numbers /\ Smaller(d, One) \in Numbers
      BY <3>5, <3>6, ClippingIsMonotonic, TotalOrder
    <3> QED BY <3>5, <3>6, <3>7, ClippingIsMonotonic
  <2> QED BY <2>2, <2>3
<1>3. CASE ideal_value(metric) = One /\ AtMost(p, q)
  BY <1>2, <1>3
<1>4. CASE ideal_value(metric) = One /\ HasUpperBound(metric) /\ AtMost(p, Zero)
  <2>1. AtMost(scale_value(metric, p), scale_value(metric, Zero))
    BY <1>0, <1>2, <1>4
  <2>2. scale_value(metric, Zero) = Zero
    <3>1. scale_value(metric, Zero) = Greater(Smaller(Add(Times(One, Zero), Zero), One), Zero)
      BY <1>0, <1>4, ScaledUp
    <3>2. Times(One, Zero) = Zero
      <4>1. Times(Whole(1), Whole(0)) = Whole(1 * 0) /\ 1 * 0 = 0
        BY AddWholes
      <4> QED BY <4>1 DEF One, Zero
    <3>3. AtMost(Zero, One) /\ AtMost(Zero, Zero)
      BY <1>0, Units, UnitsAreBounds, TotalOrder
    <3> QED BY <3>1, <3>2, <3>3, Units DEF Smaller, Greater
  <2>3. AtMost(Zero, scale_value(metric, q)) /\ scale_value(metric, q) \in Numbers
        /\ scale_value(metric, p) \in Numbers
    BY <1>0, UnitsAreBounds
  <2> QED BY <1>0, <2>1, <2>2, <2>3, TotalOrder
<1> QED BY <1>1, <1>3, <1>4
-----------------------------------------------------------------------------
(* A hit less, a miss more *)

LosesHit(t, u) == /\ t.hits = u.hits + 1 /\ u.misses = t.misses + 1
                  /\ u.threshold = t.threshold
                  /\ u.false_positives = t.false_positives
                  /\ u.true_negatives = t.true_negatives

\* The value p of a metric is no better than q.
NoBetter(metric, p, q) ==
    \/ ideal_value(metric) = Zero /\ AtMost(q, p)
    \/ ideal_value(metric) = One /\ AtMost(p, q)
    \/ ideal_value(metric) = One /\ HasUpperBound(metric) /\ AtMost(p, Zero)

LEMMA RatiosCompare ==
  ASSUME NEW a \in Int, NEW b \in Nat \ {0}, NEW c \in Int, NEW d \in Nat \ {0},
         a * d <= c * b
  PROVE  AtMost(Ratio(a, b), Ratio(c, d))
<1>1. IsRatio(Ratio(a, b), a, b) /\ IsRatio(Ratio(c, d), c, d)
  BY RatioIsRatio
<1> QED BY <1>1, Compare

LEMMA DifferenceOfRatios ==
  ASSUME NEW p, NEW q, NEW a \in Int, NEW c \in Int, NEW b \in Nat \ {0},
         IsRatio(p, a, b), IsRatio(q, c, b)
  PROVE  IsRatio(Subtract(p, q), a - c, b)
<1> DEFINE x == p.num
           u == p.den
           y == q.num
           v == q.den
           r == Subtract(p, q)
           z == r.num
           w == r.den
<1>1. /\ x \in Int /\ u \in Nat \ {0} /\ y \in Int /\ v \in Nat \ {0}
      /\ x * b = a * u /\ y * b = c * v
  BY NumberParts DEF IsRatio
<1>2. r \in Numbers /\ z \in Int /\ w \in Nat \ {0}
  BY NumbersClosed, NumberParts DEF IsRatio
<1>3. r = Ratio(x * v - y * u, u * v)
  BY DEF Subtract
<1> HIDE DEF r, x, u, y, v
<1>4. x * v - y * u \in Int /\ u * v \in Int /\ u * v # 0
  BY <1>1
<1>5. z * (u * v) = (x * v - y * u) * w
  BY <1>3, <1>4, RatioIs
<1> HIDE DEF z, w
<1>6. (z * (u * v)) * b = ((x * v - y * u) * w) * b
  BY <1>5
<1>7. ((x * v - y * u) * w) * b = ((x * b) * v - (y * b) * u) * w
  BY <1>1, <1>2
<1>8. ((a * u) * v - (c * v) * u) * w = ((a - c) * w) * (u * v)
  BY <1>1, <1>2
<1>9. (z * (u * v)) * b = (z * b) * (u * v)
  BY <1>1, <1>2
<1>10. (z * b) * (u * v) = ((a - c) * w) * (u * v)
  BY <1>1, <1>6, <1>7, <1>8, <1>9
<1> DEFINE e == z * b
           g == (a - c) * w
           h == u * v
<1>11. e \in Int /\ g \in Int /\ h \in Nat \ {0} /\ e * h = g * h
  BY <1>1, <1>2, <1>10
<1> HIDE DEF e, g, h
<1>12. e = g
  BY <1>11, CancelsLeft
<1>13. IsRatio(r, a - c, b)
  BY <1>2, <1>12 DEF IsRatio, e, g, z, w
<1> QED BY <1>13 DEF r

LEMMA QuotientOfRatios ==
  ASSUME NEW p, NEW q, NEW a \in Int, NEW b \in Nat \ {0}, NEW c \in Nat \ {0},
         IsRatio(p, a, b), IsRatio(q, c, b)
  PROVE  IsRatio(Over(p, q), a, c)
<1> DEFINE x == p.num
           u == p.den
           y == q.num
           v == q.den
           r == Over(p, q)
           z == r.num
           w == r.den
<1>1. /\ x \in Int /\ u \in Nat \ {0} /\ y \in Int /\ v \in Nat \ {0}
      /\ x * b = a * u /\ y * b = c * v /\ ~IsNaN(q)
  BY NumberParts DEF IsRatio
<1>2. r = Ratio(x * v, u * y)
  BY <1>1 DEF Over
<1> HIDE DEF x, u, y, v
<1>3. y # 0
  <2>1. c * v # 0
    BY <1>1
  <2> QED BY <1>1, <2>1
<1>4. x * v \in Int /\ u * y \in Int /\ u * y # 0
  BY <1>1, <1>3
<1>5. r \in Numbers /\ z * (u * y) = (x * v) * w
  BY <1>2, <1>4, RatioIs
<1>6. z \in Int /\ w \in Nat \ {0}
  BY <1>5, NumberParts
<1> HIDE DEF r, z, w
<1>7. (z * (u * y)) * b = ((x * v) * w) * b
  BY <1>5
<1>8. (z * (u * y)) * b = (z * u) * (y * b) /\ ((x * v) * w) * b = (x * b) * (v * w)
  BY <1>1, <1>6
<1>9. (z * u) * (c * v) = (z * c) * (u * v) /\ (a * u) * (v * w) = (a * w) * (u * v)
  BY <1>1, <1>6
<1>10. (z * c) * (u * v) = (a * w) * (u * v)
  BY <1>1, <1>7, <1>8, <1>9
<1> DEFINE e == z * c
           g == a * w
           h == u * v
<1>11. e \in Int /\ g \in Int /\ h \in Nat \ {0} /\ e * h = g * h
  BY <1>1, <1>6, <1>10
<1> HIDE DEF e, g, h
<1>12. e = g
  BY <1>11, CancelsLeft
<1>13. IsRatio(r, a, c)
  BY <1>5, <1>12 DEF IsRatio, e, g, z, w
<1> QED BY <1>13 DEF r

\* The threat score in whole numbers.
LEMMA ThreatScore ==
  ASSUME NEW h \in Nat, NEW m \in Nat, NEW f \in Nat, NEW n \in Nat, h + m + f # 0,
         NEW t \in TruthTablesOf, t.hits = h, t.misses = m, t.false_positives = f,
         t.true_negatives = n, equitable_threat_score(t) \in Numbers
  PROVE  LET a == h * (h + m + f + n) - (h + m) * (h + f)
             b == (h + m + f) * (h + m + f + n) - (h + m) * (h + f)
         IN  b \in Nat \ {0} /\ a \in Int /\ IsRatio(equitable_threat_score(t), a, b)
<1> DEFINE N == h + m + f + n
           c == (h + m) * (h + f)
           random == Ratio(c, N)
           top == Subtract(Whole(h), random)
           bottom == Subtract(Whole(h + m + f), random)
           a == h * N - c
           b == (h + m + f) * N - c
<1>1. /\ observed_positives(t) = h + m /\ predicted_positives(t) = h + f /\ size(t) = N
  BY DEF observed_positives, predicted_positives, size, observed_negatives
<1>2. equitable_threat_score(t) = IF Zero \in {top, bottom} THEN NaN ELSE Over(top, bottom)
  BY <1>1 DEF equitable_threat_score
<1>3. N \in Nat \ {0} /\ c \in Int /\ a \in Int /\ b \in Int
  OBVIOUS
<1>4. b >= 0
  <2>1. (h + m) * (h + f) <= (h + m) * N
    OBVIOUS
  <2>2. (h + m) * N <= (h + m + f) * N
    OBVIOUS
  <2> DEFINE x == (h + m) * N
             y == (h + m + f) * N
  <2>3. x \in Int /\ y \in Int /\ c <= x /\ x <= y /\ b = y - c
    BY <2>1, <2>2
  <2> HIDE DEF x, y, b, c
  <2> QED BY <1>3, <2>3
<1> HIDE DEF random
<1>5. IsRatio(random, c, N)
  BY <1>3, RatioIsRatio DEF random
<1>6. IsRatio(Whole(h), h * N, N) /\ IsRatio(Whole(h + m + f), (h + m + f) * N, N)
  BY <1>3, WholeIsRatio
<1>7. IsRatio(top, a, N)
  <2>1. h * N \in Int
    OBVIOUS
  <2> HIDE DEF c, N
  <2> QED BY <1>3, <1>5, <1>6, <2>1, DifferenceOfRatios
<1>8. IsRatio(bottom, b, N)
  <2>1. (h + m + f) * N \in Int
    OBVIOUS
  <2> HIDE DEF c, N
  <2> QED BY <1>3, <1>5, <1>6, <2>1, DifferenceOfRatios
<1> HIDE DEF top, bottom, a, b, N
<1>9. Zero \notin {top, bottom} /\ Over(top, bottom) \in Numbers
  BY <1>2, NumberParts DEF IsNaN, NaN
<1>10. b # 0
  <2> SUFFICES ASSUME b = 0 PROVE FALSE
    OBVIOUS
  <2> DEFINE y == bottom.num
             v == bottom.den
             u == top.den
             x == top.num
  <2>1. y \in Int /\ v \in Nat \ {0} /\ y * N = 0 * v /\ u \in Nat \ {0} /\ x \in Int
        /\ ~IsNaN(bottom)
    BY <1>7, <1>8, NumberParts DEF IsRatio
  <2>2. Over(top, bottom) = Ratio(x * v, u * y)
    BY <2>1 DEF Over
  <2> HIDE DEF x, y, u, v
  <2>3. y = 0
    <3>1. y * N = 0 * N
      BY <1>3, <2>1
    <3>2. 0 \in Int
      OBVIOUS
    <3> QED BY <1>3, <2>1, <3>1, <3>2, CancelsLeft
  <2>4. u * y = 0
    BY <2>1, <2>3
  <2>5. Over(top, bottom) = NaN
    BY <2>2, <2>4 DEF Ratio
  <2> QED BY <1>9, <2>5, NumberParts DEF IsNaN, NaN
<1>11. b \in Nat \ {0}
  BY <1>3, <1>4, <1>10
<1>12. IsRatio(Over(top, bottom), a, b)
  BY <1>3, <1>7, <1>8, <1>11, QuotientOfRatios
<1>13. equitable_threat_score(t) = Over(top, bottom)
  BY <1>2, <1>9
<1> HIDE DEF c
<1> QED BY <1>3, <1>11, <1>12, <1>13 DEF a, b, N, c

LEMMA LowerThreat ==
  ASSUME NEW T \in Int, NEW B \in Nat, NEW S \in Int, NEW P \in Nat, S <= T, S >= 0
  PROVE  S * B <= T * (B + P)
<1>1. S * B <= T * B
  OBVIOUS
<1>2. T * (B + P) = T * B + T * P /\ T * P >= 0
  OBVIOUS
<1> DEFINE a == S * B
           b == T * B
           c == T * P
<1>3. a \in Int /\ b \in Int /\ c \in Int /\ a <= b /\ c >= 0
  BY <1>1, <1>2
<1> HIDE DEF a, b, c
<1>4. a <= b + c
  BY <1>3
<1> QED BY <1>2, <1>4 DEF a, b, c

LEMMA LowerSkill ==
  ASSUME NEW S \in Int, NEW D \in Nat, NEW P \in Nat, NEW R \in Nat, S <= D, S >= 0
  PROVE  (S - 2 * R) * D <= S * (D + P - R)
<1> DEFINE a == S * D
           b == R * D
           c == S * P
           d == S * R
<1>1. a \in Int /\ b \in Int /\ c \in Int /\ d \in Int /\ b >= 0 /\ c >= 0
  OBVIOUS
<1>2. d <= b
  OBVIOUS
<1>3. (S - 2 * R) * D = a - 2 * b /\ S * (D + P - R) = a + c - d
  OBVIOUS
<1> HIDE DEF a, b, c, d
<1>4. a - 2 * b <= a + c - d
  BY <1>1, <1>2
<1> QED BY <1>3, <1>4

LEMMA ThreatTerms ==
  ASSUME NEW k \in Nat, NEW m \in Nat, NEW f \in Nat, NEW n \in Nat
  PROVE  LET h == k + 1
             N == h + m + f + n
             P == h + m
             T == h * N - (h + m) * (h + f)
             B == (h + m + f) * N - (h + m) * (h + f)
             N1 == k + (m + 1) + f + n
         IN  /\ k * N1 - (k + (m + 1)) * (k + f) = T - N + P
             /\ (k + (m + 1) + f) * N1 - (k + (m + 1)) * (k + f) = B + P
<1> DEFINE h == k + 1
           N == h + m + f + n
           P == h + m
           Q == k + f
<1>1. k + (m + 1) + f + n = N /\ k + (m + 1) = P /\ h + f = Q + 1
      /\ P \in Nat /\ Q \in Nat /\ N \in Nat
  OBVIOUS
<1>2. h * N = k * N + N
  OBVIOUS
<1> HIDE DEF N, P, Q
<1>3. P * (Q + 1) = P * Q + P
  BY <1>1
<1>4. (k + (m + 1) + f) = P + f /\ h + m + f = P + f /\ h + m = P
  BY <1>1 DEF P
<1> DEFINE a == k * N
           b == P * Q
           c == (P + f) * N
<1>5. a \in Int /\ b \in Int /\ c \in Int
  BY <1>1
<1> HIDE DEF a, b, c
<1>6. a - b = (a + N) - (b + P) - N + P /\ c - b = c - (b + P) + P
  BY <1>1, <1>5
<1>7. /\ h * N - (h + m) * (h + f) = (a + N) - (b + P)
      /\ (h + m + f) * N - (h + m) * (h + f) = c - (b + P)
      /\ k * (k + (m + 1) + f + n) - (k + (m + 1)) * (k + f) = a - b
      /\ (k + (m + 1) + f) * (k + (m + 1) + f + n) - (k + (m + 1)) * (k + f) = c - b
  BY <1>1, <1>2, <1>3, <1>4 DEF a, b, c, Q
<1> QED BY <1>6, <1>7 DEF N, P

LEMMA SkillWithHitLost ==
  ASSUME NEW k \in Nat, NEW m \in Nat, NEW f \in Nat, NEW n \in Nat
  PROVE  LET h == k + 1
             R == f + n
             P == h + m
             S == 2 * (h * n - m * f)
             D == (h + m) * (m + n) + (h + f) * (f + n)
         IN  /\ 2 * (k * n - (m + 1) * f) = S - 2 * R
             /\ (k + (m + 1)) * ((m + 1) + n) + (k + f) * (f + n) = D + P - R
             /\ S <= D
<1> DEFINE h == k + 1
           R == f + n
           P == h + m
           S == 2 * (h * n - m * f)
           D == (h + m) * (m + n) + (h + f) * (f + n)
<1>1. 2 * (k * n - (m + 1) * f) = S - 2 * R
  <2>1. h * n = k * n + n /\ (m + 1) * f = m * f + f
    OBVIOUS
  <2> DEFINE a == k * n
             b == m * f
  <2>2. a \in Int /\ b \in Int
    OBVIOUS
  <2> HIDE DEF a, b
  <2>3. 2 * (a - (b + f)) = 2 * ((a + n) - b) - 2 * (f + n)
    BY <2>2
  <2> QED BY <2>1, <2>3 DEF a, b
<1>2. (k + (m + 1)) * ((m + 1) + n) + (k + f) * (f + n) = D + P - R
  <2>1. k + (m + 1) = P /\ h + f = (k + f) + 1 /\ h + m = P
    OBVIOUS
  <2>2. P \in Nat /\ k + f \in Nat /\ R \in Nat
    OBVIOUS
  <2> HIDE DEF P, R
  <2>3. P * ((m + 1) + n) = P * (m + n) + P
    BY <2>2
  <2>4. ((k + f) + 1) * R = (k + f) * R + R
    BY <2>2
  <2> DEFINE a == P * (m + n)
             b == (k + f) * R
  <2>5. a \in Int /\ b \in Int
    BY <2>2
  <2> HIDE DEF a, b
  <2>6. (a + P) + b = a + (b + R) + P - R
    BY <2>2, <2>5
  <2>7. D = a + (b + R)
    BY <2>1, <2>4 DEF a, b, R
  <2>8. (k + (m + 1)) * ((m + 1) + n) + (k + f) * (f + n) = (a + P) + b
    BY <2>1, <2>3 DEF a, b, R
  <2> HIDE DEF D
  <2> QED BY <2>6, <2>7, <2>8
<1>3. S <= D
  <2>1. (h + m) * (m + n) >= h * n
    <3>1. (h + m) * (m + n) = h * n + (h * m + m * m + m * n)
      OBVIOUS
    <3>2. h * m >= 0 /\ m * m >= 0 /\ m * n >= 0
      OBVIOUS
    <3> DEFINE a == h * m
               b == m * m
               c == m * n
               d == h * n
    <3>3. a \in Int /\ b \in Int /\ c \in Int /\ d \in Int /\ a >= 0 /\ b >= 0 /\ c >= 0
      BY <3>2
    <3> HIDE DEF a, b, c, d
    <3>4. d + (a + b + c) >= d
      BY <3>3
    <3> QED BY <3>1, <3>4 DEF a, b, c, d
  <2>2. (h + f) * (f + n) >= h * n
    <3>1. (h + f) * (f + n) = h * n + (h * f + f * f + f * n)
      OBVIOUS
    <3>2. h * f >= 0 /\ f * f >= 0 /\ f * n >= 0
      OBVIOUS
    <3> DEFINE a == h * f
               b == f * f
               c == f * n
               d == h * n
    <3>3. a \in Int /\ b \in Int /\ c \in Int /\ d \in Int /\ a >= 0 /\ b >= 0 /\ c >= 0
      BY <3>2
    <3> HIDE DEF a, b, c, d
    <3>4. d + (a + b + c) >= d
      BY <3>3
    <3> QED BY <3>1, <3>4 DEF a, b, c, d
  <2> DEFINE x == (h + m) * (m + n)
             y == (h + f) * (f + n)
             a == h * n
             b == m * f
  <2>3. x \in Int /\ y \in Int /\ a \in Int /\ b \in Int /\ b >= 0 /\ x >= a /\ y >= a
    BY <2>1, <2>2
  <2> HIDE DEF x, y, a, b
  <2>4. 2 * (a - b) <= x + y
    BY <2>3
  <2> QED BY <2>4 DEF x, y, a, b
<1> QED BY <1>1, <1>2, <1>3

LEMMA RemainderCross ==
  ASSUME NEW k \in Nat, NEW f \in Nat
  PROVE  /\ f * (k + f) <= f * (k + 1 + f)
         /\ k * (k + 1 + f) <= (k + 1) * (k + f)
         /\ \A b \in Nat, a \in Nat : a * b <= (a + 1) * b
<1>1. k * (k + 1 + f) = k * (k + f) + k /\ (k + 1) * (k + f) = k * (k + f) + (k + f)
  OBVIOUS
<1>2. f * (k + 1 + f) = f * (k + f) + f
  OBVIOUS
<1> DEFINE a == k * (k + f)
           b == f * (k + f)
<1>3. a \in Int /\ b \in Int
  OBVIOUS
<1> HIDE DEF a, b
<1>4. b <= b + f /\ a + k <= a + (k + f)
  BY <1>3
<1>5. \A x \in Nat, y \in Nat : x * y <= (x + 1) * y
  OBVIOUS
<1> QED BY <1>1, <1>2, <1>4, <1>5 DEF a, b

\* No metric that is a number finds a table better for the hit it lost.
LEMMA LostHitIsWorse ==
  ASSUME NEW metric \in Metrics, NEW t \in TruthTablesOf, NEW u \in TruthTablesOf,
         LosesHit(t, u), Value(metric, t) \in Numbers, Value(metric, u) \in Numbers
  PROVE  NoBetter(metric, Value(metric, u), Value(metric, t))
<1> DEFINE k == u.hits
           m == t.misses
           f == t.false_positives
           n == t.true_negatives
<1>1. /\ k \in Nat /\ m \in Nat /\ f \in Nat /\ n \in Nat
      /\ t.hits = k + 1 /\ u.misses = m + 1 /\ u.false_positives = f /\ u.true_negatives = n
  BY TableTypes DEF LosesHit
<1> HIDE DEF k, m, f, n
<1>2. /\ observed_positives(t) = k + 1 + m /\ observed_positives(u) = k + (m + 1)
      /\ predicted_positives(t) = k + 1 + f /\ predicted_positives(u) = k + f
      /\ observed_negatives(t) = f + n /\ observed_negatives(u) = f + n
      /\ predicted_negatives(t) = m + n /\ predicted_negatives(u) = (m + 1) + n
      /\ size(t) = (k + 1 + m) + (f + n) /\ size(u) = (k + (m + 1)) + (f + n)
  BY <1>1 DEF observed_positives, observed_negatives, predicted_positives,
         predicted_negatives, size, k, m, f, n
<1>3. is_useful(t) /\ is_useful(u)
  BY NumberParts DEF Value, NaN, IsNaN
<1>4. k + (m + 1) = k + 1 + m
  BY <1>1
<1>5. AtMost(Value(metric, t), Value(metric, t))
  BY TotalOrder
<1>6. \A b \in Nat, a \in Nat : a * b <= (a + 1) * b
  BY <1>1, RemainderCross
<1>7. ASSUME NEW a \in Nat, NEW b \in Nat \ {0} PROVE AtMost(Ratio(a, b), Ratio(a + 1, b))
  BY <1>6, RatiosCompare
<1>8. CASE metric = "probability_of_detection"
  <2>1. Value(metric, t) = Ratio(k + 1, k + 1 + m) /\ Value(metric, u) = Ratio(k, k + 1 + m)
    BY <1>1, <1>2, <1>3, <1>4, <1>8 DEF Value, probability_of_detection, RatioOr, k
  <2>2. k + 1 + m \in Nat \ {0} /\ ideal_value(metric) = One
    BY <1>1, <1>8 DEF ideal_value
  <2> QED BY <1>1, <1>7, <2>1, <2>2 DEF NoBetter
<1>9. CASE metric = "false_alarm_ratio"
  <2>0. ideal_value(metric) = Zero
    BY <1>9 DEF ideal_value
  <2>1. Value(metric, t) = Ratio(f, k + 1 + f) /\ Value(metric, u) = RatioOr(f, k + f, Zero)
    BY <1>1, <1>2, <1>3, <1>9 DEF Value, false_alarm_ratio, RatioOr, f
  <2>2. CASE k + f = 0
    <3>1. f = 0 /\ k + 1 + f # 0 /\ k + 1 + f \in Int
      BY <1>1, <2>2
    <3>2. Value(metric, t) = Zero /\ Value(metric, u) = Zero
      BY <2>1, <2>2, <3>1, WholeRatios DEF RatioOr
    <3> QED BY <1>5, <2>0, <3>2 DEF NoBetter
  <2>3. CASE k + f # 0
    <3>1. f * (k + f) <= f * (k + 1 + f)
      BY <1>1, RemainderCross
    <3>2. f \in Int /\ k + f \in Nat \ {0} /\ k + 1 + f \in Nat \ {0}
      BY <1>1, <2>3
    <3>3. AtMost(Ratio(f, k + 1 + f), Ratio(f, k + f))
      BY <3>1, <3>2, RatiosCompare
    <3> QED BY <2>0, <2>1, <2>3, <3>3 DEF NoBetter, RatioOr
  <2> QED BY <2>2, <2>3
<1>10. CASE metric = "probability_of_false_detection"
  <2>1. Value(metric, t) = Value(metric, u)
    BY <1>1, <1>2, <1>3, <1>10 DEF Value, probability_of_false_detection, f
  <2> QED BY <1>5, <2>1, Ideals DEF NoBetter
<1>11. CASE metric = "frequency_bias"
  <2>1. Value(metric, t) = Ratio(k + 1 + f, k + 1 + m) /\ Value(metric, u) = Ratio(k + f, k + 1 + m)
    BY <1>1, <1>2, <1>3, <1>4, <1>11 DEF Value, frequency_bias, RatioOr
  <2>2. /\ k + 1 + m \in Nat \ {0} /\ k + f \in Nat /\ k + 1 + f = (k + f) + 1
        /\ ideal_value(metric) = One
    BY <1>1, <1>11 DEF ideal_value
  <2> QED BY <1>7, <2>1, <2>2 DEF NoBetter
<1>12. CASE metric = "critical_success_index"
  <2>1. Value(metric, t) = Ratio(k + 1, k + 1 + m + f) /\ Value(metric, u) = Ratio(k, k + 1 + m + f)
    BY <1>1, <1>2, <1>3, <1>4, <1>12 DEF Value, critical_success_index, RatioOr, k, m, f
  <2>2. k + 1 + m + f \in Nat \ {0} /\ ideal_value(metric) = One
    BY <1>1, <1>12 DEF ideal_value
  <2> QED BY <1>1, <1>7, <2>1, <2>2 DEF NoBetter
<1>13. CASE metric = "accuracy"
  <2>1. Value(metric, t) = Ratio(k + 1 + n, (k + 1 + m) + (f + n))
        /\ Value(metric, u) = Ratio(k + n, (k + 1 + m) + (f + n))
    BY <1>1, <1>2, <1>3, <1>4, <1>13 DEF Value, accuracy, RatioOr, k, n
  <2>2. /\ (k + 1 + m) + (f + n) \in Nat \ {0} /\ k + n \in Nat /\ k + 1 + n = (k + n) + 1
        /\ ideal_value(metric) = One
    BY <1>1, <1>13 DEF ideal_value
  <2> QED BY <1>7, <2>1, <2>2 DEF NoBetter
<1>14. CASE metric = "equitable_threat_score"
  <2> DEFINE h == k + 1
             N == h + m + f + n
             P == h + m
             T == h * N - (h + m) * (h + f)
             B == (h + m + f) * N - (h + m) * (h + f)
             T1 == k * (k + (m + 1) + f + n) - (k + (m + 1)) * (k + f)
             B1 == (k + (m + 1) + f) * (k + (m + 1) + f + n) - (k + (m + 1)) * (k + f)
             p == Value(metric, u)
             q == Value(metric, t)
  <2>1. q = equitable_threat_score(t) /\ p = equitable_threat_score(u)
    BY <1>3, <1>14 DEF Value
  <2>2. ideal_value(metric) = One /\ HasUpperBound(metric)
    BY <1>14 DEF ideal_value, HasUpperBound
  <2>3. h \in Nat /\ h + m + f # 0 /\ m + 1 \in Nat /\ k + (m + 1) + f # 0
    BY <1>1
  <2>4. t.hits = h /\ t.misses = m /\ t.false_positives = f /\ t.true_negatives = n
        /\ u.hits = k /\ u.misses = m + 1 /\ u.false_positives = f /\ u.true_negatives = n
    BY <1>1 DEF k, m, f, n
  <2> HIDE DEF h
  <2>5. B \in Nat \ {0} /\ T \in Int /\ IsRatio(q, T, B)
    BY <1>1, <2>1, <2>3, <2>4, ThreatScore
  <2>6. B1 \in Nat \ {0} /\ T1 \in Int /\ IsRatio(p, T1, B1)
    <3>1. equitable_threat_score(u) \in Numbers
      BY <2>1
    <3>2. m + 1 \in Nat /\ k + (m + 1) + f # 0
      BY <1>1, <2>3
    <3>3. p = equitable_threat_score(u)
      BY <2>1
    <3> HIDE DEF p
    <3> DEFINE mm == m + 1
    <3>4. mm \in Nat /\ u.misses = mm /\ k + mm + f # 0
      BY <2>4, <3>2
    <3> HIDE DEF mm
    <3>5. /\ (k + mm + f) * (k + mm + f + n) - (k + mm) * (k + f) \in Nat \ {0}
          /\ k * (k + mm + f + n) - (k + mm) * (k + f) \in Int
          /\ IsRatio(equitable_threat_score(u), k * (k + mm + f + n) - (k + mm) * (k + f),
                (k + mm + f) * (k + mm + f + n) - (k + mm) * (k + f))
      BY <1>1, <2>4, <3>1, <3>4, ThreatScore
    <3> QED BY <3>3, <3>5 DEF mm
  <2>7. T1 = T - N + P /\ B1 = B + P
    BY <1>1, ThreatTerms DEF h
  <2>8. P \in Nat /\ N \in Nat /\ P <= N
    BY <1>1 DEF h
  <2> HIDE DEF T, B, T1, B1, P, N, p, q
  <2>9. CASE T1 <= 0
    <3>1. IsRatio(Zero, 0, 1)
      BY Wholes DEF IsRatio, Zero
    <3>2. T1 * 1 <= 0 * B1
      BY <2>6, <2>9
    <3>3. AtMost(p, Zero)
      BY <2>6, <3>1, <3>2, Compare
    <3> QED BY <2>2, <3>3 DEF NoBetter, p
  <2>10. CASE ~(T1 <= 0)
    <3>1. T1 <= T /\ T1 >= 0
      BY <2>5, <2>6, <2>7, <2>8, <2>10
    <3>2. T1 * B <= T * B1
      BY <2>5, <2>6, <2>7, <2>8, <3>1, LowerThreat
    <3>3. AtMost(p, q)
      BY <2>5, <2>6, <3>2, Compare
    <3> QED BY <2>2, <3>3 DEF NoBetter, p, q
  <2> QED BY <2>9, <2>10
<1>15. CASE metric = "general_skill"
  <2> DEFINE h == k + 1
             R == f + n
             P == h + m
             S == 2 * (h * n - m * f)
             D == (h + m) * (m + n) + (h + f) * (f + n)
             S1 == 2 * (k * n - (m + 1) * f)
             D1 == (k + (m + 1)) * ((m + 1) + n) + (k + f) * (f + n)
             p == Value(metric, u)
             q == Value(metric, t)
  <2>1. q = RatioOr(S, D, NaN) /\ p = RatioOr(S1, D1, NaN)
    BY <1>1, <1>2, <1>3, <1>15 DEF Value, general_skill, k, m, f, n
  <2>2. ideal_value(metric) = One /\ HasUpperBound(metric)
    BY <1>15 DEF ideal_value, HasUpperBound
  <2>3. S \in Int /\ D \in Nat /\ S1 \in Int /\ D1 \in Nat
    BY <1>1
  <2>4. S1 = S - 2 * R /\ D1 = D + P - R /\ S <= D
    BY <1>1, SkillWithHitLost
  <2>5. P \in Nat /\ R \in Nat
    BY <1>1
  <2> HIDE DEF S, D, S1, D1, P, R, p, q
  <2>6. D # 0 /\ D1 # 0
    <3>1. p # NaN /\ q # NaN
      BY NumberParts DEF p, q, IsNaN, NaN
    <3> QED BY <2>1, <3>1 DEF RatioOr
  <2>7. q = Ratio(S, D) /\ p = Ratio(S1, D1)
    BY <2>1, <2>6 DEF RatioOr
  <2>8. IsRatio(q, S, D) /\ IsRatio(p, S1, D1)
    BY <2>3, <2>6, <2>7, RatioIsRatio
  <2>9. CASE S1 <= 0
    <3>1. IsRatio(Zero, 0, 1)
      BY Wholes DEF IsRatio, Zero
    <3>2. S1 * 1 <= 0 * D1
      BY <2>3, <2>9
    <3>3. AtMost(p, Zero)
      BY <2>3, <2>6, <2>8, <3>1, <3>2, Compare
    <3> QED BY <2>2, <3>3 DEF NoBetter, p
  <2>10. CASE ~(S1 <= 0)
    <3>1. S >= 0
      BY <2>3, <2>4, <2>5, <2>10
    <3>2. (S - 2 * R) * D <= S * (D + P - R)
      BY <2>3, <2>4, <2>5, <3>1, LowerSkill
    <3>3. S1 * D <= S * D1
      BY <2>4, <3>2
    <3>4. AtMost(p, q)
      BY <2>3, <2>6, <2>8, <3>3, Compare
    <3> QED BY <2>2, <3>4 DEF NoBetter, p, q
  <2> QED BY <2>9, <2>10
<1>16. CASE metric = "precision"
  <2>0. ideal_value(metric) = One
    BY <1>16 DEF ideal_value
  <2>1. Value(metric, t) = Ratio(k + 1, k + 1 + f) /\ Value(metric, u) = RatioOr(k, k + f, One)
    BY <1>1, <1>2, <1>3, <1>16 DEF Value, precision, RatioOr, k
  <2>2. CASE k + f = 0
    <3>1. k + 1 + f = k + 1 /\ k + 1 # 0 /\ k + 1 \in Int
      BY <1>1, <2>2
    <3>2. Value(metric, t) = One /\ Value(metric, u) = One
      BY <2>1, <2>2, <3>1, WholeRatios DEF RatioOr
    <3> QED BY <1>5, <2>0, <3>2 DEF NoBetter
  <2>3. CASE k + f # 0
    <3>1. k * (k + 1 + f) <= (k + 1) * (k + f)
      BY <1>1, RemainderCross
    <3>2. k \in Int /\ k + 1 \in Int /\ k + f \in Nat \ {0} /\ k + 1 + f \in Nat \ {0}
      BY <1>1, <2>3
    <3>3. AtMost(Ratio(k, k + f), Ratio(k + 1, k + 1 + f))
      BY <3>1, <3>2, RatiosCompare
    <3> QED BY <2>0, <2>1, <2>3, <3>3 DEF NoBetter, RatioOr
  <2> QED BY <2>2, <2>3
<1> QED BY <1>8, <1>9, <1>10, <1>11, <1>12, <1>13, <1>14, <1>15, <1>16 DEF Metrics
-----------------------------------------------------------------------------
(* A prediction that is lost *)

\* One that moves from y to z.
LEMMA SumMoves ==
  ASSUME NEW c, NEW d, NEW S, IsFiniteSet(S), NEW y, NEW z, y # z,
         \A x \in S : c[x] \in Nat /\ d[x] \in Nat,
         \A x \in S \ {y, z} : c[x] = d[x],
         y \in S => c[y] = d[y] + 1, z \in S => d[z] = c[z] + 1
  PROVE  SumOf(d, S) + (IF y \in S THEN 1 ELSE 0) = SumOf(c, S) + (IF z \in S THEN 1 ELSE 0)
<1> DEFINE R == S \ {y, z}
           W == S \ {y}
           a == SumOf(c, S)
           b == SumOf(d, S)
           e == SumOf(c, R)
<1>1. IsFiniteSet(R) /\ IsFiniteSet(W) /\ \A x \in R : c[x] = d[x]
  BY FS_Subset
<1>2. SumOf(c, R) = SumOf(d, R) /\ e \in Nat
  <2>1. \A x \in R : c[x] \in Nat
    OBVIOUS
  <2> HIDE DEF R
  <2> QED BY <1>1, <2>1, SumSame, SumType
<1>3. ASSUME y \in S PROVE a = c[y] + SumOf(c, W) /\ b = d[y] + SumOf(d, W)
  BY <1>3, SumWithout
<1>4. ASSUME y \notin S PROVE W = S
  BY <1>4
<1>5. ASSUME z \in S PROVE /\ SumOf(c, W) = c[z] + e /\ SumOf(d, W) = d[z] + SumOf(d, R)
  <2>1. z \in W /\ W \ {z} = R /\ \A x \in W : c[x] \in Nat /\ d[x] \in Nat
    BY <1>5
  <2> HIDE DEF W, R
  <2>2. SumOf(c, W) = c[z] + SumOf(c, W \ {z}) /\ SumOf(d, W) = d[z] + SumOf(d, W \ {z})
    BY <1>1, <2>1, SumWithout
  <2> QED BY <2>1, <2>2
<1>6. ASSUME z \notin S PROVE W = R
  BY <1>6
<1> DEFINE cy == c[y]
           dy == d[y]
           cz == c[z]
           dz == d[z]
<1>7. /\ y \in S => cy \in Nat /\ dy \in Nat /\ cy = dy + 1
      /\ z \in S => cz \in Nat /\ dz \in Nat /\ dz = cz + 1
  OBVIOUS
<1>8. CASE y \in S /\ z \in S
  <2>1. a = cy + (cz + e) /\ b = dy + (dz + e)
    BY <1>2, <1>3, <1>5, <1>8
  <2> HIDE DEF a, b, e, cy, dy, cz, dz
  <2>2. b + 1 = a + 1
    BY <1>2, <1>7, <1>8, <2>1
  <2> QED BY <1>8, <2>2 DEF a, b
<1>9. CASE y \in S /\ z \notin S
  <2>1. a = cy + e /\ b = dy + e
    BY <1>2, <1>3, <1>6, <1>9
  <2> HIDE DEF a, b, e, cy, dy, cz, dz
  <2>2. b + 1 = a + 0
    BY <1>2, <1>7, <1>9, <2>1
  <2> QED BY <1>9, <2>2 DEF a, b
<1>10. CASE y \notin S /\ z \in S
  <2>1. a = cz + e /\ b = dz + e
    BY <1>2, <1>4, <1>5, <1>10
  <2> HIDE DEF a, b, e, cy, dy, cz, dz
  <2>2. b + 0 = a + 1
    BY <1>2, <1>7, <1>10, <2>1
  <2> QED BY <1>10, <2>2 DEF a, b
<1>11. CASE y \notin S /\ z \notin S
  <2>1. a = e /\ b = e
    BY <1>2, <1>4, <1>6, <1>11
  <2> HIDE DEF a, b, e
  <2>2. b + 0 = a + 0
    BY <2>1
  <2> QED BY <1>11, <2>2 DEF a, b
<1> QED BY <1>8, <1>9, <1>10, <1>11

LEMMA LowestLevel ==
  ASSUME Levels # {}
  PROVE  Min(Levels) \in Levels /\ \A l \in Levels : Min(Levels) <= l
<1> DEFINE T == {n \in Nat : \A k \in 0 .. n : k \notin Levels}
<1>1. Levels \subseteq Nat
  BY ScoresAssumption
<1>2. PICK x \in Levels : \A y \in Levels : x <= y
  <2> SUFFICES ASSUME \A x \in Levels : \E y \in Levels : y < x PROVE FALSE
    BY <1>1
  <2>1. 0 \in T
    <3>1. 0 \notin Levels
      BY <1>1
    <3> QED BY <3>1
  <2>2. ASSUME NEW n \in Nat, n \in T PROVE n + 1 \in T
    <3>1. n + 1 \notin Levels
      <4> SUFFICES ASSUME n + 1 \in Levels PROVE FALSE
        OBVIOUS
      <4>1. PICK y \in Levels : y < n + 1
        OBVIOUS
      <4>2. y \in 0 .. n
        BY <1>1, <4>1
      <4> QED BY <2>2, <4>2
    <3>2. \A k \in 0 .. n + 1 : k = n + 1 \/ k \in 0 .. n
      OBVIOUS
    <3> QED BY <2>2, <3>1, <3>2
  <2> HIDE DEF T
  <2>3. \A n \in Nat : n \in T
    BY <2>1, <2>2, AllNumbers
  <2>4. \A n \in Nat : n \notin Levels
    BY <2>3 DEF T
  <2> QED BY <1>1, <2>4
<1> QED BY <1>2 DEF Min

\* The table has a hit less for the lost prediction, or is the same.
Worsens(t, u) == u = t \/ LosesHit(t, u)

LEMMA LostHitTables ==
  ASSUME NEW pairs \in [Cells -> Nat], NEW worse \in WithOneHitLost(pairs)
  PROVE  /\ worse \in [Cells -> Nat]
         /\ \A h \in Thresholds : Worsens(TruthTable(pairs, h), TruthTable(worse, h))
<1>1. PICK c \in Cells :
         /\ pairs[c] > 0 /\ Min(Levels) < c.predicted /\ c.predicted <= c.observed
         /\ worse = [pairs EXCEPT ![c] = @ - 1, ![[c EXCEPT !.predicted = Min(Levels)]] = @ + 1]
  BY DEF WithOneHitLost
<1> DEFINE low == Min(Levels)
           b == [c EXCEPT !.predicted = low]
<1>2. /\ c.observed \in Levels /\ c.predicted \in Levels
      /\ c = [observed |-> c.observed, predicted |-> c.predicted]
  BY DEF Cells
<1>3. low \in Levels /\ Levels \subseteq Nat
  BY <1>2, LowestLevel, ScoresAssumption
<1> HIDE DEF low
<1>4. /\ b \in Cells /\ b.observed = c.observed /\ b.predicted = low
      /\ low < c.predicted /\ c.predicted <= c.observed
  BY <1>1, <1>2, <1>3 DEF Cells, low
<1> HIDE DEF b
<1>5. b # c
  BY <1>1, <1>2, <1>3, <1>4
<1>6. worse = [pairs EXCEPT ![c] = @ - 1, ![b] = @ + 1]
  BY <1>1 DEF b, low
<1>7. /\ worse[c] = pairs[c] - 1 /\ worse[b] = pairs[b] + 1
      /\ \A x \in Cells \ {c, b} : worse[x] = pairs[x]
      /\ DOMAIN worse = Cells /\ worse = [x \in Cells |-> worse[x]]
  BY <1>4, <1>5, <1>6
<1>8. pairs[c] \in Nat /\ pairs[c] > 0 /\ pairs[b] \in Nat
  BY <1>1, <1>4
<1>9. worse[c] \in Nat /\ worse[b] \in Nat /\ pairs[c] = worse[c] + 1
  BY <1>7, <1>8
<1>10. worse \in [Cells -> Nat]
  <2>1. \A x \in Cells : worse[x] \in Nat
    BY <1>7, <1>9
  <2> QED BY <1>7, <2>1
<1>11. ASSUME NEW S \in SUBSET Cells
       PROVE  /\ SumOf(pairs, S) \in Nat /\ SumOf(worse, S) \in Nat
              /\ SumOf(worse, S) + (IF c \in S THEN 1 ELSE 0)
                   = SumOf(pairs, S) + (IF b \in S THEN 1 ELSE 0)
  <2>1. IsFiniteSet(S)
    BY CellsFinite, FS_Subset
  <2>2. \A x \in S : pairs[x] \in Nat /\ worse[x] \in Nat
    BY <1>10
  <2>3. \A x \in S \ {c, b} : pairs[x] = worse[x]
    BY <1>7
  <2>4. c \in S => pairs[c] = worse[c] + 1
    BY <1>9
  <2>5. b \in S => worse[b] = pairs[b] + 1
    BY <1>7
  <2>6. c # b
    BY <1>5
  <2>7. SumOf(pairs, S) \in Nat /\ SumOf(worse, S) \in Nat
    BY <2>1, <2>2, SumType
  <2> QED BY <2>1, <2>2, <2>3, <2>4, <2>5, <2>6, <2>7, SumMoves
<1>12. ASSUME NEW S \in SUBSET Cells
       PROVE  /\ (c \in S <=> b \in S) => SumOf(worse, S) = SumOf(pairs, S)
              /\ c \in S /\ b \notin S => SumOf(pairs, S) = SumOf(worse, S) + 1
              /\ c \notin S /\ b \in S => SumOf(worse, S) = SumOf(pairs, S) + 1
  <2> DEFINE p == SumOf(pairs, S)
             w == SumOf(worse, S)
  <2>1. p \in Nat /\ w \in Nat
        /\ w + (IF c \in S THEN 1 ELSE 0) = p + (IF b \in S THEN 1 ELSE 0)
    BY <1>11
  <2> HIDE DEF p, w
  <2>2. /\ (c \in S <=> b \in S) => w = p
        /\ c \in S /\ b \notin S => p = w + 1
        /\ c \notin S /\ b \in S => w = p + 1
    BY <2>1
  <2> QED BY <2>2 DEF p, w
<1>13. ASSUME NEW h \in Thresholds
       PROVE  Worsens(TruthTable(pairs, h), TruthTable(worse, h))
  <2>1. Cut[h] \in Nat
    BY ScoresAssumption
  <2>2. ASSUME NEW o \in BOOLEAN, NEW p \in BOOLEAN
        PROVE  /\ CellsOf(h, o, p) \in SUBSET Cells
               /\ c \in CellsOf(h, o, p) <=> /\ (c.observed >= Cut[h]) = o
                                             /\ (c.predicted >= Cut[h]) = p
               /\ b \in CellsOf(h, o, p) <=> /\ (c.observed >= Cut[h]) = o
                                             /\ (low >= Cut[h]) = p
    BY <1>4 DEF CellsOf
  <2> DEFINE t == TruthTable(pairs, h)
             u == TruthTable(worse, h)
  <2>3. CASE c.predicted >= Cut[h] <=> low >= Cut[h]
    <3>1. ASSUME NEW o \in BOOLEAN, NEW p \in BOOLEAN
          PROVE  SumOf(worse, CellsOf(h, o, p)) = SumOf(pairs, CellsOf(h, o, p))
      <4>1. c \in CellsOf(h, o, p) <=> b \in CellsOf(h, o, p)
        BY <2>2, <2>3
      <4> QED BY <1>12, <2>2, <4>1
    <3>2. u = t
      BY <3>1, TableCounts
    <3> QED BY <3>2 DEF Worsens
  <2>4. CASE ~(c.predicted >= Cut[h] <=> low >= Cut[h])
    <3>1. c.predicted >= Cut[h] /\ ~(low >= Cut[h]) /\ c.observed >= Cut[h]
      BY <1>2, <1>3, <1>4, <2>1, <2>4
    <3>2. c \in CellsOf(h, TRUE, TRUE) /\ b \notin CellsOf(h, TRUE, TRUE)
      BY <2>2, <3>1
    <3>3. c \notin CellsOf(h, TRUE, FALSE) /\ b \in CellsOf(h, TRUE, FALSE)
      <4>1. b \in CellsOf(h, TRUE, FALSE) <=> /\ (c.observed >= Cut[h]) = TRUE
                                              /\ (low >= Cut[h]) = FALSE
        BY <2>2
      <4>2. c \in CellsOf(h, TRUE, FALSE) => (c.predicted >= Cut[h]) = FALSE
        BY <2>2
      <4> DEFINE observed == c.observed >= Cut[h]
                 predicted == c.predicted >= Cut[h]
                 missed == low >= Cut[h]
      <4>3. observed \in BOOLEAN /\ predicted \in BOOLEAN /\ missed \in BOOLEAN
        BY <1>2, <1>3, <2>1
      <4>4. observed /\ predicted /\ ~missed
        BY <3>1
      <4> HIDE DEF observed, predicted, missed
      <4>5. observed = TRUE /\ missed = FALSE /\ predicted # FALSE
        BY Zenon, <4>3, <4>4
      <4> QED BY <4>1, <4>2, <4>5 DEF observed, predicted, missed
    <3>4. /\ c \notin CellsOf(h, FALSE, TRUE) /\ b \notin CellsOf(h, FALSE, TRUE)
          /\ c \notin CellsOf(h, FALSE, FALSE) /\ b \notin CellsOf(h, FALSE, FALSE)
      BY <2>2, <3>1
    <3>5. SumOf(pairs, CellsOf(h, TRUE, TRUE)) = SumOf(worse, CellsOf(h, TRUE, TRUE)) + 1
      BY <1>12, <2>2, <3>2
    <3>6. SumOf(worse, CellsOf(h, TRUE, FALSE)) = SumOf(pairs, CellsOf(h, TRUE, FALSE)) + 1
      BY <1>12, <2>2, <3>3
    <3>7. /\ SumOf(worse, CellsOf(h, FALSE, TRUE)) = SumOf(pairs, CellsOf(h, FALSE, TRUE))
          /\ SumOf(worse, CellsOf(h, FALSE, FALSE)) = SumOf(pairs, CellsOf(h, FALSE, FALSE))
      BY <1>12, <2>2, <3>4
    <3>8. LosesHit(t, u)
      BY <3>5, <3>6, <3>7, TableCounts DEF LosesHit
    <3> QED BY <3>8 DEF Worsens
  <2> QED BY <2>3, <2>4
<1> QED BY <1>10, <1>13
-----------------------------------------------------------------------------
(* What worse tables are worth *)

\* Where both are scores, the worse table has no higher one.
LEMMA WorseScores ==
  ASSUME NEW metric \in Metrics, NEW t \in TruthTablesOf, NEW u \in TruthTablesOf, Worsens(t, u),
         ~IsNaN(scaled_value(metric, t)), ~IsNaN(scaled_value(metric, u))
  PROVE  AtMost(scaled_value(metric, u), scaled_value(metric, t))
<1> DEFINE w == ThresholdWeight[t.threshold]
           p == Value(metric, u)
           q == Value(metric, t)
<1>1. w \in Nat /\ u.threshold = t.threshold
  BY Weights, TableTypes DEF Worsens, LosesHit
<1>2. /\ scaled_value(metric, t) = Times(scale_value(metric, q), Whole(w))
      /\ scaled_value(metric, u) = Times(scale_value(metric, p), Whole(w))
  BY <1>1 DEF scaled_value
<1>3. p \in Numbers \union {NaN} /\ q \in Numbers \union {NaN}
  BY ValueType
<1>4. u # t => (p \in Numbers /\ q \in Numbers => NoBetter(metric, p, q))
  BY LostHitIsWorse DEF Worsens
<1>5. u = t => p = q
  OBVIOUS
<1> HIDE DEF p, q, w
<1>6. scale_value(metric, NaN) = NaN /\ Times(NaN, Whole(w)) = NaN /\ IsNaN(NaN)
  BY <1>1, WeightShares DEF scale_value, IsNaN, NaN
<1>7. p \in Numbers /\ q \in Numbers
  BY <1>2, <1>3, <1>6
<1>8. scale_value(metric, p) \in Numbers /\ scale_value(metric, q) \in Numbers
  BY <1>7, ScalesToUnit, UnitsAreBounds
<1>9. AtMost(scale_value(metric, p), scale_value(metric, q))
  <2>1. CASE u = t
    BY <1>5, <1>8, <2>1, TotalOrder
  <2>2. CASE u # t
    <3>1. NoBetter(metric, p, q)
      BY <1>4, <1>7, <2>2
    <3> QED BY <1>7, <3>1, ScalingIsMonotonic DEF NoBetter
  <2> QED BY <2>1, <2>2
<1>10. AtMost(Times(scale_value(metric, p), Whole(w)), Times(scale_value(metric, q), Whole(w)))
  BY <1>1, <1>8, <1>9, WeighingIsMonotonic
<1> QED BY <1>2, <1>10

\* The thresholds of the scores that are numbers.
LEMMA CountedScores ==
  ASSUME NEW scores \in Seq(ScoresOf)
  PROVE  \A h : h \in ScoreDescription(scores).counted <=>
           \E i \in 1 .. Len(scores) : ~IsNaN(scores[i].scaled) /\ scores[i].threshold = h
<1> DEFINE N == Len(scores)
           Counted(d, n) ==
              \A h : h \in d.counted <=>
                 \E i \in 1 .. n : ~IsNaN(scores[i].scaled) /\ scores[i].threshold = h
<1>1. PICK D : Describes(D, scores)
  BY ScoresAreDescribed
<1>2. N \in Nat
  OBVIOUS
<1> DEFINE T == {n \in Nat : n <= N => Counted(D[n], n)}
<1>3. 0 \in T
  <2>1. D[0].counted = {}
    BY <1>1 DEF Describes, NoScores
  <2> QED BY <2>1
<1>4. ASSUME NEW n \in Nat, n \in T PROVE n + 1 \in T
  <2>1. SUFFICES ASSUME n + 1 <= N PROVE Counted(D[n + 1], n + 1)
    OBVIOUS
  <2>2. n \in 0 .. N - 1 /\ n <= N
    BY <1>2, <2>1
  <2>3. D[n + 1] = AddScore(D[n], scores[n + 1])
    BY <1>1, <2>2 DEF Describes
  <2>4. Counted(D[n], n)
    BY <1>4, <2>2
  <2>5. \A i : i \in 1 .. n + 1 <=> i = n + 1 \/ i \in 1 .. n
    OBVIOUS
  <2>6. D[n + 1].counted = IF IsNaN(scores[n + 1].scaled) THEN D[n].counted
                           ELSE D[n].counted \union {scores[n + 1].threshold}
    BY <2>3 DEF AddScore
  <2> HIDE DEF N
  <2> QED BY <2>4, <2>5, <2>6
<1> HIDE DEF T
<1>5. N \in T
  BY <1>2, <1>3, <1>4, AllNumbers
<1>6. Counted(D[N], N)
  BY <1>2, <1>5 DEF T
<1>7. D[N] = ScoreDescription(scores)
  BY <1>1 DEF Describes
<1> QED BY <1>6, <1>7

\* One score that is no higher, or neither a number.
LEMMA AddScoreIsMonotonic ==
  ASSUME NEW d \in Descriptions, NEW e \in Descriptions,
         e.maximum = d.maximum, AtMost(e.total, d.total),
         NEW s \in ScoresOf, NEW v \in ScoresOf, v.threshold = s.threshold,
         IsNaN(v.scaled) <=> IsNaN(s.scaled),
         ~IsNaN(s.scaled) => AtMost(v.scaled, s.scaled)
  PROVE  /\ AddScore(e, v).maximum = AddScore(d, s).maximum
         /\ AtMost(AddScore(e, v).total, AddScore(d, s).total)
<1>1. CASE IsNaN(s.scaled)
  BY <1>1 DEF AddScore
<1>2. CASE ~IsNaN(s.scaled)
  <2>1. s.scaled \in Numbers /\ v.scaled \in Numbers /\ d.total \in Numbers /\ e.total \in Numbers
    BY <1>2, NotANumber DEF ScoresOf, Descriptions
  <2>2. AtMost(Add(e.total, v.scaled), Add(d.total, s.scaled))
    BY <1>2, <2>1, AddIsMonotonic
  <2> QED BY <1>2, <2>2 DEF AddScore
<1> QED BY <1>1, <1>2

\* Worse tables, of different thresholds.
WorseTables(tables, after) ==
    /\ tables \in Seq(TruthTablesOf) /\ after \in Seq(TruthTablesOf)
    /\ Len(after) = Len(tables)
    /\ \A i \in 1 .. Len(tables) : Worsens(tables[i], after[i])
    /\ \A i, k \in 1 .. Len(tables) : tables[i].threshold = tables[k].threshold => i = k

\* What counts at the same thresholds is no more for worse tables.
LEMMA WorseDescriptions ==
  ASSUME NEW metric \in Metrics, NEW tables, NEW after, WorseTables(tables, after),
         ScoreDescription(Scores(metric, after)).counted
           = ScoreDescription(Scores(metric, tables)).counted
  PROVE  LET d == ScoreDescription(Scores(metric, tables))
             e == ScoreDescription(Scores(metric, after))
         IN  e.maximum = d.maximum /\ AtMost(e.total, d.total)
<1> DEFINE N == Len(tables)
           s == Scores(metric, tables)
           v == Scores(metric, after)
<1>1. /\ tables \in Seq(TruthTablesOf) /\ after \in Seq(TruthTablesOf) /\ Len(after) = N
      /\ N \in Nat
      /\ \A i \in 1 .. N : tables[i] \in TruthTablesOf /\ after[i] \in TruthTablesOf
      /\ \A i \in 1 .. N : Worsens(tables[i], after[i])
      /\ \A i, k \in 1 .. N : tables[i].threshold = tables[k].threshold => i = k
  BY DEF WorseTables
<1>2. /\ s \in Seq(ScoresOf) /\ Len(s) = N
      /\ \A i \in 1 .. N : s[i].threshold = tables[i].threshold
                            /\ s[i].scaled = scaled_value(metric, tables[i])
  BY <1>1, ScoresType
<1>3. /\ v \in Seq(ScoresOf) /\ Len(v) = N
      /\ \A i \in 1 .. N : v[i].threshold = after[i].threshold
                            /\ v[i].scaled = scaled_value(metric, after[i])
  BY <1>1, ScoresType
<1> HIDE DEF s, v, N
<1>4. \A i \in 1 .. N : s[i] \in ScoresOf /\ v[i] \in ScoresOf
  BY <1>2, <1>3
<1>5. \A i \in 1 .. N : v[i].threshold = s[i].threshold
  BY <1>1, <1>2, <1>3 DEF Worsens, LosesHit
<1>6. ScoreDescription(v).counted = ScoreDescription(s).counted
  BY DEF s, v
<1>7. ASSUME NEW i \in 1 .. N PROVE IsNaN(v[i].scaled) <=> IsNaN(s[i].scaled)
  <2> DEFINE h == s[i].threshold
  <2>1. h \in ScoreDescription(s).counted <=>
           \E k \in 1 .. N : ~IsNaN(s[k].scaled) /\ s[k].threshold = h
    BY <1>2, CountedScores
  <2>2. h \in ScoreDescription(v).counted <=>
           \E k \in 1 .. N : ~IsNaN(v[k].scaled) /\ v[k].threshold = h
    BY <1>3, CountedScores
  <2>3. \A k \in 1 .. N : s[k].threshold = h => k = i
    BY <1>1, <1>2
  <2>4. \A k \in 1 .. N : v[k].threshold = h => k = i
    BY <1>5, <2>3
  <2>5. h \in ScoreDescription(s).counted <=> ~IsNaN(s[i].scaled)
    BY <2>1, <2>3
  <2>6. h \in ScoreDescription(v).counted <=> ~IsNaN(v[i].scaled)
    BY <1>5, <2>2, <2>4
  <2> QED BY <1>6, <2>5, <2>6
<1>8. ASSUME NEW i \in 1 .. N, ~IsNaN(s[i].scaled) PROVE AtMost(v[i].scaled, s[i].scaled)
  <2>1. ~IsNaN(scaled_value(metric, tables[i])) /\ ~IsNaN(scaled_value(metric, after[i]))
    BY <1>2, <1>3, <1>7, <1>8
  <2>2. AtMost(scaled_value(metric, after[i]), scaled_value(metric, tables[i]))
    BY <1>1, <2>1, WorseScores
  <2> QED BY <1>2, <1>3, <2>2
<1>9. PICK D : Describes(D, s)
  BY <1>2, ScoresAreDescribed
<1>10. PICK E : Describes(E, v)
  BY <1>3, ScoresAreDescribed
<1> DEFINE T == {n \in Nat : n <= N => E[n].maximum = D[n].maximum /\ AtMost(E[n].total, D[n].total)}
<1>11. 0 \in T
  <2>1. E[0] = NoScores /\ D[0] = NoScores /\ NoScores.total = Zero /\ Zero \in Numbers
    BY <1>9, <1>10, Units DEF Describes, NoScores
  <2>2. AtMost(Zero, Zero)
    BY <2>1, TotalOrder
  <2> QED BY <2>1, <2>2
<1>12. ASSUME NEW n \in Nat, n \in T PROVE n + 1 \in T
  <2>1. SUFFICES ASSUME n + 1 <= N
                 PROVE  E[n + 1].maximum = D[n + 1].maximum /\ AtMost(E[n + 1].total, D[n + 1].total)
    OBVIOUS
  <2>2. n \in 0 .. N - 1 /\ n \in 0 .. N /\ n + 1 \in 1 .. N /\ n <= N
    BY <1>1, <2>1
  <2>3. D[n] \in Descriptions /\ D[n + 1] = AddScore(D[n], s[n + 1])
    BY <1>2, <1>9, <2>2 DEF Describes
  <2>4. E[n] \in Descriptions /\ E[n + 1] = AddScore(E[n], v[n + 1])
    BY <1>3, <1>10, <2>2 DEF Describes
  <2>5. E[n].maximum = D[n].maximum /\ AtMost(E[n].total, D[n].total)
    BY <1>12, <2>2
  <2>6. s[n + 1] \in ScoresOf /\ v[n + 1] \in ScoresOf /\ v[n + 1].threshold = s[n + 1].threshold
    BY <1>4, <1>5, <2>2
  <2>7. IsNaN(v[n + 1].scaled) <=> IsNaN(s[n + 1].scaled)
    BY <1>7, <2>2
  <2>8. ~IsNaN(s[n + 1].scaled) => AtMost(v[n + 1].scaled, s[n + 1].scaled)
    BY <1>8, <2>2
  <2> QED BY <2>3, <2>4, <2>5, <2>6, <2>7, <2>8, AddScoreIsMonotonic
<1> HIDE DEF T
<1>13. N \in T
  BY <1>1, <1>11, <1>12, AllNumbers
<1>14. E[N].maximum = D[N].maximum /\ AtMost(E[N].total, D[N].total)
  BY <1>1, <1>13 DEF T
<1>15. ScoreDescription(s) = D[N] /\ ScoreDescription(v) = E[N]
  BY <1>2, <1>3, <1>9, <1>10 DEF Describes
<1> QED BY <1>14, <1>15 DEF s, v

\* What a metric says of all the tables.
Described(tables, metric) == ScoreDescription(Scores(metric, tables))

LEMMA SameCounting ==
  ASSUME NEW metrics, NEW tables, NEW after, Counting(metrics, after) = Counting(metrics, tables),
         NEW m \in metrics
  PROVE  /\ Described(after, m).counted = Described(tables, m).counted
         /\ has_value(Described(after, m), m) <=> has_value(Described(tables, m), m)
<1> DEFINE Count(t, x) == <<x, Described(t, x).counted, has_value(Described(t, x), x)>>
<1>1. \A t : Counting(metrics, t) = {Count(t, x) : x \in metrics}
  BY DEF Counting, Described
<1>2. Count(after, m) \in {Count(tables, x) : x \in metrics}
  <2>1. Count(after, m) \in {Count(after, x) : x \in metrics}
    OBVIOUS
  <2> HIDE DEF Count
  <2> QED BY <1>1, <2>1
<1>3. PICK x \in metrics : Count(after, m) = Count(tables, x)
  BY <1>2
<1>4. x = m
  BY <1>3
<1>5. Described(after, m).counted = Described(tables, m).counted
  BY <1>3, <1>4
<1>6. has_value(Described(after, m), m) = has_value(Described(tables, m), m)
  BY <1>3, <1>4
<1>7. has_value(Described(after, m), m) <=> has_value(Described(tables, m), m)
  BY Zenon, <1>6
<1> QED BY <1>5, <1>7

\* One metric more.
LEMMA AddMetricIsMonotonic ==
  ASSUME NEW m \in Metrics, NEW tables, NEW after, WorseTables(tables, after),
         Described(after, m).counted = Described(tables, m).counted,
         has_value(Described(after, m), m) <=> has_value(Described(tables, m), m),
         NEW r \in ResultsOf, NEW q \in ResultsOf,
         q.maximum = r.maximum, AtMost(q.total, r.total)
  PROVE  /\ AddMetric(after, m, q).maximum = AddMetric(tables, m, r).maximum
         /\ AtMost(AddMetric(after, m, q).total, AddMetric(tables, m, r).total)
<1> DEFINE d == Described(tables, m)
           e == Described(after, m)
           w == MetricWeight[m]
           add(x, y) == [total |-> Add(y.total, Times(Over(x.total, x.maximum), Whole(w))),
                         maximum |-> Add(y.maximum, Whole(w))]
<1>1. tables \in Seq(TruthTablesOf) /\ after \in Seq(TruthTablesOf)
  BY DEF WorseTables
<1>2. d \in Descriptions /\ Fair(d) /\ e \in Descriptions /\ Fair(e)
  BY <1>1, FairDescription DEF Described
<1>3. e.maximum = d.maximum /\ AtMost(e.total, d.total)
  BY WorseDescriptions DEF Described
<1>4. /\ AddMetric(tables, m, r) = IF has_value(d, m) THEN add(d, r) ELSE r
      /\ AddMetric(after, m, q) = IF has_value(e, m) THEN add(e, q) ELSE q
  BY Zenon DEF AddMetric, Described
<1>5. has_value(e, m) <=> has_value(d, m)
  OBVIOUS
<1>6. w \in Nat /\ Whole(w) \in Numbers
  BY Weights
<1>7. d.total \in Numbers /\ e.total \in Numbers /\ r.total \in Numbers /\ q.total \in Numbers
  BY <1>2 DEF Descriptions, ResultsOf
<1>8. has_value(d, m) => d.maximum # Zero
  BY DEF has_value
<1> HIDE DEF d, e, w
<1>9. SUFFICES ASSUME has_value(d, m), has_value(e, m)
               PROVE  /\ add(e, q).maximum = add(d, r).maximum
                      /\ AtMost(add(e, q).total, add(d, r).total)
  <2> HIDE DEF add
  <2> QED BY <1>4, <1>5
<1>10. PICK n \in Nat : d.maximum = Whole(n)
  BY <1>2 DEF Fair
<1>11. n # 0
  BY <1>8, <1>9, <1>10 DEF Zero
<1> DEFINE x == Over(d.total, Whole(n))
           y == Over(e.total, Whole(n))
<1>12. AtMost(y, x)
  BY <1>3, <1>7, <1>10, <1>11, WeighingIsMonotonic
<1>13. x \in Numbers /\ y \in Numbers
  <2>1. Whole(n) \in Numbers /\ Whole(n).num # 0
    BY <1>11, Wholes
  <2> QED BY <1>7, <2>1, NumbersClosed
<1> HIDE DEF x, y
<1>14. AtMost(Times(y, Whole(w)), Times(x, Whole(w)))
  BY <1>6, <1>12, <1>13, WeighingIsMonotonic
<1>15. Times(x, Whole(w)) \in Numbers /\ Times(y, Whole(w)) \in Numbers
  BY <1>6, <1>13, NumbersClosed
<1>16. AtMost(Add(q.total, Times(y, Whole(w))), Add(r.total, Times(x, Whole(w))))
  BY <1>7, <1>14, <1>15, AddIsMonotonic
<1> QED BY <1>3, <1>10, <1>16 DEF x, y

LEMMA WorseResults ==
  ASSUME NEW metrics \in SUBSET Metrics, NEW tables, NEW after, WorseTables(tables, after),
         Counting(metrics, after) = Counting(metrics, tables)
  PROVE  LET r == MetricResults(metrics, tables)
             q == MetricResults(metrics, after)
         IN  /\ r \in FairResults(tables) /\ q \in FairResults(after)
             /\ q.maximum = r.maximum /\ AtMost(q.total, r.total)
<1>1. tables \in Seq(TruthTablesOf) /\ after \in Seq(TruthTablesOf) /\ IsFiniteSet(metrics)
  BY MetricsFinite, FS_Subset DEF WorseTables
<1>2. PICK H : Accumulates(H, metrics, tables)
  BY <1>1, ResultsAccumulate
<1>3. PICK G : Accumulates(G, metrics, after)
  BY <1>1, ResultsAccumulate
<1> DEFINE Holds(s) == G[s].maximum = H[s].maximum /\ AtMost(G[s].total, H[s].total)
           Bad == {s \in SUBSET metrics : ~Holds(s)}
<1>4. ASSUME Bad # {} PROVE FALSE
  <2>0. Bad \in SUBSET SUBSET metrics
    OBVIOUS
  <2> HIDE DEF Bad
  <2>1. PICK U \in Bad : \A V \in SUBSET U : V # U => V \notin Bad
    BY <1>1, <1>4, <2>0, SmallestSet
  <2>2. U \in SUBSET metrics /\ ~Holds(U)
    BY DEF Bad
  <2>3. U # {}
    <3>1. G[{}] = NoResults /\ H[{}] = NoResults
      BY <1>2, <1>3 DEF Accumulates
    <3>2. NoResults.total = Zero /\ AtMost(Zero, Zero)
      BY Units, TotalOrder DEF NoResults
    <3>3. Holds({})
      BY <3>1, <3>2
    <3> HIDE DEF Holds
    <3> QED BY <2>2, <3>3
  <2> DEFINE m == Chosen(U)
             W == U \ {Chosen(U)}
  <2>4. m \in metrics /\ m \in Metrics /\ W \in SUBSET metrics /\ W \in SUBSET U /\ W # U
    BY <2>2, <2>3, ChosenIn
  <2>5. Holds(W)
    BY <2>1, <2>4 DEF Bad
  <2>6. H[U] = AddMetric(tables, m, H[W]) /\ G[U] = AddMetric(after, m, G[W])
    BY <1>2, <1>3, <2>2, <2>3 DEF Accumulates
  <2>7. H[W] \in ResultsOf /\ G[W] \in ResultsOf
    BY <1>2, <1>3, <2>4 DEF Accumulates, FairResults
  <2> HIDE DEF m, W
  <2>8. /\ Described(after, m).counted = Described(tables, m).counted
        /\ has_value(Described(after, m), m) <=> has_value(Described(tables, m), m)
    BY <2>4, SameCounting
  <2>9. /\ AddMetric(after, m, G[W]).maximum = AddMetric(tables, m, H[W]).maximum
        /\ AtMost(AddMetric(after, m, G[W]).total, AddMetric(tables, m, H[W]).total)
    BY <2>4, <2>5, <2>7, <2>8, AddMetricIsMonotonic
  <2> QED BY <2>2, <2>6, <2>9
<1>5. Holds(metrics)
  BY <1>4
<1>6. /\ MetricResults(metrics, tables) = H[metrics] /\ H[metrics] \in FairResults(tables)
      /\ MetricResults(metrics, after) = G[metrics] /\ G[metrics] \in FairResults(after)
  BY <1>2, <1>3 DEF Accumulates
<1> QED BY <1>5, <1>6

\* The value of a location is the share of its weight.
LEMMA WorseLocation ==
  ASSUME NEW r \in ResultsOf, Fair(r), NEW q \in ResultsOf,
         q.maximum = r.maximum, AtMost(q.total, r.total)
  PROVE  AtMost(LocationValue(q), LocationValue(r))
<1>1. PICK n \in Nat : r.maximum = Whole(n)
  BY DEF Fair
<1>2. r.total \in Numbers /\ q.total \in Numbers
  BY DEF ResultsOf
<1>3. CASE n = 0
  <2>1. LocationValue(q) = Zero /\ LocationValue(r) = Zero
    BY <1>1, <1>3 DEF LocationValue, Zero
  <2> QED BY <2>1, Units, TotalOrder
<1>4. CASE n # 0
  <2>1. Over(Zero, Whole(n)) = Zero
    <3>1. ~IsNaN(Whole(n)) /\ Zero.num = 0 /\ Zero.den = 1 /\ Whole(n).den = 1 /\ Whole(n).num = n
      BY DEF IsNaN, Whole, Zero
    <3>2. Over(Zero, Whole(n)) = Ratio(0 * 1, 1 * n)
      BY <3>1 DEF Over
    <3>3. 0 * 1 = 0 /\ 1 * n = n
      OBVIOUS
    <3> QED BY <1>4, <3>2, <3>3, WholeRatios
  <2>2. Whole(n) # Zero
    BY <1>4, Wholes
  <2>3. /\ LocationValue(q) = Over(q.total, Whole(n))
        /\ LocationValue(r) = Over(r.total, Whole(n))
    BY <1>1, <2>1, <2>2 DEF LocationValue
  <2> QED BY <1>2, <1>4, <2>3, WeighingIsMonotonic
<1> QED BY <1>3, <1>4

\* In those states, no location gains by a hit it loses.
LEMMA LostHitsCost == ScoresInv => LostHitsNeverPay
<1> SUFFICES ASSUME ScoresInv, InTables, NEW worse \in WithOneHitLost(group.pairs)
             PROVE  LET after == TruthTables(worse, group.thresholds)
                    IN  Counting(scheme, after) = Counting(scheme, Tables)
                        => AtMost(LocationValue(MetricResults(scheme, after)), LocationValue(Results))
  BY Zenon DEF LostHitsNeverPay
<1> DEFINE after == TruthTables(worse, group.thresholds)
           r == Results
           q == MetricResults(scheme, after)
<1>1. SUFFICES ASSUME Counting(scheme, after) = Counting(scheme, Tables)
               PROVE  AtMost(LocationValue(q), LocationValue(r))
  OBVIOUS
<1>2. /\ group.pairs \in [Cells -> Nat] /\ group.thresholds \in Seq(Thresholds)
      /\ scheme \in SUBSET Metrics /\ IsInjective(group.thresholds)
  BY DEF ScoresInv, InTables, TablesRefused
<1>3. /\ worse \in [Cells -> Nat]
      /\ \A h \in Thresholds : Worsens(TruthTable(group.pairs, h), TruthTable(worse, h))
  BY <1>2, LostHitTables
<1> DEFINE N == Len(group.thresholds)
           h(i) == group.thresholds[i]
<1>4. /\ N \in Nat /\ DOMAIN group.thresholds = 1 .. N
      /\ \A i \in 1 .. N : h(i) \in Thresholds
      /\ \A i, k \in 1 .. N : h(i) = h(k) => i = k
  BY <1>2 DEF IsInjective
<1>5. /\ Tables \in Seq(TruthTablesOf) /\ Len(Tables) = N
      /\ \A i \in 1 .. N : Tables[i] = TruthTable(group.pairs, h(i))
  BY <1>2, TablesOfThresholds DEF Tables
<1>6. /\ after \in Seq(TruthTablesOf) /\ Len(after) = N
      /\ \A i \in 1 .. N : after[i] = TruthTable(worse, h(i))
  BY <1>2, <1>3, TablesOfThresholds
<1> HIDE DEF after, N, h
<1>7. \A i \in 1 .. N : Tables[i].threshold = h(i)
  <2>1. ASSUME NEW x PROVE TruthTable(group.pairs, x).threshold = x
    BY TableCounts
  <2> QED BY <1>5, <2>1
<1>8. \A i \in 1 .. N : Worsens(Tables[i], after[i])
  BY <1>3, <1>4, <1>5, <1>6
<1>9. WorseTables(Tables, after)
  BY <1>4, <1>5, <1>6, <1>7, <1>8 DEF WorseTables
<1>10. r \in FairResults(Tables) /\ q \in FairResults(after)
       /\ q.maximum = r.maximum /\ AtMost(q.total, r.total)
  BY <1>1, <1>2, <1>9, WorseResults DEF Results
<1> HIDE DEF r, q
<1>11. r \in ResultsOf /\ Fair(r) /\ q \in ResultsOf
  BY <1>10 DEF FairResults
<1> QED BY <1>10, <1>11, WorseLocation

(***************************************************************************)
(* If one observed event that was predicted had been missed instead, the   *)
(* value of its location would be no higher, under each metric scheme and  *)
(* at all thresholds, as long as the same metrics count at the same        *)
(* thresholds.  The scores of a table with a hit less are lower one by one,*)
(* and sums, shares and averages keep the order.                           *)
(***************************************************************************)
THEOREM LostHitsDoNotPay == ScoresSpec => []LostHitsNeverPay
<1>1. ScoresSpec => []ScoresInv
  BY ScoresInvInit, ScoresInvNext, PTL DEF ScoresSpec
<1> QED BY <1>1, LostHitsCost, PTL
=============================================================================
