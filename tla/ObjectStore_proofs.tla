-------------------------- MODULE ObjectStore_proofs --------------------------
(***************************************************************************)
(* Proofs about the object store's manager.                                *)
(***************************************************************************)
EXTENDS ObjectStore, TLAPS

-----------------------------------------------------------------------------
(* Domains *)

LEMMA RangeHas ==
    ASSUME NEW r \in Ranges
    PROVE  r.begin \in Int /\ r.end \in Int /\ r.begin <= r.end
             /\ r.begin \in Points /\ r.end \in Points
BY PointsAssumption DEF Ranges

LEMMA RangeExpandInRanges ==
    ASSUME NEW r \in Ranges, NEW q \in Ranges
    PROVE  RangeExpand(r, q) \in Ranges
<1> DEFINE b == IF q.begin < r.begin THEN q.begin ELSE r.begin
           e == IF q.end > r.end THEN q.end ELSE r.end
<1>1. b \in Points /\ e \in Points /\ b <= e
  BY RangeHas
<1> HIDE DEF b, e
<1>2. [begin |-> b, end |-> e] \in Ranges
  BY <1>1 DEF Ranges
<1> QED BY <1>2 DEF b, e, RangeExpand

LEMMA ListExpandInLists ==
    ASSUME NEW l \in SUBSET Values, NEW k \in SUBSET Values
    PROVE  ListExpand(l, k) \in SUBSET Values
BY DEF ListExpand

LEMMA PartialFunctionsDef ==
    ASSUME NEW S, NEW T, NEW f
    PROVE  f \in PartialFunctions(S, T)
             <=> DOMAIN f \subseteq S /\ f \in [DOMAIN f -> T]
BY DEF PartialFunctions

LEMMA MergedRanges ==
    ASSUME NEW m \in PartialFunctions(ContinuousIndices, Ranges),
           NEW n \in PartialFunctions(ContinuousIndices, Ranges)
    PROVE  /\ MergeRanges(m, n) \in PartialFunctions(ContinuousIndices, Ranges)
           /\ DOMAIN MergeRanges(m, n) = DOMAIN m \union DOMAIN n
<1>1. DOMAIN m \subseteq ContinuousIndices /\ m \in [DOMAIN m -> Ranges]
  BY PartialFunctionsDef
<1>2. DOMAIN n \subseteq ContinuousIndices /\ n \in [DOMAIN n -> Ranges]
  BY PartialFunctionsDef
<1> DEFINE F == MergeRanges(m, n)
<1>3. F = [i \in DOMAIN m \union DOMAIN n |->
             IF i \notin DOMAIN m THEN n[i]
             ELSE IF i \notin DOMAIN n \/ m[i] = n[i] THEN m[i]
             ELSE RangeExpand(m[i], n[i])]
  BY DEF MergeRanges
<1>4. ASSUME NEW i \in DOMAIN m \union DOMAIN n
      PROVE  F[i] \in Ranges
  BY <1>1, <1>2, <1>3, RangeExpandInRanges
<1>5. DOMAIN F = DOMAIN m \union DOMAIN n /\ F \in [DOMAIN F -> Ranges]
  BY <1>3, <1>4
<1> QED BY <1>1, <1>2, <1>5, PartialFunctionsDef

LEMMA MergedLists ==
    ASSUME NEW m \in PartialFunctions(DiscreteIndices, SUBSET Values),
           NEW n \in PartialFunctions(DiscreteIndices, SUBSET Values)
    PROVE  /\ MergeLists(m, n) \in PartialFunctions(DiscreteIndices, SUBSET Values)
           /\ DOMAIN MergeLists(m, n) = DOMAIN m \union DOMAIN n
<1>1. DOMAIN m \subseteq DiscreteIndices /\ m \in [DOMAIN m -> SUBSET Values]
  BY PartialFunctionsDef
<1>2. DOMAIN n \subseteq DiscreteIndices /\ n \in [DOMAIN n -> SUBSET Values]
  BY PartialFunctionsDef
<1> DEFINE F == MergeLists(m, n)
<1>3. F = [i \in DOMAIN m \union DOMAIN n |->
             IF i \notin DOMAIN m THEN n[i]
             ELSE IF i \notin DOMAIN n \/ m[i] = n[i] THEN m[i]
             ELSE ListExpand(m[i], n[i])]
  BY DEF MergeLists
<1>4. ASSUME NEW i \in DOMAIN m \union DOMAIN n
      PROVE  F[i] \in SUBSET Values
  BY <1>1, <1>2, <1>3, ListExpandInLists
<1>5. DOMAIN F = DOMAIN m \union DOMAIN n /\ F \in [DOMAIN F -> SUBSET Values]
  BY <1>3, <1>4
<1> QED BY <1>1, <1>2, <1>5, PartialFunctionsDef

\* Merging domains gives a domain.
LEMMA MergeInDomains ==
    ASSUME NEW d \in Domains, NEW e \in Domains
    PROVE  MergeDomains(d, e) \in Domains
<1>1. CASE Contains(d, e) \/ Contains(e, d)
  BY <1>1 DEF MergeDomains
<1>2. CASE ~(Contains(d, e) \/ Contains(e, d))
  <2>1. MergeDomains(d, e) =
          [format |-> d.format,
           continuous |-> MergeRanges(d.continuous, e.continuous),
           discrete |-> MergeLists(d.discrete, e.discrete)]
    BY <1>2 DEF MergeDomains
  <2>2. /\ d.continuous \in PartialFunctions(ContinuousIndices, Ranges)
        /\ e.continuous \in PartialFunctions(ContinuousIndices, Ranges)
        /\ d.discrete \in PartialFunctions(DiscreteIndices, SUBSET Values)
        /\ e.discrete \in PartialFunctions(DiscreteIndices, SUBSET Values)
        /\ DOMAIN d.continuous \union DOMAIN d.discrete # {}
        /\ d.format \in Formats
    BY DEF Domains
  <2>3. PICK C : C = MergeRanges(d.continuous, e.continuous)
    OBVIOUS
  <2>4. PICK L : L = MergeLists(d.discrete, e.discrete)
    OBVIOUS
  <2>5. /\ C \in PartialFunctions(ContinuousIndices, Ranges)
        /\ DOMAIN C = DOMAIN d.continuous \union DOMAIN e.continuous
    BY <2>2, <2>3, MergedRanges
  <2>6. /\ L \in PartialFunctions(DiscreteIndices, SUBSET Values)
        /\ DOMAIN L = DOMAIN d.discrete \union DOMAIN e.discrete
    BY <2>2, <2>4, MergedLists
  <2>7. DOMAIN C \union DOMAIN L # {}
    BY <2>2, <2>5, <2>6
  <2>8. MergeDomains(d, e) = [format |-> d.format, continuous |-> C, discrete |-> L]
    BY <2>1, <2>3, <2>4
  <2>9. [format |-> d.format, continuous |-> C, discrete |-> L] \in Domains
    BY <2>2, <2>5, <2>6, <2>7 DEF Domains
  <2> QED BY <2>8, <2>9
<1> QED BY <1>1, <1>2

-----------------------------------------------------------------------------
(* What domains claim *)

LEMMA Singles ==
    /\ \A a, b : {a} = {b} => a = b
    /\ \A a : {a} # {}
<1>1. ASSUME NEW a, NEW b, {a} = {b} PROVE a = b
  <2>1. a \in {b}
    BY <1>1
  <2> QED BY <2>1
<1> QED BY <1>1

LEMMA DomainHas ==
    ASSUME NEW d \in Domains
    PROVE  /\ d.format \in Formats
           /\ d.continuous \in PartialFunctions(ContinuousIndices, Ranges)
           /\ d.discrete \in PartialFunctions(DiscreteIndices, SUBSET Values)
           /\ DOMAIN d.continuous \subseteq ContinuousIndices
           /\ DOMAIN d.discrete \subseteq DiscreteIndices
           /\ \A i \in DOMAIN d.continuous : d.continuous[i] \in Ranges
           /\ \A i \in DOMAIN d.discrete : d.discrete[i] \subseteq Values
<1>1. /\ d.format \in Formats
      /\ d.continuous \in PartialFunctions(ContinuousIndices, Ranges)
      /\ d.discrete \in PartialFunctions(DiscreteIndices, SUBSET Values)
  BY DEF Domains
<1>2. /\ DOMAIN d.continuous \subseteq ContinuousIndices
      /\ d.continuous \in [DOMAIN d.continuous -> Ranges]
  BY <1>1, PartialFunctionsDef
<1>3. /\ DOMAIN d.discrete \subseteq DiscreteIndices
      /\ d.discrete \in [DOMAIN d.discrete -> SUBSET Values]
  BY <1>1, PartialFunctionsDef
<1> QED BY <1>1, <1>2, <1>3

\* What a domain claims, read off the definition.
LEMMA ClaimsHas ==
    ASSUME NEW d, NEW x
    PROVE  x \in Claims(d)
             <=> \/ \E i \in DOMAIN d.continuous :
                      \E p \in d.continuous[i].begin .. d.continuous[i].end - 1 :
                        x = <<i, {p}>>
                 \/ \E i \in DOMAIN d.discrete :
                      \E v \in d.discrete[i] : x = <<i, {v}>>
                 \/ \E i \in DOMAIN d.discrete :
                      /\ d.discrete[i] = {}
                      /\ \/ x = <<i, {}>>
                         \/ \E v \in Values : x = <<i, {v}>>
<1> DEFINE A == UNION {{<<i, {p}>> :
                           p \in d.continuous[i].begin .. d.continuous[i].end - 1} :
                         i \in DOMAIN d.continuous}
           B == UNION {{<<i, {v}>> : v \in d.discrete[i]} : i \in DOMAIN d.discrete}
           E == {j \in DOMAIN d.discrete : IsAllPossibleValues(d.discrete[j])}
           C == UNION {{<<i, {}>>} \union {<<i, {v}>> : v \in Values} : i \in E}
<1>1. Claims(d) = A \union B \union C
  BY DEF Claims
<1>2. x \in A <=> \E i \in DOMAIN d.continuous :
                    \E p \in d.continuous[i].begin .. d.continuous[i].end - 1 :
                      x = <<i, {p}>>
  OBVIOUS
<1>3. x \in B <=> \E i \in DOMAIN d.discrete :
                    \E v \in d.discrete[i] : x = <<i, {v}>>
  OBVIOUS
<1>4. x \in C <=> \E i \in E : x = <<i, {}>> \/ \E v \in Values : x = <<i, {v}>>
  <2> HIDE DEF E
  <2> QED OBVIOUS
<1>5. \A i : i \in E <=> i \in DOMAIN d.discrete /\ d.discrete[i] = {}
  BY DEF IsAllPossibleValues
<1> HIDE DEF A, B, C, E
<1> QED BY <1>1, <1>2, <1>3, <1>4, <1>5

\* A claim is a point of a continuous index, a value of a discrete one, or the
\* values of it that no list names.
LEMMA PointsClaimed ==
    ASSUME NEW d \in Domains, NEW i \in ContinuousIndices, NEW p
    PROVE  <<i, {p}>> \in Claims(d)
             <=> /\ i \in DOMAIN d.continuous
                 /\ p \in d.continuous[i].begin .. d.continuous[i].end - 1
<1>1. i \notin DOMAIN d.discrete
  BY DomainHas, IndicesAssumption
<1> QED BY <1>1, ClaimsHas, Singles

LEMMA ValuesClaimed ==
    ASSUME NEW d \in Domains, NEW i \in DiscreteIndices, NEW v
    PROVE  <<i, {v}>> \in Claims(d)
             <=> /\ i \in DOMAIN d.discrete
                 /\ \/ v \in d.discrete[i]
                    \/ d.discrete[i] = {} /\ v \in Values
<1>1. i \notin DOMAIN d.continuous
  BY DomainHas, IndicesAssumption
<1>2. \A j, w : <<j, {w}>> = <<i, {v}>> => j = i /\ w = v
  BY Singles
<1>3. \A j : <<j, {}>> # <<i, {v}>>
  BY Singles
<1>4. ASSUME <<i, {v}>> \in Claims(d)
      PROVE  /\ i \in DOMAIN d.discrete
             /\ \/ v \in d.discrete[i]
                \/ d.discrete[i] = {} /\ v \in Values
  BY <1>1, <1>2, <1>3, <1>4, ClaimsHas
<1>5. ASSUME i \in DOMAIN d.discrete,
             \/ v \in d.discrete[i]
             \/ d.discrete[i] = {} /\ v \in Values
      PROVE  <<i, {v}>> \in Claims(d)
  BY <1>5, ClaimsHas
<1> QED BY <1>4, <1>5

LEMMA ClaimsAre ==
    ASSUME NEW d \in Domains, IsExplicit(d), NEW x \in Claims(d)
    PROVE  \/ \E i \in ContinuousIndices : \E p : x = <<i, {p}>>
           \/ \E i \in DiscreteIndices : \E v : x = <<i, {v}>>
<1>1. /\ DOMAIN d.continuous \subseteq ContinuousIndices
      /\ DOMAIN d.discrete \subseteq DiscreteIndices
  BY DomainHas
<1>2. \A i \in DOMAIN d.discrete : d.discrete[i] # {}
  BY DEF IsExplicit, IsAllPossibleValues
<1> QED BY <1>1, <1>2, ClaimsHas

\* A domain that contains another one that names its values claims what that
\* does.
LEMMA ContainsClaims ==
    ASSUME NEW d \in Domains, NEW r \in Domains, IsExplicit(r), Contains(d, r)
    PROVE  Claims(r) \subseteq Claims(d)
<1> SUFFICES ASSUME NEW x \in Claims(r) PROVE x \in Claims(d)
  OBVIOUS
<1>1. CASE \E i \in ContinuousIndices : \E p : x = <<i, {p}>>
  <2>1. PICK i \in ContinuousIndices : \E p : x = <<i, {p}>>
    BY <1>1
  <2>2. PICK p : x = <<i, {p}>>
    BY <2>1
  <2>3. /\ i \in DOMAIN r.continuous
        /\ p \in r.continuous[i].begin .. r.continuous[i].end - 1
    BY <2>2, PointsClaimed
  <2>4. /\ i \in DOMAIN d.continuous
        /\ RangeContains(d.continuous[i], r.continuous[i])
    BY <2>3 DEF Contains
  <2>5. d.continuous[i] \in Ranges /\ r.continuous[i] \in Ranges
    BY <2>3, <2>4, DomainHas
  <2>6. p \in d.continuous[i].begin .. d.continuous[i].end - 1
    BY <2>3, <2>4, <2>5, RangeHas DEF RangeContains
  <2> QED BY <2>2, <2>4, <2>6, PointsClaimed
<1>2. CASE \E i \in DiscreteIndices : \E v : x = <<i, {v}>>
  <2>1. PICK i \in DiscreteIndices : \E v : x = <<i, {v}>>
    BY <1>2
  <2>2. PICK v : x = <<i, {v}>>
    BY <2>1
  <2>3. i \in DOMAIN r.discrete /\ v \in r.discrete[i] /\ v \in Values
    BY <2>2, ValuesClaimed, DomainHas DEF IsExplicit, IsAllPossibleValues
  <2>4. i \in DOMAIN d.discrete /\ ListContains(d.discrete[i], r.discrete[i])
    BY <2>3 DEF Contains
  <2>5. v \in d.discrete[i] \/ (d.discrete[i] = {} /\ v \in Values)
    BY <2>3, <2>4 DEF ListContains, IsAllPossibleValues
  <2> QED BY <2>2, <2>4, <2>5, ValuesClaimed
<1> QED BY <1>1, <1>2, ClaimsAre

\* A domain that claims what one with points in its ranges does contains it,
\* but for their formats.
LEMMA ClaimsContain ==
    ASSUME NEW d \in Domains, NEW r \in Domains, IsExplicit(r),
           HasNoEmptyRange(r), Claims(r) \subseteq Claims(d),
           CanFormatFulfill(r.format, d.format)
    PROVE  Contains(d, r)
<1>1. ASSUME NEW i \in DOMAIN r.continuous
      PROVE  /\ i \in DOMAIN d.continuous
             /\ RangeContains(d.continuous[i], r.continuous[i])
  <2>1. i \in ContinuousIndices /\ r.continuous[i] \in Ranges
    BY DomainHas
  <2> DEFINE b == r.continuous[i].begin
             e == r.continuous[i].end
  <2>2. b \in Int /\ e \in Int /\ b < e
    BY <2>1, RangeHas DEF HasNoEmptyRange
  <2>3. <<i, {b}>> \in Claims(r) /\ <<i, {e - 1}>> \in Claims(r)
    <3>1. b \in b .. e - 1 /\ e - 1 \in b .. e - 1
      BY <2>2
    <3> QED BY <2>1, <3>1, PointsClaimed
  <2>4. /\ i \in DOMAIN d.continuous
        /\ b \in d.continuous[i].begin .. d.continuous[i].end - 1
        /\ e - 1 \in d.continuous[i].begin .. d.continuous[i].end - 1
    BY <2>1, <2>3, PointsClaimed
  <2>5. d.continuous[i].begin \in Int /\ d.continuous[i].end \in Int
    BY <2>4, DomainHas, RangeHas
  <2>6. d.continuous[i].begin <= b /\ d.continuous[i].end >= e
    BY <2>2, <2>4, <2>5
  <2> QED BY <2>4, <2>6 DEF RangeContains
<1>2. ASSUME NEW i \in DOMAIN r.discrete
      PROVE  i \in DOMAIN d.discrete /\ ListContains(d.discrete[i], r.discrete[i])
  <2>1. i \in DiscreteIndices /\ r.discrete[i] # {} /\ r.discrete[i] \subseteq Values
    BY DomainHas DEF IsExplicit, IsAllPossibleValues
  <2>2. \A v \in r.discrete[i] : <<i, {v}>> \in Claims(d)
    BY <2>1, ValuesClaimed
  <2>3. i \in DOMAIN d.discrete
    BY <2>1, <2>2, ValuesClaimed
  <2>4. \A v \in r.discrete[i] : v \in d.discrete[i] \/ d.discrete[i] = {}
    BY <2>1, <2>2, ValuesClaimed
  <2> QED BY <2>3, <2>4 DEF ListContains, IsAllPossibleValues
<1> QED BY <1>1, <1>2 DEF Contains

\* Ranges that can be expanded into each other become one that has the points
\* of both and no others.
LEMMA ExpandHasBoth ==
    ASSUME NEW r \in Ranges, NEW q \in Ranges, RangeCanExpandWith(r, q), NEW p
    PROVE  LET x == RangeExpand(r, q)
           IN  p \in x.begin .. x.end - 1
                 <=> \/ p \in r.begin .. r.end - 1
                     \/ p \in q.begin .. q.end - 1
<1>1. /\ r.begin \in Int /\ r.end \in Int /\ r.begin <= r.end
      /\ q.begin \in Int /\ q.end \in Int /\ q.begin <= q.end
  BY RangeHas
<1>2. \A a, b, c, d, m, n \in Int :
        /\ a <= b /\ c <= d
        /\ (c < a /\ a <= d) \/ (c = a /\ b < d) \/ (a < c /\ c <= b)
        /\ m = (IF c < a THEN c ELSE a) /\ n = (IF d > b THEN d ELSE b)
        => \A o : o \in m .. n - 1 <=> (o \in a .. b - 1 \/ o \in c .. d - 1)
  OBVIOUS
<1>3. /\ RangeExpand(r, q).begin = IF q.begin < r.begin THEN q.begin ELSE r.begin
      /\ RangeExpand(r, q).end = IF q.end > r.end THEN q.end ELSE r.end
  BY DEF RangeExpand
<1>4. RangeExpand(r, q).begin \in Int /\ RangeExpand(r, q).end \in Int
  BY <1>1, <1>3
<1> QED BY <1>1, <1>2, <1>3, <1>4 DEF RangeCanExpandWith

\* Merging domains that can be merged adds up what they claim, when their lists
\* name their values.
LEMMA MergeClaimsBoth ==
    ASSUME NEW d \in Domains, NEW e \in Domains, CanMerge(d, e),
           IsExplicit(d), IsExplicit(e)
    PROVE  /\ IsExplicit(MergeDomains(d, e))
           /\ Claims(MergeDomains(d, e)) = Claims(d) \union Claims(e)
<1>1. CASE Contains(d, e)
  BY <1>1, ContainsClaims DEF MergeDomains
<1>2. CASE ~Contains(d, e) /\ Contains(e, d)
  BY <1>2, ContainsClaims DEF MergeDomains
<1>3. CASE ~Contains(d, e) /\ ~Contains(e, d)
  <2>1. PICK m \in Domains : m = MergeDomains(d, e)
    BY MergeInDomains
  <2>2. /\ m.continuous = MergeRanges(d.continuous, e.continuous)
        /\ m.discrete = MergeLists(d.discrete, e.discrete)
    BY <1>3, <2>1 DEF MergeDomains
  <2>3. \A i \in DOMAIN d.continuous \intersect DOMAIN e.continuous :
          \/ d.continuous[i] = e.continuous[i]
          \/ RangeCanExpandWith(d.continuous[i], e.continuous[i])
    BY <1>3 DEF CanMerge, Differences
  <2>4. ASSUME NEW i \in ContinuousIndices, NEW p
        PROVE  <<i, {p}>> \in Claims(m)
                 <=> <<i, {p}>> \in Claims(d) \/ <<i, {p}>> \in Claims(e)
    <3>1. i \in DOMAIN m.continuous
            <=> i \in DOMAIN d.continuous \/ i \in DOMAIN e.continuous
      BY <2>2 DEF MergeRanges
    <3>2. CASE i \notin DOMAIN d.continuous /\ i \notin DOMAIN e.continuous
      BY <3>1, <3>2, PointsClaimed
    <3>3. CASE i \in DOMAIN d.continuous /\ i \notin DOMAIN e.continuous
      <4>1. m.continuous[i] = d.continuous[i]
        BY <2>2, <3>3 DEF MergeRanges
      <4> QED BY <3>1, <3>3, <4>1, PointsClaimed
    <3>4. CASE i \notin DOMAIN d.continuous /\ i \in DOMAIN e.continuous
      <4>1. m.continuous[i] = e.continuous[i]
        BY <2>2, <3>4 DEF MergeRanges
      <4> QED BY <3>1, <3>4, <4>1, PointsClaimed
    <3>5. CASE i \in DOMAIN d.continuous /\ i \in DOMAIN e.continuous
      <4>1. CASE d.continuous[i] = e.continuous[i]
        <5>1. m.continuous[i] = d.continuous[i]
          BY <2>2, <3>5, <4>1 DEF MergeRanges
        <5> QED BY <3>1, <3>5, <4>1, <5>1, PointsClaimed
      <4>2. CASE d.continuous[i] # e.continuous[i]
        <5>1. m.continuous[i] = RangeExpand(d.continuous[i], e.continuous[i])
          BY <2>2, <3>5, <4>2 DEF MergeRanges
        <5>2. d.continuous[i] \in Ranges /\ e.continuous[i] \in Ranges
          BY <3>5, DomainHas
        <5>3. RangeCanExpandWith(d.continuous[i], e.continuous[i])
          BY <2>3, <3>5, <4>2
        <5> QED BY <3>1, <3>5, <5>1, <5>2, <5>3, PointsClaimed, ExpandHasBoth
      <4> QED BY <4>1, <4>2
    <3> QED BY <3>2, <3>3, <3>4, <3>5
  <2>5. /\ \A i \in DOMAIN d.discrete : d.discrete[i] # {}
        /\ \A i \in DOMAIN e.discrete : e.discrete[i] # {}
    BY DEF IsExplicit, IsAllPossibleValues
  <2>6. /\ DOMAIN m.discrete = DOMAIN d.discrete \union DOMAIN e.discrete
        /\ \A i \in DOMAIN d.discrete \ DOMAIN e.discrete :
             m.discrete[i] = d.discrete[i]
        /\ \A i \in DOMAIN e.discrete \ DOMAIN d.discrete :
             m.discrete[i] = e.discrete[i]
        /\ \A i \in DOMAIN d.discrete \intersect DOMAIN e.discrete :
             m.discrete[i] = d.discrete[i] \union e.discrete[i]
    BY <2>2, <2>5 DEF MergeLists, ListExpand, IsAllPossibleValues
  <2>7. \A i \in DOMAIN m.discrete : m.discrete[i] # {}
    BY <2>5, <2>6
  <2>8. ASSUME NEW i \in DiscreteIndices, NEW v
        PROVE  <<i, {v}>> \in Claims(m)
                 <=> <<i, {v}>> \in Claims(d) \/ <<i, {v}>> \in Claims(e)
    BY <2>5, <2>6, <2>7, ValuesClaimed
  <2>9. IsExplicit(m)
    BY <2>7 DEF IsExplicit, IsAllPossibleValues
  <2>10. ASSUME NEW x
         PROVE  x \in Claims(m) <=> x \in Claims(d) \union Claims(e)
    <3>1. x \in Claims(m) \/ x \in Claims(d) \/ x \in Claims(e)
            => \/ \E i \in ContinuousIndices : \E p : x = <<i, {p}>>
               \/ \E i \in DiscreteIndices : \E v : x = <<i, {v}>>
      BY <2>9, ClaimsAre
    <3> QED BY <2>4, <2>8, <3>1
  <2> QED BY <2>1, <2>9, <2>10
<1> QED BY <1>1, <1>2, <1>3
-----------------------------------------------------------------------------
(* What holds of the call under way. *)

CallInv ==
    LET d == call.dataset
    IN /\ call.step = "idle" => call = Idle
       /\ call.step # "idle" => d \in Datasets
       /\ call.step \in {"make", "push", "resync", "claim", "forget"}
            => call.domain # None
       /\ call.step \in {"make", "next", "push", "resync", "claim", "persist"}
            => call.domainAdded # None
       /\ call.step \in {"next", "push", "resync", "claim", "persist", "forget",
                         "discard"} => datasets[d] # None
       /\ call.step \notin {"idle", "make"} => items[d] # None
       /\ call.step \in {"push", "forget", "discard"} => call.pending \subseteq Items
       /\ call.step \in {"make", "undo"} => datasets[d] = None
       /\ call.step = "undo" => items[d] = {}
       /\ call.step \in {"make", "undo", "next", "persist"} => call.kind = "create"
       /\ call.kind = "create" \/ call.step \in {"list", "empty", "drop"}
            => d \notin accepted

IInv == TypeOK /\ CallInv /\ AcceptedDatasetsStay

LEMMA IdleIsCall ==
    /\ Idle \in Calls
    /\ Idle.kind = "none" /\ Idle.step = "idle" /\ Idle.pending = {}
BY DEF Idle, Calls

\* Between calls nothing is asked of the call.
LEMMA IdleKeeps == call' = Idle => CallInv'
BY IdleIsCall DEF CallInv

LEMMA InitIInv == Init => IInv
<1> SUFFICES ASSUME Init PROVE IInv
  OBVIOUS
<1>1. TypeOK
  <2>1. failures \in 0 .. MaxFailures /\ crashes \in 0 .. MaxCrashes
    BY BoundsAssumption DEF Init
  <2>2. items \in [Datasets -> {None} \union SUBSET Items]
    BY DEF Init
  <2>3. /\ record \in [Datasets -> Domains \union {None}]
        /\ datasets \in [Datasets -> Domains \union {None}]
        /\ given \in [Datasets -> [Items -> Domains \union {None}]]
    BY DEF Init
  <2> QED BY <2>1, <2>2, <2>3, IdleIsCall DEF Init, TypeOK
<1>2. CallInv
  BY IdleIsCall DEF Init, CallInv
<1>3. AcceptedDatasetsStay
  BY DEF Init, AcceptedDatasetsStay
<1> QED BY <1>1, <1>2, <1>3 DEF IInv

LEMMA RestartKeeps ==
    ASSUME IInv, Restart
    PROVE  IInv'
<1>1. TypeOK'
  BY IdleIsCall, BoundsAssumption DEF IInv, TypeOK, Restart, store, history
<1>2. CallInv'
  BY IdleKeeps DEF Restart
<1>3. AcceptedDatasetsStay'
  BY DEF IInv, AcceptedDatasetsStay, Restart, store, history
<1> QED BY <1>1, <1>2, <1>3 DEF IInv

LEMMA CreateKeeps ==
    ASSUME NEW d \in Datasets, IInv, Create(d)
    PROVE  IInv'
<1>1. PICK domain \in Offered, added \in Offered, queue \in SUBSET Items :
         /\ call' = [Idle EXCEPT !.kind = "create", !.step = "make",
                                 !.dataset = d, !.domain = domain,
                                 !.queue = queue, !.domainAdded = added]
         /\ vague' = VagueAfter(d, {domain, added})
  BY DEF Create
<1>2. domain \in Domains /\ added \in Domains
  BY OfferedAssumption
<1>3. /\ call' \in Calls
      /\ call'.kind = "create" /\ call'.step = "make" /\ call'.dataset = d
      /\ call'.domain = domain /\ call'.domainAdded = added
  <2>1. call' = [kind |-> "create", step |-> "make", dataset |-> d,
                 domain |-> domain, queue |-> queue, domainAdded |-> added,
                 pending |-> {}, pushed |-> {}, resync |-> FALSE]
    BY <1>1 DEF Idle
  <2> QED BY <1>2, <2>1 DEF Calls
<1>4. d \notin accepted
  BY DEF Create, IInv, AcceptedDatasetsStay
<1>5. vague' \subseteq Datasets
  BY <1>1 DEF VagueAfter, IInv, TypeOK
<1> QED
  BY <1>2, <1>3, <1>4, <1>5, ItemsAssumption
     DEF Create, IInv, TypeOK, CallInv, AcceptedDatasetsStay, store

LEMMA MakeBucketKeeps ==
    ASSUME IInv, MakeBucket
    PROVE  IInv'
<1> DEFINE d == call.dataset
<1>1. /\ call \in Calls /\ d \in Datasets /\ call.step = "make"
      /\ call.domain \in Domains /\ call.domainAdded # None
      /\ call.kind = "create" /\ d \notin accepted /\ datasets[d] = None
  BY DEF IInv, TypeOK, CallInv, MakeBucket, Calls
<1>2. PICK outcome \in Outcomes :
         /\ Counts(outcome)
         /\ items' = Effect(items, d, outcome, {})
         /\ \/ /\ outcome = "ok"
               /\ datasets' = [datasets EXCEPT ![d] = call.domain]
               /\ call' = [call EXCEPT !.step = "next", !.domain = None]
            \/ /\ outcome = "ok"
               /\ call' = [call EXCEPT !.step = "undo"] /\ UNCHANGED datasets
            \/ outcome # "ok" /\ call' = AfterError /\ UNCHANGED datasets
  BY DEF MakeBucket
<1>3. failures' \in 0 .. MaxFailures
  BY <1>2, BoundsAssumption DEF IInv, TypeOK, Counts, Outcomes
<1>4. items' \in [Datasets -> {None} \union SUBSET Items]
  BY <1>2 DEF IInv, TypeOK, Effect
<1>5. UNCHANGED <<record, crashes, accepted, given, vague>>
  BY DEF MakeBucket, history
<1>6. \A e \in accepted : items'[e] = items[e]
  BY <1>1, <1>2 DEF IInv, TypeOK, Effect
<1>7. CASE /\ outcome = "ok"
           /\ datasets' = [datasets EXCEPT ![d] = call.domain]
           /\ call' = [call EXCEPT !.step = "next", !.domain = None]
  <2>1. datasets' = [datasets EXCEPT ![d] = call.domain]
    BY <1>7
  <2>2. items'[d] # None
    BY <1>1, <1>2, <1>7, ItemsAssumption DEF IInv, TypeOK, Effect
  <2>3. call' = [kind |-> call.kind, step |-> "next", dataset |-> d,
                 domain |-> None, queue |-> call.queue,
                 domainAdded |-> call.domainAdded, pending |-> call.pending,
                 pushed |-> call.pushed, resync |-> call.resync]
    BY <1>1, <1>2, <1>7 DEF Calls
  <2>4. call' \in Calls
    BY <1>1, <2>3 DEF Calls
  <2>5. TypeOK'
    BY <1>1, <1>3, <1>4, <1>5, <2>1, <2>4 DEF IInv, TypeOK
  <2>6. CallInv'
    BY <1>1, <1>5, <2>1, <2>2, <2>3, ItemsAssumption DEF CallInv, IInv, TypeOK
  <2>7. AcceptedDatasetsStay'
    BY <1>1, <1>5, <1>6, <2>1 DEF AcceptedDatasetsStay, IInv, TypeOK
  <2> QED BY <2>5, <2>6, <2>7 DEF IInv
<1>8. CASE outcome # "ok"
  <2>1. UNCHANGED datasets /\ call' = Idle
    BY <1>1, <1>2, <1>8 DEF AfterError
  <2>2. TypeOK'
    BY <1>3, <1>4, <1>5, <2>1, IdleIsCall DEF IInv, TypeOK
  <2>3. CallInv'
    BY <2>1, IdleIsCall DEF CallInv
  <2>4. AcceptedDatasetsStay'
    BY <1>5, <1>6, <2>1 DEF AcceptedDatasetsStay, IInv
  <2> QED BY <2>2, <2>3, <2>4 DEF IInv
<1>9. CASE /\ outcome = "ok"
           /\ call' = [call EXCEPT !.step = "undo"] /\ UNCHANGED datasets
  <2>1. items'[d] = {} /\ {} # None
    BY <1>1, <1>2, <1>9, ItemsAssumption DEF IInv, TypeOK, Effect
  <2>2. call' = [kind |-> call.kind, step |-> "undo", dataset |-> d,
                 domain |-> call.domain, queue |-> call.queue,
                 domainAdded |-> call.domainAdded, pending |-> call.pending,
                 pushed |-> call.pushed, resync |-> call.resync]
    BY <1>1, <1>9 DEF Calls
  <2>3. call' \in Calls
    BY <1>1, <2>2 DEF Calls
  <2>4. TypeOK'
    BY <1>3, <1>4, <1>5, <1>9, <2>3 DEF IInv, TypeOK
  <2>5. CallInv'
    BY <1>1, <1>5, <1>9, <2>1, <2>2 DEF CallInv
  <2>6. AcceptedDatasetsStay'
    BY <1>5, <1>6, <1>9 DEF AcceptedDatasetsStay, IInv
  <2> QED BY <2>4, <2>5, <2>6 DEF IInv
<1> QED BY <1>2, <1>7, <1>8, <1>9

LEMMA UndoBucketKeeps ==
    ASSUME IInv, UndoBucket
    PROVE  IInv'
<1> DEFINE d == call.dataset
<1>1. d \in Datasets /\ d \notin accepted
  BY DEF IInv, CallInv, UndoBucket
<1>2. call' = Idle /\ UNCHANGED <<record, datasets, crashes, accepted, given, vague>>
  BY DEF UndoBucket, history
<1>3. failures' \in 0 .. MaxFailures
  BY BoundsAssumption DEF UndoBucket, IInv, TypeOK, Counts, Outcomes
<1>4. /\ items' \in [Datasets -> {None} \union SUBSET Items]
      /\ \A e \in accepted : items'[e] = items[e]
  BY <1>1 DEF UndoBucket, IInv, TypeOK, Effect
<1>5. AcceptedDatasetsStay'
  BY <1>2, <1>4 DEF IInv, AcceptedDatasetsStay
<1> QED BY <1>2, <1>3, <1>4, <1>5, IdleIsCall, IdleKeeps DEF IInv, TypeOK

LEMMA NextInitialDataKeeps ==
    ASSUME IInv, NextInitialData
    PROVE  IInv'
<1> DEFINE d == call.dataset
<1>1. /\ call \in Calls /\ d \in Datasets /\ call.step = "next"
      /\ call.domainAdded \in Domains /\ datasets[d] \in Domains
      /\ items[d] # None /\ call.kind = "create" /\ d \notin accepted
  BY DEF IInv, TypeOK, CallInv, NextInitialData, Calls
<1>2. /\ UNCHANGED <<items, record, datasets, failures, crashes, accepted, given,
                     vague>>
      /\ AcceptedDatasetsStay'
  BY DEF NextInitialData, store, history, IInv, AcceptedDatasetsStay
<1>3. \/ call' = [call EXCEPT !.step = "persist"]
      \/ \E i \in call.queue :
           call' = [call EXCEPT !.step = "push", !.pending = {i},
                       !.domain = MergeDomains(datasets[d], call.domainAdded)]
      \/ call' = [call EXCEPT !.step = "list"]
  BY DEF NextInitialData
<1>4. CASE \E step \in {"persist", "list"} : call' = [call EXCEPT !.step = step]
  <2>1. PICK step \in {"persist", "list"} : call' = [call EXCEPT !.step = step]
    BY <1>4
  <2>2. /\ call' \in Calls
        /\ call'.step = step /\ call'.kind = call.kind /\ call'.dataset = d
        /\ call'.domainAdded = call.domainAdded
    BY <1>1, <2>1 DEF Calls
  <2>3. CallInv'
    BY <1>1, <1>2, <2>2, ItemsAssumption DEF CallInv
  <2> QED BY <1>2, <2>2, <2>3 DEF IInv, TypeOK
<1>5. ASSUME NEW i \in call.queue,
             call' = [call EXCEPT !.step = "push", !.pending = {i},
                        !.domain = MergeDomains(datasets[d], call.domainAdded)]
      PROVE  IInv'
  <2>1. PICK m \in Domains : m = MergeDomains(datasets[d], call.domainAdded)
    BY <1>1, MergeInDomains
  <2>2. i \in Items
    BY <1>1 DEF Calls
  <2>3. call' = [kind |-> call.kind, step |-> "push", dataset |-> d,
                 domain |-> m, queue |-> call.queue,
                 domainAdded |-> call.domainAdded, pending |-> {i},
                 pushed |-> call.pushed, resync |-> call.resync]
    BY <1>1, <1>5, <2>1 DEF Calls
  <2>4. call' \in Calls
    BY <1>1, <2>2, <2>3 DEF Calls
  <2>5. CallInv'
    BY <1>1, <1>2, <2>2, <2>3, ItemsAssumption DEF CallInv
  <2> QED BY <1>2, <2>4, <2>5 DEF IInv, TypeOK
<1> QED BY <1>3, <1>4, <1>5

LEMMA PersistCreatedKeeps ==
    ASSUME IInv, PersistCreated
    PROVE  IInv'
<1> DEFINE d == call.dataset
<1>1. /\ call \in Calls /\ d \in Datasets /\ call.step = "persist"
      /\ datasets[d] \in Domains /\ datasets[d] # None
      /\ items[d] # None /\ call.kind = "create" /\ d \notin accepted
  BY ItemsAssumption DEF IInv, TypeOK, CallInv, PersistCreated, Calls
<1>2. PICK outcome \in Outcomes :
         /\ Counts(outcome)
         /\ record' = Effect(record, d, outcome, datasets[d])
         /\ IF outcome = "ok"
            THEN accepted' = accepted \union {d} /\ call' = Idle
            ELSE UNCHANGED accepted /\ call' = AfterError
  BY DEF PersistCreated
<1>3. failures' \in 0 .. MaxFailures
  BY <1>2, BoundsAssumption DEF IInv, TypeOK, Counts, Outcomes
<1>4. record' \in [Datasets -> Domains \union {None}]
  BY <1>1, <1>2 DEF IInv, TypeOK, Effect
<1>5. UNCHANGED <<items, datasets, crashes, given, vague>>
  BY DEF PersistCreated
<1>6. \A e \in accepted : record'[e] # None
  BY <1>1, <1>2 DEF IInv, TypeOK, Effect, AcceptedDatasetsStay
<1>7. CASE outcome = "ok"
  <2>1. accepted' = accepted \union {d} /\ call' = Idle
    BY <1>2, <1>7
  <2>2. record'[d] # None
    BY <1>1, <1>2, <1>7 DEF IInv, TypeOK, Effect
  <2>3. AcceptedDatasetsStay'
    BY <1>1, <1>5, <1>6, <2>1, <2>2 DEF IInv, AcceptedDatasetsStay
  <2>4. TypeOK'
    BY <1>1, <1>3, <1>4, <1>5, <2>1, IdleIsCall DEF IInv, TypeOK
  <2> QED BY <2>1, <2>3, <2>4, IdleKeeps DEF IInv
<1>8. CASE outcome # "ok"
  <2>1. UNCHANGED accepted /\ call' = [call EXCEPT !.step = "list"]
    BY <1>1, <1>2, <1>8 DEF AfterError
  <2>2. /\ call' \in Calls
        /\ call'.step = "list" /\ call'.kind = call.kind /\ call'.dataset = d
    BY <1>1, <2>1 DEF Calls
  <2>3. CallInv'
    BY <1>1, <1>5, <2>1, <2>2 DEF CallInv
  <2>4. AcceptedDatasetsStay'
    BY <1>5, <1>6, <2>1 DEF IInv, AcceptedDatasetsStay
  <2> QED BY <1>3, <1>4, <1>5, <2>1, <2>2, <2>3, <2>4 DEF IInv, TypeOK
<1> QED BY <1>7, <1>8

LEMMA AddDataKeeps ==
    ASSUME NEW d \in Datasets, IInv, AddData(d)
    PROVE  IInv'
<1>1. PICK domain \in Offered, new \in (SUBSET Items) \ {{}}, resync \in BOOLEAN :
         /\ call' = [Idle EXCEPT !.kind = "add", !.step = "push",
                                 !.dataset = d, !.pending = new,
                                 !.domainAdded = domain, !.resync = resync,
                                 !.domain = MergeDomains(datasets[d], domain)]
         /\ vague' = VagueAfter(d, {domain})
  BY DEF AddData
<1>2. domain \in Domains /\ datasets[d] # None /\ items[d] # None
      /\ datasets[d] \in Domains
  BY OfferedAssumption DEF AddData, IInv, TypeOK
<1>3. PICK m \in Domains : m = MergeDomains(datasets[d], domain)
  BY <1>2, MergeInDomains
<1>4. call' = [kind |-> "add", step |-> "push", dataset |-> d, domain |-> m,
               queue |-> {}, domainAdded |-> domain, pending |-> new,
               pushed |-> {}, resync |-> resync]
  BY <1>1, <1>3 DEF Idle
<1>5. call' \in Calls
  BY <1>2, <1>4 DEF Calls
<1>6. vague' \subseteq Datasets
  BY <1>1 DEF VagueAfter, IInv, TypeOK
<1>7. UNCHANGED <<items, record, datasets, failures, crashes, accepted, given>>
  BY DEF AddData, store
<1>8. CallInv'
  BY <1>2, <1>4, <1>7, ItemsAssumption DEF CallInv
<1>9. AcceptedDatasetsStay'
  BY <1>7 DEF IInv, AcceptedDatasetsStay
<1> QED BY <1>5, <1>6, <1>7, <1>8, <1>9 DEF IInv, TypeOK
\* An error leaves the call idle or about to delete what it created.
LEMMA AfterErrorKeeps ==
    ASSUME call \in Calls, CallInv, call.step \in {"push", "claim"},
           call' = AfterError, items'[call.dataset] # None, accepted' = accepted
    PROVE  call' \in Calls /\ CallInv'
<1> DEFINE d == call.dataset
<1>1. CASE call.kind = "create"
  <2>1. call' = [call EXCEPT !.step = "list"]
    BY <1>1 DEF AfterError
  <2>2. /\ call' \in Calls
        /\ call'.step = "list" /\ call'.kind = call.kind /\ call'.dataset = d
    BY <2>1 DEF Calls
  <2>3. d \in Datasets /\ d \notin accepted
    BY <1>1 DEF CallInv
  <2>4. CallInv'
    BY <2>2, <2>3 DEF CallInv
  <2> QED BY <2>2, <2>4
<1>2. CASE call.kind # "create"
  BY <1>2, IdleIsCall, IdleKeeps DEF AfterError
<1> QED BY <1>1, <1>2

LEMMA PushKeeps ==
    ASSUME IInv, Push
    PROVE  IInv'
<1> DEFINE d == call.dataset
<1>1. /\ call \in Calls /\ d \in Datasets /\ call.step = "push"
      /\ call.domain # None /\ call.domainAdded # None /\ datasets[d] # None
      /\ items[d] \in SUBSET Items /\ call.pending \subseteq Items
      /\ call.kind = "create" => d \notin accepted
  BY DEF IInv, TypeOK, CallInv, Push, Calls
<1>2. PICK i \in call.pending, outcome \in Outcomes :
         /\ Counts(outcome)
         /\ items' = Effect(items, d, outcome, items[d] \union {i})
         /\ given' = IF outcome = "refused" THEN given
                     ELSE [given EXCEPT ![d][i] = None]
         /\ call' = IF outcome # "ok" THEN AfterError
                    ELSE [call EXCEPT
                            !.pending = @ \ {i},
                            !.pushed = @ \union {i},
                            !.step = IF call.pending # {i} THEN "push"
                                     ELSE IF call.resync THEN "resync"
                                     ELSE "claim"]
  BY DEF Push
<1>3. failures' \in 0 .. MaxFailures
  BY <1>2, BoundsAssumption DEF IInv, TypeOK, Counts, Outcomes
<1>4. i \in Items
  BY <1>1
<1>5. items' \in [Datasets -> {None} \union SUBSET Items]
  BY <1>1, <1>2, <1>4 DEF IInv, TypeOK, Effect
<1>6. given' \in [Datasets -> [Items -> Domains \union {None}]]
  BY <1>1, <1>2, <1>4 DEF IInv, TypeOK
<1>7. UNCHANGED <<record, datasets, crashes, accepted, vague>>
  BY DEF Push
<1>8. items'[d] # None /\ \A e \in accepted : items'[e] # None
  <2>1. items[d] \union {i} # None
    BY <1>1, <1>4, ItemsAssumption
  <2> QED BY <1>1, <1>2, <2>1, ItemsAssumption
             DEF IInv, TypeOK, AcceptedDatasetsStay, Effect
<1>9. AcceptedDatasetsStay'
  BY <1>7, <1>8 DEF IInv, AcceptedDatasetsStay
<1>10. call' \in Calls /\ CallInv'
  <2>1. CASE outcome # "ok"
    BY <1>1, <1>2, <1>7, <1>8, <2>1, AfterErrorKeeps DEF IInv
  <2>2. CASE outcome = "ok"
    <3>1. PICK step \in {"push", "resync", "claim"} :
            step = IF call.pending # {i} THEN "push"
                   ELSE IF call.resync THEN "resync" ELSE "claim"
      OBVIOUS
    <3>2. call' = [kind |-> call.kind, step |-> step, dataset |-> d,
                   domain |-> call.domain, queue |-> call.queue,
                   domainAdded |-> call.domainAdded,
                   pending |-> call.pending \ {i},
                   pushed |-> call.pushed \union {i}, resync |-> call.resync]
      BY <1>1, <1>2, <2>2, <3>1 DEF Calls
    <3>3. call' \in Calls
      BY <1>1, <1>4, <3>2 DEF Calls
    <3>4. CallInv'
      BY <1>1, <1>7, <1>8, <3>2 DEF CallInv
    <3> QED BY <3>3, <3>4
  <2> QED BY <2>1, <2>2
<1> QED BY <1>3, <1>5, <1>6, <1>7, <1>9, <1>10 DEF IInv, TypeOK

LEMMA ResyncKeeps ==
    ASSUME IInv, Resync
    PROVE  IInv'
<1> DEFINE d == call.dataset
<1>1. /\ call \in Calls /\ d \in Datasets /\ call.step = "resync"
      /\ call.domain # None /\ call.domainAdded # None
      /\ datasets[d] \in Domains /\ datasets[d] # None /\ items[d] # None
      /\ call.kind = "create" => d \notin accepted
  BY ItemsAssumption DEF IInv, TypeOK, CallInv, Resync, Calls
<1>2. PICK outcome \in Outcomes :
         /\ Counts(outcome)
         /\ record' = Effect(record, d, outcome, datasets[d])
         /\ call' = IF outcome = "ok" THEN [call EXCEPT !.step = "claim"] ELSE Idle
  BY DEF Resync
<1>3. failures' \in 0 .. MaxFailures
  BY <1>2, BoundsAssumption DEF IInv, TypeOK, Counts, Outcomes
<1>4. /\ record' \in [Datasets -> Domains \union {None}]
      /\ \A e \in accepted : record'[e] # None
  BY <1>1, <1>2 DEF IInv, TypeOK, AcceptedDatasetsStay, Effect
<1>5. UNCHANGED <<items, datasets, crashes, accepted, given, vague>>
  BY DEF Resync, history
<1>6. AcceptedDatasetsStay'
  BY <1>4, <1>5 DEF IInv, AcceptedDatasetsStay
<1>7. call' \in Calls /\ CallInv'
  <2>1. CASE outcome # "ok"
    BY <1>2, <2>1, IdleIsCall, IdleKeeps
  <2>2. CASE outcome = "ok"
    <3>1. /\ call' \in Calls
          /\ call'.step = "claim" /\ call'.kind = call.kind /\ call'.dataset = d
          /\ call'.domain = call.domain /\ call'.domainAdded = call.domainAdded
      BY <1>1, <1>2, <2>2 DEF Calls
    <3>2. CallInv'
      BY <1>1, <1>5, <3>1 DEF CallInv
    <3> QED BY <3>1, <3>2
  <2> QED BY <2>1, <2>2
<1> QED BY <1>3, <1>4, <1>5, <1>6, <1>7 DEF IInv, TypeOK

LEMMA ClaimKeeps ==
    ASSUME IInv, Claim
    PROVE  IInv'
<1> DEFINE d == call.dataset
<1>1. /\ call \in Calls /\ d \in Datasets /\ call.step = "claim"
      /\ call.domain \in Domains /\ call.domainAdded \in Domains
      /\ call.domain # None /\ call.domainAdded # None /\ items[d] # None
      /\ call.kind = "create" => d \notin accepted
  BY DEF IInv, TypeOK, CallInv, Claim, Calls
<1>2. PICK outcome \in Outcomes :
         /\ Counts(outcome)
         /\ record' = Effect(record, d, outcome, call.domain)
         /\ given' = IF outcome # "ok" THEN given
                     ELSE [given EXCEPT ![d] =
                             [i \in Items |-> IF i \in call.pushed
                                              THEN call.domainAdded ELSE @[i]]]
         /\ call' = IF outcome = "ok" THEN AfterAdding ELSE AfterError
  BY DEF Claim
<1>3. failures' \in 0 .. MaxFailures
  BY <1>2, BoundsAssumption DEF IInv, TypeOK, Counts, Outcomes
<1>4. /\ record' \in [Datasets -> Domains \union {None}]
      /\ \A e \in accepted : record'[e] # None
  BY <1>1, <1>2 DEF IInv, TypeOK, AcceptedDatasetsStay, Effect
<1>5. /\ datasets' = [datasets EXCEPT ![d] = call.domain]
      /\ UNCHANGED <<items, crashes, accepted, vague>>
  BY DEF Claim
<1>6. given' \in [Datasets -> [Items -> Domains \union {None}]]
  BY <1>1, <1>2 DEF IInv, TypeOK
<1>7. AcceptedDatasetsStay'
  BY <1>1, <1>4, <1>5 DEF IInv, TypeOK, AcceptedDatasetsStay
<1>8. datasets'[d] # None /\ datasets' \in [Datasets -> Domains \union {None}]
  BY <1>1, <1>5 DEF IInv, TypeOK
<1>9. call' \in Calls /\ CallInv'
  <2>1. CASE outcome # "ok"
    BY <1>1, <1>2, <1>5, <2>1, AfterErrorKeeps DEF IInv
  <2>2. CASE outcome = "ok" /\ call.kind = "create"
    <3>1. call' = [kind |-> call.kind, step |-> "next", dataset |-> d,
                   domain |-> call.domain, queue |-> call.queue \ call.pushed,
                   domainAdded |-> call.domainAdded, pending |-> call.pending,
                   pushed |-> {}, resync |-> call.resync]
      BY <1>1, <1>2, <2>2 DEF AfterAdding, Calls
    <3>2. call' \in Calls
      BY <1>1, <3>1 DEF Calls
    <3>3. CallInv'
      BY <1>1, <1>5, <1>8, <2>2, <3>1 DEF CallInv
    <3> QED BY <3>2, <3>3
  <2>3. CASE outcome = "ok" /\ call.kind # "create"
    BY <1>2, <2>3, IdleIsCall, IdleKeeps DEF AfterAdding
  <2> QED BY <2>1, <2>2, <2>3
<1> QED BY <1>3, <1>4, <1>5, <1>6, <1>7, <1>8, <1>9 DEF IInv, TypeOK
LEMMA CombinePartialsKeeps ==
    ASSUME NEW d \in Datasets, IInv, CombinePartials(d)
    PROVE  IInv'
<1>1. PICK i \in Items, outcome \in Outcomes :
         /\ Counts(outcome)
         /\ items' = Effect(items, d, outcome, items[d] \union {i})
         /\ given' = IF outcome = "refused" THEN given
                     ELSE [given EXCEPT ![d][i] = None]
  BY DEF CombinePartials
<1>2. failures' \in 0 .. MaxFailures
  BY <1>1, BoundsAssumption DEF IInv, TypeOK, Counts, Outcomes
<1>3. items[d] \in SUBSET Items
  BY DEF CombinePartials, IInv, TypeOK
<1>4. items' \in [Datasets -> {None} \union SUBSET Items]
  BY <1>1, <1>3 DEF IInv, TypeOK, Effect
<1>5. given' \in [Datasets -> [Items -> Domains \union {None}]]
  BY <1>1 DEF IInv, TypeOK
<1>6. /\ UNCHANGED <<record, datasets, call, crashes, accepted, vague>>
      /\ call = Idle
  BY DEF CombinePartials
<1>7. \A e \in accepted : items'[e] # None
  <2>1. items[d] \union {i} # None
    BY <1>3, ItemsAssumption
  <2> QED BY <1>1, <2>1 DEF IInv, TypeOK, AcceptedDatasetsStay, Effect
<1>8. AcceptedDatasetsStay'
  BY <1>6, <1>7 DEF IInv, AcceptedDatasetsStay
<1>9. CallInv'
  BY <1>6, IdleKeeps
<1> QED BY <1>2, <1>4, <1>5, <1>6, <1>8, <1>9 DEF IInv, TypeOK

LEMMA DeleteKeeps ==
    ASSUME NEW d \in Datasets, IInv, Delete(d)
    PROVE  IInv'
<1>1. PICK step \in {"list", "drop"} :
         call' = [Idle EXCEPT !.kind = "delete", !.step = step, !.dataset = d]
  BY DEF Delete
<1>2. call' = [kind |-> "delete", step |-> step, dataset |-> d, domain |-> None,
               queue |-> {}, domainAdded |-> None, pending |-> {},
               pushed |-> {}, resync |-> FALSE]
  BY <1>1 DEF Idle
<1>3. call' \in Calls
  BY <1>2 DEF Calls
<1>4. /\ accepted' = accepted \ {d} /\ items[d] # None
      /\ UNCHANGED <<items, record, datasets, failures, crashes, given, vague>>
  BY DEF Delete, store
<1>5. CallInv'
  BY <1>2, <1>4 DEF CallInv
<1>6. AcceptedDatasetsStay'
  BY <1>4 DEF IInv, AcceptedDatasetsStay
<1> QED BY <1>3, <1>4, <1>5, <1>6 DEF IInv, TypeOK

LEMMA ListKeeps ==
    ASSUME IInv, List
    PROVE  IInv'
<1> DEFINE d == call.dataset
<1>1. /\ call \in Calls /\ d \in Datasets /\ call.step = "list"
      /\ items[d] \in SUBSET Items /\ items[d] # None /\ d \notin accepted
  BY DEF IInv, TypeOK, CallInv, List, Calls
<1>2. PICK outcome \in Outcomes, listed \in SUBSET (Items \union {"record"}) :
         /\ Counts(outcome)
         /\ call' = IF outcome # "ok" THEN Idle
                    ELSE [call EXCEPT
                            !.pending = listed,
                            !.step = IF listed = {} THEN "drop" ELSE "empty"]
  BY <1>1 DEF List
<1>3. failures' \in 0 .. MaxFailures
  BY <1>2, BoundsAssumption DEF IInv, TypeOK, Counts, Outcomes
<1>4. UNCHANGED <<items, record, datasets, crashes, accepted, given, vague>>
  BY DEF List, store, history
<1>5. AcceptedDatasetsStay'
  BY <1>4 DEF IInv, AcceptedDatasetsStay
<1>6. call' \in Calls /\ CallInv'
  <2>1. CASE outcome # "ok"
    BY <1>2, <2>1, IdleIsCall, IdleKeeps
  <2>2. CASE outcome = "ok"
    <3>1. PICK step \in {"drop", "empty"} :
            step = IF listed = {} THEN "drop" ELSE "empty"
      OBVIOUS
    <3>2. call' = [kind |-> call.kind, step |-> step, dataset |-> d,
                   domain |-> call.domain, queue |-> call.queue,
                   domainAdded |-> call.domainAdded, pending |-> listed,
                   pushed |-> call.pushed, resync |-> call.resync]
      BY <1>1, <1>2, <2>2, <3>1 DEF Calls
    <3>3. listed \in SUBSET (Items \union {"record"})
      OBVIOUS
    <3>4. call' \in Calls
      BY <1>1, <3>2, <3>3 DEF Calls
    <3>5. CallInv'
      BY <1>1, <1>4, <3>2 DEF CallInv
    <3> QED BY <3>4, <3>5
  <2> QED BY <2>1, <2>2
<1> QED BY <1>3, <1>4, <1>5, <1>6 DEF IInv, TypeOK

LEMMA RemoveObjectKeeps ==
    ASSUME IInv, RemoveObject
    PROVE  IInv'
<1> DEFINE d == call.dataset
<1>1. /\ call \in Calls /\ d \in Datasets /\ call.step = "empty"
      /\ items[d] \in SUBSET Items /\ items[d] # None /\ d \notin accepted
  BY DEF IInv, TypeOK, CallInv, RemoveObject, Calls
<1>2. PICK o \in call.pending, outcome \in Outcomes :
         /\ Counts(outcome)
         /\ IF o = "record"
            THEN /\ record' = Effect(record, d, outcome, None)
                 /\ UNCHANGED <<items, given>>
            ELSE /\ items' = Effect(items, d, outcome, items[d] \ {o})
                 /\ given' = IF outcome = "refused" THEN given
                             ELSE [given EXCEPT ![d][o] = None]
                 /\ UNCHANGED record
         /\ call' = IF outcome # "ok" THEN Idle
                    ELSE [call EXCEPT
                            !.pending = @ \ {o},
                            !.step = IF call.pending = {o} THEN "drop" ELSE "empty"]
  BY DEF RemoveObject
<1>3. failures' \in 0 .. MaxFailures
  BY <1>2, BoundsAssumption DEF IInv, TypeOK, Counts, Outcomes
<1>4. UNCHANGED <<datasets, crashes, accepted, vague>>
  BY DEF RemoveObject
<1>5. o = "record" \/ o \in Items
  BY <1>1 DEF Calls
<1>6. record' \in [Datasets -> Domains \union {None}]
  BY <1>1, <1>2 DEF IInv, TypeOK, Effect
<1>7. items' \in [Datasets -> {None} \union SUBSET Items]
  BY <1>1, <1>2 DEF IInv, TypeOK, Effect
<1>8. given' \in [Datasets -> [Items -> Domains \union {None}]]
  <2>1. given \in [Datasets -> [Items -> Domains \union {None}]]
    BY DEF IInv, TypeOK
  <2>2. given' = given \/ (o \in Items /\ given' = [given EXCEPT ![d][o] = None])
    BY <1>2, <1>5
  <2> QED BY <1>1, <2>1, <2>2
<1>9. items'[d] # None
  <2>1. items[d] \ {o} # None
    BY <1>1, ItemsAssumption
  <2> QED BY <1>1, <1>2, <2>1 DEF IInv, TypeOK, Effect
<1>10. \A e \in accepted : record'[e] = record[e] /\ items'[e] = items[e]
  BY <1>1, <1>2 DEF IInv, TypeOK, Effect
<1>11. AcceptedDatasetsStay'
  BY <1>4, <1>10 DEF IInv, AcceptedDatasetsStay
<1>12. call' \in Calls /\ CallInv'
  <2>1. CASE outcome # "ok"
    BY <1>2, <2>1, IdleIsCall, IdleKeeps
  <2>2. CASE outcome = "ok"
    <3>1. PICK step \in {"drop", "empty"} :
            step = IF call.pending = {o} THEN "drop" ELSE "empty"
      OBVIOUS
    <3>2. call' = [kind |-> call.kind, step |-> step, dataset |-> d,
                   domain |-> call.domain, queue |-> call.queue,
                   domainAdded |-> call.domainAdded,
                   pending |-> call.pending \ {o},
                   pushed |-> call.pushed, resync |-> call.resync]
      BY <1>1, <1>2, <2>2, <3>1 DEF Calls
    <3>3. call.pending \ {o} \in SUBSET (Items \union {"record"})
      BY <1>1 DEF Calls
    <3>4. call' \in Calls
      BY <1>1, <3>2, <3>3 DEF Calls
    <3>5. CallInv'
      BY <1>1, <1>4, <1>9, <3>2 DEF CallInv
    <3> QED BY <3>4, <3>5
  <2> QED BY <2>1, <2>2
<1> QED BY <1>3, <1>4, <1>6, <1>7, <1>8, <1>11, <1>12 DEF IInv, TypeOK

LEMMA RemoveBucketKeeps ==
    ASSUME IInv, RemoveBucket
    PROVE  IInv'
<1> DEFINE d == call.dataset
<1>1. d \in Datasets /\ d \notin accepted
  BY DEF IInv, CallInv, RemoveBucket
<1>2. call' = Idle /\ UNCHANGED <<record, crashes, accepted, given, vague>>
  BY DEF RemoveBucket, history
<1>3. failures' \in 0 .. MaxFailures
  BY BoundsAssumption DEF RemoveBucket, IInv, TypeOK, Counts, Outcomes
<1>4. /\ items' \in [Datasets -> {None} \union SUBSET Items]
      /\ \A e \in accepted : items'[e] = items[e]
  BY <1>1 DEF RemoveBucket, IInv, TypeOK, Effect
<1>5. /\ datasets' \in [Datasets -> Domains \union {None}]
      /\ \A e \in accepted : datasets'[e] = datasets[e]
  BY <1>1 DEF RemoveBucket, IInv, TypeOK
<1>6. AcceptedDatasetsStay'
  BY <1>2, <1>4, <1>5 DEF IInv, AcceptedDatasetsStay
<1> QED BY <1>2, <1>3, <1>4, <1>5, <1>6, IdleIsCall, IdleKeeps DEF IInv, TypeOK

LEMMA DeleteDataKeeps ==
    ASSUME NEW d \in Datasets, IInv, DeleteData(d)
    PROVE  IInv'
<1>1. PICK gone \in SUBSET items[d] :
         call' = [Idle EXCEPT !.kind = "delete data", !.step = "forget",
                              !.dataset = d, !.pending = gone,
                              !.domain = datasets[d]]
  BY DEF DeleteData, SubtractDomains
<1>2. call' = [kind |-> "delete data", step |-> "forget", dataset |-> d,
               domain |-> datasets[d], queue |-> {}, domainAdded |-> None,
               pending |-> gone, pushed |-> {}, resync |-> FALSE]
  BY <1>1 DEF Idle
<1>3. /\ datasets[d] # None /\ datasets[d] \in Domains
      /\ items[d] # None /\ gone \subseteq Items
  BY DEF DeleteData, IInv, TypeOK
<1>4. call' \in Calls
  BY <1>2, <1>3 DEF Calls
<1>5. UNCHANGED <<items, record, datasets, failures, crashes, accepted, given, vague>>
  BY DEF DeleteData, store, history
<1>6. CallInv'
  BY <1>2, <1>3, <1>5 DEF CallInv
<1>7. AcceptedDatasetsStay'
  BY <1>5 DEF IInv, AcceptedDatasetsStay
<1> QED BY <1>4, <1>5, <1>6, <1>7 DEF IInv, TypeOK

LEMMA ForgetKeeps ==
    ASSUME IInv, Forget
    PROVE  IInv'
<1> DEFINE d == call.dataset
<1>1. /\ call \in Calls /\ d \in Datasets /\ call.step = "forget"
      /\ call.domain \in Domains /\ call.domain # None /\ items[d] # None
      /\ call.pending \subseteq Items
      /\ call.kind = "create" => d \notin accepted
  BY DEF IInv, TypeOK, CallInv, Forget, Calls
<1>2. PICK outcome \in Outcomes :
         /\ Counts(outcome)
         /\ record' = Effect(record, d, outcome, call.domain)
         /\ call' = IF outcome = "ok" THEN [call EXCEPT !.step = "discard"] ELSE Idle
  BY DEF Forget
<1>3. failures' \in 0 .. MaxFailures
  BY <1>2, BoundsAssumption DEF IInv, TypeOK, Counts, Outcomes
<1>4. /\ record' \in [Datasets -> Domains \union {None}]
      /\ \A e \in accepted : record'[e] # None
  BY <1>1, <1>2 DEF IInv, TypeOK, AcceptedDatasetsStay, Effect
<1>5. /\ datasets' = [datasets EXCEPT ![d] = call.domain]
      /\ UNCHANGED <<items, crashes, accepted, given, vague>>
  BY DEF Forget, history
<1>6. datasets'[d] # None /\ datasets' \in [Datasets -> Domains \union {None}]
  BY <1>1, <1>5 DEF IInv, TypeOK
<1>7. AcceptedDatasetsStay'
  BY <1>1, <1>4, <1>5 DEF IInv, TypeOK, AcceptedDatasetsStay
<1>8. call' \in Calls /\ CallInv'
  <2>1. CASE outcome # "ok"
    BY <1>2, <2>1, IdleIsCall, IdleKeeps
  <2>2. CASE outcome = "ok"
    <3>1. /\ call' \in Calls
          /\ call'.step = "discard" /\ call'.kind = call.kind
          /\ call'.dataset = d /\ call'.pending = call.pending
      BY <1>1, <1>2, <2>2 DEF Calls
    <3>2. CallInv'
      BY <1>1, <1>5, <1>6, <3>1 DEF CallInv
    <3> QED BY <3>1, <3>2
  <2> QED BY <2>1, <2>2
<1> QED BY <1>3, <1>4, <1>5, <1>6, <1>7, <1>8 DEF IInv, TypeOK

LEMMA DiscardKeeps ==
    ASSUME IInv, Discard
    PROVE  IInv'
<1> DEFINE d == call.dataset
<1>1. d \in Datasets /\ items[d] \in SUBSET Items
  BY DEF IInv, TypeOK, CallInv, Discard
<1>2. PICK gone \in SUBSET call.pending, outcome \in Outcomes :
         /\ Counts(outcome)
         /\ items' = [items EXCEPT ![d] = @ \ gone]
         /\ given' = [given EXCEPT ![d] =
                        [i \in Items |-> IF i \in gone THEN None ELSE @[i]]]
  BY DEF Discard
<1>3. failures' \in 0 .. MaxFailures
  BY <1>2, BoundsAssumption DEF IInv, TypeOK, Counts, Outcomes
<1>4. call' = Idle /\ UNCHANGED <<record, datasets, crashes, accepted, vague>>
  BY DEF Discard
<1>5. items[d] \ gone # None /\ items[d] \ gone \in SUBSET Items
  BY <1>1, ItemsAssumption
<1>6. /\ items' \in [Datasets -> {None} \union SUBSET Items]
      /\ \A e \in accepted : items'[e] # None
  BY <1>2, <1>5 DEF IInv, TypeOK, AcceptedDatasetsStay
<1>7. given' \in [Datasets -> [Items -> Domains \union {None}]]
  BY <1>1, <1>2 DEF IInv, TypeOK
<1>8. AcceptedDatasetsStay'
  BY <1>4, <1>6 DEF IInv, AcceptedDatasetsStay
<1> QED BY <1>3, <1>4, <1>6, <1>7, <1>8, IdleIsCall, IdleKeeps DEF IInv, TypeOK

-----------------------------------------------------------------------------
(* Every step *)

LEMMA NextKeeps == IInv /\ [Next]_vars => IInv'
<1> SUFFICES ASSUME IInv, [Next]_vars PROVE IInv'
  OBVIOUS
<1>1. CASE UNCHANGED vars
  BY <1>1 DEF vars, store, history, IInv, TypeOK, CallInv, AcceptedDatasetsStay
<1>2. ASSUME NEW d \in Datasets, Create(d) PROVE IInv'
  BY <1>2, CreateKeeps
<1>3. ASSUME NEW d \in Datasets, AddData(d) PROVE IInv'
  BY <1>3, AddDataKeeps
<1>4. ASSUME NEW d \in Datasets, CombinePartials(d) PROVE IInv'
  BY <1>4, CombinePartialsKeeps
<1>5. ASSUME NEW d \in Datasets, Delete(d) PROVE IInv'
  BY <1>5, DeleteKeeps
<1>6. ASSUME NEW d \in Datasets, DeleteData(d) PROVE IInv'
  BY <1>6, DeleteDataKeeps
<1>7. CASE MakeBucket
  BY <1>7, MakeBucketKeeps
<1>8. CASE NextInitialData
  BY <1>8, NextInitialDataKeeps
<1>9. CASE PersistCreated
  BY <1>9, PersistCreatedKeeps
<1>10. CASE Push
  BY <1>10, PushKeeps
<1>11. CASE Resync
  BY <1>11, ResyncKeeps
<1>12. CASE Claim
  BY <1>12, ClaimKeeps
<1>13. CASE List
  BY <1>13, ListKeeps
<1>14. CASE RemoveObject
  BY <1>14, RemoveObjectKeeps
<1>15. CASE RemoveBucket
  BY <1>15, RemoveBucketKeeps
<1>16. CASE Forget
  BY <1>16, ForgetKeeps
<1>17. CASE Discard
  BY <1>17, DiscardKeeps
<1>18. CASE Restart
  BY <1>18, RestartKeeps
<1>19. CASE UndoBucket
  BY <1>19, UndoBucketKeeps
<1> QED
  BY <1>1, <1>2, <1>3, <1>4, <1>5, <1>6, <1>7, <1>8, <1>9, <1>10, <1>11,
     <1>12, <1>13, <1>14, <1>15, <1>16, <1>17, <1>18, <1>19 DEF Next

LEMMA Invariance == Spec => []IInv
BY InitIInv, NextKeeps, PTL DEF Spec

-----------------------------------------------------------------------------
(* Buckets and the datasets that are managed *)

\* Without failures and restarts a dataset is in memory when it has a bucket,
\* except for the one whose bucket is being made or taken away again.
Managed ==
    failures = 0 /\ crashes = 0 =>
        \A d \in Datasets : \/ call.step \in {"make", "undo"} /\ call.dataset = d
                            \/ datasets[d] # None <=> items[d] # None

\* Steps that neither make nor remove a bucket.
LEMMA ManagedStays ==
    ASSUME Managed, call.step \notin {"make", "undo"}, failures' = 0 => failures = 0,
           crashes' = 0 => crashes = 0,
           \A d \in Datasets : /\ datasets'[d] = None <=> datasets[d] = None
                               /\ items'[d] = None <=> items[d] = None
    PROVE  Managed'
BY DEF Managed

LEMMA CountsUp ==
    ASSUME NEW outcome, Counts(outcome), failures \in Nat
    PROVE  failures' = 0 => failures = 0 /\ outcome = "ok"
BY DEF Counts

LEMMA ManagedKeeps ==
    ASSUME IInv, Managed, [Next]_vars
    PROVE  Managed'
<1>1. /\ failures \in Nat /\ crashes \in Nat
      /\ items \in [Datasets -> {None} \union SUBSET Items]
      /\ datasets \in [Datasets -> Domains \union {None}]
      /\ call \in Calls
  BY BoundsAssumption DEF IInv, TypeOK
<1>2. /\ call = Idle => call.step = "idle"
      /\ call.step \in {"push", "claim", "empty", "drop", "forget", "discard"}
           => items[call.dataset] # None /\ call.dataset \in Datasets
      /\ call.step \in {"claim", "forget"} => datasets[call.dataset] # None
      /\ call.step \in {"claim", "forget"} => call.domain # None
  BY IdleIsCall DEF IInv, CallInv
<1>3. \A s \in SUBSET Items : s # None
  BY ItemsAssumption
<1>4. CASE UNCHANGED vars
  BY <1>4 DEF vars, store, history, Managed
<1>5. ASSUME NEW d \in Datasets,
             \/ Create(d) \/ AddData(d) \/ Delete(d) \/ DeleteData(d)
      PROVE  Managed'
  <2>1. call.step = "idle" /\ UNCHANGED <<items, datasets, failures, crashes>>
    BY <1>2, <1>5 DEF Create, AddData, Delete, DeleteData, store
  <2> QED BY <2>1, ManagedStays
<1>6. ASSUME NEW d \in Datasets, CombinePartials(d)
      PROVE  Managed'
  <2>1. /\ call.step = "idle" /\ UNCHANGED <<datasets, crashes>>
        /\ items[d] \in SUBSET Items
    BY <1>1, <1>2, <1>6 DEF CombinePartials
  <2>2. PICK i \in Items, outcome \in Outcomes :
           Counts(outcome) /\ items' = Effect(items, d, outcome, items[d] \union {i})
    BY <1>6 DEF CombinePartials
  <2>3. items[d] # None /\ items[d] \union {i} # None
    BY <1>3, <1>6, <2>1 DEF CombinePartials
  <2>4. \A e \in Datasets : items'[e] = None <=> items[e] = None
    BY <1>1, <2>2, <2>3 DEF Effect
  <2> QED BY <1>1, <2>1, <2>2, <2>4, CountsUp, ManagedStays
<1>7. CASE MakeBucket
  <2>1. PICK outcome \in Outcomes :
           /\ Counts(outcome)
           /\ items' = Effect(items, call.dataset, outcome, {})
           /\ \/ outcome # "ok"
              \/ datasets' = [datasets EXCEPT ![call.dataset] = call.domain]
              \/ call' = [call EXCEPT !.step = "undo"] /\ datasets' = datasets
    BY <1>7 DEF MakeBucket
  <2>2. SUFFICES ASSUME outcome = "ok", failures = 0, crashes = 0, failures' = 0,
                        NEW e \in Datasets
                 PROVE  \/ call'.step \in {"make", "undo"} /\ call'.dataset = e
                        \/ datasets'[e] # None <=> items'[e] # None
    BY <1>1, <1>7, <2>1, CountsUp DEF MakeBucket, Managed
  <2>3. call.domain # None /\ {} # None
    BY <1>3, <1>7 DEF IInv, CallInv, MakeBucket
  <2>4. e # call.dataset => (datasets[e] # None <=> items[e] # None)
    BY <2>2 DEF Managed
  <2>5. e # call.dataset => items'[e] = items[e]
    BY <1>1, <2>1 DEF Effect
  <2>6. CASE datasets' = [datasets EXCEPT ![call.dataset] = call.domain]
    BY <1>1, <2>1, <2>2, <2>3, <2>4, <2>6 DEF Effect
  <2>7. CASE call' = [call EXCEPT !.step = "undo"] /\ datasets' = datasets
    <3>1. call'.step = "undo" /\ call'.dataset = call.dataset
      BY <1>1, <2>7 DEF Calls
    <3> QED BY <2>4, <2>5, <2>7, <3>1
  <2> QED BY <2>1, <2>2, <2>6, <2>7
<1>8. CASE NextInitialData \/ PersistCreated \/ Resync \/ List
  <2>1. call.step \notin {"make", "undo"} /\ UNCHANGED <<items, datasets, crashes>>
    BY <1>8 DEF NextInitialData, PersistCreated, Resync, List, store
  <2>2. failures' = 0 => failures = 0
    BY <1>1, <1>8, CountsUp DEF NextInitialData, PersistCreated, Resync, List
  <2> QED BY <2>1, <2>2, ManagedStays
<1>9. CASE Push \/ RemoveObject \/ Discard
  <2>1. /\ call.step \notin {"make", "undo"} /\ UNCHANGED <<datasets, crashes>>
        /\ call.dataset \in Datasets /\ items[call.dataset] # None
        /\ items[call.dataset] \in SUBSET Items
    BY <1>1, <1>2, <1>9 DEF Push, RemoveObject, Discard
  <2>2. failures' = 0 => failures = 0
    BY <1>1, <1>9, CountsUp DEF Push, RemoveObject, Discard
  <2>3. \/ items' = items
        \/ \E s \in SUBSET Items : items' = [items EXCEPT ![call.dataset] = s]
    <3>1. CASE Push
      <4>1. call.pending \subseteq Items
        BY <3>1 DEF IInv, CallInv, Push
      <4> QED BY <2>1, <3>1, <4>1 DEF Push, Effect
    <3>2. CASE RemoveObject
      BY <2>1, <3>2 DEF RemoveObject, Effect
    <3>3. CASE Discard
      BY <1>1, <2>1, <3>3 DEF Discard
    <3> QED BY <1>9, <3>1, <3>2, <3>3
  <2>4. \A e \in Datasets : items'[e] = None <=> items[e] = None
    BY <1>1, <1>3, <2>1, <2>3
  <2> QED BY <2>1, <2>2, <2>4, ManagedStays
<1>10. CASE Claim \/ Forget
  <2>1. /\ call.step \notin {"make", "undo"} /\ UNCHANGED <<items, crashes>>
        /\ call.dataset \in Datasets /\ datasets[call.dataset] # None
        /\ call.domain # None
        /\ datasets' = [datasets EXCEPT ![call.dataset] = call.domain]
    BY <1>2, <1>10 DEF Claim, Forget
  <2>2. failures' = 0 => failures = 0
    BY <1>1, <1>10, CountsUp DEF Claim, Forget
  <2>3. \A e \in Datasets : datasets'[e] = None <=> datasets[e] = None
    BY <1>1, <2>1
  <2> QED BY <2>1, <2>2, <2>3, ManagedStays
<1>11. CASE RemoveBucket
  <2>1. call.step = "drop" /\ UNCHANGED crashes
    BY <1>11 DEF RemoveBucket
  <2>2. CASE UNCHANGED <<items, datasets, failures>>
    BY <2>1, <2>2, ManagedStays
  <2>3. CASE \E outcome \in Outcomes :
               /\ Counts(outcome)
               /\ items' = Effect(items, call.dataset, outcome, None)
               /\ datasets' = IF outcome # "ok" THEN datasets
                              ELSE [datasets EXCEPT ![call.dataset] = None]
    <3>1. PICK outcome \in Outcomes :
               /\ Counts(outcome)
               /\ items' = Effect(items, call.dataset, outcome, None)
               /\ datasets' = IF outcome # "ok" THEN datasets
                              ELSE [datasets EXCEPT ![call.dataset] = None]
      BY <2>3
    <3>2. SUFFICES ASSUME outcome = "ok", failures = 0, crashes = 0,
                          NEW e \in Datasets
                   PROVE  datasets'[e] # None <=> items'[e] # None
      BY <1>1, <2>1, <3>1, CountsUp DEF Managed
    <3>3. datasets[e] # None <=> items[e] # None
      BY <2>1, <3>2 DEF Managed
    <3> QED BY <1>1, <3>1, <3>2, <3>3 DEF Effect
  <2> QED BY <1>11, <2>2, <2>3 DEF RemoveBucket
<1>12. CASE Restart
  BY <1>1, <1>12 DEF Restart, Managed
<1>13. CASE UndoBucket
  <2>1. call.step = "undo" /\ UNCHANGED <<datasets, crashes>>
    BY <1>13 DEF UndoBucket
  <2>2. PICK outcome \in Outcomes :
           Counts(outcome) /\ items' = Effect(items, call.dataset, outcome, None)
    BY <1>13 DEF UndoBucket
  <2>3. SUFFICES ASSUME outcome = "ok", failures = 0, crashes = 0, NEW e \in Datasets
                 PROVE  datasets'[e] # None <=> items'[e] # None
    BY <1>1, <2>1, <2>2, CountsUp DEF Managed
  <2>4. e # call.dataset => (datasets[e] # None <=> items[e] # None)
    BY <2>3 DEF Managed
  <2>5. datasets[call.dataset] = None
    BY <2>1 DEF IInv, CallInv
  <2> QED BY <1>1, <2>1, <2>2, <2>3, <2>4, <2>5 DEF Effect
<1> QED
  BY <1>4, <1>5, <1>6, <1>7, <1>8, <1>9, <1>10, <1>11, <1>12, <1>13 DEF Next

-----------------------------------------------------------------------------
(* What datasets claim of the data they were given *)

\* What a call will make of its dataset's domain.  A dataset that is about to
\* be made has nothing; the items that were pushed are in the bucket; while they
\* are, the new domain is the merged one; the data deleted takes no claims along.
Plan ==
    LET d == call.dataset
    IN /\ call.step = "make" =>
            items[d] = None /\ datasets[d] = None /\ call.pushed = {}
       /\ call.step \in {"next", "push", "resync", "claim"} =>
            call.pushed \subseteq items[d]
       /\ call.step \in {"push", "resync", "claim"} =>
            /\ CanMerge(datasets[d], call.domainAdded)
            /\ call.domain = MergeDomains(datasets[d], call.domainAdded)
       /\ call.step = "forget" => call.domain = datasets[d]
       /\ call.step = "make" /\ d \notin vague => IsExplicit(call.domain)
       /\ call.step \in {"make", "next", "push", "resync", "claim"} /\ d \notin vague
            => IsExplicit(call.domainAdded)

\* The domains of the datasets that were never given every value of an index.
Explicit ==
    \A d \in Datasets \ vague :
      \A c \in {datasets[d], record[d]} \ {None} : IsExplicit(c)

GivenIsKept ==
    \A d \in Datasets, i \in Items : given[d][i] # None => items[d] # None

Sound == Plan /\ Explicit /\ GivenIsKept /\ GivenDataIsClaimed

LEMMA NoPlan ==
    call'.step \in {"idle", "undo", "persist", "list", "empty", "drop", "discard"}
        => Plan'
BY DEF Plan

LEMMA NoPlanAfterError ==
    ASSUME call \in Calls, call' = AfterError
    PROVE  Plan'
BY IdleIsCall, NoPlan DEF AfterError, Calls

LEMMA VagueGrows ==
    ASSUME NEW d, NEW domains, vague' = VagueAfter(d, domains)
    PROVE  /\ vague \subseteq vague'
           /\ d \notin vague' => \A c \in domains : IsExplicit(c)
BY DEF VagueAfter

LEMMA ExplicitKeeps ==
    ASSUME NEW d, NEW w, Explicit, vague \subseteq vague',
           w # None /\ d \notin vague' => IsExplicit(w),
           \A e \in Datasets : \A c \in {datasets'[e], record'[e]} :
             c = None \/ c \in {datasets[e], record[e]} \/ (e = d /\ c = w)
    PROVE  Explicit'
BY DEF Explicit

\* Data that was given earlier stays, and so do its dataset's claims, or it is
\* no longer given.
LEMMA GivenKeeps ==
    ASSUME GivenIsKept, GivenDataIsClaimed, vague \subseteq vague',
           \A e \in Datasets, i \in Items :
             given'[e][i] # None =>
               /\ given'[e][i] = given[e][i]
               /\ items[e] # None /\ i \in items[e]
                    => items'[e] # None /\ i \in items'[e]
               /\ \A c \in {datasets'[e], record'[e]} \ {None} :
                    c \in {datasets[e], record[e]}
    PROVE  GivenIsKept' /\ GivenDataIsClaimed'
BY DEF GivenIsKept, GivenDataIsClaimed

\* Steps that only plan what to do.
LEMMA PlanningKeeps ==
    ASSUME Sound, Plan', vague \subseteq vague',
           UNCHANGED <<items, record, datasets, given>>
    PROVE  Sound'
<1>1. Explicit'
  BY DEF Sound, Explicit
<1>2. GivenIsKept' /\ GivenDataIsClaimed'
  BY GivenKeeps DEF Sound
<1> QED BY <1>1, <1>2 DEF Sound

LEMMA CreateIsSound ==
    ASSUME NEW d \in Datasets, IInv, Sound, Create(d)
    PROVE  Sound'
<1>1. PICK domain \in Offered, added \in Offered, queue \in SUBSET Items :
         /\ call' = [Idle EXCEPT !.kind = "create", !.step = "make",
                                 !.dataset = d, !.domain = domain,
                                 !.queue = queue, !.domainAdded = added]
         /\ vague' = VagueAfter(d, {domain, added})
  BY DEF Create
<1>2. /\ call'.step = "make" /\ call'.dataset = d /\ call'.domain = domain
      /\ call'.domainAdded = added /\ call'.pushed = {}
  BY <1>1 DEF Idle
<1>3. /\ UNCHANGED <<items, record, datasets, given>>
      /\ items[d] = None /\ datasets[d] = None
  BY DEF Create, store
<1>4. vague \subseteq vague' /\ (d \notin vague' => IsExplicit(domain) /\ IsExplicit(added))
  BY <1>1, VagueGrows
<1>5. Plan'
  BY <1>2, <1>3, <1>4 DEF Plan
<1> QED BY <1>3, <1>4, <1>5, PlanningKeeps

LEMMA AddDataIsSound ==
    ASSUME NEW d \in Datasets, IInv, Sound, AddData(d)
    PROVE  Sound'
<1>1. PICK domain \in Offered, new \in (SUBSET Items) \ {{}}, resync \in BOOLEAN :
         /\ CanMerge(datasets[d], domain)
         /\ call' = [Idle EXCEPT !.kind = "add", !.step = "push",
                                 !.dataset = d, !.pending = new,
                                 !.domainAdded = domain, !.resync = resync,
                                 !.domain = MergeDomains(datasets[d], domain)]
         /\ vague' = VagueAfter(d, {domain})
  BY DEF AddData
<1>2. /\ call'.step = "push" /\ call'.dataset = d /\ call'.pushed = {}
      /\ call'.domainAdded = domain /\ call'.domain = MergeDomains(datasets[d], domain)
  BY <1>1 DEF Idle
<1>3. UNCHANGED <<items, record, datasets, given>>
  BY DEF AddData, store
<1>4. vague \subseteq vague' /\ (d \notin vague' => IsExplicit(domain))
  BY <1>1, VagueGrows
<1>5. Plan'
  BY <1>1, <1>2, <1>3, <1>4 DEF Plan
<1> QED BY <1>3, <1>4, <1>5, PlanningKeeps

LEMMA DeletionsAreSound ==
    ASSUME NEW d \in Datasets, IInv, Sound, Delete(d) \/ DeleteData(d)
    PROVE  Sound'
<1>1. UNCHANGED <<items, record, datasets, given, vague>>
  BY DEF Delete, DeleteData, store, history
<1>2. CASE Delete(d)
  <2>1. call'.step \in {"list", "drop"}
    BY <1>2 DEF Delete, Idle
  <2> QED BY <1>1, <2>1, NoPlan, PlanningKeeps
<1>3. CASE DeleteData(d)
  <2>1. call'.step = "forget" /\ call'.dataset = d /\ call'.domain = datasets[d]
    BY <1>3 DEF DeleteData, SubtractDomains, Idle
  <2>2. Plan'
    BY <1>1, <2>1 DEF Plan
  <2> QED BY <1>1, <2>2, PlanningKeeps
<1> QED BY <1>2, <1>3

LEMMA NextInitialDataIsSound ==
    ASSUME IInv, Sound, NextInitialData
    PROVE  Sound'
<1> DEFINE d == call.dataset
<1>1. call \in Calls /\ call.step = "next"
  BY DEF IInv, TypeOK, NextInitialData
<1>2. UNCHANGED <<items, record, datasets, given, vague>>
  BY DEF NextInitialData, store, history
<1>3. \/ \E step \in {"persist", "list"} : call' = [call EXCEPT !.step = step]
      \/ \E i \in call.queue :
           /\ CanMerge(datasets[d], call.domainAdded)
           /\ call' = [call EXCEPT !.step = "push", !.pending = {i},
                         !.domain = MergeDomains(datasets[d], call.domainAdded)]
  BY DEF NextInitialData
<1>4. CASE \E step \in {"persist", "list"} : call' = [call EXCEPT !.step = step]
  <2>1. call'.step \in {"persist", "list"}
    BY <1>1, <1>4 DEF Calls
  <2> QED BY <1>2, <2>1, NoPlan, PlanningKeeps
<1>5. ASSUME NEW i \in call.queue, CanMerge(datasets[d], call.domainAdded),
             call' = [call EXCEPT !.step = "push", !.pending = {i},
                        !.domain = MergeDomains(datasets[d], call.domainAdded)]
      PROVE  Sound'
  <2>1. /\ call'.step = "push" /\ call'.dataset = d
        /\ call'.pushed = call.pushed /\ call'.domainAdded = call.domainAdded
        /\ call'.domain = MergeDomains(datasets[d], call.domainAdded)
    BY <1>1, <1>5 DEF Calls
  <2>2. Plan'
    BY <1>1, <1>2, <1>5, <2>1 DEF Sound, Plan
  <2> QED BY <1>2, <2>2, PlanningKeeps
<1> QED BY <1>3, <1>4, <1>5

LEMMA ListIsSound ==
    ASSUME IInv, Sound, List
    PROVE  Sound'
<1>1. call'.step \in {"idle", "drop", "empty"}
  BY IdleIsCall DEF IInv, TypeOK, List, Calls
<1>2. UNCHANGED <<items, record, datasets, given, vague>>
  BY DEF List, store, history
<1> QED BY <1>1, <1>2, NoPlan, PlanningKeeps

LEMMA MakeBucketIsSound ==
    ASSUME IInv, Sound, MakeBucket
    PROVE  Sound'
<1> DEFINE d == call.dataset
<1>1. /\ call \in Calls /\ d \in Datasets /\ call.step = "make"
      /\ datasets \in [Datasets -> Domains \union {None}]
      /\ items \in [Datasets -> {None} \union SUBSET Items]
  BY DEF IInv, TypeOK, CallInv, MakeBucket
<1>2. /\ items[d] = None /\ call.pushed = {}
      /\ d \notin vague => IsExplicit(call.domain) /\ IsExplicit(call.domainAdded)
  BY <1>1 DEF Sound, Plan
<1>3. PICK outcome \in Outcomes :
         /\ items' = Effect(items, d, outcome, {})
         /\ \/ /\ outcome = "ok"
               /\ datasets' = [datasets EXCEPT ![d] = call.domain]
               /\ call' = [call EXCEPT !.step = "next", !.domain = None]
            \/ /\ outcome = "ok"
               /\ call' = [call EXCEPT !.step = "undo"] /\ UNCHANGED datasets
            \/ outcome # "ok" /\ call' = AfterError /\ UNCHANGED datasets
  BY DEF MakeBucket
<1>4. UNCHANGED <<record, given, vague>>
  BY DEF MakeBucket, history
<1>5. Plan'
  <2>1. CASE outcome # "ok"
    BY <1>1, <1>3, <2>1, NoPlanAfterError
  <2>2. CASE call' = [call EXCEPT !.step = "undo"]
    BY <1>1, <2>2, NoPlan DEF Calls
  <2>3. CASE /\ outcome = "ok"
             /\ call' = [call EXCEPT !.step = "next", !.domain = None]
    <3>1. /\ call'.step = "next" /\ call'.dataset = d /\ call'.pushed = {}
          /\ call'.domainAdded = call.domainAdded
      BY <1>1, <1>2, <2>3 DEF Calls
    <3> QED BY <1>2, <1>4, <3>1 DEF Plan
  <2> QED BY <1>3, <2>1, <2>2, <2>3
<1>6. \A e \in Datasets : datasets'[e] = datasets[e]
                            \/ (e = d /\ datasets'[e] = call.domain)
  BY <1>1, <1>3
<1>7. Explicit'
  <2>1. PICK w : w = call.domain
    OBVIOUS
  <2> QED BY <1>2, <1>4, <1>6, <2>1, ExplicitKeeps DEF Sound
<1>8. \A i \in Items : given[d][i] = None
  BY <1>1, <1>2 DEF Sound, GivenIsKept
<1>9. \A e \in Datasets : e # d => items'[e] = items[e] /\ datasets'[e] = datasets[e]
  BY <1>1, <1>3 DEF Effect
<1>10. GivenIsKept' /\ GivenDataIsClaimed'
  BY <1>4, <1>8, <1>9, GivenKeeps DEF Sound
<1> QED BY <1>5, <1>7, <1>10 DEF Sound

LEMMA UndoBucketIsSound ==
    ASSUME IInv, Sound, UndoBucket
    PROVE  Sound'
<1> DEFINE d == call.dataset
<1>1. /\ d \in Datasets /\ items[d] = {}
      /\ items \in [Datasets -> {None} \union SUBSET Items]
  BY DEF IInv, TypeOK, CallInv, UndoBucket
<1>2. call' = Idle /\ UNCHANGED <<record, datasets, given, vague>>
  BY DEF UndoBucket, history
<1>3. \A e \in Datasets : items'[e] = items[e] \/ items[e] = {}
  BY <1>1 DEF UndoBucket, Effect
<1>4. Explicit'
  BY <1>2 DEF Sound, Explicit
<1>5. \A e \in Datasets, i \in Items :
        given[e][i] # None => items'[e] = items[e] /\ items[e] # None
  BY <1>3 DEF Sound, GivenIsKept, GivenDataIsClaimed
<1>6. GivenIsKept' /\ GivenDataIsClaimed'
  BY <1>2, <1>5, GivenKeeps DEF Sound
<1> QED BY <1>2, <1>4, <1>6, IdleIsCall, NoPlan DEF Sound

\* Recording the dataset as it is.
LEMMA RecordingIsSound ==
    ASSUME IInv, Sound, PersistCreated \/ Resync
    PROVE  Sound'
<1> DEFINE d == call.dataset
<1>1. /\ call \in Calls /\ d \in Datasets
      /\ record \in [Datasets -> Domains \union {None}]
  BY DEF IInv, TypeOK, CallInv, PersistCreated, Resync
<1>2. PICK outcome \in Outcomes : record' = Effect(record, d, outcome, datasets[d])
  BY DEF PersistCreated, Resync
<1>3. UNCHANGED <<items, datasets, given, vague>>
  BY DEF PersistCreated, Resync, history
<1>4. \A e \in Datasets : record'[e] \in {record[e], datasets[e]}
  BY <1>1, <1>2 DEF Effect
<1>5. Explicit'
  BY <1>3, <1>4 DEF Sound, Explicit
<1>6. GivenIsKept' /\ GivenDataIsClaimed'
  BY <1>3, <1>4, GivenKeeps DEF Sound
<1>7. Plan'
  <2>1. CASE PersistCreated
    BY <1>1, <2>1, NoPlanAfterError, NoPlan, IdleIsCall DEF PersistCreated
  <2>2. CASE Resync
    <3>1. CASE call' = Idle
      BY <3>1, NoPlan, IdleIsCall
    <3>2. CASE call' = [call EXCEPT !.step = "claim"]
      <4>1. /\ call'.step = "claim" /\ call'.dataset = d
            /\ call'.pushed = call.pushed /\ call'.domainAdded = call.domainAdded
            /\ call'.domain = call.domain
        BY <1>1, <3>2 DEF Calls
      <4> QED BY <1>3, <2>2, <4>1 DEF Resync, Sound, Plan
    <3> QED BY <2>2, <3>1, <3>2 DEF Resync
  <2> QED BY <2>1, <2>2
<1> QED BY <1>5, <1>6, <1>7 DEF Sound

LEMMA PushIsSound ==
    ASSUME IInv, Sound, Push
    PROVE  Sound'
<1> DEFINE d == call.dataset
<1>1. /\ call \in Calls /\ d \in Datasets /\ call.step = "push"
      /\ call.pending \subseteq Items
      /\ items \in [Datasets -> {None} \union SUBSET Items]
      /\ items[d] # None /\ items[d] \in SUBSET Items
      /\ given \in [Datasets -> [Items -> Domains \union {None}]]
  BY DEF IInv, TypeOK, CallInv, Push
<1>2. PICK i \in call.pending, outcome \in Outcomes :
         /\ items' = Effect(items, d, outcome, items[d] \union {i})
         /\ given' = IF outcome = "refused" THEN given
                     ELSE [given EXCEPT ![d][i] = None]
         /\ call' = IF outcome # "ok" THEN AfterError
                    ELSE [call EXCEPT
                            !.pending = @ \ {i},
                            !.pushed = @ \union {i},
                            !.step = IF call.pending # {i} THEN "push"
                                     ELSE IF call.resync THEN "resync"
                                     ELSE "claim"]
  BY DEF Push
<1>3. UNCHANGED <<record, datasets, vague>>
  BY DEF Push
<1>4. Explicit'
  BY <1>3 DEF Sound, Explicit
<1>5. items[d] \union {i} # None
  BY <1>1, ItemsAssumption
<1>6. \A e \in Datasets : /\ items[e] # None => items'[e] # None
                          /\ items[e] # None => items[e] \subseteq items'[e]
  BY <1>1, <1>2, <1>5 DEF Effect
<1>7. \A e \in Datasets, j \in Items : given'[e][j] # None => given'[e][j] = given[e][j]
  BY <1>1, <1>2
<1>8. GivenIsKept' /\ GivenDataIsClaimed'
  BY <1>3, <1>6, <1>7, GivenKeeps DEF Sound
<1>9. Plan'
  <2>1. CASE outcome # "ok"
    BY <1>1, <1>2, <2>1, NoPlanAfterError
  <2>2. CASE outcome = "ok"
    <3>1. /\ call'.step \in {"push", "resync", "claim"} /\ call'.dataset = d
          /\ call'.pushed = call.pushed \union {i} /\ call'.domain = call.domain
          /\ call'.domainAdded = call.domainAdded
      BY <1>1, <1>2, <2>2 DEF Calls
    <3>2. items'[d] = items[d] \union {i}
      BY <1>1, <1>2, <2>2 DEF Effect
    <3> QED BY <1>1, <1>3, <3>1, <3>2 DEF Sound, Plan
  <2> QED BY <2>1, <2>2
<1> QED BY <1>4, <1>8, <1>9 DEF Sound

\* The dataset's claims grow by what is added, so what it was given earlier stays
\* claimed, and what it is given now is.
LEMMA ClaimIsSound ==
    ASSUME IInv, Sound, Claim
    PROVE  /\ Sound'
           /\ call.dataset \notin vague =>
                Claims(datasets'[call.dataset])
                  = Claims(datasets[call.dataset]) \union Claims(call.domainAdded)
<1> DEFINE d == call.dataset
<1>1. /\ call \in Calls /\ d \in Datasets /\ call.step = "claim"
      /\ items[d] # None /\ call.pushed \subseteq Items
      /\ record \in [Datasets -> Domains \union {None}]
      /\ datasets \in [Datasets -> Domains \union {None}]
      /\ given \in [Datasets -> [Items -> Domains \union {None}]]
      /\ datasets[d] # None /\ datasets[d] \in Domains
      /\ call.domainAdded \in Domains /\ call.domain # None
  BY DEF IInv, TypeOK, CallInv, Claim, Calls
<1>2. /\ call.pushed \subseteq items[d]
      /\ CanMerge(datasets[d], call.domainAdded)
      /\ call.domain = MergeDomains(datasets[d], call.domainAdded)
      /\ d \notin vague => IsExplicit(call.domainAdded)
  BY <1>1 DEF Sound, Plan
<1>3. PICK outcome \in Outcomes :
         /\ record' = Effect(record, d, outcome, call.domain)
         /\ given' = IF outcome # "ok" THEN given
                     ELSE [given EXCEPT ![d] =
                             [i \in Items |-> IF i \in call.pushed
                                              THEN call.domainAdded ELSE @[i]]]
         /\ call' = IF outcome = "ok" THEN AfterAdding ELSE AfterError
  BY DEF Claim
<1>4. /\ datasets' = [datasets EXCEPT ![d] = call.domain]
      /\ UNCHANGED <<items, vague>>
  BY DEF Claim
<1>5. PICK old \in Domains : old = datasets[d]
  BY <1>1
<1>6. PICK new : new = call.domain
  OBVIOUS
<1>7. d \notin vague =>
        /\ IsExplicit(new)
        /\ Claims(new) = Claims(old) \union Claims(call.domainAdded)
  <2>1. d \notin vague => IsExplicit(old)
    BY <1>1, <1>5 DEF Sound, Explicit
  <2> QED BY <1>1, <1>2, <1>5, <1>6, <2>1, MergeClaimsBoth
<1>8. /\ datasets'[d] = new /\ (record'[d] = new \/ record'[d] = record[d])
      /\ outcome = "ok" => record'[d] = new
      /\ \A e \in Datasets : e # d =>
           datasets'[e] = datasets[e] /\ record'[e] = record[e] /\ given'[e] = given[e]
  BY <1>1, <1>3, <1>4, <1>6 DEF Effect
<1>9. Explicit'
  BY <1>4, <1>7, <1>8, ExplicitKeeps DEF Sound
<1>10. \A i \in Items :
         \/ given'[d][i] = given[d][i]
         \/ /\ given'[d][i] = call.domainAdded
            /\ i \in call.pushed /\ outcome = "ok"
  BY <1>1, <1>3
<1>11. GivenIsKept'
  BY <1>1, <1>4, <1>8, <1>10 DEF Sound, GivenIsKept
<1>12. GivenDataIsClaimed'
  <2> SUFFICES ASSUME NEW e \in Datasets, NEW i \in Items, given'[e][i] # None
               PROVE  /\ i \in items[e]
                      /\ e \notin vague =>
                           \A c \in {datasets'[e], record'[e]} \ {None} :
                             Claims(given'[e][i]) \subseteq Claims(c)
    BY <1>4 DEF GivenDataIsClaimed
  <2>1. CASE e # d
    BY <1>8, <2>1 DEF Sound, GivenDataIsClaimed
  <2>2. CASE e = d /\ given'[d][i] = given[d][i]
    <3>1. /\ i \in items[d]
          /\ d \notin vague =>
               \A c \in {datasets[d], record[d]} \ {None} :
                 Claims(given[d][i]) \subseteq Claims(c)
      BY <1>1, <2>2 DEF Sound, GivenDataIsClaimed
    <3>2. d \notin vague => Claims(given[d][i]) \subseteq Claims(new)
      BY <1>1, <1>5, <1>7, <3>1
    <3> QED BY <1>8, <2>2, <3>1, <3>2
  <2>3. CASE /\ e = d /\ given'[d][i] = call.domainAdded
             /\ i \in call.pushed /\ outcome = "ok"
    BY <1>2, <1>7, <1>8, <2>3
  <2> QED BY <1>10, <2>1, <2>2, <2>3
<1>13. Plan'
  <2>1. CASE outcome # "ok"
    BY <1>1, <1>3, <2>1, NoPlanAfterError
  <2>2. CASE outcome = "ok" /\ call.kind # "create"
    BY <1>3, <2>2, IdleIsCall, NoPlan DEF AfterAdding
  <2>3. CASE outcome = "ok" /\ call.kind = "create"
    <3>1. /\ call'.step = "next" /\ call'.dataset = d /\ call'.pushed = {}
          /\ call'.domainAdded = call.domainAdded
      BY <1>1, <1>3, <2>3 DEF AfterAdding, Calls
    <3> QED BY <1>2, <1>4, <3>1 DEF Plan
  <2> QED BY <2>1, <2>2, <2>3
<1> QED BY <1>5, <1>7, <1>8, <1>9, <1>11, <1>12, <1>13 DEF Sound

LEMMA CombinePartialsIsSound ==
    ASSUME NEW d \in Datasets, IInv, Sound, CombinePartials(d)
    PROVE  Sound'
<1>1. /\ items \in [Datasets -> {None} \union SUBSET Items]
      /\ items[d] # None /\ items[d] \in SUBSET Items
      /\ given \in [Datasets -> [Items -> Domains \union {None}]]
  BY DEF IInv, TypeOK, CombinePartials
<1>2. PICK i \in Items, outcome \in Outcomes :
         /\ items' = Effect(items, d, outcome, items[d] \union {i})
         /\ given' = IF outcome = "refused" THEN given
                     ELSE [given EXCEPT ![d][i] = None]
  BY DEF CombinePartials
<1>3. call' = Idle /\ UNCHANGED <<record, datasets, vague>>
  BY DEF CombinePartials
<1>4. Explicit'
  BY <1>3 DEF Sound, Explicit
<1>5. items[d] \union {i} # None
  BY <1>1, ItemsAssumption
<1>6. \A e \in Datasets : /\ items[e] # None => items'[e] # None
                          /\ items[e] # None => items[e] \subseteq items'[e]
  BY <1>1, <1>2, <1>5 DEF Effect
<1>7. \A e \in Datasets, j \in Items : given'[e][j] # None => given'[e][j] = given[e][j]
  BY <1>1, <1>2
<1>8. GivenIsKept' /\ GivenDataIsClaimed'
  BY <1>3, <1>6, <1>7, GivenKeeps DEF Sound
<1> QED BY <1>3, <1>4, <1>8, IdleIsCall, NoPlan DEF Sound

LEMMA RemoveObjectIsSound ==
    ASSUME IInv, Sound, RemoveObject
    PROVE  Sound'
<1> DEFINE d == call.dataset
<1>1. /\ call \in Calls /\ d \in Datasets
      /\ items \in [Datasets -> {None} \union SUBSET Items]
      /\ items[d] # None /\ items[d] \in SUBSET Items
      /\ record \in [Datasets -> Domains \union {None}]
      /\ given \in [Datasets -> [Items -> Domains \union {None}]]
      /\ call.pending \subseteq Items \union {"record"}
  BY DEF IInv, TypeOK, CallInv, RemoveObject, Calls
<1>2. PICK o \in call.pending, outcome \in Outcomes :
         /\ IF o = "record"
            THEN /\ record' = Effect(record, d, outcome, None)
                 /\ UNCHANGED <<items, given>>
            ELSE /\ items' = Effect(items, d, outcome, items[d] \ {o})
                 /\ given' = IF outcome = "refused" THEN given
                             ELSE [given EXCEPT ![d][o] = None]
                 /\ UNCHANGED record
  BY DEF RemoveObject
<1>3. UNCHANGED <<datasets, vague>>
  BY DEF RemoveObject
<1>4. call'.step \in {"idle", "empty", "drop"}
  BY <1>1, IdleIsCall DEF RemoveObject, Calls
<1>5. \A e \in Datasets : record'[e] = None \/ record'[e] = record[e]
  BY <1>1, <1>2 DEF Effect
<1>6. Explicit'
  BY <1>3, <1>5 DEF Sound, Explicit
<1>7. items[d] \ {o} # None
  BY <1>1, ItemsAssumption
<1>8. \A e \in Datasets, j \in Items :
        given'[e][j] # None =>
          /\ given'[e][j] = given[e][j]
          /\ items[e] # None /\ j \in items[e] => items'[e] # None /\ j \in items'[e]
  <2>1. CASE o = "record"
    BY <1>2, <2>1
  <2>2. CASE o # "record" /\ outcome = "refused"
    BY <1>2, <2>2 DEF Effect
  <2>3. CASE o # "record" /\ outcome # "refused"
    <3>1. /\ items' = [items EXCEPT ![d] = items[d] \ {o}]
          /\ given' = [given EXCEPT ![d][o] = None] /\ o \in Items
      BY <1>1, <1>2, <2>3 DEF Effect
    <3> QED BY <1>1, <1>7, <3>1
  <2> QED BY <2>1, <2>2, <2>3
<1>9. GivenIsKept' /\ GivenDataIsClaimed'
  BY <1>3, <1>5, <1>8, GivenKeeps DEF Sound
<1> QED BY <1>4, <1>6, <1>9, NoPlan DEF Sound

LEMMA DiscardIsSound ==
    ASSUME IInv, Sound, Discard
    PROVE  Sound'
<1> DEFINE d == call.dataset
<1>1. /\ d \in Datasets
      /\ items \in [Datasets -> {None} \union SUBSET Items]
      /\ items[d] # None /\ items[d] \in SUBSET Items
      /\ given \in [Datasets -> [Items -> Domains \union {None}]]
  BY DEF IInv, TypeOK, CallInv, Discard
<1>2. PICK gone \in SUBSET call.pending :
         /\ items' = [items EXCEPT ![d] = @ \ gone]
         /\ given' = [given EXCEPT ![d] =
                        [i \in Items |-> IF i \in gone THEN None ELSE @[i]]]
  BY DEF Discard
<1>3. call' = Idle /\ UNCHANGED <<record, datasets, vague>>
  BY DEF Discard
<1>4. Explicit'
  BY <1>3 DEF Sound, Explicit
<1>5. items[d] \ gone # None
  BY <1>1, ItemsAssumption
<1>6. \A e \in Datasets, j \in Items :
        given'[e][j] # None =>
          /\ given'[e][j] = given[e][j]
          /\ items[e] # None /\ j \in items[e] => items'[e] # None /\ j \in items'[e]
  BY <1>1, <1>2, <1>5
<1>7. GivenIsKept' /\ GivenDataIsClaimed'
  BY <1>3, <1>6, GivenKeeps DEF Sound
<1> QED BY <1>3, <1>4, <1>7, IdleIsCall, NoPlan DEF Sound

LEMMA RemoveBucketIsSound ==
    ASSUME IInv, Sound, RemoveBucket
    PROVE  Sound'
<1> DEFINE d == call.dataset
<1>1. /\ d \in Datasets
      /\ items \in [Datasets -> {None} \union SUBSET Items]
      /\ datasets \in [Datasets -> Domains \union {None}]
  BY DEF IInv, TypeOK, CallInv, RemoveBucket
<1>2. call' = Idle /\ UNCHANGED <<record, given, vague>>
  BY DEF RemoveBucket, history
<1>3. \A e \in Datasets : datasets'[e] = None \/ datasets'[e] = datasets[e]
  BY <1>1 DEF RemoveBucket
<1>4. \A e \in Datasets : items'[e] = items[e] \/ items[e] = {}
  BY <1>1 DEF RemoveBucket, Effect
<1>5. Explicit'
  BY <1>2, <1>3 DEF Sound, Explicit
<1>6. \A e \in Datasets, i \in Items :
        given[e][i] # None => items'[e] = items[e] /\ items[e] # None
  BY <1>4 DEF Sound, GivenIsKept, GivenDataIsClaimed
<1>7. GivenIsKept' /\ GivenDataIsClaimed'
  BY <1>2, <1>3, <1>6, GivenKeeps DEF Sound
<1> QED BY <1>2, <1>5, <1>7, IdleIsCall, NoPlan DEF Sound

\* Deleting data leaves the domain as it is.
LEMMA ForgetIsSound ==
    ASSUME IInv, Sound, Forget
    PROVE  Sound'
<1> DEFINE d == call.dataset
<1>1. /\ call \in Calls /\ d \in Datasets /\ call.domain = datasets[d]
      /\ record \in [Datasets -> Domains \union {None}]
      /\ datasets \in [Datasets -> Domains \union {None}]
  BY DEF IInv, TypeOK, CallInv, Sound, Plan, Forget
<1>2. PICK outcome \in Outcomes : record' = Effect(record, d, outcome, call.domain)
  BY DEF Forget
<1>3. UNCHANGED <<items, given, vague>> /\ datasets' = datasets
  BY <1>1 DEF Forget, history
<1>4. call'.step \in {"idle", "discard"}
  BY <1>1, IdleIsCall DEF Forget, Calls
<1>5. \A e \in Datasets : record'[e] \in {record[e], datasets[e]}
  BY <1>1, <1>2 DEF Effect
<1>6. Explicit'
  BY <1>3, <1>5 DEF Sound, Explicit
<1>7. GivenIsKept' /\ GivenDataIsClaimed'
  BY <1>3, <1>5, GivenKeeps DEF Sound
<1> QED BY <1>4, <1>6, <1>7, NoPlan DEF Sound

LEMMA RestartIsSound ==
    ASSUME IInv, Sound, Restart
    PROVE  Sound'
<1>1. call' = Idle /\ datasets' = record /\ UNCHANGED <<items, record, given, vague>>
  BY DEF Restart, store, history
<1>2. Explicit'
  BY <1>1 DEF Sound, Explicit
<1>3. GivenIsKept' /\ GivenDataIsClaimed'
  BY <1>1, GivenKeeps DEF Sound
<1> QED BY <1>1, <1>2, <1>3, IdleIsCall, NoPlan DEF Sound

LEMMA SoundKeeps == IInv /\ Sound /\ [Next]_vars => Sound'
<1> SUFFICES ASSUME IInv, Sound, [Next]_vars PROVE Sound'
  OBVIOUS
<1>1. CASE UNCHANGED vars
  BY <1>1 DEF vars, store, history, Sound, Plan, Explicit, GivenIsKept,
              GivenDataIsClaimed
<1>2. ASSUME NEW d \in Datasets, Create(d) PROVE Sound'
  BY <1>2, CreateIsSound
<1>3. ASSUME NEW d \in Datasets, AddData(d) PROVE Sound'
  BY <1>3, AddDataIsSound
<1>4. ASSUME NEW d \in Datasets, CombinePartials(d) PROVE Sound'
  BY <1>4, CombinePartialsIsSound
<1>5. ASSUME NEW d \in Datasets, Delete(d) \/ DeleteData(d) PROVE Sound'
  BY <1>5, DeletionsAreSound
<1>6. CASE MakeBucket
  BY <1>6, MakeBucketIsSound
<1>7. CASE NextInitialData
  BY <1>7, NextInitialDataIsSound
<1>8. CASE PersistCreated \/ Resync
  BY <1>8, RecordingIsSound
<1>9. CASE Push
  BY <1>9, PushIsSound
<1>10. CASE Claim
  BY <1>10, ClaimIsSound
<1>11. CASE List
  BY <1>11, ListIsSound
<1>12. CASE RemoveObject
  BY <1>12, RemoveObjectIsSound
<1>13. CASE RemoveBucket
  BY <1>13, RemoveBucketIsSound
<1>14. CASE Forget
  BY <1>14, ForgetIsSound
<1>15. CASE Discard
  BY <1>15, DiscardIsSound
<1>16. CASE Restart
  BY <1>16, RestartIsSound
<1>17. CASE UndoBucket
  BY <1>17, UndoBucketIsSound
<1> QED
  BY <1>1, <1>2, <1>3, <1>4, <1>5, <1>6, <1>7, <1>8, <1>9, <1>10, <1>11, <1>12,
     <1>13, <1>14, <1>15, <1>16, <1>17 DEF Next

LEMMA InitIsSound == Init => Sound
<1> SUFFICES ASSUME Init PROVE Sound
  OBVIOUS
<1>1. call.step = "idle"
  BY IdleIsCall DEF Init
<1> QED BY <1>1 DEF Init, Sound, Plan, Explicit, GivenIsKept, GivenDataIsClaimed

LEMMA Soundness == Spec => []Sound
BY InitIsSound, SoundKeeps, Invariance, PTL DEF Spec

-----------------------------------------------------------------------------
(* The theorems *)

\* The manager's state has its type: whatever fails, every domain that is kept
\* in memory, recorded or on its way there is a domain, merged ones included.
THEOREM TypeCorrect == Spec => []TypeOK
<1>1. IInv => TypeOK
  BY DEF IInv
<1> QED BY <1>1, Invariance, PTL

\* A dataset whose creation succeeded has its bucket, its record and its place
\* in memory until its deletion is asked for, for any number of failed requests
\* and restarts: what deletes things never works on an accepted dataset.
THEOREM DatasetsStay == Spec => []AcceptedDatasetsStay
<1>1. IInv => AcceptedDatasetsStay
  BY DEF IInv
<1> QED BY <1>1, Invariance, PTL

\* Without failed requests and restarts the manager has, between calls, the
\* datasets that have buckets, and no others: a creation whose dataset cannot be
\* made, or that cannot merge its data, deletes what it made, and a deletion of a dataset that still has items
\* in folders leaves it managed.
THEOREM NoBucketIsForgotten == Spec => []BucketsAreManaged
<1>1. Init => Managed
  BY DEF Init, Managed
<1>2. Managed => BucketsAreManaged
  BY IdleIsCall DEF Managed, BucketsAreManaged
<1> QED BY <1>1, <1>2, Invariance, ManagedKeeps, PTL DEF Spec

\* Data that was added successfully is in its bucket, and its dataset claims to
\* have it, in memory and as recorded: merging domains that may be merged loses
\* nothing that either claimed, whatever requests fail while it is recorded.
THEOREM AddedDataIsClaimed == Spec => []GivenDataIsClaimed
<1>1. Sound => GivenDataIsClaimed
  BY DEF Sound
<1> QED BY <1>1, Soundness, PTL

\* A dataset's claims become, with data that is added, its own and the data's,
\* and nothing else: ranges that are apart are never joined.
THEOREM AddingIsExact == Spec => AddsClaimExactly
<1> DEFINE Exact ==
      call.step = "claim" /\ call.dataset \notin vague /\ crashes' = crashes =>
        Claims(datasets'[call.dataset])
          = Claims(datasets[call.dataset]) \union Claims(call.domainAdded)
<1>1. ASSUME IInv, Sound, Next PROVE Exact
  <2> SUFFICES ASSUME call.step = "claim", call.dataset \notin vague,
                      crashes' = crashes
               PROVE  Claims(datasets'[call.dataset])
                        = Claims(datasets[call.dataset])
                            \union Claims(call.domainAdded)
    OBVIOUS
  <2>1. Claim
    <3>1. call # Idle
      BY IdleIsCall
    <3>2. crashes \in Nat
      BY <1>1, BoundsAssumption DEF IInv, TypeOK
    <3>3. ~Restart
      BY <3>2 DEF Restart
    <3> QED
      BY <1>1, <3>1, <3>3
         DEF Next, Create, AddData, CombinePartials, Delete, DeleteData,
             MakeBucket, UndoBucket, NextInitialData, PersistCreated, Push, Resync, List,
             RemoveObject, RemoveBucket, Forget, Discard
  <2> QED BY <1>1, <2>1, ClaimIsSound
<1>2. IInv /\ Sound /\ [Next]_vars => [Exact]_vars
  BY <1>1
<1> QED BY <1>2, Invariance, Soundness, PTL DEF Spec, AddsClaimExactly

\* A dataset is offered for a requirement exactly when its format will do and
\* it claims all that is required: for all domains, ranges and lists, of which
\* the run checks those over four points and two values.
THEOREM OffersFitTheRequirement == Spec => []OffersAreSound
<1>1. TypeOK => OffersAreSound
  <2> SUFFICES ASSUME TypeOK, NEW d \in Datasets, NEW r \in Domains,
                      datasets[d] # None, IsExplicit(r), HasNoEmptyRange(r)
               PROVE  Contains(datasets[d], r)
                        <=> /\ CanFormatFulfill(r.format, datasets[d].format)
                            /\ Claims(r) \subseteq Claims(datasets[d])
    BY DEF OffersAreSound
  <2>1. PICK e \in Domains : e = datasets[d]
    BY DEF TypeOK
  <2>2. Contains(e, r) => CanFormatFulfill(r.format, e.format)
    BY DEF Contains
  <2>3. Contains(e, r) => Claims(r) \subseteq Claims(e)
    BY ContainsClaims
  <2>4. CanFormatFulfill(r.format, e.format) /\ Claims(r) \subseteq Claims(e)
          => Contains(e, r)
    BY ClaimsContain
  <2> QED BY <2>1, <2>2, <2>3, <2>4
<1> QED BY <1>1, TypeCorrect, PTL
=============================================================================
