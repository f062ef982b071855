----------------------------- MODULE DataDomains -----------------------------
(***************************************************************************)
(* Data domains say what a dataset holds, or what a job requires: a format *)
(* and a restriction for each of some indices, a range for a continuous    *)
(* index and a list of values for a discrete one.  These are the checks    *)
(* and the arithmetic of meta_data.py, by which a dataset is found for a   *)
(* requirement, grows with the data added to it and shrinks with the data  *)
(* deleted from it.                                                        *)
(*                                                                         *)
(* A list of values is sorted and has no duplicates, so a set stands for   *)
(* it.  The empty list means every possible value.                         *)
(***************************************************************************)
EXTENDS Integers, FiniteSets

CONSTANTS
    Points,             \* the points of the continuous indices
    Values,             \* the values that lists may name
    ContinuousIndices,
    DiscreteIndices,
    Formats,
    Families            \* sets of formats that fulfil each other

ASSUME PointsAssumption == Points \subseteq Int
ASSUME IndicesAssumption == ContinuousIndices \intersect DiscreteIndices = {}
ASSUME FamiliesAssumption == Families \subseteq SUBSET Formats

Ranges == {r \in [begin : Points, end : Points] : r.begin <= r.end}

PartialFunctions(S, T) == UNION {[D -> T] : D \in SUBSET S}

\* A domain has a restriction at least.
Domains ==
    {d \in [format : Formats,
            continuous : PartialFunctions(ContinuousIndices, Ranges),
            discrete : PartialFunctions(DiscreteIndices, SUBSET Values)] :
        DOMAIN d.continuous \union DOMAIN d.discrete # {}}

-----------------------------------------------------------------------------
(* Restrictions *)

RangeContains(r, other) == r.begin <= other.begin /\ r.end >= other.end

\* Faulty variant: ranges are joined whatever lies between them.
RangeCanExpandWithAny(r, other) == r # other

RangeCanExpandWith(r, other) ==
    \/ other.begin < r.begin /\ r.begin <= other.end
    \/ other.begin = r.begin /\ r.end < other.end
    \/ r.begin < other.begin /\ other.begin <= r.end

RangeExpand(r, other) ==
    [begin |-> IF other.begin < r.begin THEN other.begin ELSE r.begin,
     end |-> IF other.end > r.end THEN other.end ELSE r.end]

RangeCanHaveSubtracted(r, other) ==
    /\ RangeContains(r, other)
    /\ r.begin = other.begin \/ r.end = other.end
    /\ r # other

IsAllPossibleValues(l) == l = {}

ListContains(l, other) == IsAllPossibleValues(l) \/ other \subseteq l

ListCanExpandWith(l, other) == ~ListContains(l, other)

ListExpand(l, other) ==
    IF IsAllPossibleValues(other) THEN other ELSE l \union other

\* Subtraction raises an error where a list stands for every value.
ListCanHaveSubtracted(l, other) == ListContains(l, other) /\ l # other
ListCanSubtract(l, other) ==
    ~IsAllPossibleValues(l) /\ ~IsAllPossibleValues(other)

-----------------------------------------------------------------------------
(* Domains *)

CanFormatFulfill(needed, alternate) ==
    \/ needed = alternate
    \/ \E family \in Families : {needed, alternate} \subseteq family

\* Faulty variant: an index that the first domain has no restriction for does
\* not keep it from containing the other.
ContainsWhereRestricted(d, other) ==
    /\ CanFormatFulfill(other.format, d.format)
    /\ \A i \in DOMAIN other.continuous \intersect DOMAIN d.continuous :
         RangeContains(d.continuous[i], other.continuous[i])
    /\ \A i \in DOMAIN other.discrete \intersect DOMAIN d.discrete :
         ListContains(d.discrete[i], other.discrete[i])

Contains(d, other) ==
    /\ CanFormatFulfill(other.format, d.format)
    /\ \A i \in DOMAIN other.continuous :
         /\ i \in DOMAIN d.continuous
         /\ RangeContains(d.continuous[i], other.continuous[i])
    /\ \A i \in DOMAIN other.discrete :
         /\ i \in DOMAIN d.discrete
         /\ ListContains(d.discrete[i], other.discrete[i])

\* The indices at which two maps of restrictions differ.
Differences(m, n) ==
    {i \in DOMAIN m \union DOMAIN n :
        i \in DOMAIN m \intersect DOMAIN n => m[i] # n[i]}

\* Domains that neither contains the other merge where they differ in one
\* restriction, which one of them lacks or which can be expanded.
CanMerge(d, other) ==
    LET c == Differences(d.continuous, other.continuous)
        l == Differences(d.discrete, other.discrete)
    IN /\ d.format = other.format
       /\ \/ Contains(d, other)
          \/ Contains(other, d)
          \/ /\ Cardinality(c \union l) = 1
             /\ \A i \in c \intersect DOMAIN d.continuous
                           \intersect DOMAIN other.continuous :
                  RangeCanExpandWith(d.continuous[i], other.continuous[i])
             /\ \A i \in l \intersect DOMAIN d.discrete
                           \intersect DOMAIN other.discrete :
                  ListCanExpandWith(d.discrete[i], other.discrete[i])

MergeRanges(m, n) ==
    [i \in DOMAIN m \union DOMAIN n |->
        IF i \notin DOMAIN m THEN n[i]
        ELSE IF i \notin DOMAIN n \/ m[i] = n[i] THEN m[i]
        ELSE RangeExpand(m[i], n[i])]

MergeLists(m, n) ==
    [i \in DOMAIN m \union DOMAIN n |->
        IF i \notin DOMAIN m THEN n[i]
        ELSE IF i \notin DOMAIN n \/ m[i] = n[i] THEN m[i]
        ELSE ListExpand(m[i], n[i])]

MergeDomains(d, other) ==
    IF Contains(d, other) THEN d
    ELSE IF Contains(other, d) THEN other
    ELSE [format |-> d.format,
          continuous |-> MergeRanges(d.continuous, other.continuous),
          discrete |-> MergeLists(d.discrete, other.discrete)]

\* Restrictions that only one has, or that are equal, do not matter; of the
\* others there must be one, and it must be possible to subtract it.
CanSubtract(d, other) ==
    LET Common(m, n) ==
            Differences(m, n) \intersect DOMAIN m \intersect DOMAIN n
        c == Common(d.continuous, other.continuous)
        l == Common(d.discrete, other.discrete)
    IN /\ d.format = other.format
       /\ Cardinality(c \union l) = 1
       /\ \A i \in c :
            RangeCanHaveSubtracted(d.continuous[i], other.continuous[i])
       /\ \A i \in l :
            /\ ListCanHaveSubtracted(d.discrete[i], other.discrete[i])
            /\ ListCanSubtract(d.discrete[i], other.discrete[i])

\* What subtract returns for the restriction is dropped: the domain returned is
\* the first one, unchanged.
SubtractDomains(d, other) == d

-----------------------------------------------------------------------------
(* What a domain claims: the points and values of each of its indices, and *)
(* {} where it claims the values that no list names, too.  The end of a    *)
(* range is exclusive.                                                     *)

Claims(d) ==
    (UNION {{<<i, {p}>> : p \in d.continuous[i].begin .. d.continuous[i].end - 1} :
              i \in DOMAIN d.continuous})
    \union
    (UNION {{<<i, {v}>> : v \in d.discrete[i]} : i \in DOMAIN d.discrete})
    \union
    (UNION {{<<i, {}>>} \union {<<i, {v}>> : v \in Values} :
              i \in {j \in DOMAIN d.discrete : IsAllPossibleValues(d.discrete[j])}})

\* The domains whose lists name their values: a list of some values is taken to
\* contain the empty one, which means every value.
IsExplicit(d) ==
    \A i \in DOMAIN d.discrete : ~IsAllPossibleValues(d.discrete[i])

HasNoEmptyRange(d) ==
    \A i \in DOMAIN d.continuous : d.continuous[i].begin < d.continuous[i].end
=============================================================================
