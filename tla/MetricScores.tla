---------------------------- MODULE MetricScores ----------------------------
(***************************************************************************)
(* How an evaluation is graded by categorical metrics.  At each location   *)
(* pairs of an observed and a predicted value are counted in a truth table *)
(* per threshold, each metric makes a number of each table, numbers are    *)
(* scaled and weighed to scores, the scores of a metric to its             *)
(* description, descriptions to the value of the location, and the values  *)
(* of the locations to the grade of the evaluation.                        *)
(*                                                                         *)
(* Values are reduced to levels, which is all that thresholds see.         *)
(* Numbers are exact, where the code rounds.  A table keeps each number it *)
(* has computed; as nothing changes a table, that is not modelled.         *)
(***************************************************************************)
EXTENDS Fractions, Sequences, FiniteSets, Functions, FiniteSetsExt, SequencesExt

CONSTANTS
    Locations,       \* the locations, in the order of their groups
    Levels,          \* the levels of observed and predicted values
    MaxPairs,        \* how many pairs a location may have (bound)
    Thresholds,      \* the names of thresholds
    Cut,             \* the lowest level that is within a threshold
    ThresholdWeight,
    ThresholdLists,  \* what may be found for a location, definition after definition
    Schemes,         \* the sets of metrics an evaluation may ask for
    MetricWeight

Metrics == {"probability_of_detection", "false_alarm_ratio",
            "probability_of_false_detection", "frequency_bias",
            "critical_success_index", "accuracy", "equitable_threat_score",
            "general_skill", "precision"}

ASSUME ScoresAssumption ==
    /\ Levels \subseteq Nat /\ IsFiniteSet(Levels) /\ Cut \in [Thresholds -> Levels]
    /\ ThresholdWeight \in [Thresholds -> Nat] /\ MetricWeight \in [Metrics -> Nat]
    /\ ThresholdLists \subseteq Seq(Thresholds)
    /\ Schemes \subseteq SUBSET Metrics
    /\ Locations \in Seq(ToSet(Locations)) /\ IsInjective(Locations)
    /\ MaxPairs \in [ToSet(Locations) -> Nat]

VARIABLES
    scheme,   \* the metrics of the evaluation
    verbose,  \* whether every result is written to the communicators
    scored,   \* the values of the locations scored so far
    group,    \* the pairs and the thresholds of the location to be scored
    outcome   \* "new", "open", "raised", or "graded"

scoresVars == <<scheme, verbose, scored, group, outcome>>

\* A group has a pair at least.
Cells == [observed : Levels, predicted : Levels]
Groups == [l \in ToSet(Locations) |->
              {p \in [Cells -> 0 .. MaxPairs[l]] : SumFunction(p) \in 1 .. MaxPairs[l]}]

NoGroup == [thresholds |-> <<>>]

ScoresInit == /\ scheme = {} /\ verbose = FALSE
              /\ scored = <<>>
              /\ group = NoGroup
              /\ outcome = "new"
-----------------------------------------------------------------------------
(* Truth tables and the metrics on them *)

TruthTable(pairs, threshold) ==
    LET In(level) == level >= Cut[threshold]
        CountOf(o, p) ==
            SumFunctionOnSet(pairs, {c \in Cells : In(c.observed) = o /\ In(c.predicted) = p})
    IN  [threshold |-> threshold,
         hits |-> CountOf(TRUE, TRUE),
         misses |-> CountOf(TRUE, FALSE),
         false_positives |-> CountOf(FALSE, TRUE),
         true_negatives |-> CountOf(FALSE, FALSE)]

TruthTables(pairs, thresholds) ==
    FoldLeft(LAMBDA tables, h : Append(tables, TruthTable(pairs, h)), <<>>, thresholds)

observed_positives(t) == t.hits + t.misses
observed_negatives(t) == t.false_positives + t.true_negatives
predicted_positives(t) == t.hits + t.false_positives
predicted_negatives(t) == t.misses + t.true_negatives
size(t) == observed_positives(t) + observed_negatives(t)

\* Something was observed or predicted within the threshold.
is_useful(t) == t.hits + t.misses + t.false_positives > 0

\* A ratio, and what the metric says when there is nothing to divide by.
RatioOr(top, bottom, empty) == IF bottom = 0 THEN empty ELSE Ratio(top, bottom)

probability_of_detection(t) == RatioOr(t.hits, observed_positives(t), NaN)

false_alarm_ratio(t) == RatioOr(t.false_positives, predicted_positives(t), Zero)

probability_of_false_detection(t) == RatioOr(t.false_positives, observed_negatives(t), Zero)

frequency_bias(t) == RatioOr(predicted_positives(t), observed_positives(t), NaN)

critical_success_index(t) ==
    RatioOr(t.hits, t.hits + t.misses + t.false_positives, NaN)

accuracy(t) == RatioOr(t.hits + t.true_negatives, size(t), NaN)

\* Faulty variant: a numerator of nought is a score of nought.
ThreatScoreOfNought(t) ==
    LET random == Ratio(observed_positives(t) * predicted_positives(t), size(t))
        top == Subtract(Whole(t.hits), random)
        bottom == Subtract(Whole(t.hits + t.misses + t.false_positives), random)
    IN  IF top = Zero THEN Zero ELSE Over(top, bottom)

\* Hits beyond those of chance.  There is no score if they are none.
equitable_threat_score(t) ==
    LET random == Ratio(observed_positives(t) * predicted_positives(t), size(t))
        top == Subtract(Whole(t.hits), random)
        bottom == Subtract(Whole(t.hits + t.misses + t.false_positives), random)
    IN  IF Zero \in {top, bottom} THEN NaN ELSE Over(top, bottom)

general_skill(t) ==
    RatioOr(2 * (t.hits * t.true_negatives - t.misses * t.false_positives),
            observed_positives(t) * predicted_negatives(t)
              + predicted_positives(t) * observed_negatives(t), NaN)

precision(t) == RatioOr(t.hits, predicted_positives(t), One)

Value(metric, t) ==
    IF ~is_useful(t) THEN NaN
    ELSE CASE metric = "probability_of_detection" -> probability_of_detection(t)
           [] metric = "false_alarm_ratio" -> false_alarm_ratio(t)
           [] metric = "probability_of_false_detection" -> probability_of_false_detection(t)
           [] metric = "frequency_bias" -> frequency_bias(t)
           [] metric = "critical_success_index" -> critical_success_index(t)
           [] metric = "accuracy" -> accuracy(t)
           [] metric = "equitable_threat_score" -> equitable_threat_score(t)
           [] metric = "general_skill" -> general_skill(t)
           [] metric = "precision" -> precision(t)
-----------------------------------------------------------------------------
(* Scores *)

\* The bounds are nought and one, but for the bias, which has no upper bound.
HasUpperBound(metric) == metric # "frequency_bias"

ideal_value(metric) ==
    IF metric \in {"false_alarm_ratio", "probability_of_false_detection"} THEN Zero ELSE One

\* The slope of the line on which a value is scaled; it is flat where the
\* ideal is infinitely far from the bound.
Slope(metric, raw) ==
    IF ideal_value(metric) = Zero THEN Whole(-1)
    ELSE IF HasUpperBound(metric) \/ AtMost(raw, One) THEN One ELSE Zero

\* Faulty variant: an alarm scores by its size.
ScaleUpwards(metric, raw) ==
    IF IsNaN(raw) THEN NaN ELSE Greater(Smaller(raw, One), Zero)

scale_value(metric, raw) ==
    IF IsNaN(raw) THEN NaN
    ELSE LET slope == Slope(metric, raw)
             intercept == Subtract(One, Times(slope, ideal_value(metric)))
             scaled == Add(Times(slope, raw), intercept)
             capped == IF HasUpperBound(metric) THEN Smaller(scaled, One) ELSE scaled
         IN  Greater(capped, Zero)

\* The value of a metric on a table, as a fraction of the threshold's weight.
scaled_value(metric, t) ==
    Times(scale_value(metric, Value(metric, t)), Whole(ThresholdWeight[t.threshold]))

\* What a metric says of each table.
Scores(metric, tables) ==
    [i \in DOMAIN tables |-> [threshold |-> tables[i].threshold,
                              scaled |-> scaled_value(metric, tables[i])]]

\* The scores that are numbers, added up, and how much they could be.
ScoreDescription(scores) ==
    LET add_score(d, s) ==
          IF IsNaN(s.scaled) THEN d
          ELSE [total |-> Add(d.total, s.scaled),
                maximum |-> Add(d.maximum, Whole(ThresholdWeight[s.threshold])),
                counted |-> d.counted \union {s.threshold}]
    IN  FoldLeft(add_score, [total |-> Zero, maximum |-> Zero, counted |-> {}], scores)

has_value(d, metric) == Zero \notin {d.total, d.maximum, Whole(MetricWeight[metric])}

\* What the metrics say of a location.  Those without a value are left out.
MetricResults(metrics, tables) ==
    LET add_scores(metric, r) ==
          LET d == ScoreDescription(Scores(metric, tables))
              weight == Whole(MetricWeight[metric])
          IN  IF ~has_value(d, metric) THEN r
              ELSE [total |-> Add(r.total, Times(Over(d.total, d.maximum), weight)),
                    maximum |-> Add(r.maximum, weight)]
    IN  FoldSet(add_scores, [total |-> Zero, maximum |-> Zero], metrics)

\* The value of a location, of which the weight is one.
LocationValue(r) == IF Zero \in {r.total, r.maximum} THEN Zero ELSE Over(r.total, r.maximum)
-----------------------------------------------------------------------------
(* An evaluation *)

Begin == /\ outcome = "new"
         /\ outcome' = "open"
         /\ scheme' \in Schemes /\ verbose' \in BOOLEAN
         /\ UNCHANGED <<scored, group>>

\* Truth tables are made of a group before it is asked whether there are
\* thresholds, and two of the same name are refused.
TablesRefused(thresholds) == thresholds = <<>> \/ ~IsInjective(thresholds)

\* The next group, with what thresholds there are for its location.
NextGroup == /\ outcome = "open" /\ group = NoGroup /\ Len(scored) < Len(Locations)
             /\ \E pairs \in Groups[Locations[Len(scored) + 1]], thresholds \in ThresholdLists :
                   group' = [pairs |-> pairs, thresholds |-> thresholds]
             /\ UNCHANGED <<scheme, verbose, scored, outcome>>

Tables == TruthTables(group.pairs, group.thresholds)
Results == MetricResults(scheme, Tables)

\* Where no metric has a value, writing the result out divides by nought.
ScoreFails == TablesRefused(group.thresholds) \/ (verbose /\ Results.maximum = Zero)

Score == /\ outcome = "open" /\ group # NoGroup
         /\ \/ ScoreFails /\ outcome' = "raised" /\ UNCHANGED scored
            \/ /\ ~ScoreFails
               /\ scored' = Append(scored, LocationValue(Results))
               /\ UNCHANGED outcome
         /\ group' = NoGroup
         /\ UNCHANGED <<scheme, verbose>>

\* EvaluationResults, once all groups are scored.
Grade == /\ outcome = "open" /\ group = NoGroup /\ Len(scored) = Len(Locations)
         /\ outcome' = "graded"
         /\ UNCHANGED <<scheme, verbose, scored, group>>

total_value == FoldSeq(Add, Zero, scored)
maximum_value == Whole(Len(scored))
performance == IF scored = <<>> THEN Zero ELSE Over(total_value, maximum_value)

ScoresNext == Begin \/ NextGroup \/ Score \/ Grade

ScoresSpec == ScoresInit /\ [][ScoresNext]_scoresVars
-----------------------------------------------------------------------------
\* A group has got its tables.
InTables == group # NoGroup /\ ~TablesRefused(group.thresholds)

IsFraction(q) == ~IsNaN(q) /\ AtMost(Zero, q) /\ AtMost(q, One)

\* Nothing was observed that was not predicted, at these thresholds, and
\* nothing predicted that was not observed.
IsPerfect(tables) == \A i \in DOMAIN tables : tables[i].misses + tables[i].false_positives = 0

\* The thresholds at which each metric says something, and nought if its
\* scores are nothing but that.
Counting(metrics, tables) ==
    {LET d == ScoreDescription(Scores(m, tables)) IN <<m, d.counted, has_value(d, m)>> :
        m \in metrics}

(***************************************************************************)
(* The grade is a fraction, whatever the skill of a forecast, which may be *)
(* negative, or its bias, which has no bound; and a forecast that is right *)
(* at every threshold has full marks at its location, unless nothing ever  *)
(* happens there or every metric asked for is undefined on it, although    *)
(* half of the metrics have nothing to divide by on some perfect tables.   *)
(***************************************************************************)
FullMarksForPerfection ==
    /\ \A i \in DOMAIN scored : IsFraction(scored[i])
    /\ outcome = "graded" => IsFraction(performance)
    /\ (InTables /\ IsPerfect(Tables)) =>
          LocationValue(Results) = IF Results.maximum = Zero THEN Zero ELSE One

\* The same pairs, but for one event observed and predicted at some
\* threshold, of which the prediction is now the lowest.
WithOneHitLost(pairs) ==
    {[pairs EXCEPT ![c] = @ - 1, ![[c EXCEPT !.predicted = Min(Levels)]] = @ + 1] :
        c \in {d \in Cells : pairs[d] > 0 /\ Min(Levels) < d.predicted
                               /\ d.predicted <= d.observed}}

(***************************************************************************)
(* Missing an event that was predicted raises the value of a location at   *)
(* no metric scheme and no thresholds, as long as the same metrics count   *)
(* at the same thresholds.                                                 *)
(***************************************************************************)
LostHitsNeverPay ==
    InTables =>
        \A worse \in WithOneHitLost(group.pairs) :
            LET after == TruthTables(worse, group.thresholds)
            IN  Counting(scheme, after) = Counting(scheme, Tables)
                => AtMost(LocationValue(MetricResults(scheme, after)), LocationValue(Results))
=============================================================================
