--------------------------- MODULE MCCalculations ---------------------------
(***************************************************************************)
(* The two calculations that can be followed exactly, each by itself: the  *)
(* allocation of a pool of three nodes of different shape to two jobs,     *)
(* with requests from one CPU, fewer than there are nodes, to more than    *)
(* the pool has; and the grade of an evaluation of two locations, one with *)
(* up to three pairs, at three levels and two thresholds.                  *)
(***************************************************************************)
EXTENDS AllocationParadigms, MetricScores, TLC

CONSTANTS n1, n2, n3, j1, j2, lowFlow, highFlow

MCNodes == {n1, n2, n3}
MCTotal == n1 :> [cpus |-> 3, memory |-> 2] @@ n2 :> [cpus |-> 2, memory |-> 3]
               @@ n3 :> [cpus |-> 2, memory |-> 2]
MCJobs == {j1, j2}
Symmetric == Permutations(MCJobs)

MCLocations == <<"river", "creek">>
MCMaxPairs == [l \in {"river", "creek"} |-> IF l = "river" THEN 3 ELSE 1]
MCThresholds == {lowFlow, highFlow}
MCCut == lowFlow :> 1 @@ highFlow :> 2
MCThresholdWeight == lowFlow :> 1 @@ highFlow :> 2
MCThresholdLists == {<<>>, <<lowFlow>>, <<lowFlow, highFlow>>, <<lowFlow, lowFlow>>}
MCSchemes == {Metrics, {"probability_of_detection", "precision"},
              {"frequency_bias", "false_alarm_ratio"}, {"equitable_threat_score"}}
MCMetricWeight == [m \in Metrics |-> IF m = "general_skill" THEN 2 ELSE 1]

\* Nothing of the one depends on the other, so they do not interleave.
CalculationsInit == Init /\ ScoresInit
CalculationsNext == \/ Next /\ outcome = "new" /\ UNCHANGED scoresVars
                    \/ ScoresNext /\ ready = {} /\ UNCHANGED vars
Calculations == CalculationsInit /\ [][CalculationsNext]_<<vars, scoresVars>>
=============================================================================
