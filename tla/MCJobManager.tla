---------------------------- MODULE MCJobManager ----------------------------
(***************************************************************************)
(* Two or three jobs that together ask for more than the pool has, started *)
(* with two services each; the priorities of the code scaled down, so that *)
(* one bump or the boost of age takes a job into the next tier.            *)
(***************************************************************************)
EXTENDS JobManager, TLC

CONSTANTS j1, j2, j3

MCJobs == {j1, j2}
MCCpus == j1 :> 1 @@ j2 :> 2

MCThree == {j1, j2, j3}
MCThreeCpus == j1 :> 1 @@ j2 :> 1 @@ j3 :> 2
=============================================================================
