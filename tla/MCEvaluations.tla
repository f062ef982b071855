---------------------------- MODULE MCEvaluations ----------------------------
(***************************************************************************)
(* A client and a form launch evaluations under three names, of which two  *)
(* are the same once spaces are replaced, in a pool of one worker.         *)
(***************************************************************************)
EXTENDS Evaluations, TLC

CONSTANTS plain, spaced, other, c1

MCNames == {plain, spaced, other}
MCUnderscored == [n \in MCNames |-> IF n = spaced THEN plain ELSE n]
=============================================================================
