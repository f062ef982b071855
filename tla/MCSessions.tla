------------------------------ MODULE MCSessions ------------------------------
(***************************************************************************)
(* Two services answer four requests of two users, one may be cut off.     *)
(***************************************************************************)
EXTENDS Sessions, TLC

CONSTANTS p1, p2, u1, u2
=============================================================================
