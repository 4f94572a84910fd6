--------------------------- MODULE MCCollections ---------------------------
(* Constants of the TLC models of Collections. *)
EXTENDS Collections, TLC

CONSTANTS p1, p2, t1, t2

(* A captive-portal purchase and a collection of another amount. *)
TwoAmounts == p1 :> 2 @@ p2 :> 3
OneTenant == p1 :> t1 @@ p2 :> t1
=============================================================================
