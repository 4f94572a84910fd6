------------------------- MODULE MCCollectionSweep -------------------------
(* Constants of the TLC models of CollectionSweep. *)
EXTENDS CollectionSweep, TLC

CONSTANTS p1, p2, t1, t2

TwoAmounts == p1 :> 2 @@ p2 :> 3
OneTenant == p1 :> t1 @@ p2 :> t1
OneAmount == p1 :> 2
JustOne == p1 :> t1
TwoTenants == p1 :> t1 @@ p2 :> t2
=============================================================================
