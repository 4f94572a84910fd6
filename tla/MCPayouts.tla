----------------------------- MODULE MCPayouts -----------------------------
(* Constants of the TLC models of Payouts. *)
EXTENDS Payouts, TLC

CONSTANTS w1, w2

(* One withdrawal at the approval threshold, one above it. *)
TwoAmounts == w1 :> 2 @@ w2 :> 3
OneAmount == w1 :> 2
=============================================================================
