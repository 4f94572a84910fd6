----------------------------- MODULE MCAccess -----------------------------
(* Constants of the TLC model of Access. *)
EXTENDS Access, TLC

CONSTANTS p1, p2, s1, ph1, k1, t1, w1, v1

(* Two attempts on one portal session, by one phone. *)
OneSession == [p \in Payments |-> s1]
OnePhone   == [p \in Payments |-> ph1]
OnePackage == [p \in Payments |-> k1]
OneTenant  == s1 :> t1
Sale       == {<<t1, k1>>}
TwoScenes  == {{p1, p2}, {p1, w1, v1}}
=============================================================================
