----------------------------- MODULE FundsHold -----------------------------
(***************************************************************************)
(* What the wallet promises a tenant about withdrawals, without statuses,  *)
(* codes, locks or the provider: funds are held once for a withdrawal,     *)
(* out of what is free, and are then either given back, or paid out and    *)
(* perhaps recalled.  Payouts implements it when requests do not overlap.  *)
(***************************************************************************)
EXTENDS Integers

CONSTANTS Withdrawals, Amount, Opening

VARIABLES stage,   \* where the funds of each withdrawal are
          free     \* what the tenant can still withdraw

Stages == {"new", "held", "returned", "paid", "recalled"}

Init ==
    /\ stage = [w \in Withdrawals |-> "new"]
    /\ free = Opening

Move(w, from, to, delta) ==
    /\ stage[w] = from
    /\ stage' = [stage EXCEPT ![w] = to]
    /\ free' = free + delta

Hold(w)   == free >= Amount[w] /\ Move(w, "new", "held", -Amount[w])
Return(w) == Move(w, "held", "returned", Amount[w])
Pay(w)    == Move(w, "held", "paid", 0)
Recall(w) == Move(w, "paid", "recalled", Amount[w])

Next == \E w \in Withdrawals : Hold(w) \/ Return(w) \/ Pay(w) \/ Recall(w)

Spec == Init /\ [][Next]_<<stage, free>>

=============================================================================
