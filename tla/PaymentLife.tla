---------------------------- MODULE PaymentLife ----------------------------
(***************************************************************************)
(* What a customer's payment promises the rest of the system, without      *)
(* orders, prompts, locks or requests: it is attempted once, is settled    *)
(* once, for good, and only a paid one of the captive portal is owed       *)
(* access, from the moment it is paid and ever after.  Collections         *)
(* implements it, and it is what Access takes for granted.                 *)
(***************************************************************************)
CONSTANTS
    Payments,
    Captive,   \* the payments that buy access
    Endings    \* the ways in which one ends unpaid

VARIABLES
    stage,     \* where each payment is
    owed       \* the payments whose payer is owed access

Init ==
    /\ stage = [p \in Payments |-> "new"]
    /\ owed = {}

Move(p, from, to) ==
    /\ stage[p] = from
    /\ stage' = [stage EXCEPT ![p] = to]

Attempt(p) == Move(p, "new", "open") /\ UNCHANGED owed

(* A payment may end before it was ever open to the payer.                 *)
Close(p) ==
    /\ \E e \in Endings : Move(p, "new", e) \/ Move(p, "open", e)
    /\ UNCHANGED owed

Pay(p) ==
    /\ Move(p, "open", "paid")
    /\ owed' = owed \cup ({p} \cap Captive)

Next == \E p \in Payments : Attempt(p) \/ Close(p) \/ Pay(p)

Spec == Init /\ [][Next]_<<stage, owed>>

=============================================================================
