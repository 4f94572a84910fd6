----------------------------- MODULE MCTenancy -----------------------------
(* Two registrations with one e-mail address, by two workers, with the     *)
(* script beside them; or one tenant and what is decided about it.         *)
EXTENDS Tenancy, TLC

CONSTANTS a1, a2, e1, w1, w2

MCEmailOf == a1 :> e1 @@ a2 :> e1
Scene(who, acts, n) == [who |-> who, acts |-> acts, steps |-> n]
MCScenes == {Scene({a1, a2}, {"convert", "force"}, 2),
             Scene({a1, a2}, {"suspend", "work"}, 2),
             Scene({a1}, {"approve", "reject", "suspend"}, 3),
             Scene({a1}, {"more", "reactivate", "suspend", "work"}, 3),
             Scene({a1}, {"approve", "force"}, 2),
             Scene({a1}, {"mode", "flags"}, 3),
             Scene({a1}, {"mode", "terms"}, 3)}
Symmetry == Permutations({w1, w2})
=============================================================================
