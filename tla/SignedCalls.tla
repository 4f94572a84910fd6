---------------------------- MODULE SignedCalls ----------------------------
(***************************************************************************)
(* What the caller of an internal service can rely on, without signatures, *)
(* nonces, clocks, routers or retries.  A call is answered once and for    *)
(* good, with success only as it is carried out.  A failure says nothing:  *)
(* a copy on its way may be carried out after it; nor does the answer to a *)
(* blind call, which anyone in between may give.  What is carried out was  *)
(* asked for, and no copy is carried out twice, unless in between a        *)
(* receiver restarted that forgets.                                        *)
(***************************************************************************)
EXTENDS Naturals

CONSTANTS
    Calls,
    Copies,    \* <<call, n>>: what the n-th attempt of a call sends
    Forgotten, \* the calls a receiver knows nothing of after it restarts
    Blind      \* the calls whose caller takes any answer for the receiver's

VARIABLES
    outcome,   \* what the caller knows of each call
    carried    \* how often its receiver has carried out each copy

Init ==
    /\ outcome = [c \in Calls |-> "new"]
    /\ carried = [k \in Copies |-> 0]

Learn(c, from, to) ==
    /\ outcome[c] = from
    /\ outcome' = [outcome EXCEPT ![c] = to]

Make(c)   == Learn(c, "new", "waiting") /\ UNCHANGED carried
GiveUp(c) == Learn(c, "waiting", "failed") /\ UNCHANGED carried
BeTold(c) == c \in Blind /\ Learn(c, "waiting", "answered") /\ UNCHANGED carried

(* The answer may be lost, or too late for the caller.                     *)
CarryOut(k) ==
    /\ outcome[k[1]] # "new"
    /\ carried[k] = 0
    /\ carried' = [carried EXCEPT ![k] = 1]
    /\ \/ Learn(k[1], "waiting", IF k[1] \in Blind THEN "answered" ELSE "ok")
       \/ UNCHANGED outcome

(* The receiver that keeps nothing on disk starts anew.                    *)
Restart ==
    /\ carried' = [k \in Copies |-> IF k[1] \in Forgotten THEN 0 ELSE carried[k]]
    /\ UNCHANGED outcome

Next ==
    \/ Restart
    \/ \E c \in Calls : Make(c) \/ GiveUp(c) \/ BeTold(c)
    \/ \E k \in Copies : CarryOut(k)

Spec == Init /\ [][Next]_<<outcome, carried>>

=============================================================================
