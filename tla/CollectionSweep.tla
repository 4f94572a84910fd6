-------------------------- MODULE CollectionSweep --------------------------
(***************************************************************************)
(* The periodic sweep of open payments (tasks/collections.py) composed     *)
(* with the web service of Collections that it drives through              *)
(* InternalWebClient (integrations/internal_web/client.py).                *)
(*                                                                         *)
(* The sweep lists the open payments of every tenant, then asks web about  *)
(* them one after the other.  Web's answer is the end of the request that  *)
(* serves it; an error answer (HTTP 4xx or 5xx) fails the payment for this *)
(* sweep, a lost connection or a timeout is tried once more.               *)
(***************************************************************************)
EXTENDS Collections

CONSTANT MaxFaults   \* bound on the late answers and the crashes of the worker
ASSUME FaultAssumption == MaxFaults \in Nat

VARIABLES
    sweep,      \* the task: phase, payments left, the one being asked about
    faults      \* answers given up, and crashes of the worker, so far

sweepVars == <<vars, sweep, faults>>

Nobody == "nobody"
ASSUME NobodyAssumption == Nobody \notin Workers
MaxAttempts == 2  \* InternalWebClient._MAX_ATTEMPTS

(***************************************************************************)
(* "fresh": running, and the transaction of the list query is still open   *)
(* in the task's own session.  "dead": it ended with an exception.         *)
(***************************************************************************)
Sweeps == [phase : {"idle", "fresh", "run", "dead"}, todo : SUBSET Payments,
           cur : Payments \cup {Nobody}, by : Workers \cup {Nobody}, attempts : 0 .. MaxAttempts]

(* Between two payments, with S left to ask about.                         *)
Between(phase, S) ==
    [phase |-> phase, todo |-> S, cur |-> Nobody, by |-> Nobody, attempts |-> 0]

NoSweep == Between("idle", {})

Running == sweep.phase \in {"fresh", "run"}

SweepInit == Init /\ sweep = NoSweep /\ faults = 0

(* list_reconcilable, in no particular order: the query has no ORDER BY.   *)
SweepBegins ==
    /\ ~Running
    /\ \E p \in Payments : row[p].status \in Open
    /\ sweep' = Between("fresh", {p \in Payments : row[p].status \in Open})
    /\ UNCHANGED <<vars, faults>>

(***************************************************************************)
(* What becomes of the sweep when a payment is done with.  After a failure *)
(* the session is rolled back.  If the list's transaction was still open   *)
(* that expires every listed row, and reading transaction.id for the       *)
(* warning that follows raises out of the loop; later there is no          *)
(* transaction to roll back and the loop goes on.                          *)
(***************************************************************************)
RowDone(s) == Between("run", s.todo \ {s.cur})
RowFailed(s) == Between(IF s.phase = "fresh" THEN "dead" ELSE "run", s.todo \ {s.cur})
TransportErrorAgain(s) == [s EXCEPT !.by = Nobody] \* tried again without end
TransportError(s) ==
    IF s.attempts < MaxAttempts THEN [s EXCEPT !.by = Nobody] ELSE RowFailed(s)

(* The payment to ask about: the one under way, or any of those left.      *)
Candidates == IF sweep.cur = Nobody THEN sweep.todo ELSE {sweep.cur}

(* The sweep's next attempt for p, served by b.                            *)
Asking(p, b) == [phase |-> sweep.phase, todo |-> sweep.todo, cur |-> p, by |-> b,
                 attempts |-> sweep.attempts + 1]

(* A signed POST reaches web, which takes the row lock and serves it.      *)
SweepAsks(r) ==
    /\ Running /\ sweep.by = Nobody
    /\ \E p \in Candidates :
          /\ QueryAndApply(r, p)
          /\ sweep' = Asking(p, r)
    /\ UNCHANGED faults

(***************************************************************************)
(* Web raises: the payment is paid and its tenant has no commercial terms. *)
(***************************************************************************)
Refuses(p) ==
    /\ ~Locked(p)
    /\ QueryResult(p).move = Collect
    /\ TenantOf[p] \notin terms

SweepRefused ==
    /\ Running /\ sweep.by = Nobody
    /\ \E p \in Candidates :
          Refuses(p) /\ sweep' = RowFailed(Asking(p, Nobody))
    /\ UNCHANGED <<vars, faults>>

(* The order-status query fails: web logs it and answers that all is well. *)
SweepQueryFails ==
    /\ Running /\ sweep.by = Nobody
    /\ faults < MaxFaults
    /\ faults' = faults + 1
    /\ \E p \in Candidates :
          ~Locked(p) /\ sweep' = RowDone(Asking(p, Nobody))
    /\ UNCHANGED vars

(***************************************************************************)
(* The 15 seconds are over and web goes on with the request; or the POST   *)
(* never got to web, or had to wait for the row lock for too long.         *)
(***************************************************************************)
SweepTimesOut ==
    /\ Running
    /\ faults < MaxFaults
    /\ faults' = faults + 1
    /\ \/ /\ sweep.by # Nobody
          /\ sweep' = TransportError(sweep)
       \/ /\ sweep.by = Nobody
          /\ \E p \in Candidates :
                sweep' = TransportError(Asking(p, Nobody))
    /\ UNCHANGED vars

SweepEnds ==
    /\ Running /\ sweep.todo = {} /\ sweep.cur = Nobody
    /\ sweep' = NoSweep
    /\ UNCHANGED <<vars, faults>>

(* The worker process dies in the middle of a sweep.                       *)
SweepCrashes ==
    /\ Running
    /\ faults < MaxFaults
    /\ faults' = faults + 1
    /\ sweep' = NoSweep
    /\ UNCHANGED vars

(* A request of web ends: the sweep hears of it if it waits for this one.  *)
WebCommits(r) ==
    /\ Commit(r)
    /\ sweep' = IF sweep.by = r THEN RowDone(sweep) ELSE sweep
    /\ UNCHANGED faults

WebCrashes(r) ==
    /\ Crash(r)
    /\ sweep' = IF sweep.by = r THEN TransportError(sweep) ELSE sweep
    /\ UNCHANGED faults

Elsewhere ==
    /\ \/ \E r \in Workers, p \in Payments : Initiate(r, p) \/ ProcessWebhook(r, p)
       \/ \E p \in Payments : OrderMoves(p) \/ GrowsOld(p)
       \/ \E t \in Tenants : SetTerms(t)
    /\ UNCHANGED <<sweep, faults>>

SweepNext ==
    \/ SweepBegins \/ SweepRefused \/ SweepQueryFails \/ SweepTimesOut \/ SweepEnds
    \/ SweepCrashes
    \/ \E r \in Workers : SweepAsks(r) \/ WebCommits(r) \/ WebCrashes(r)
    \/ Elsewhere

(***************************************************************************)
(* Fairness.  Celery beat starts a sweep each 180 seconds, the task takes  *)
(* its steps, and a request of web ends.  A request that waits for a row   *)
(* lock is served in turn (SF: others may take the lock in between).       *)
(* Payers, webhooks and administrators are not fair.                       *)
(***************************************************************************)
SweepSpec ==
    /\ SweepInit /\ [][SweepNext]_sweepVars
    /\ WF_sweepVars(SweepBegins)
    /\ WF_sweepVars(SweepEnds)
    /\ SF_sweepVars(SweepRefused \/ \E r \in Workers : SweepAsks(r))
    /\ \A r \in Workers : WF_sweepVars(WebCommits(r))

----------------------------------------------------------------------------
(* Properties *)

(* The task's own state is well formed.                                    *)
SweepTypeOK ==
    /\ sweep \in Sweeps
    /\ faults \in 0 .. MaxFaults

(***************************************************************************)
(* A payment that is still open here and paid at Selcom is completed by    *)
(* the sweep, even without any webhook and even if it was flagged          *)
(* REQUIRES_REVIEW or AMBIGUOUS before, unless its tenant lacks terms.     *)
(***************************************************************************)
PaidIsCompleted ==
    \A p \in Payments :
        row[p].status \in Open /\ order[p] = "COMPLETED"
            ~> row[p].status = "COMPLETED" \/ TenantOf[p] \notin terms

(***************************************************************************)
(* "one bad row must never stop the sweep" (tasks/collections.py): a sweep *)
(* that ends asked about every payment it listed.                          *)
(***************************************************************************)
BadRowNeverStopsSweep == sweep.phase = "dead" => sweep.todo = {}
=============================================================================
