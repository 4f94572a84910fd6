---------------------------- MODULE Collections ----------------------------
(***************************************************************************)
(* Payments taken from customers through Selcom Mobile Checkout:           *)
(* SelcomPaymentProvider (services/selcom_payment_provider.py) with its    *)
(* two flows, the tenant's collections (services/collections.py) and the   *)
(* captive portal's purchases (services/captive_portal.py), the tenant's   *)
(* wallet they credit, and the checkout webhook and the sweep that find    *)
(* out what became of an order.                                            *)
(*                                                                         *)
(* As in Payouts a request is one database transaction: the handler's      *)
(* action locks the transactions row and asks Selcom, Commit(r) takes the  *)
(* wallet lock, credits and commits, Crash(r) is the process dying first.  *)
(* A new row is invisible to the others until its request commits.         *)
(***************************************************************************)
EXTENDS WalletOps, FiniteSetsExt

CONSTANTS
    Payments,     \* the attempts that may be made, one order_id each
    Captive,      \* those of the captive portal; the others are collections
    Tenants,      \* the tenants the payments are made to
    TenantOf,     \* the tenant of each payment
    Amount,       \* what each asks the customer for
    Rate,         \* the commission rate of a tenant's active terms
    Words,        \* payment_status words Selcom may close an unpaid order with
    Workers,      \* requests in progress at the same time
    MaxCrashes    \* bound on the crashes of a behaviour

ASSUME PaymentsAssumption == IsFiniteSet(Payments)  \* the rows of a table
ASSUME CaptiveAssumption == Captive \subseteq Payments
ASSUME TenantAssumption  == TenantOf \in [Payments -> Tenants]
ASSUME AmountAssumption  == Amount \in [Payments -> Nat \ {0}]
ASSUME RateAssumption    == Rate \in 0 .. 10000
ASSUME CrashAssumption   == MaxCrashes \in Nat

VARIABLES
    row,        \* the committed transactions rows: status and activation_status
    wallet,     \* the committed tenant_wallets row of each tenant
    terms,      \* the tenants with active commercial terms
    order,      \* Selcom's own state of each order_id
    old,        \* payments whose STK is older than the pending-review threshold
    job,        \* what each worker is doing
    credits,    \* TENANT_SHARE ledger entries of each payment: 0, 1 or more (2)
    lost,       \* a balance computed from a stale read was committed (history)
    crashes     \* crashes so far

vars == <<row, wallet, terms, order, old, job, credits, lost, crashes>>

----------------------------------------------------------------------------
(* State *)

Unsuccessful == {"FAILED", "CANCELLED", "USERCANCELLED", "DECLINED", "REJECTED", "EXPIRED"}
Terminal     == Unsuccessful \cup {"COMPLETED"}
Open         == {"CREATED", "STK_SENT", "PENDING", "INPROGRESS", "AMBIGUOUS", "REQUIRES_REVIEW"}
Statuses     == {"NONE"} \cup Open \cup Terminal

(***************************************************************************)
(* What Selcom knows of an order_id.  "asked": the payer's phone shows the *)
(* prompt.  "COMPLETED": paid, and reported as asked for; "ODD": paid, but *)
(* reported with another order_id, amount or currency; "WEIRD": under way, *)
(* and reported with a word the code does not know.                        *)
(***************************************************************************)
Prompted == {"asked", "INPROGRESS", "WEIRD"}
Orders   == {"none", "open"} \cup Prompted \cup {"COMPLETED", "ODD"} \cup Unsuccessful

ASSUME WordsAssumption == Words \subseteq Unsuccessful

Rows == [status : Statuses, activation : {"NULL", "PENDING"}]
EmptyRow == [status |-> "NONE", activation |-> "NULL"]

IdleJob    == [phase |-> "idle"]
CommitJobs == [phase : {"commit"}, p : Payments, write : Rows, move : {Collect, NoMove},
               seen : Wallets]
Jobs       == {IdleJob} \cup CommitJobs

Idle(r)   == job[r] = IdleJob
LockedNever(p) == FALSE \* without SELECT ... FOR UPDATE
Locked(p) == \E r \in Workers : job[r].phase = "commit" /\ job[r].p = p

(* What process_collection leaves the tenant of each payment.              *)
Share == [p \in Payments |-> TenantShare(Amount[p], Rate)]

Init ==
    /\ row = [p \in Payments |-> EmptyRow]
    /\ wallet = [t \in Tenants |-> [b \in Buckets |-> 0]]
    /\ terms \in SUBSET Tenants
    /\ order = [p \in Payments |-> "none"]
    /\ old = {}
    /\ job = [r \in Workers |-> IdleJob]
    /\ credits = [p \in Payments |-> 0]
    /\ lost = FALSE
    /\ crashes = 0

(* The end of a handler: the row it flushed, the credit it asks for and    *)
(* the wallet its plain SELECT just returned.                              *)
Finish(r, p, newRow, m) ==
    job' = [job EXCEPT ![r] = [phase |-> "commit", p |-> p, write |-> newRow,
                               move |-> m, seen |-> wallet[TenantOf[p]]]]

----------------------------------------------------------------------------
(* Initiation *)

(***************************************************************************)
(* A call of Selcom is carried out or not, and its end does not tell: the  *)
(* client raises alike for a timeout, an error status and an answer that   *)
(* is not JSON, and the resultcode of an answer is not examined.           *)
(***************************************************************************)
CallEnds(before, after) == {before, after}

CreateOrderMinimal == CallEnds("none", "open")
WalletPayment(o)   == CallEnds(o, IF o = "open" THEN "asked" ELSE o)

(***************************************************************************)
(* create_order_and_send_stk: the order, then the prompt.  A call that     *)
(* raises closes the row FAILED, although Selcom may have acted on it, and *)
(* STK_SENT does not mean that the phone shows a prompt.                   *)
(***************************************************************************)
CreateOrderAndSendStk ==
    {[status |-> "FAILED", order |-> o] : o \in CreateOrderMinimal}
        \cup UNION {{[status |-> s, order |-> q] : s \in {"FAILED", "STK_SENT"},
                                                  q \in WalletPayment(o)} :
                     o \in CreateOrderMinimal}

Initiate(r, p) ==
    /\ Idle(r)
    /\ row[p].status = "NONE"
    /\ order[p] = "none"
    /\ ~Locked(p)
    /\ \E x \in CreateOrderAndSendStk :
          /\ order' = [order EXCEPT ![p] = x.order]
          /\ Finish(r, p, [EmptyRow EXCEPT !.status = x.status], NoMove)
    /\ UNCHANGED <<row, wallet, terms, old, credits, lost, crashes>>

----------------------------------------------------------------------------
(* Finding out: the order-status query *)

(* _PAYMENT_STATUS_TO_COLLECTION_STATUS, and the word for "still waiting". *)
Reply(o) == IF o \in {"open", "asked"} THEN "PENDING" ELSE o
Waiting  == {"PENDING", "INPROGRESS"}

(***************************************************************************)
(* The flow that owns a payment, whichever service was asked to look at it *)
(* (_provider_for), and what its finalizer writes beside the credit.       *)
(***************************************************************************)
ProviderForNone(p) == "COLLECTION" \* always the flow that was called
ProviderFor(p) == IF p \in Captive THEN "CAPTIVE_PORTAL" ELSE "COLLECTION"
FinalizeActive(p) == [status |-> "COMPLETED", activation |-> "ACTIVE"] \* access taken as granted
CreditTenantWallet     == [status |-> "COMPLETED", activation |-> "NULL"]
FinalizeCaptivePayment == [status |-> "COMPLETED", activation |-> "PENDING"]
FinalizePayment(p) ==
    IF ProviderFor(p) = "CAPTIVE_PORTAL" THEN FinalizeCaptivePayment ELSE CreditTenantWallet

(***************************************************************************)
(* apply_order_status: the row a locked payment is given for Selcom's word,*)
(* and the credit.  A terminal row is left alone.                          *)
(***************************************************************************)
Result(x, m) == [row |-> x, move |-> m]
Transition(p, to) == [row[p] EXCEPT !.status = to]

ApplyLate(p, word) == \* without the early return on a terminal status
    CASE word = "COMPLETED" -> Result(FinalizePayment(p), Collect)
      [] word \in {"ODD", "WEIRD"} -> Result([row[p] EXCEPT !.status = "AMBIGUOUS"], NoMove)
      [] word \in Unsuccessful -> Result([row[p] EXCEPT !.status = word], NoMove)
      [] word \in Waiting -> Result([row[p] EXCEPT !.status = word], NoMove)

ApplyOddAsPaid(p, word) == \* without the order_id, amount and currency checks
    CASE row[p].status \in Terminal -> Result(row[p], NoMove)
      [] row[p].status \in Open /\ word \in {"COMPLETED", "ODD"} -> Result(FinalizePayment(p), Collect)
      [] row[p].status \in Open /\ word = "WEIRD" -> Result([row[p] EXCEPT !.status = "AMBIGUOUS"], NoMove)
      [] row[p].status \in Open /\ word \in Unsuccessful \cup Waiting
            -> Result([row[p] EXCEPT !.status = word], NoMove)

ApplyReviewFinal(p, word) == \* REQUIRES_REVIEW taken for a final status
    CASE row[p].status \in Terminal \cup {"REQUIRES_REVIEW"} -> Result(row[p], NoMove)
      [] row[p].status \in Open \ {"REQUIRES_REVIEW"} /\ word = "COMPLETED"
            -> Result(FinalizePayment(p), Collect)
      [] row[p].status \in Open \ {"REQUIRES_REVIEW"} /\ word # "COMPLETED"
            -> Result([row[p] EXCEPT !.status = "REQUIRES_REVIEW"], NoMove)

ApplyOrderStatus(p, word) ==
    CASE row[p].status \in Terminal -> Result(row[p], NoMove)
      [] row[p].status \in Open /\ word = "COMPLETED"
            -> Result(FinalizePayment(p), Collect)
      [] row[p].status \in Open /\ word \in {"ODD", "WEIRD"}
            -> Result(Transition(p, "AMBIGUOUS"), NoMove)
      [] row[p].status \in Open /\ word \in Unsuccessful
            -> Result(Transition(p, word), NoMove)
      [] row[p].status = "REQUIRES_REVIEW" /\ word \in Waiting
            -> Result(row[p], NoMove)
      [] row[p].status \in Open \ {"REQUIRES_REVIEW"} /\ word \in Waiting
            -> Result(Transition(p, IF p \in old THEN "REQUIRES_REVIEW" ELSE word), NoMove)

(* order_status: an order Selcom has no data of changes nothing.           *)
QueryResult(p) ==
    IF order[p] = "none" THEN Result(row[p], NoMove)
    ELSE ApplyOrderStatus(p, Reply(order[p]))

(***************************************************************************)
(* query_and_apply under the row lock.  A query that fails changes         *)
(* nothing.  Without commercial terms of the tenant process_collection     *)
(* raises and the request is rolled back.                                  *)
(***************************************************************************)
QueryAndApply(r, p) ==
    LET res == QueryResult(p)
    IN  /\ Idle(r)
        /\ ~Locked(p)
        /\ res.move = Collect => TenantOf[p] \in terms
        /\ Finish(r, p, res.row, res.move)
        /\ UNCHANGED <<row, wallet, terms, order, old, credits, lost, crashes>>

(* The sweep's internal endpoint: the payments list_reconcilable found.    *)
Reconcile(r, p) == row[p].status \in Open /\ QueryAndApply(r, p)

(***************************************************************************)
(* The checkout webhook, a signal only: Selcom, or anyone whose message    *)
(* verifies, may send it early, late, twice or never.  For an order_id     *)
(* with no committed row it answers unknown_reference.                     *)
(***************************************************************************)
ProcessWebhook(r, p) == row[p].status # "NONE" /\ QueryAndApply(r, p)

----------------------------------------------------------------------------
(* The end of a request, Selcom, the payer and time *)

Commit(r) ==
    /\ job[r].phase = "commit"
    /\ LET j == job[r]
           t == TenantOf[j.p]
           c == j.move = Collect
       IN  /\ row' = [row EXCEPT ![j.p] = j.write]
           /\ wallet' = IF c THEN [wallet EXCEPT ![t] = Apply(Collect, Share[j.p], j.seen, @)]
                             ELSE wallet
           /\ credits' = [credits EXCEPT ![j.p] = IF c /\ @ < 2 THEN @ + 1 ELSE @]
           /\ lost' = (lost \/ (c /\ j.seen # wallet[t]))
    /\ job' = [job EXCEPT ![r] = IdleJob]
    /\ UNCHANGED <<terms, order, old, crashes>>

Crash(r) ==
    /\ job[r].phase = "commit"
    /\ crashes < MaxCrashes
    /\ crashes' = crashes + 1
    /\ job' = [job EXCEPT ![r] = IdleJob]
    /\ UNCHANGED <<row, wallet, terms, order, old, credits, lost>>

(* The payer answers the prompt, or Selcom closes the order.               *)
OrderMoves(p) ==
    /\ \E o \in CASE order[p] = "open" -> Words
                  [] order[p] \in Prompted
                        -> Words \cup {"INPROGRESS", "WEIRD", "COMPLETED", "ODD"}
                  [] OTHER -> {} :
          order' = [order EXCEPT ![p] = o]
    /\ UNCHANGED <<row, wallet, terms, old, job, credits, lost, crashes>>

(* SELCOM_COLLECTION_PENDING_REVIEW_MINUTES have passed since the STK.     *)
GrowsOld(p) ==
    /\ p \notin old
    /\ row[p].status \in Open
    /\ old' = old \cup {p}
    /\ UNCHANGED <<row, wallet, terms, order, job, credits, lost, crashes>>

(* A super admin sets the commission rate for the first time.              *)
SetTerms(t) ==
    /\ t \notin terms
    /\ terms' = terms \cup {t}
    /\ UNCHANGED <<row, wallet, order, old, job, credits, lost, crashes>>

Next ==
    \/ \E r \in Workers, p \in Payments :
          Initiate(r, p) \/ Reconcile(r, p) \/ ProcessWebhook(r, p)
    \/ \E r \in Workers : Commit(r) \/ Crash(r)
    \/ \E p \in Payments : OrderMoves(p) \/ GrowsOld(p)
    \/ \E t \in Tenants : SetTerms(t)

Spec == Init /\ [][Next]_vars

----------------------------------------------------------------------------
(* Properties *)

(* Every variable keeps its type: rows, jobs and balances are well formed. *)
TypeOK ==
    /\ row \in [Payments -> Rows]
    /\ wallet \in [Tenants -> Wallets]
    /\ terms \subseteq Tenants
    /\ order \in [Payments -> Orders]
    /\ old \subseteq Payments
    /\ job \in [Workers -> Jobs]
    /\ credits \in [Payments -> 0 .. 2]
    /\ lost \in BOOLEAN
    /\ crashes \in 0 .. MaxCrashes

(***************************************************************************)
(* The wallet is credited once for a payment that became COMPLETED, in the *)
(* same commit, and never for any other, however the webhook and the sweep *)
(* overlap and wherever a process dies ("a duplicate COMPLETED can never   *)
(* credit twice").                                                         *)
(***************************************************************************)
CreditedIffCompleted ==
    \A p \in Payments : credits[p] = IF row[p].status = "COMPLETED" THEN 1 ELSE 0

(***************************************************************************)
(* ... and only for an order Selcom itself reports as paid, with the       *)
(* order_id, amount and currency that were asked for.                      *)
(***************************************************************************)
CreditedOnlyIfPaid == \A p \in Payments : credits[p] > 0 => order[p] = "COMPLETED"

Credited(t) == {p \in Payments : TenantOf[p] = t /\ credits[p] > 0}

(* The pending balance is the shares of the completed payments, until a    *)
(* credit computed from a stale read of the wallet is committed.           *)
PendingIsShares ==
    ~lost => \A t \in Tenants :
                wallet[t]["pending"] =
                    MapThenSumSet(LAMBDA p : Share[p], Credited(t))

(***************************************************************************)
(* A completed payment of the captive portal is queued for activation, and *)
(* no other is, whichever flow's service received the webhook or the sweep *)
(* call (the incident _provider_for exists for).                           *)
(***************************************************************************)
PaidIsQueued ==
    \A p \in Payments :
        row[p].activation = "PENDING" <=> row[p].status = "COMPLETED" /\ p \in Captive

(***************************************************************************)
(* "a Collection order in one of these never transitions again" (enums.py, *)
(* COLLECTION_TERMINAL_STATUSES).                                          *)
(***************************************************************************)
TerminalNeverChanges ==
    [][\A p \in Payments : row[p].status \in Terminal => row'[p] = row[p]]_vars

(***************************************************************************)
(* A payment is attempted once, ends once and for good, and a purchase     *)
(* that is paid is owed its access from that very commit, whatever         *)
(* webhooks, sweep calls and crashes do to its row: each step implements   *)
(* a step of PaymentLife.                                                  *)
(***************************************************************************)
StageOf(status) == CASE status = "NONE" -> "new"
                     [] status \in Open -> "open"
                     [] status = "COMPLETED" -> "paid"
                     [] status \in Unsuccessful -> status

Life == INSTANCE PaymentLife WITH
            Endings <- Unsuccessful,
            stage   <- [p \in Payments |-> StageOf(row[p].status)],
            owed    <- {p \in Payments : row[p].activation = "PENDING"}

LifeOfPayment == Life!Spec

(***************************************************************************)
(* "The payment was not completed. You have not been charged for a plan    *)
(* you did not get." (captive_portal.py, get_payment_status, for every     *)
(* unsuccessful terminal status).                                          *)
(***************************************************************************)
FailedIsNotCharged ==
    \A p \in Payments : row[p].status \in Unsuccessful => order[p] # "COMPLETED"
=============================================================================
