------------------------------- MODULE Access -------------------------------
(***************************************************************************)
(* From a purchase at the captive portal to internet access: the portal's  *)
(* sessions (captive_session.py), the purchase (captive_portal.py), the    *)
(* customer and the subscription it creates, the activation that follows   *)
(* the payment (captive_activation.py) with its periodic retry, and the    *)
(* RADIUS database it writes, through the network agent or directly.  The  *)
(* tenant's staff create, activate and redeem subscriptions and vouchers   *)
(* beside it (subscriptions.py, vouchers.py).                              *)
(*                                                                         *)
(* A request is one database transaction.  Its action leaves what it read  *)
(* or wrote in job[r]; a row it wrote is locked and invisible to others    *)
(* until Commit... ends it.  The RADIUS database is another database: what *)
(* was written there stays written when the request fails.  What the       *)
(* payment itself goes through is module Collections; here it ends.        *)
(***************************************************************************)
EXTENDS Naturals, FiniteSets

CONSTANTS
    Sessions,     \* portal sessions that may be issued
    Payments,     \* attempts to buy, each with its own subscription
    Phones,       \* the customers' phone numbers
    Packages,     \* the packages on sale or not
    Tenants,
    SessionOf, PhoneOf, PackageOf,   \* what each attempt asks for
    TenantOf,     \* the tenant of the router behind each session
    OnSale,       \* the active packages, with their tenants
    Walkins,      \* subscriptions staff sell over the counter
    Vouchers,     \* offline vouchers of an active package
    Immediate,    \* the walk-ins and vouchers whose package activates at once
    Casts,        \* bound: which of all these are tried together in a behaviour
    Clicks,       \* bound: which subscriptions staff try to activate
    Workers,      \* requests and tasks in progress at the same time
    MaxCrashes    \* bound on the crashes of a behaviour

ASSUME AttemptAssumption ==
    /\ SessionOf \in [Payments -> Sessions]
    /\ PhoneOf \in [Payments -> Phones]
    /\ PackageOf \in [Payments -> Packages]
    /\ TenantOf \in [Sessions -> Tenants]
    /\ OnSale \subseteq Tenants \X Packages
ASSUME CounterAssumption ==
    /\ Immediate \subseteq Walkins \cup Vouchers
    /\ Payments \cap (Walkins \cup Vouchers) = {}
    /\ Walkins \cap Vouchers = {}
ASSUME CastAssumption ==
    /\ Casts \subseteq SUBSET (Payments \cup Walkins \cup Vouchers)
    /\ Clicks \subseteq Payments \cup Walkins \cup Vouchers
ASSUME WorkerAssumption == IsFiniteSet(Workers) /\ Workers # {} /\ MaxCrashes \in Nat

VARIABLES
    session,    \* the committed captive_sessions rows
    pay,        \* the committed transactions rows
    customers,  \* the committed customers: tenant and phone
    sub,        \* the status of each committed subscription
    voucher,    \* the status of each committed voucher
    groups,     \* packages with a group in the RADIUS database
    radcheck,   \* the passwords of each RADIUS user, named by the subscription
    late,       \* provisioning requests the agent has yet to carry out
    job,        \* what each worker is doing
    cast,       \* what is tried in this behaviour
    prompts,    \* prompts sent for a session already consumed (history)
    periods,    \* activations committed of each counter sale: 0, 1 or more (2)
    spent,      \* subscriptions each voucher paid for: 0, 1 or more (2)
    crashes     \* crashes so far

vars == <<session, pay, customers, sub, voucher, groups, radcheck, late, job,
          cast, prompts, periods, spent, crashes>>

----------------------------------------------------------------------------
(* State *)

SessionStatus == {"none", "open", "expired", "consumed"}

(***************************************************************************)
(* ACTIVATING is written and never committed: the attempt that wrote it    *)
(* goes on to ACTIVE or is rolled back.                                    *)
(***************************************************************************)
PayStatus  == {"NONE", "STK_SENT", "FAILED", "COMPLETED"}
Activation == {"NULL", "PENDING", "ACTIVE", "FAILED"}
PayRows    == [status : PayStatus, activation : Activation]

Sales         == Walkins \cup Vouchers
Subs          == Payments \cup Sales
SubStatus     == {"NONE", "PENDING", "ACTIVE"}
VoucherStatus == {"NONE", "UNUSED", "USED"}

UpTo2(n) == IF n < 2 THEN n + 1 ELSE 2

(***************************************************************************)
(* A worker's request.                                                     *)
(*   resolved:     the portal session was found open                       *)
(*   bought:       rows written, prompt sent; new: also the customer       *)
(*   activating:   the payment is locked, its subscription was read        *)
(*   provisioning: the RADIUS user's old rows are deleted, uncommitted     *)
(*   activated:    provisioned, to commit                                  *)
(*   failing:      rolled back, the failure is yet to be recorded          *)
(*   staff, redeem: a subscription activated, a voucher redeemed, to commit*)
(***************************************************************************)
IdleJob  == [phase |-> "idle"]
Jobs ==
    {IdleJob}
        \cup [phase : {"resolved", "failing"}, p : Payments]
        \cup [phase : {"bought"}, p : Payments, status : {"STK_SENT", "FAILED"}]
        \cup [phase : {"activating", "activated"}, p : Payments, seen : SubStatus]
        \cup [phase : {"provisioning"}, p : Payments, seen : SubStatus, gone : SUBSET Payments]
        \cup [phase : {"staff"}, x : Subs]
        \cup [phase : {"redeem"}, v : Vouchers]

Idle(r) == job[r] = IdleJob

Activating == {"activating", "provisioning", "activated"}

(* SELECT ... FOR UPDATE, or a row that was written: held to the commit.   *)
PayLocked(p) == \E r \in Workers : job[r].phase \in Activating /\ job[r].p = p
SubLockedNever(x) == FALSE \* without SELECT ... FOR UPDATE
SubLocked(x) ==
    \E r \in Workers :
        \/ job[r].phase = "staff" /\ job[r].x = x
        \/ job[r].phase \in {"provisioning", "activated"} /\ job[r].p = x /\ job[r].seen = "PENDING"
VoucherLockedNever(v) == FALSE \* get_by_code_for_update without the lock
VoucherLocked(v) == \E r \in Workers : job[r].phase = "redeem" /\ job[r].v = v

(* A customer is one row for each tenant and phone (a unique constraint).  *)
CustomerOf(p) == <<TenantOf[SessionOf[p]], PhoneOf[p]>>
Inserting(c)  == \E r \in Workers : /\ job[r].phase = "bought"
                                    /\ CustomerOf(job[r].p) = c
                                    /\ c \notin customers
Consuming(s)  == \E r \in Workers : job[r].phase = "bought" /\ SessionOf[job[r].p] = s

Init ==
    /\ session = [s \in Sessions |-> "none"]
    /\ pay = [p \in Payments |-> [status |-> "NONE", activation |-> "NULL"]]
    /\ customers = {}
    /\ sub = [x \in Subs |-> "NONE"]
    /\ voucher = [v \in Vouchers |-> "NONE"]
    /\ groups = {}
    /\ radcheck = [ph \in Phones |-> {}]
    /\ late = {}
    /\ job = [r \in Workers |-> IdleJob]
    /\ cast \in Casts
    /\ prompts = [s \in Sessions |-> 0]
    /\ periods = [x \in Sales |-> 0]
    /\ spent = [v \in Vouchers |-> 0]
    /\ crashes = 0

To(r, j) == job' = [job EXCEPT ![r] = j]

radius  == <<groups, radcheck, late>>
history == <<cast, prompts, periods, spent, crashes>>

----------------------------------------------------------------------------
(* The portal session *)

(* A device opens the portal: a row with a nonce of its own, and the token *)
(* that names it.                                                          *)
IssueSession(s) ==
    /\ session[s] = "none"
    /\ session' = [session EXCEPT ![s] = "open"]
    /\ UNCHANGED <<pay, customers, sub, voucher, radius, job, history>>

SessionExpires(s) ==
    /\ session[s] = "open"
    /\ session' = [session EXCEPT ![s] = "expired"]
    /\ UNCHANGED <<pay, customers, sub, voucher, radius, job, history>>

(* resolve: a known session, not consumed and not expired.                 *)
Resolvable(s) == session[s] = "open"

(***************************************************************************)
(* initiate_payment up to its first write: the session is resolved with a  *)
(* plain SELECT, the package is on sale at the session's own tenant, and   *)
(* no live attempt of the same session, package and phone is found.  (Such *)
(* an attempt has consumed the session.  If it was committed after the     *)
(* session was resolved, it is found; the request then ends as one that is *)
(* RateLimited does, with nothing written.)                                *)
(***************************************************************************)
Live(p) == pay[p].status = "STK_SENT"
ActiveAttempt(p) ==
    \E q \in Payments : /\ Live(q)
                        /\ SessionOf[q] = SessionOf[p]
                        /\ PackageOf[q] = PackageOf[p]
                        /\ PhoneOf[q] = PhoneOf[p]
ForSale(p) == <<TenantOf[SessionOf[p]], PackageOf[p]>> \in OnSale

UnderWay(p) == \E r \in Workers : job[r].phase \in {"resolved", "bought"} /\ job[r].p = p

ResolveSpentToo(r, p) == \* without the test of consumed_at
    /\ Idle(r)
    /\ p \in cast
    /\ pay[p].status = "NONE"
    /\ ~UnderWay(p)
    /\ session[SessionOf[p]] \in {"open", "consumed"}
    /\ ForSale(p)
    /\ ~ActiveAttempt(p)
    /\ To(r, [phase |-> "resolved", p |-> p])
    /\ UNCHANGED <<session, pay, customers, sub, voucher, radius, history>>

ResolveSession(r, p) ==
    /\ Idle(r)
    /\ p \in cast
    /\ pay[p].status = "NONE"
    /\ ~UnderWay(p)
    /\ Resolvable(SessionOf[p])
    /\ ForSale(p)
    /\ ~ActiveAttempt(p)
    /\ To(r, [phase |-> "resolved", p |-> p])
    /\ UNCHANGED <<session, pay, customers, sub, voucher, radius, history>>

(* The session, the phone or the router has tried too often.               *)
RateLimited(r) ==
    /\ job[r].phase = "resolved"
    /\ To(r, IdleJob)
    /\ UNCHANGED <<session, pay, customers, sub, voucher, radius, history>>

(* create_awaiting_payment, whatever the package's activation type.        *)
CreateAwaitingPayment == "PENDING"

(***************************************************************************)
(* The rest of initiate_payment.  The customer is looked up and inserted   *)
(* if missing, the subscription and the transaction are inserted, the      *)
(* session is consumed - an UPDATE without a condition, which waits for    *)
(* another request's - and then the order is created and the prompt sent.  *)
(* A call that fails may still have reached the payer's phone.             *)
(***************************************************************************)
Purchase(r) ==
    /\ job[r].phase = "resolved"
    /\ LET p == job[r].p
           s == SessionOf[p]
       IN  /\ ~Inserting(CustomerOf(p))
           /\ ~Consuming(s)
           /\ \E status \in {"STK_SENT", "FAILED"}, sent \in 0 .. 1 :
                 /\ To(r, [phase |-> "bought", p |-> p, status |-> status])
                 /\ prompts' = [prompts EXCEPT ![s] = IF session[s] = "consumed" THEN @ + sent ELSE @]
    /\ UNCHANGED <<session, pay, customers, sub, voucher, radius, cast, periods, spent, crashes>>

(* Two first purchases of one customer: the second INSERT waits for the    *)
(* first to commit and breaks the unique constraint, before the prompt.    *)
Collide(r) ==
    /\ job[r].phase = "resolved"
    /\ Inserting(CustomerOf(job[r].p))
    /\ To(r, IdleJob)
    /\ UNCHANGED <<session, pay, customers, sub, voucher, radius, history>>

CommitPurchase(r) ==
    /\ job[r].phase = "bought"
    /\ LET p == job[r].p
       IN  /\ pay' = [pay EXCEPT ![p].status = job[r].status]
           /\ sub' = [sub EXCEPT ![p] = CreateAwaitingPayment]
           /\ session' = [session EXCEPT ![SessionOf[p]] = "consumed"]
           /\ customers' = customers \cup {CustomerOf(p)}
    /\ To(r, IdleJob)
    /\ UNCHANGED <<voucher, radius, history>>

(***************************************************************************)
(* The webhook or the sweep finds out (module Collections).  Money first:  *)
(* the commit that completes the payment queues the activation.            *)
(***************************************************************************)
FinalizePayment(p) ==
    /\ Live(p)
    /\ \/ pay' = [pay EXCEPT ![p] = [status |-> "COMPLETED", activation |-> "PENDING"]]
       \/ pay' = [pay EXCEPT ![p].status = "FAILED"]
    /\ UNCHANGED <<session, customers, sub, voucher, radius, job, history>>

----------------------------------------------------------------------------
(* Activation *)

Retryable(p) == pay[p].status = "COMPLETED" /\ pay[p].activation \in {"PENDING", "FAILED"}

(***************************************************************************)
(* The sweep lists the completed payments whose activation is PENDING or   *)
(* FAILED and calls run_activation for each.  activate() locks the         *)
(* transaction and tests its status again; the subscription is a plain     *)
(* SELECT.                                                                 *)
(***************************************************************************)
StartUnpaid(r, p) == \* without the test that the payment is COMPLETED
    /\ Idle(r)
    /\ ~PayLocked(p)
    /\ pay[p].status # "NONE"
    /\ pay[p].activation # "ACTIVE"
    /\ To(r, [phase |-> "activating", p |-> p, seen |-> sub[p]])
    /\ UNCHANGED <<session, pay, customers, sub, voucher, radius, history>>

StartPendingOnly(r, p) == \* FAILED is not listed
    /\ Idle(r)
    /\ ~PayLocked(p)
    /\ pay[p].status = "COMPLETED"
    /\ pay[p].activation = "PENDING"
    /\ To(r, [phase |-> "activating", p |-> p, seen |-> sub[p]])
    /\ UNCHANGED <<session, pay, customers, sub, voucher, radius, history>>

StartActivation(r, p) ==
    /\ Idle(r)
    /\ ~PayLocked(p)
    /\ Retryable(p)
    /\ To(r, [phase |-> "activating", p |-> p, seen |-> sub[p]])
    /\ UNCHANGED <<session, pay, customers, sub, voucher, radius, history>>

(***************************************************************************)
(* A subscription seen PENDING is activated first: SELECT ... FOR UPDATE   *)
(* waits for the row and returns the object already loaded, so the status  *)
(* tested is the one seen.  Then provision_access begins.                  *)
(***************************************************************************)
BeginProvisioning(r) ==
    /\ job[r].phase = "activating"
    /\ LET p == job[r].p
       IN  /\ job[r].seen = "PENDING" => ~SubLocked(p)
           /\ To(r, [phase |-> "provisioning", p |-> p, seen |-> job[r].seen,
                     gone |-> radcheck[PhoneOf[p]]])
    /\ UNCHANGED <<session, pay, customers, sub, voucher, radius, history>>

(***************************************************************************)
(* The package's group is written in a transaction of its own, then the    *)
(* user in another.  radcheck has no unique key: of two transactions on    *)
(* one user neither deletes the row the other inserts.                     *)
(***************************************************************************)
SyncGroup(p) == groups' = groups \cup {PackageOf[p]}
ProvisionUser(ph, gone, p) == radcheck' = [radcheck EXCEPT ![ph] = (@ \ gone) \cup {p}]

FailedAsActive(r) == \* the failure is not raised
    /\ job[r].phase = "provisioning"
    /\ SyncGroup(job[r].p)
    /\ To(r, [phase |-> "activated", p |-> job[r].p, seen |-> job[r].seen])
    /\ UNCHANGED <<session, pay, customers, sub, voucher, radcheck, late, history>>

ProvisionDone(r) ==
    /\ job[r].phase = "provisioning"
    /\ SyncGroup(job[r].p)
    /\ ProvisionUser(PhoneOf[job[r].p], job[r].gone, job[r].p)
    /\ To(r, [phase |-> "activated", p |-> job[r].p, seen |-> job[r].seen])
    /\ UNCHANGED <<session, pay, customers, sub, voucher, late, history>>

(***************************************************************************)
(* The agent or the database is unreachable, before the group or before    *)
(* the user; or no answer came in time, and the user was written, or will  *)
(* be.  Everything but the RADIUS database is rolled back.                 *)
(***************************************************************************)
ProvisionFails(r) ==
    /\ job[r].phase = "provisioning"
    /\ LET p == job[r].p
       IN  /\ To(r, [phase |-> "failing", p |-> p])
           /\ \/ UNCHANGED radius
              \/ SyncGroup(p) /\ UNCHANGED <<radcheck, late>>
              \/ SyncGroup(p) /\ ProvisionUser(PhoneOf[p], job[r].gone, p) /\ UNCHANGED late
              \/ SyncGroup(p) /\ late' = late \cup {p} /\ UNCHANGED radcheck
    /\ UNCHANGED <<session, pay, customers, sub, voucher, history>>

(* A request whose caller gave up is carried out after all.                *)
LateProvision(p) ==
    /\ p \in late
    /\ late' = late \ {p}
    /\ ProvisionUser(PhoneOf[p], radcheck[PhoneOf[p]], p)
    /\ UNCHANGED <<session, pay, customers, sub, voucher, groups, job, history>>

CommitActivation(r) ==
    /\ job[r].phase = "activated"
    /\ LET p == job[r].p
       IN  /\ pay' = [pay EXCEPT ![p].activation = "ACTIVE"]
           /\ sub' = [sub EXCEPT ![p] = IF job[r].seen = "PENDING" THEN "ACTIVE" ELSE @]
    /\ To(r, IdleJob)
    /\ UNCHANGED <<session, customers, voucher, radius, history>>

(* A second transaction locks the row again and writes FAILED, whatever    *)
(* the activation has become since the first was rolled back.              *)
RecordFailure(r) ==
    /\ job[r].phase = "failing"
    /\ ~PayLocked(job[r].p)
    /\ pay' = [pay EXCEPT ![job[r].p].activation = "FAILED"]
    /\ To(r, IdleJob)
    /\ UNCHANGED <<session, customers, sub, voucher, radius, history>>

(***************************************************************************)
(* get_payment_status, the page the customer waits on.  The password is    *)
(* derived from the payment's own subscription.                            *)
(***************************************************************************)
GetPaymentStatus(p) ==
    [status      |-> CASE pay[p].status = "NONE"      -> "not_found"
                       [] pay[p].status = "STK_SENT"  -> "pending"
                       [] pay[p].status = "FAILED"    -> "failed"
                       [] pay[p].status = "COMPLETED" -> "completed",
     credentials |-> IF pay[p].status = "COMPLETED" /\ pay[p].activation = "ACTIVE"
                     THEN {p} ELSE {}]

----------------------------------------------------------------------------
(* Staff *)

RegisterCustomer(t, ph) ==
    /\ <<t, ph>> \notin customers
    /\ \A r \in Workers : job[r].phase = "bought" => CustomerOf(job[r].p) # <<t, ph>>
    /\ customers' = customers \cup {<<t, ph>>}
    /\ UNCHANGED <<session, pay, sub, voucher, radius, job, history>>

(* _create: PENDING, and activated in the same transaction if the package  *)
(* activates immediately.  No RADIUS user is written.                      *)
CreatedFirstUse(x) == IF x \in Immediate THEN "ACTIVE" ELSE "first_use" \* the type for the status
Created(x) == IF x \in Immediate THEN "ACTIVE" ELSE "PENDING"

CreateSubscription(x) ==
    /\ x \in cast
    /\ sub[x] = "NONE"
    /\ customers # {}
    /\ sub' = [sub EXCEPT ![x] = Created(x)]
    /\ periods' = [periods EXCEPT ![x] = IF x \in Immediate THEN 1 ELSE 0]
    /\ UNCHANGED <<session, pay, customers, voucher, radius, job, cast, prompts, spent, crashes>>

(* Staff may activate any PENDING subscription of the tenant, one that is  *)
(* awaiting its payment included.                                          *)
ActivateSubscription(r, x) ==
    /\ Idle(r)
    /\ ~SubLocked(x)
    /\ sub[x] = "PENDING"
    /\ To(r, [phase |-> "staff", x |-> x])
    /\ UNCHANGED <<session, pay, customers, sub, voucher, radius, history>>

CommitStaff(r) ==
    /\ job[r].phase = "staff"
    /\ sub' = [sub EXCEPT ![job[r].x] = "ACTIVE"]
    /\ periods' = [x \in Sales |-> IF x = job[r].x THEN UpTo2(periods[x]) ELSE periods[x]]
    /\ To(r, IdleJob)
    /\ UNCHANGED <<session, pay, customers, voucher, radius, cast, prompts, spent, crashes>>

(* A batch of codes no voucher of the tenant has yet.                      *)
GenerateBatch(v) ==
    /\ v \in cast
    /\ voucher[v] = "NONE"
    /\ voucher' = [voucher EXCEPT ![v] = "UNUSED"]
    /\ UNCHANGED <<session, pay, customers, sub, radius, job, history>>

(* The voucher is locked first; its subscription and USED commit together. *)
Redeem(r, v) ==
    /\ Idle(r)
    /\ ~VoucherLocked(v)
    /\ voucher[v] = "UNUSED"
    /\ customers # {}
    /\ To(r, [phase |-> "redeem", v |-> v])
    /\ UNCHANGED <<session, pay, customers, sub, voucher, radius, history>>

CommitRedeem(r) ==
    /\ job[r].phase = "redeem"
    /\ LET v == job[r].v
       IN  /\ voucher' = [voucher EXCEPT ![v] = "USED"]
           /\ sub' = [sub EXCEPT ![v] = Created(v)]
           /\ periods' = [periods EXCEPT ![v] = IF v \in Immediate THEN UpTo2(@) ELSE @]
           /\ spent' = [spent EXCEPT ![v] = UpTo2(@)]
    /\ To(r, IdleJob)
    /\ UNCHANGED <<session, pay, customers, radius, cast, prompts, crashes>>

----------------------------------------------------------------------------
(* A process dies: its transactions are rolled back. *)

Crash(r) ==
    /\ ~Idle(r)
    /\ crashes < MaxCrashes
    /\ crashes' = crashes + 1
    /\ To(r, IdleJob)
    /\ UNCHANGED <<session, pay, customers, sub, voucher, radius, cast, prompts, periods, spent>>

Next ==
    \/ \E s \in Sessions : IssueSession(s) \/ SessionExpires(s)
    \/ \E r \in Workers, p \in Payments : ResolveSession(r, p) \/ StartActivation(r, p)
    \/ \E r \in Workers :
          \/ RateLimited(r) \/ Purchase(r) \/ Collide(r) \/ CommitPurchase(r)
          \/ BeginProvisioning(r) \/ ProvisionDone(r) \/ ProvisionFails(r)
          \/ CommitActivation(r) \/ RecordFailure(r)
          \/ CommitStaff(r) \/ CommitRedeem(r) \/ Crash(r)
    \/ \E p \in Payments : FinalizePayment(p) \/ LateProvision(p)
    \/ \E t \in Tenants, ph \in Phones : RegisterCustomer(t, ph)
    \/ \E x \in Walkins : CreateSubscription(x)
    \/ \E r \in Workers, x \in Clicks : ActivateSubscription(r, x)
    \/ \E v \in Vouchers : GenerateBatch(v)
    \/ \E r \in Workers, v \in Vouchers : Redeem(r, v)

Spec == Init /\ [][Next]_vars

(***************************************************************************)
(* Fairness, where the retry of activations is scheduled (it is off by     *)
(* default): a request or task that has begun ends; the sweep finds every  *)
(* payment it may activate; and RADIUS does not fail every time.           *)
(***************************************************************************)
Ends(r) ==
    \/ RateLimited(r) \/ Purchase(r) \/ Collide(r) \/ CommitPurchase(r) \/ CommitStaff(r) \/ CommitRedeem(r)
    \/ BeginProvisioning(r) \/ ProvisionDone(r) \/ ProvisionFails(r)
    \/ CommitActivation(r) \/ RecordFailure(r)

Fairness ==
    /\ \A r \in Workers : WF_vars(Ends(r))
    /\ \A p \in Payments :
          /\ SF_vars(\E r \in Workers : StartActivation(r, p))
          /\ SF_vars(\E r \in Workers : job[r].phase = "provisioning" /\ job[r].p = p /\ ProvisionDone(r))

FairSpec == Spec /\ Fairness

----------------------------------------------------------------------------
(* Properties *)

(* Every variable keeps its type: rows, jobs and RADIUS users are well     *)
(* formed.                                                                 *)
TypeOK ==
    /\ session \in [Sessions -> SessionStatus]
    /\ pay \in [Payments -> PayRows]
    /\ customers \subseteq Tenants \X Phones
    /\ sub \in [Subs -> SubStatus]
    /\ voucher \in [Vouchers -> VoucherStatus]
    /\ groups \subseteq Packages
    /\ radcheck \in [Phones -> SUBSET Payments]
    /\ late \subseteq Payments
    /\ job \in [Workers -> Jobs]
    /\ cast \in Casts
    /\ prompts \in [Sessions -> Nat]
    /\ periods \in [Sales -> 0 .. 2]
    /\ spent \in [Vouchers -> 0 .. 2]
    /\ crashes \in 0 .. MaxCrashes

(***************************************************************************)
(* However many redeem one voucher at the same time, and wherever a        *)
(* request dies, it pays for one subscription, in the commit that spends   *)
(* it.                                                                     *)
(***************************************************************************)
VoucherSpentOnce ==
    \A v \in Vouchers : spent[v] = IF voucher[v] = "USED" THEN 1 ELSE 0

(***************************************************************************)
(* Every password FreeRADIUS accepts is of a completed payment of that     *)
(* phone, in spite of retries, of answers that never came and of requests  *)
(* the agent carries out late: access is never ahead of the money.         *)
(***************************************************************************)
AccessOnlyIfPaid ==
    \A ph \in Phones : \A p \in radcheck[ph] :
        PhoneOf[p] = ph /\ pay[p].status = "COMPLETED"

(***************************************************************************)
(* The phone paid for nothing else, before or after: the provisioning of   *)
(* any other purchase replaces the password, be it a later one or the      *)
(* retry or the late request of an earlier one.                            *)
(***************************************************************************)
OnlyPurchase(p) ==
    \A q \in Payments \ {p} : PhoneOf[q] = PhoneOf[p] => pay[q].status # "COMPLETED"

(***************************************************************************)
(* The status page shows credentials once the activation is ACTIVE: the    *)
(* subscription runs, the package's group exists, and FreeRADIUS accepts   *)
(* some password of the phone (a paid one: AccessOnlyIfPaid), which is the *)
(* one shown if this is the only purchase the phone ever paid for.         *)
(***************************************************************************)
ShownCredentialsWork ==
    \A p \in Payments : GetPaymentStatus(p).credentials # {} =>
        /\ sub[p] = "ACTIVE"
        /\ PackageOf[p] \in groups
        /\ radcheck[PhoneOf[p]] # {}
        /\ OnlyPurchase(p) => radcheck[PhoneOf[p]] = GetPaymentStatus(p).credentials

(***************************************************************************)
(* A session is not locked while it is resolved, so requests that overlap  *)
(* each send a prompt.  Once an attempt on it is committed, only the other *)
(* requests then in progress still can, each of them once.                 *)
(***************************************************************************)
PromptsBounded ==
    \A s \in Sessions : prompts[s] <= Cardinality(Workers) - 1

(* What staff sell runs for one period: two clicks on activate do not      *)
(* start it again.                                                         *)
SoldForOnePeriod == \A x \in Sales : periods[x] <= 1

(***************************************************************************)
(* A customer who has paid gets access in the end: after failures of the   *)
(* agent or the RADIUS database, a crash between the payment and the       *)
(* activation, or a late failure report written over an ACTIVE activation. *)
(***************************************************************************)
PaidIsActivated ==
    \A p \in Payments : pay[p].status = "COMPLETED" ~> pay[p].activation = "ACTIVE"

(***************************************************************************)
(* Payments behave here as PaymentLife says, which Collections implements: *)
(* no purchase, activation or late record of a failure ends a payment a    *)
(* second time, or takes from a payer what is owed.                        *)
(***************************************************************************)
StageOf(status) == CASE status = "NONE" -> "new"
                     [] status = "STK_SENT" -> "open"
                     [] status = "COMPLETED" -> "paid"
                     [] status = "FAILED" -> status

Life == INSTANCE PaymentLife WITH
            Captive <- Payments,
            Endings <- {"FAILED"},
            stage   <- [p \in Payments |-> StageOf(pay[p].status)],
            owed    <- {p \in Payments : pay[p].activation # "NULL"}

LifeOfPayment == Life!Spec
=============================================================================
