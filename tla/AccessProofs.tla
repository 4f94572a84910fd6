---------------------------- MODULE AccessProofs ----------------------------
(***************************************************************************)
(* Proofs about Access, for any number of sessions, payments, sales,       *)
(* vouchers and requests at the same time.                                 *)
(***************************************************************************)
EXTENDS Access, FiniteSetTheorems, TLAPS

----------------------------------------------------------------------------
(* The inductive invariant, but for the portal sessions and prompts *)

Types ==
    /\ pay \in [Payments -> PayRows]
    /\ sub \in [Subs -> SubStatus]
    /\ voucher \in [Vouchers -> VoucherStatus]
    /\ groups \subseteq Packages
    /\ radcheck \in [Phones -> SUBSET Payments]
    /\ late \subseteq Payments
    /\ job \in [Workers -> Jobs]
    /\ periods \in [Sales -> 0 .. 2]
    /\ spent \in [Vouchers -> 0 .. 2]

Paid(p) == pay[p].status = "COMPLETED"

(* FreeRADIUS accepts some password of the phone: p, unless the phone has  *)
(* paid for something else.                                                *)
Provisioned(p) ==
    /\ PackageOf[p] \in groups
    /\ radcheck[PhoneOf[p]] # {}
    /\ OnlyPurchase(p) => p \in radcheck[PhoneOf[p]]

(***************************************************************************)
(* A payment has its subscription from the commit on; one that is ACTIVE   *)
(* has a running subscription, and RADIUS has the user.                    *)
(***************************************************************************)
PaymentsFit ==
    \A p \in Payments :
        /\ pay[p].status = "NONE" <=> sub[p] = "NONE"
        /\ (Paid(p) /\ pay[p].activation = "ACTIVE") => sub[p] = "ACTIVE" /\ Provisioned(p)

LateFit == \A p \in late : Paid(p)

(* A sale that was not activated has had no period; a voucher that was not *)
(* redeemed has no subscription.                                           *)
SalesFit ==
    /\ \A x \in Sales : sub[x] \in {"NONE", "PENDING"} => periods[x] = 0
    /\ \A v \in Vouchers : voucher[v] # "USED" => sub[v] = "NONE"

Buying == {"resolved", "bought"}

(* What a request's job says of the rows.                                  *)
Good(j) ==
    /\ j.phase \in Buying => pay[j.p].status = "NONE"
    /\ j.phase \in Activating \cup {"failing"} => Paid(j.p)
    /\ j.phase \in Activating =>
          j.seen # "NONE" /\ (j.seen = "ACTIVE" => sub[j.p] = "ACTIVE")
    /\ j.phase = "activated" => Provisioned(j.p)
    /\ j.phase = "staff" => sub[j.x] # "NONE" /\ (j.x \in Sales => sub[j.x] = "PENDING")
    /\ j.phase = "redeem" => voucher[j.v] = "UNUSED"

JobsGood == \A r \in Workers : Good(job[r])

(* No two requests buy by one payment, activate one subscription by hand,  *)
(* or redeem one voucher.                                                  *)
Distinct(j, k) ==
    /\ (j.phase \in Buying /\ k.phase \in Buying) => j.p # k.p
    /\ (j.phase = "staff" /\ k.phase = "staff") => j.x # k.x
    /\ (j.phase = "redeem" /\ k.phase = "redeem") => j.v # k.v
JobsApart == \A r, q \in Workers : r # q => Distinct(job[r], job[q])

CoreInv ==
    /\ Types /\ PaymentsFit /\ LateFit /\ SalesFit /\ JobsGood /\ JobsApart
    /\ AccessOnlyIfPaid /\ VoucherSpentOnce /\ SoldForOnePeriod

core == <<pay, sub, voucher, radius, job, periods, spent>>

----------------------------------------------------------------------------
(* Jobs *)

(* The kinds of jobs do not overlap.                                       *)
LEMMA JobKinds ==
    ASSUME NEW j \in Jobs
    PROVE  /\ j.phase = "idle" <=> j = IdleJob
           /\ j.phase \in {"resolved", "failing"} =>
                 j \in [phase : {"resolved", "failing"}, p : Payments]
           /\ j.phase = "bought" =>
                 j \in [phase : {"bought"}, p : Payments, status : {"STK_SENT", "FAILED"}]
           /\ j.phase \in {"activating", "activated"} =>
                 j \in [phase : {"activating", "activated"}, p : Payments, seen : SubStatus]
           /\ j.phase = "provisioning" =>
                 j \in [phase : {"provisioning"}, p : Payments, seen : SubStatus,
                        gone : SUBSET Payments]
           /\ j.phase = "staff" => j \in [phase : {"staff"}, x : Subs]
           /\ j.phase = "redeem" => j \in [phase : {"redeem"}, v : Vouchers]
BY DEF Jobs, IdleJob

(* What the phases of a payment's request have in common.                  *)
LEMMA JobPayment ==
    ASSUME NEW j \in Jobs, j.phase \in Buying \cup Activating \cup {"failing"}
    PROVE  /\ j.p \in Payments
           /\ j.phase \in Activating => j.seen \in SubStatus
BY JobKinds DEF Buying, Activating

(* An idle request says nothing.                                           *)
LEMMA IdleIsGood ==
    /\ IdleJob \in Jobs /\ Good(IdleJob)
    /\ IdleJob.phase = "idle"
    /\ \A j : Distinct(IdleJob, j) /\ Distinct(j, IdleJob)
BY DEF IdleJob, Jobs, Good, Buying, Activating, Distinct

(* The three kinds of subscriptions are kinds of one function's domain.    *)
LEMMA SubKinds ==
    /\ Payments \subseteq Subs /\ Sales \subseteq Subs
    /\ Walkins \subseteq Sales /\ Vouchers \subseteq Sales
    /\ Payments \cap Sales = {} /\ Walkins \cap Vouchers = {}
BY CounterAssumption DEF Subs, Sales

(* A step that changes the job of r to j, and none of the rows.            *)
LEMMA OwnStep ==
    ASSUME CoreInv, NEW r \in Workers, NEW j \in Jobs, To(r, j), Good(j),
           \A q \in Workers : q # r => Distinct(j, job[q]) /\ Distinct(job[q], j),
           UNCHANGED <<pay, sub, voucher, radius, periods, spent>>
    PROVE  CoreInv'
<1>1. job' = [job EXCEPT ![r] = j] /\ job \in [Workers -> Jobs]
  BY DEF To, CoreInv, Types
<1>2. \A q \in Workers : job'[q] = IF q = r THEN j ELSE job[q]
  BY <1>1
<1>3. UNCHANGED <<pay, sub, voucher, groups, radcheck, late, periods, spent>>
  BY DEF radius
<1>4. Types'
  BY <1>1, <1>3 DEF CoreInv, Types
<1>5. PaymentsFit' /\ LateFit' /\ SalesFit'
  BY <1>3 DEF CoreInv, PaymentsFit, LateFit, SalesFit, Paid, Provisioned, OnlyPurchase
<1>6. JobsGood'
  BY <1>2, <1>3 DEF CoreInv, JobsGood, Good, Paid, Provisioned, OnlyPurchase
<1>7. JobsApart'
  BY <1>2 DEF CoreInv, JobsApart
<1>8. AccessOnlyIfPaid' /\ VoucherSpentOnce' /\ SoldForOnePeriod'
  BY <1>3 DEF CoreInv, AccessOnlyIfPaid, VoucherSpentOnce, SoldForOnePeriod
<1>9. QED
  BY <1>4, <1>5, <1>6, <1>7, <1>8 DEF CoreInv

(* A request that ends or dies without a commit.                           *)
LEMMA EndKeeps ==
    ASSUME CoreInv, NEW r \in Workers, To(r, IdleJob),
           UNCHANGED <<pay, sub, voucher, radius, periods, spent>>
    PROVE  CoreInv'
BY IdleIsGood, OwnStep

(* resolve, and the checks of initiate_payment.                            *)
LEMMA ResolveKeeps ==
    ASSUME CoreInv, NEW r \in Workers, NEW p \in Payments, ResolveSession(r, p)
    PROVE  CoreInv'
<1> DEFINE j == [phase |-> "resolved", p |-> p]
<1>1. j \in Jobs /\ j.phase = "resolved" /\ j.p = p
  BY DEF Jobs
<1>2. /\ To(r, j) /\ pay[p].status = "NONE"
      /\ \A q \in Workers : job[q].phase \in Buying => job[q].p # p
      /\ UNCHANGED <<pay, sub, voucher, radius, periods, spent>>
  BY DEF ResolveSession, UnderWay, Buying, history
<1> HIDE DEF j
<1>3. Good(j)
  BY <1>1, <1>2 DEF Good, Buying, Activating
<1>4. \A q \in Workers : q # r => Distinct(j, job[q]) /\ Distinct(job[q], j)
  BY <1>1, <1>2 DEF Distinct
<1>5. QED
  BY <1>1, <1>2, <1>3, <1>4, OwnStep

(* The rows of a purchase are written, and the prompt is sent.             *)
LEMMA PurchaseKeeps ==
    ASSUME CoreInv, NEW r \in Workers, Purchase(r)
    PROVE  CoreInv'
<1>1. job[r].phase = "resolved" /\ job[r] \in Jobs
  BY DEF Purchase, CoreInv, Types
<1>2. PICK p \in Payments : p = job[r].p
  BY <1>1, JobPayment DEF Buying
<1>3. PICK status \in {"STK_SENT", "FAILED"} :
         To(r, [phase |-> "bought", p |-> p, status |-> status])
  BY <1>2 DEF Purchase
<1> DEFINE j == [phase |-> "bought", p |-> p, status |-> status]
<1>4. j \in Jobs /\ j.phase = "bought" /\ j.p = p /\ To(r, j)
  BY <1>3 DEF Jobs
<1> HIDE DEF j
<1>5. UNCHANGED <<pay, sub, voucher, radius, periods, spent>>
  BY DEF Purchase
<1>6. Good(j)
  BY <1>1, <1>2, <1>4 DEF CoreInv, JobsGood, Good, Buying, Activating
<1>7. \A q \in Workers : q # r => Distinct(job[r], job[q]) /\ Distinct(job[q], job[r])
  BY DEF CoreInv, JobsApart
<1>8. \A q \in Workers : q # r => Distinct(j, job[q]) /\ Distinct(job[q], j)
  BY <1>1, <1>2, <1>4, <1>7 DEF Distinct, Buying
<1>9. QED
  BY <1>4, <1>5, <1>6, <1>8, OwnStep

(* activate locks a completed payment and reads its subscription.          *)
LEMMA StartKeeps ==
    ASSUME CoreInv, NEW r \in Workers, NEW p \in Payments, StartActivation(r, p)
    PROVE  CoreInv'
<1> DEFINE j == [phase |-> "activating", p |-> p, seen |-> sub[p]]
<1>1. sub[p] \in SubStatus
  BY SubKinds DEF CoreInv, Types
<1>2. j \in Jobs /\ j.phase = "activating" /\ j.p = p /\ j.seen = sub[p]
  BY <1>1 DEF Jobs
<1>3. /\ To(r, j) /\ Paid(p)
      /\ UNCHANGED <<pay, sub, voucher, radius, periods, spent>>
  BY DEF StartActivation, Retryable, Paid, history
<1>4. sub[p] # "NONE"
  BY <1>3 DEF CoreInv, PaymentsFit, Paid
<1> HIDE DEF j
<1>5. Good(j)
  BY <1>2, <1>3, <1>4 DEF Good, Buying, Activating
<1>6. \A q \in Workers : q # r => Distinct(j, job[q]) /\ Distinct(job[q], j)
  BY <1>2 DEF Distinct, Buying
<1>7. QED
  BY <1>2, <1>3, <1>5, <1>6, OwnStep

(* The subscription is activated, uncommitted; provisioning begins.        *)
LEMMA BeginKeeps ==
    ASSUME CoreInv, NEW r \in Workers, BeginProvisioning(r)
    PROVE  CoreInv'
<1>1. job[r].phase = "activating" /\ job[r] \in Jobs
  BY DEF BeginProvisioning, CoreInv, Types
<1>2. PICK p \in Payments, seen \in SubStatus : p = job[r].p /\ seen = job[r].seen
  BY <1>1, JobPayment DEF Activating
<1> DEFINE j == [phase |-> "provisioning", p |-> p, seen |-> seen, gone |-> radcheck[PhoneOf[p]]]
<1>3. To(r, j) /\ UNCHANGED <<pay, sub, voucher, radius, periods, spent>>
  BY <1>2 DEF BeginProvisioning, history
<1>4. radcheck[PhoneOf[p]] \in SUBSET Payments
  BY AttemptAssumption DEF CoreInv, Types
<1>5. j \in Jobs /\ j.phase = "provisioning" /\ j.p = p /\ j.seen = seen
  BY <1>4 DEF Jobs
<1> HIDE DEF j
<1>6. Good(j)
  BY <1>1, <1>2, <1>5 DEF CoreInv, JobsGood, Good, Buying, Activating
<1>7. \A q \in Workers : q # r => Distinct(j, job[q]) /\ Distinct(job[q], j)
  BY <1>5 DEF Distinct, Buying
<1>8. QED
  BY <1>3, <1>5, <1>6, <1>7, OwnStep

(* activate of a subscription by staff, which locks it.                    *)
LEMMA StaffKeeps ==
    ASSUME CoreInv, NEW r \in Workers, NEW x \in Subs, ActivateSubscription(r, x)
    PROVE  CoreInv'
<1> DEFINE j == [phase |-> "staff", x |-> x]
<1>1. j \in Jobs /\ j.phase = "staff" /\ j.x = x
  BY DEF Jobs
<1>2. /\ To(r, j) /\ sub[x] = "PENDING"
      /\ \A q \in Workers : job[q].phase = "staff" => job[q].x # x
      /\ UNCHANGED <<pay, sub, voucher, radius, periods, spent>>
  BY DEF ActivateSubscription, SubLocked, history
<1> HIDE DEF j
<1>3. Good(j)
  BY <1>1, <1>2 DEF Good, Buying, Activating
<1>4. \A q \in Workers : q # r => Distinct(j, job[q]) /\ Distinct(job[q], j)
  BY <1>1, <1>2 DEF Distinct, Buying
<1>5. QED
  BY <1>1, <1>2, <1>3, <1>4, OwnStep

(* redeem locks an unused voucher.                                         *)
LEMMA RedeemKeeps ==
    ASSUME CoreInv, NEW r \in Workers, NEW v \in Vouchers, Redeem(r, v)
    PROVE  CoreInv'
<1> DEFINE j == [phase |-> "redeem", v |-> v]
<1>1. j \in Jobs /\ j.phase = "redeem" /\ j.v = v
  BY DEF Jobs
<1>2. /\ To(r, j) /\ voucher[v] = "UNUSED"
      /\ \A q \in Workers : job[q].phase = "redeem" => job[q].v # v
      /\ UNCHANGED <<pay, sub, voucher, radius, periods, spent>>
  BY DEF Redeem, VoucherLocked, history
<1> HIDE DEF j
<1>3. Good(j)
  BY <1>1, <1>2 DEF Good, Buying, Activating
<1>4. \A q \in Workers : q # r => Distinct(j, job[q]) /\ Distinct(job[q], j)
  BY <1>1, <1>2 DEF Distinct, Buying
<1>5. QED
  BY <1>1, <1>2, <1>3, <1>4, OwnStep

----------------------------------------------------------------------------
(* Commits *)

(* The parts of a row that an assignment changes.                          *)
LEMMA RowUpdates ==
    \A y \in PayRows :
        /\ \A s \in PayStatus :
              /\ [y EXCEPT !.status = s] \in PayRows
              /\ [y EXCEPT !.status = s].status = s
              /\ [y EXCEPT !.status = s].activation = y.activation
        /\ \A a \in Activation :
              /\ [y EXCEPT !.activation = a] \in PayRows
              /\ [y EXCEPT !.activation = a].activation = a
              /\ [y EXCEPT !.activation = a].status = y.status
BY DEF PayRows

(* The commit of initiate_payment.                                         *)
LEMMA CommitPurchaseKeeps ==
    ASSUME CoreInv, NEW r \in Workers, CommitPurchase(r)
    PROVE  CoreInv'
<1>1. job[r].phase = "bought" /\ job[r] \in Jobs
  BY DEF CommitPurchase, CoreInv, Types
<1>2. job[r] \in [phase : {"bought"}, p : Payments, status : {"STK_SENT", "FAILED"}]
  BY <1>1, JobKinds
<1>3. PICK p \in Payments, s \in {"STK_SENT", "FAILED"} : p = job[r].p /\ s = job[r].status
  BY <1>2
<1>4. /\ pay' = [pay EXCEPT ![p].status = s]
      /\ sub' = [sub EXCEPT ![p] = "PENDING"]
      /\ job' = [job EXCEPT ![r] = IdleJob]
  BY <1>3 DEF CommitPurchase, CreateAwaitingPayment, To
<1>5. UNCHANGED <<voucher, groups, radcheck, late, periods, spent>>
  BY DEF CommitPurchase, radius, history
<1>6. pay[p].status = "NONE"
  BY <1>1, <1>3 DEF CoreInv, JobsGood, Good, Buying
<1>7. /\ pay' \in [Payments -> PayRows]
      /\ \A q \in Payments :
            /\ q # p => pay'[q] = pay[q]
            /\ q = p => pay'[q].status = s
  <2>1. s \in PayStatus /\ pay \in [Payments -> PayRows]
    BY DEF PayStatus, CoreInv, Types
  <2>2. pay' = [pay EXCEPT ![p] = [pay[p] EXCEPT !.status = s]]
    BY <1>4
  <2>3. [pay[p] EXCEPT !.status = s] \in PayRows /\ [pay[p] EXCEPT !.status = s].status = s
    BY <2>1, RowUpdates
  <2>4. QED
    BY <2>1, <2>2, <2>3
<1>8. \A x \in Subs : sub'[x] = IF x = p THEN "PENDING" ELSE sub[x]
  BY <1>4, SubKinds DEF CoreInv, Types
<1>9. \A q \in Workers : job'[q] = IF q = r THEN IdleJob ELSE job[q]
  BY <1>4 DEF CoreInv, Types
<1>10. Types'
  BY <1>4, <1>5, <1>7, SubKinds, IdleIsGood DEF CoreInv, Types, SubStatus
<1>11. \A q \in Payments : Paid(q)' <=> Paid(q)
  BY <1>6, <1>7 DEF Paid
<1>12. \A q \in Payments : Provisioned(q)' <=> Provisioned(q)
  BY <1>5, <1>11 DEF Provisioned, OnlyPurchase, Paid
<1>13. PaymentsFit'
  BY <1>6, <1>7, <1>8, <1>11, <1>12, SubKinds DEF CoreInv, PaymentsFit, Paid
<1>14. LateFit'
  BY <1>5, <1>11 DEF CoreInv, LateFit, Types
<1>15. SalesFit'
  BY <1>5, <1>8, SubKinds DEF CoreInv, SalesFit
<1>16. JobsGood'
  <2>1. ASSUME NEW q \in Workers, q # r PROVE Good(job[q])'
    <3>1. job[q] \in Jobs /\ Good(job[q]) /\ Distinct(job[r], job[q]) /\ job'[q] = job[q]
      BY <1>9, <2>1 DEF CoreInv, Types, JobsGood, JobsApart
    <3>2. job[q].phase \in Buying \cup Activating \cup {"failing"} => job[q].p \in Payments
      BY <3>1, JobPayment
    <3>3. job[q].phase \in Buying => job[q].p # p
      BY <1>1, <1>3, <3>1 DEF Distinct, Buying
    <3>4. job[q].phase = "staff" => job[q].x \in Subs
      BY <3>1, JobKinds
    <3>5. job[q].phase \in Activating => job[q].p # p
      BY <1>6, <3>1 DEF Good, Paid
    <3>6. QED
      BY <1>5, <1>7, <1>8, <1>11, <1>12, <3>1, <3>2, <3>3, <3>4, <3>5, SubKinds
      DEF Good, Activating
  <2>2. Good(IdleJob)'
    BY DEF IdleJob, Good, Buying, Activating
  <2>3. QED
    BY <1>9, <2>1, <2>2 DEF JobsGood
<1>17. JobsApart'
  BY <1>9, IdleIsGood DEF CoreInv, JobsApart
<1>18. AccessOnlyIfPaid'
  <2>1. \A ph \in Phones : radcheck[ph] \subseteq Payments
    BY DEF CoreInv, Types
  <2>2. QED
    BY <1>5, <1>11, <2>1 DEF CoreInv, AccessOnlyIfPaid, Paid
<1>19. VoucherSpentOnce' /\ SoldForOnePeriod'
  BY <1>5 DEF CoreInv, VoucherSpentOnce, SoldForOnePeriod
<1>20. QED
  BY <1>10, <1>13, <1>14, <1>15, <1>16, <1>17, <1>18, <1>19 DEF CoreInv

(***************************************************************************)
(* A user is written for a payment that is paid for: a user of another     *)
(* payment goes only if the phone bought both.                             *)
(***************************************************************************)
LEMMA ProvisionUserKeeps ==
    ASSUME CoreInv, NEW p \in Payments, Paid(p), NEW gone,
           ProvisionUser(PhoneOf[p], gone, p), groups \subseteq groups', UNCHANGED pay
    PROVE  /\ radcheck' \in [Phones -> SUBSET Payments]
           /\ AccessOnlyIfPaid'
           /\ \A q \in Payments : Provisioned(q) => Provisioned(q)'
           /\ p \in radcheck'[PhoneOf[p]]
<1>1. PICK ph \in Phones : ph = PhoneOf[p]
  BY AttemptAssumption
<1>2. radcheck' = [radcheck EXCEPT ![ph] = (@ \ gone) \cup {p}]
  BY <1>1 DEF ProvisionUser
<1>3. radcheck \in [Phones -> SUBSET Payments]
  BY DEF CoreInv, Types
<1>4. \A h \in Phones :
         radcheck'[h] = IF h = ph THEN (radcheck[h] \ gone) \cup {p} ELSE radcheck[h]
  BY <1>2, <1>3
<1>5. radcheck' \in [Phones -> SUBSET Payments]
  BY <1>2, <1>3
<1>6. AccessOnlyIfPaid'
  <2>1. SUFFICES ASSUME NEW h \in Phones, NEW q \in radcheck'[h]
                 PROVE  PhoneOf[q] = h /\ pay[q].status = "COMPLETED"
    BY DEF AccessOnlyIfPaid
  <2>2. CASE h = ph /\ q = p
    BY <1>1, <2>2 DEF Paid
  <2>3. CASE q \in radcheck[h]
    BY <2>3 DEF CoreInv, AccessOnlyIfPaid
  <2>4. QED
    BY <1>4, <2>1, <2>2, <2>3
<1>7. ASSUME NEW q \in Payments, Provisioned(q) PROVE Provisioned(q)'
  <2>1. PhoneOf[q] \in Phones
    BY AttemptAssumption
  <2>2. CASE PhoneOf[q] = ph /\ q # p
    <3>1. ~OnlyPurchase(q)'
      BY <1>1, <2>2 DEF OnlyPurchase, Paid
    <3>2. radcheck'[PhoneOf[q]] # {}
      BY <1>4, <2>1, <2>2
    <3>3. QED
      BY <1>7, <3>1, <3>2 DEF Provisioned
  <2>3. CASE ~(PhoneOf[q] = ph /\ q # p)
    <3>1. q \in radcheck[PhoneOf[q]] => q \in radcheck'[PhoneOf[q]]
      BY <1>1, <1>4, <2>1, <2>3
    <3>2. OnlyPurchase(q)' => OnlyPurchase(q)
      BY DEF OnlyPurchase
    <3>3. radcheck'[PhoneOf[q]] # {}
      BY <1>4, <1>7, <2>1 DEF Provisioned
    <3>4. QED
      BY <1>7, <3>1, <3>2, <3>3 DEF Provisioned
  <2>4. QED
    BY <2>2, <2>3
<1>8. QED
  BY <1>1, <1>4, <1>5, <1>6, <1>7

(* A step that writes to the RADIUS database only.                         *)
LEMMA RadiusStep ==
    ASSUME CoreInv, NEW jobs \in [Workers -> Jobs], job' = jobs,
           UNCHANGED <<pay, sub, voucher, periods, spent>>,
           groups' \subseteq Packages,
           radcheck' \in [Phones -> SUBSET Payments], AccessOnlyIfPaid',
           \A q \in Payments : Provisioned(q) => Provisioned(q)',
           late' \subseteq Payments, LateFit',
           \A q \in Workers : jobs[q] = job[q] \/ (jobs[q] = IdleJob)
              \/ (Good(jobs[q])' /\ jobs[q].phase \in {"activated", "failing"})
    PROVE  CoreInv'
<1>1. Types'
  BY DEF CoreInv, Types
<1>2. PaymentsFit' /\ SalesFit'
  BY DEF CoreInv, PaymentsFit, SalesFit, Paid
<1>3. JobsGood'
  <2>1. ASSUME NEW q \in Workers, jobs[q] = job[q] PROVE Good(jobs[q])'
    <3>1. job[q] \in Jobs /\ Good(job[q])
      BY DEF CoreInv, Types, JobsGood
    <3>2. job[q].phase = "activated" => job[q].p \in Payments
      BY <3>1, JobPayment DEF Activating
    <3>3. QED
      BY <2>1, <3>1, <3>2 DEF Good, Paid
  <2>2. Good(IdleJob)'
    BY DEF IdleJob, Good, Buying, Activating
  <2>3. QED
    BY <2>1, <2>2 DEF JobsGood
<1>4. JobsApart'
  <2>1. ASSUME NEW r \in Workers, NEW q \in Workers, r # q PROVE Distinct(jobs[r], jobs[q])
    <3>1. Distinct(job[r], job[q])
      BY <2>1 DEF CoreInv, JobsApart
    <3>2. QED
      BY <3>1, IdleIsGood DEF Distinct, Buying
  <2>2. QED
    BY <2>1 DEF JobsApart
<1>5. VoucherSpentOnce' /\ SoldForOnePeriod'
  BY DEF CoreInv, VoucherSpentOnce, SoldForOnePeriod
<1>6. QED
  BY <1>1, <1>2, <1>3, <1>4, <1>5 DEF CoreInv

(* sync_package_group and provision_user have succeeded.                   *)
LEMMA ProvisionDoneKeeps ==
    ASSUME CoreInv, NEW r \in Workers, ProvisionDone(r)
    PROVE  CoreInv'
<1>1. job[r].phase = "provisioning" /\ job[r] \in Jobs
  BY DEF ProvisionDone, CoreInv, Types
<1>2. PICK p \in Payments, seen \in SubStatus : p = job[r].p /\ seen = job[r].seen
  BY <1>1, JobPayment DEF Activating
<1> DEFINE j == [phase |-> "activated", p |-> p, seen |-> seen]
<1>3. job' = [job EXCEPT ![r] = j] /\ UNCHANGED <<pay, sub, voucher, late, periods, spent>>
  BY <1>2 DEF ProvisionDone, To, history
<1>4. j \in Jobs /\ j.phase = "activated" /\ j.p = p /\ j.seen = seen
  BY DEF Jobs
<1> HIDE DEF j
<1>5. Paid(p) /\ seen # "NONE" /\ (seen = "ACTIVE" => sub[p] = "ACTIVE")
  BY <1>1, <1>2 DEF CoreInv, JobsGood, Good, Activating
<1>6. groups' = groups \cup {PackageOf[p]} /\ PackageOf[p] \in Packages
  BY <1>2, AttemptAssumption DEF ProvisionDone, SyncGroup
<1>7. PICK gone : ProvisionUser(PhoneOf[p], gone, p)
  BY <1>2 DEF ProvisionDone
<1>8. /\ radcheck' \in [Phones -> SUBSET Payments] /\ AccessOnlyIfPaid'
      /\ \A q \in Payments : Provisioned(q) => Provisioned(q)'
      /\ p \in radcheck'[PhoneOf[p]]
  BY <1>3, <1>5, <1>6, <1>7, ProvisionUserKeeps
<1>9. Good(j)'
  BY <1>3, <1>4, <1>5, <1>6, <1>8 DEF Good, Buying, Activating, Paid, Provisioned
<1>10. groups' \subseteq Packages /\ late' \subseteq Payments /\ LateFit'
  BY <1>3, <1>6 DEF CoreInv, Types, LateFit, Paid
<1>11. PICK jobs \in [Workers -> Jobs] : job' = jobs /\ \A q \in Workers :
          jobs[q] = IF q = r THEN j ELSE job[q]
  BY <1>3, <1>4 DEF CoreInv, Types
<1>12. QED
  BY <1>3, <1>4, <1>8, <1>9, <1>10, <1>11, RadiusStep

(* Provisioning fails part of the way, or its answer is lost.              *)
LEMMA ProvisionFailsKeeps ==
    ASSUME CoreInv, NEW r \in Workers, ProvisionFails(r)
    PROVE  CoreInv'
<1>1. job[r].phase = "provisioning" /\ job[r] \in Jobs
  BY DEF ProvisionFails, CoreInv, Types
<1>2. PICK p \in Payments : p = job[r].p
  BY <1>1, JobPayment DEF Activating
<1> DEFINE j == [phase |-> "failing", p |-> p]
<1>3. job' = [job EXCEPT ![r] = j] /\ UNCHANGED <<pay, sub, voucher, periods, spent>>
  BY <1>2 DEF ProvisionFails, To, history
<1>4. j \in Jobs /\ j.phase = "failing" /\ j.p = p
  BY DEF Jobs
<1> HIDE DEF j
<1>5. Paid(p)
  BY <1>1, <1>2 DEF CoreInv, JobsGood, Good, Activating
<1>6. /\ groups \subseteq groups' /\ groups' \subseteq Packages
      /\ late' \in {late, late \cup {p}}
      /\ radcheck' = radcheck \/ \E gone : ProvisionUser(PhoneOf[p], gone, p)
  BY <1>2, AttemptAssumption DEF ProvisionFails, SyncGroup, radius, CoreInv, Types
<1>7. /\ radcheck' \in [Phones -> SUBSET Payments] /\ AccessOnlyIfPaid'
      /\ \A q \in Payments : Provisioned(q) => Provisioned(q)'
  <2>1. CASE radcheck' = radcheck
    BY <1>3, <1>6, <2>1 DEF CoreInv, Types, AccessOnlyIfPaid, Provisioned, OnlyPurchase
  <2>2. CASE \E gone : ProvisionUser(PhoneOf[p], gone, p)
    <3>1. PICK gone : ProvisionUser(PhoneOf[p], gone, p)
      BY <2>2
    <3>2. QED
      BY <1>3, <1>5, <1>6, <3>1, ProvisionUserKeeps
  <2>3. QED
    BY <1>6, <2>1, <2>2
<1>8. Good(j)'
  BY <1>3, <1>4, <1>5 DEF Good, Buying, Activating, Paid
<1>9. late' \subseteq Payments /\ LateFit'
  BY <1>3, <1>5, <1>6 DEF CoreInv, Types, LateFit, Paid
<1>10. PICK jobs \in [Workers -> Jobs] : job' = jobs /\ \A q \in Workers :
          jobs[q] = IF q = r THEN j ELSE job[q]
  BY <1>3, <1>4 DEF CoreInv, Types
<1>11. QED
  BY <1>3, <1>4, <1>6, <1>7, <1>8, <1>9, <1>10, RadiusStep

(* The agent carries out a request whose caller gave up.                   *)
LEMMA LateProvisionKeeps ==
    ASSUME CoreInv, NEW p \in Payments, LateProvision(p)
    PROVE  CoreInv'
<1>1. Paid(p)
  BY DEF LateProvision, CoreInv, LateFit
<1>2. UNCHANGED <<pay, sub, voucher, groups, job, periods, spent>> /\ late' = late \ {p}
  BY DEF LateProvision, history
<1>3. PICK gone : ProvisionUser(PhoneOf[p], gone, p)
  BY DEF LateProvision
<1>4. /\ radcheck' \in [Phones -> SUBSET Payments] /\ AccessOnlyIfPaid'
      /\ \A q \in Payments : Provisioned(q) => Provisioned(q)'
  BY <1>1, <1>2, <1>3, ProvisionUserKeeps
<1>5. groups' \subseteq Packages /\ late' \subseteq Payments /\ LateFit'
  BY <1>2 DEF CoreInv, Types, LateFit, Paid
<1>6. PICK jobs \in [Workers -> Jobs] : job' = jobs /\ jobs = job
  BY <1>2 DEF CoreInv, Types
<1>7. QED
  BY <1>2, <1>4, <1>5, <1>6, RadiusStep

(***************************************************************************)
(* A step that writes payments' rows and the subscriptions of payments:    *)
(* who has paid stays paid, and what has a subscription keeps it.          *)
(***************************************************************************)
LEMMA PayStep ==
    ASSUME CoreInv, NEW jobs \in [Workers -> Jobs], job' = jobs,
           UNCHANGED <<voucher, groups, radcheck, late, periods, spent>>,
           pay' \in [Payments -> PayRows], sub' \in [Subs -> SubStatus],
           \A p \in Payments : Paid(p) => Paid(p)',
           \A p \in Payments : pay'[p].status = "NONE" <=> pay[p].status = "NONE",
           \A p \in Payments :
              /\ sub'[p] = "NONE" <=> sub[p] = "NONE"
              /\ sub[p] = "ACTIVE" => sub'[p] = "ACTIVE",
           \A x \in Sales : sub'[x] = sub[x],
           PaymentsFit',
           \A q \in Workers : jobs[q] = job[q] \/ jobs[q] = IdleJob
    PROVE  CoreInv'
<1>1. Types'
  BY DEF CoreInv, Types
<1>2. \A p \in Payments : Provisioned(p) => Provisioned(p)'
  BY DEF Provisioned, OnlyPurchase, Paid
<1>3. LateFit'
  BY DEF CoreInv, LateFit, Types
<1>4. SalesFit'
  BY SubKinds DEF CoreInv, SalesFit
<1>5. JobsGood'
  <2>1. ASSUME NEW q \in Workers, jobs[q] = job[q] PROVE Good(jobs[q])'
    <3>1. job[q] \in Jobs /\ Good(job[q])
      BY DEF CoreInv, Types, JobsGood
    <3>2. job[q].phase \in Buying \cup Activating \cup {"failing"} => job[q].p \in Payments
      BY <3>1, JobPayment
    <3>3. job[q].phase = "staff" => job[q].x \in Subs
      BY <3>1, JobKinds
    <3>4. \A x \in Subs : x \in Payments \/ x \in Sales
      BY DEF Subs
    <3>5. job[q].phase = "staff" => (sub'[job[q].x] # "NONE"
             /\ (job[q].x \in Sales => sub'[job[q].x] = "PENDING"))
      BY <3>1, <3>3, <3>4 DEF Good
    <3>6. QED
      BY <1>2, <2>1, <3>1, <3>2, <3>5 DEF Good, Activating
  <2>2. Good(IdleJob)'
    BY DEF IdleJob, Good, Buying, Activating
  <2>3. QED
    BY <2>1, <2>2 DEF JobsGood
<1>6. JobsApart'
  <2>1. ASSUME NEW r \in Workers, NEW q \in Workers, r # q PROVE Distinct(jobs[r], jobs[q])
    <3>1. Distinct(job[r], job[q])
      BY <2>1 DEF CoreInv, JobsApart
    <3>2. QED
      BY <3>1, IdleIsGood
  <2>2. QED
    BY <2>1 DEF JobsApart
<1>7. AccessOnlyIfPaid'
  <2>1. \A ph \in Phones : radcheck[ph] \subseteq Payments
    BY DEF CoreInv, Types
  <2>2. QED
    BY <2>1 DEF CoreInv, AccessOnlyIfPaid, Paid
<1>8. VoucherSpentOnce' /\ SoldForOnePeriod'
  BY DEF CoreInv, VoucherSpentOnce, SoldForOnePeriod
<1>9. QED
  BY <1>1, <1>3, <1>4, <1>5, <1>6, <1>7, <1>8 DEF CoreInv

(* The payment ends.                                                       *)
LEMMA FinalizeKeeps ==
    ASSUME CoreInv, NEW p \in Payments, FinalizePayment(p)
    PROVE  CoreInv'
<1>1. pay[p].status = "STK_SENT" /\ UNCHANGED <<sub, voucher, groups, radcheck, late, job, periods, spent>>
  BY DEF FinalizePayment, Live, radius, history
<1>2. PICK row \in PayRows :
         /\ pay' = [pay EXCEPT ![p] = row]
         /\ \/ row.status = "COMPLETED" /\ row.activation = "PENDING"
            \/ row.status = "FAILED"
  <2>1. CASE pay' = [pay EXCEPT ![p] = [status |-> "COMPLETED", activation |-> "PENDING"]]
    <3>1. [status |-> "COMPLETED", activation |-> "PENDING"] \in PayRows
      BY DEF PayRows, PayStatus, Activation
    <3>2. QED
      BY <2>1, <3>1
  <2>2. CASE pay' = [pay EXCEPT ![p].status = "FAILED"]
    <3>1. pay' = [pay EXCEPT ![p] = [pay[p] EXCEPT !.status = "FAILED"]]
      BY <2>2
    <3>2. [pay[p] EXCEPT !.status = "FAILED"] \in PayRows
          /\ [pay[p] EXCEPT !.status = "FAILED"].status = "FAILED"
      BY RowUpdates DEF PayStatus, CoreInv, Types
    <3>3. QED
      BY <3>1, <3>2
  <2>3. QED
    BY <2>1, <2>2 DEF FinalizePayment
<1>3. \A q \in Payments : pay'[q] = IF q = p THEN row ELSE pay[q]
  BY <1>2 DEF CoreInv, Types
<1>4. pay' \in [Payments -> PayRows] /\ sub' \in [Subs -> SubStatus]
  BY <1>1, <1>2 DEF CoreInv, Types
<1>5. /\ \A q \in Payments : Paid(q) => Paid(q)'
      /\ \A q \in Payments : pay'[q].status = "NONE" <=> pay[q].status = "NONE"
  BY <1>1, <1>2, <1>3 DEF Paid
<1>6. \A q \in Payments : Provisioned(q) => Provisioned(q)'
  BY <1>1, <1>5 DEF Provisioned, OnlyPurchase, Paid
<1>7. PaymentsFit'
  BY <1>1, <1>2, <1>3, <1>5, <1>6 DEF CoreInv, PaymentsFit, Paid
<1>8. PICK jobs \in [Workers -> Jobs] : job' = jobs /\ jobs = job
  BY <1>1 DEF CoreInv, Types
<1>9. QED
  BY <1>1, <1>4, <1>5, <1>7, <1>8, PayStep

(* The commit of activate, and record_failure.                             *)
LEMMA ActivationEndKeeps ==
    ASSUME CoreInv, NEW r \in Workers, CommitActivation(r) \/ RecordFailure(r)
    PROVE  CoreInv'
<1>1. /\ CommitActivation(r) <=> job[r].phase = "activated"
      /\ RecordFailure(r) <=> job[r].phase = "failing"
      /\ job[r].phase \in {"activated", "failing"}
      /\ job[r] \in Jobs
  <2>1. job[r] \in Jobs
    BY DEF CoreInv, Types
  <2>2. CommitActivation(r) => job[r].phase = "activated"
    BY DEF CommitActivation
  <2>3. RecordFailure(r) => job[r].phase = "failing"
    BY DEF RecordFailure
  <2>4. QED
    BY <2>1, <2>2, <2>3
<1>2. PICK p \in Payments : p = job[r].p
  BY <1>1, JobPayment DEF Activating
<1>3. /\ UNCHANGED <<voucher, groups, radcheck, late, periods, spent>>
      /\ job' = [job EXCEPT ![r] = IdleJob]
  BY DEF CommitActivation, RecordFailure, radius, history, To
<1>4. Paid(p) /\ (job[r].phase = "activated" => Provisioned(p))
  BY <1>1, <1>2 DEF CoreInv, JobsGood, Good, Activating
<1>5. PICK a \in {"ACTIVE", "FAILED"} :
         /\ pay' = [pay EXCEPT ![p].activation = a]
         /\ a = "ACTIVE" <=> job[r].phase = "activated"
  BY <1>1, <1>2 DEF CommitActivation, RecordFailure
<1>6. /\ pay' \in [Payments -> PayRows]
      /\ \A q \in Payments :
            /\ pay'[q].status = pay[q].status
            /\ pay'[q].activation = IF q = p THEN a ELSE pay[q].activation
  <2>1. a \in Activation /\ pay \in [Payments -> PayRows]
    BY DEF Activation, CoreInv, Types
  <2>2. pay' = [pay EXCEPT ![p] = [pay[p] EXCEPT !.activation = a]]
    BY <1>5
  <2>3. /\ [pay[p] EXCEPT !.activation = a] \in PayRows
        /\ [pay[p] EXCEPT !.activation = a].activation = a
        /\ [pay[p] EXCEPT !.activation = a].status = pay[p].status
    BY <2>1, RowUpdates
  <2>4. QED
    BY <2>1, <2>2, <2>3
<1>7. /\ sub' \in [Subs -> SubStatus]
      /\ \A x \in Subs : sub'[x] = sub[x] \/ (x = p /\ sub'[x] = "ACTIVE")
      /\ job[r].phase = "activated" => sub'[p] = "ACTIVE"
  <2>1. CASE job[r].phase = "activated"
    <3>1. sub' = [sub EXCEPT ![p] = IF job[r].seen = "PENDING" THEN "ACTIVE" ELSE @]
      BY <1>1, <1>2, <2>1 DEF CommitActivation
    <3>2. job[r].seen \in SubStatus
      BY <1>1, <2>1, JobPayment DEF Activating
    <3>3. job[r].seen # "PENDING" => sub[p] = "ACTIVE"
      BY <1>2, <2>1, <3>2 DEF CoreInv, JobsGood, Good, Activating, SubStatus
    <3>4. QED
      BY <3>1, <3>3, SubKinds DEF CoreInv, Types, SubStatus
  <2>2. CASE job[r].phase = "failing"
    BY <1>1, <2>2 DEF RecordFailure, CoreInv, Types
  <2>3. QED
    BY <1>1, <2>1, <2>2
<1>8. \A q \in Payments : (Paid(q) <=> Paid(q)') /\ (Provisioned(q) => Provisioned(q)')
  BY <1>3, <1>6 DEF Paid, Provisioned, OnlyPurchase
<1>9. sub[p] # "NONE"
  BY <1>4 DEF CoreInv, PaymentsFit, Paid
<1>10. \A q \in Payments :
          /\ sub'[q] = "NONE" <=> sub[q] = "NONE"
          /\ sub[q] = "ACTIVE" => sub'[q] = "ACTIVE"
  BY <1>7, <1>9, SubKinds
<1>11. PaymentsFit'
  BY <1>4, <1>5, <1>6, <1>7, <1>8, <1>10 DEF CoreInv, PaymentsFit, Paid
<1>12. PICK jobs \in [Workers -> Jobs] : job' = jobs /\ \A q \in Workers :
          jobs[q] = job[q] \/ jobs[q] = IdleJob
  BY <1>3, IdleIsGood DEF CoreInv, Types
<1>13. \A x \in Sales : sub'[x] = sub[x]
  BY <1>7, SubKinds
<1>14. QED
  BY <1>3, <1>6, <1>7, <1>8, <1>10, <1>11, <1>12, <1>13, PayStep

----------------------------------------------------------------------------
(* Sales *)

(***************************************************************************)
(* A step that writes vouchers and the subscriptions that are sold, or     *)
(* activates the subscription of a payment by hand.                        *)
(***************************************************************************)
LEMMA SaleStep ==
    ASSUME CoreInv, NEW jobs \in [Workers -> Jobs], job' = jobs,
           UNCHANGED <<pay, groups, radcheck, late>>,
           sub' \in [Subs -> SubStatus], voucher' \in [Vouchers -> VoucherStatus],
           periods' \in [Sales -> 0 .. 2], spent' \in [Vouchers -> 0 .. 2],
           \A p \in Payments :
              /\ sub'[p] = "NONE" <=> sub[p] = "NONE"
              /\ sub[p] = "ACTIVE" => sub'[p] = "ACTIVE",
           \A q \in Workers : jobs[q] = job[q] \/ jobs[q] = IdleJob,
           \A q \in Workers : jobs[q].phase = "staff" => sub'[jobs[q].x] = sub[jobs[q].x],
           \A q \in Workers : jobs[q].phase = "redeem" => voucher'[jobs[q].v] = voucher[jobs[q].v],
           SalesFit', VoucherSpentOnce', SoldForOnePeriod'
    PROVE  CoreInv'
<1>1. Types'
  BY DEF CoreInv, Types
<1>2. \A p \in Payments : Provisioned(p) => Provisioned(p)'
  BY DEF Provisioned, OnlyPurchase
<1>3. PaymentsFit' /\ LateFit' /\ AccessOnlyIfPaid'
  BY <1>2 DEF CoreInv, PaymentsFit, LateFit, AccessOnlyIfPaid, Paid
<1>4. JobsGood'
  <2>1. ASSUME NEW q \in Workers, jobs[q] = job[q] PROVE Good(jobs[q])'
    <3>1. job[q] \in Jobs /\ Good(job[q])
      BY DEF CoreInv, Types, JobsGood
    <3>2. job[q].phase \in Buying \cup Activating \cup {"failing"} => job[q].p \in Payments
      BY <3>1, JobPayment
    <3>3. QED
      BY <1>2, <2>1, <3>1, <3>2 DEF Good, Activating, Paid
  <2>2. Good(IdleJob)'
    BY DEF IdleJob, Good, Buying, Activating
  <2>3. QED
    BY <2>1, <2>2 DEF JobsGood
<1>5. JobsApart'
  <2>1. ASSUME NEW r \in Workers, NEW q \in Workers, r # q PROVE Distinct(jobs[r], jobs[q])
    <3>1. Distinct(job[r], job[q])
      BY <2>1 DEF CoreInv, JobsApart
    <3>2. QED
      BY <3>1, IdleIsGood
  <2>2. QED
    BY <2>1 DEF JobsApart
<1>6. QED
  BY <1>1, <1>3, <1>4, <1>5 DEF CoreInv

(* Staff sell a package over the counter.                                  *)
LEMMA CreateKeeps ==
    ASSUME CoreInv, NEW x \in Walkins, CreateSubscription(x)
    PROVE  CoreInv'
<1>1. /\ sub[x] = "NONE" /\ sub' = [sub EXCEPT ![x] = Created(x)]
      /\ periods' = [periods EXCEPT ![x] = IF x \in Immediate THEN 1 ELSE 0]
      /\ UNCHANGED <<pay, groups, radcheck, late, voucher, spent, job>>
  BY DEF CreateSubscription, radius
<1>2. /\ Created(x) = IF x \in Immediate THEN "ACTIVE" ELSE "PENDING"
      /\ Created(x) \in SubStatus
  BY DEF Created, SubStatus
<1>3. x \in Sales /\ x \in Subs /\ x \notin Payments /\ x \notin Vouchers
  BY SubKinds
<1>4. /\ sub' \in [Subs -> SubStatus] /\ periods' \in [Sales -> 0 .. 2]
      /\ \A y \in Subs : sub'[y] = IF y = x THEN Created(x) ELSE sub[y]
      /\ \A y \in Sales : periods'[y] = IF y # x THEN periods[y]
                                        ELSE IF x \in Immediate THEN 1 ELSE 0
  BY <1>1, <1>2, <1>3 DEF CoreInv, Types
<1>5. SalesFit' /\ VoucherSpentOnce' /\ SoldForOnePeriod'
  <2>1. SalesFit'
    BY <1>1, <1>2, <1>3, <1>4, SubKinds DEF CoreInv, SalesFit
  <2>2. VoucherSpentOnce' /\ SoldForOnePeriod'
    BY <1>1, <1>4 DEF CoreInv, VoucherSpentOnce, SoldForOnePeriod
  <2>3. QED
    BY <2>1, <2>2
<1>6. \A q \in Workers : job[q].phase = "staff" => sub'[job[q].x] = sub[job[q].x]
  <2>1. SUFFICES ASSUME NEW q \in Workers, job[q].phase = "staff"
                 PROVE  sub'[job[q].x] = sub[job[q].x]
    OBVIOUS
  <2>2. job[q].x \in Subs /\ sub[job[q].x] # "NONE"
    BY <2>1, JobKinds DEF CoreInv, Types, JobsGood, Good
  <2>3. QED
    BY <1>1, <1>4, <2>2
<1>7. PICK jobs \in [Workers -> Jobs] : job' = jobs /\ jobs = job
  BY <1>1 DEF CoreInv, Types
<1>8. /\ \A p \in Payments : p # x /\ p \in Subs
      /\ voucher' \in [Vouchers -> VoucherStatus] /\ spent' \in [Vouchers -> 0 .. 2]
  BY <1>1, <1>3, SubKinds DEF CoreInv, Types
<1>9. QED
  BY <1>1, <1>4, <1>5, <1>6, <1>7, <1>8, SaleStep

(* Staff activate a subscription.                                          *)
LEMMA CommitStaffKeeps ==
    ASSUME CoreInv, NEW r \in Workers, CommitStaff(r)
    PROVE  CoreInv'
<1>1. job[r].phase = "staff" /\ job[r] \in Jobs /\ Good(job[r])
  BY DEF CommitStaff, CoreInv, Types, JobsGood
<1>2. PICK x \in Subs : x = job[r].x
  BY <1>1, JobKinds
<1>3. /\ sub' = [sub EXCEPT ![x] = "ACTIVE"]
      /\ periods' = [y \in Sales |-> IF y = x THEN UpTo2(periods[y]) ELSE periods[y]]
      /\ job' = [job EXCEPT ![r] = IdleJob]
      /\ UNCHANGED <<pay, groups, radcheck, late, voucher, spent>>
  BY <1>2 DEF CommitStaff, radius, To
<1>4. sub[x] # "NONE" /\ (x \in Sales => sub[x] = "PENDING")
  BY <1>1, <1>2 DEF Good
<1>5. x \in Sales => periods[x] = 0
  BY <1>4 DEF CoreInv, SalesFit
<1>6. /\ sub' \in [Subs -> SubStatus]
      /\ \A y \in Subs : sub'[y] = IF y = x THEN "ACTIVE" ELSE sub[y]
  BY <1>3 DEF CoreInv, Types, SubStatus
<1>7. /\ periods' \in [Sales -> 0 .. 2]
      /\ \A y \in Sales : periods'[y] = IF y = x THEN 1 ELSE periods[y]
  BY <1>3, <1>5 DEF CoreInv, Types, UpTo2
<1>8. SalesFit' /\ VoucherSpentOnce' /\ SoldForOnePeriod'
  <2>1. SalesFit'
    BY <1>3, <1>4, <1>6, <1>7, SubKinds DEF CoreInv, SalesFit
  <2>2. VoucherSpentOnce' /\ SoldForOnePeriod'
    BY <1>3, <1>7 DEF CoreInv, VoucherSpentOnce, SoldForOnePeriod
  <2>3. QED
    BY <2>1, <2>2
<1>9. PICK jobs \in [Workers -> Jobs] : job' = jobs /\ \A q \in Workers :
          jobs[q] = IF q = r THEN IdleJob ELSE job[q]
  BY <1>3, IdleIsGood DEF CoreInv, Types
<1>10. \A q \in Workers : jobs[q].phase = "staff" => sub'[jobs[q].x] = sub[jobs[q].x]
  <2>1. SUFFICES ASSUME NEW q \in Workers, jobs[q].phase = "staff"
                 PROVE  sub'[jobs[q].x] = sub[jobs[q].x]
    OBVIOUS
  <2>2. q # r /\ jobs[q] = job[q]
    BY <1>9, <2>1, IdleIsGood
  <2>3. job[q].x \in Subs /\ job[q].x # x
    BY <1>1, <1>2, <2>1, <2>2, JobKinds DEF CoreInv, Types, JobsApart, Distinct
  <2>4. QED
    BY <1>6, <2>2, <2>3
<1>11. /\ \A p \in Payments : p \in Subs
       /\ voucher' \in [Vouchers -> VoucherStatus] /\ spent' \in [Vouchers -> 0 .. 2]
  BY <1>3, SubKinds DEF CoreInv, Types
<1>12. QED
  BY <1>3, <1>4, <1>6, <1>7, <1>8, <1>9, <1>10, <1>11, SaleStep

(* A batch of vouchers.                                                    *)
LEMMA GenerateKeeps ==
    ASSUME CoreInv, NEW v \in Vouchers, GenerateBatch(v)
    PROVE  CoreInv'
<1>1. /\ voucher[v] = "NONE" /\ voucher' = [voucher EXCEPT ![v] = "UNUSED"]
      /\ UNCHANGED <<pay, groups, radcheck, late, sub, periods, spent, job>>
  BY DEF GenerateBatch, radius, history
<1>2. /\ voucher' \in [Vouchers -> VoucherStatus]
      /\ \A w \in Vouchers : voucher'[w] = IF w = v THEN "UNUSED" ELSE voucher[w]
  BY <1>1 DEF CoreInv, Types, VoucherStatus
<1>3. SalesFit' /\ VoucherSpentOnce' /\ SoldForOnePeriod'
  <2>1. SalesFit'
    BY <1>1, <1>2 DEF CoreInv, SalesFit
  <2>2. VoucherSpentOnce' /\ SoldForOnePeriod'
    BY <1>1, <1>2 DEF CoreInv, VoucherSpentOnce, SoldForOnePeriod
  <2>3. QED
    BY <2>1, <2>2
<1>4. \A q \in Workers : job[q].phase = "redeem" => voucher'[job[q].v] = voucher[job[q].v]
  <2>1. SUFFICES ASSUME NEW q \in Workers, job[q].phase = "redeem"
                 PROVE  voucher'[job[q].v] = voucher[job[q].v]
    OBVIOUS
  <2>2. job[q].v \in Vouchers /\ voucher[job[q].v] = "UNUSED"
    BY <2>1, JobKinds DEF CoreInv, Types, JobsGood, Good
  <2>3. QED
    BY <1>1, <1>2, <2>2
<1>5. PICK jobs \in [Workers -> Jobs] : job' = jobs /\ jobs = job
  BY <1>1 DEF CoreInv, Types
<1>6. /\ sub' \in [Subs -> SubStatus] /\ periods' \in [Sales -> 0 .. 2]
      /\ spent' \in [Vouchers -> 0 .. 2]
  BY <1>1 DEF CoreInv, Types
<1>7. QED
  BY <1>1, <1>2, <1>3, <1>4, <1>5, <1>6, SaleStep

(* The commit that spends a voucher.                                       *)
LEMMA CommitRedeemKeeps ==
    ASSUME CoreInv, NEW r \in Workers, CommitRedeem(r)
    PROVE  CoreInv'
<1>1. job[r].phase = "redeem" /\ job[r] \in Jobs /\ Good(job[r])
  BY DEF CommitRedeem, CoreInv, Types, JobsGood
<1>2. PICK v \in Vouchers : v = job[r].v
  BY <1>1, JobKinds
<1>3. /\ voucher' = [voucher EXCEPT ![v] = "USED"]
      /\ sub' = [sub EXCEPT ![v] = Created(v)]
      /\ periods' = [periods EXCEPT ![v] = IF v \in Immediate THEN UpTo2(@) ELSE @]
      /\ spent' = [spent EXCEPT ![v] = UpTo2(@)]
      /\ job' = [job EXCEPT ![r] = IdleJob]
      /\ UNCHANGED <<pay, groups, radcheck, late>>
  BY <1>2 DEF CommitRedeem, radius, To
<1>4. voucher[v] = "UNUSED" /\ v \in Sales /\ v \in Subs /\ v \notin Payments
  BY <1>1, <1>2, SubKinds DEF Good
<1>5. sub[v] = "NONE" /\ periods[v] = 0 /\ spent[v] = 0
  BY <1>4 DEF CoreInv, SalesFit, VoucherSpentOnce
<1>6. /\ Created(v) = IF v \in Immediate THEN "ACTIVE" ELSE "PENDING"
      /\ Created(v) \in SubStatus /\ UpTo2(0) = 1
  BY DEF Created, SubStatus, UpTo2
<1>7. /\ sub' \in [Subs -> SubStatus]
      /\ \A y \in Subs : sub'[y] = IF y = v THEN Created(v) ELSE sub[y]
  BY <1>3, <1>4, <1>6 DEF CoreInv, Types
<1>8. /\ periods' \in [Sales -> 0 .. 2]
      /\ \A y \in Sales : periods'[y] = IF y # v THEN periods[y]
                                        ELSE IF v \in Immediate THEN 1 ELSE 0
  BY <1>3, <1>4, <1>5, <1>6 DEF CoreInv, Types
<1>9. /\ voucher' \in [Vouchers -> VoucherStatus] /\ spent' \in [Vouchers -> 0 .. 2]
      /\ \A w \in Vouchers : voucher'[w] = IF w = v THEN "USED" ELSE voucher[w]
      /\ \A w \in Vouchers : spent'[w] = IF w = v THEN 1 ELSE spent[w]
  BY <1>3, <1>5, <1>6 DEF CoreInv, Types, VoucherStatus
<1>10. SalesFit' /\ VoucherSpentOnce' /\ SoldForOnePeriod'
  <2>1. SalesFit'
    BY <1>4, <1>6, <1>7, <1>8, <1>9, SubKinds DEF CoreInv, SalesFit
  <2>2. VoucherSpentOnce' /\ SoldForOnePeriod'
    BY <1>8, <1>9 DEF CoreInv, VoucherSpentOnce, SoldForOnePeriod
  <2>3. QED
    BY <2>1, <2>2
<1>11. PICK jobs \in [Workers -> Jobs] : job' = jobs /\ \A q \in Workers :
          jobs[q] = IF q = r THEN IdleJob ELSE job[q]
  BY <1>3, IdleIsGood DEF CoreInv, Types
<1>12. \A q \in Workers : jobs[q].phase = "staff" => sub'[jobs[q].x] = sub[jobs[q].x]
  <2>1. SUFFICES ASSUME NEW q \in Workers, jobs[q].phase = "staff"
                 PROVE  sub'[jobs[q].x] = sub[jobs[q].x]
    OBVIOUS
  <2>2. jobs[q] = job[q]
    BY <1>11, <2>1, IdleIsGood
  <2>3. job[q].x \in Subs /\ sub[job[q].x] # "NONE"
    BY <2>1, <2>2, JobKinds DEF CoreInv, Types, JobsGood, Good
  <2>4. QED
    BY <1>5, <1>7, <2>2, <2>3
<1>13. \A q \in Workers : jobs[q].phase = "redeem" => voucher'[jobs[q].v] = voucher[jobs[q].v]
  <2>1. SUFFICES ASSUME NEW q \in Workers, jobs[q].phase = "redeem"
                 PROVE  voucher'[jobs[q].v] = voucher[jobs[q].v]
    OBVIOUS
  <2>2. q # r /\ jobs[q] = job[q]
    BY <1>11, <2>1, IdleIsGood
  <2>3. job[q].v \in Vouchers /\ job[q].v # v
    BY <1>1, <1>2, <2>1, <2>2, JobKinds DEF CoreInv, Types, JobsApart, Distinct
  <2>4. QED
    BY <1>9, <2>2, <2>3
<1>14. \A p \in Payments : p # v /\ p \in Subs
  BY <1>4, SubKinds
<1>15. QED
  BY <1>3, <1>7, <1>8, <1>9, <1>10, <1>11, <1>12, <1>13, <1>14, SaleStep

----------------------------------------------------------------------------
(* Every step *)

(* A step of the portal or of staff that writes none of these rows.        *)
LEMMA StutterKeeps ==
    ASSUME CoreInv, UNCHANGED core
    PROVE  CoreInv'
<1>1. UNCHANGED <<pay, sub, voucher, groups, radcheck, late, job, periods, spent>>
  BY DEF core, radius
<1>2. Types' /\ PaymentsFit' /\ LateFit' /\ SalesFit'
  BY <1>1 DEF CoreInv, Types, PaymentsFit, LateFit, SalesFit, Paid, Provisioned, OnlyPurchase
<1>3. JobsGood' /\ JobsApart'
  BY <1>1 DEF CoreInv, JobsGood, Good, JobsApart, Paid, Provisioned, OnlyPurchase
<1>4. AccessOnlyIfPaid' /\ VoucherSpentOnce' /\ SoldForOnePeriod'
  BY <1>1 DEF CoreInv, AccessOnlyIfPaid, VoucherSpentOnce, SoldForOnePeriod
<1>5. QED
  BY <1>2, <1>3, <1>4 DEF CoreInv

(* Nothing is bought or sold yet.                                          *)
LEMMA CoreInit == Init => CoreInv
<1> SUFFICES ASSUME Init PROVE CoreInv
  OBVIOUS
<1>1. Types
  BY IdleIsGood DEF Init, Types, PayRows, PayStatus, Activation, SubStatus, VoucherStatus
<1>2. PaymentsFit /\ LateFit
  BY SubKinds DEF Init, PaymentsFit, LateFit, Paid
<1>3. SalesFit /\ VoucherSpentOnce /\ SoldForOnePeriod
  BY SubKinds DEF Init, SalesFit, VoucherSpentOnce, SoldForOnePeriod
<1>4. JobsGood /\ JobsApart
  BY IdleIsGood DEF Init, JobsGood, JobsApart
<1>5. AccessOnlyIfPaid
  BY DEF Init, AccessOnlyIfPaid
<1>6. QED
  BY <1>1, <1>2, <1>3, <1>4, <1>5 DEF CoreInv

(* One case for each action.                                               *)
LEMMA CoreStep == CoreInv /\ [Next]_vars => CoreInv'
<1> SUFFICES ASSUME CoreInv, [Next]_vars PROVE CoreInv'
  OBVIOUS
<1>1. CASE \E s \in Sessions : IssueSession(s) \/ SessionExpires(s)
  BY <1>1, StutterKeeps DEF IssueSession, SessionExpires, core, history
<1>2. CASE \E r \in Workers, p \in Payments : ResolveSession(r, p) \/ StartActivation(r, p)
  BY <1>2, ResolveKeeps, StartKeeps
<1>3. ASSUME NEW r \in Workers,
             \/ RateLimited(r) \/ Purchase(r) \/ Collide(r) \/ CommitPurchase(r)
             \/ BeginProvisioning(r) \/ ProvisionDone(r) \/ ProvisionFails(r)
             \/ CommitActivation(r) \/ RecordFailure(r)
             \/ CommitStaff(r) \/ CommitRedeem(r) \/ Crash(r)
      PROVE  CoreInv'
  <2>1. CASE RateLimited(r)
    BY <2>1, EndKeeps DEF RateLimited, history
  <2>2. CASE Collide(r)
    BY <2>2, EndKeeps DEF Collide, history
  <2>3. CASE Crash(r)
    BY <2>3, EndKeeps DEF Crash
  <2>4. CASE Purchase(r) \/ CommitPurchase(r)
    BY <2>4, PurchaseKeeps, CommitPurchaseKeeps
  <2>5. CASE BeginProvisioning(r) \/ ProvisionDone(r) \/ ProvisionFails(r)
    BY <2>5, BeginKeeps, ProvisionDoneKeeps, ProvisionFailsKeeps
  <2>6. CASE CommitActivation(r) \/ RecordFailure(r)
    BY <2>6, ActivationEndKeeps
  <2>7. CASE CommitStaff(r) \/ CommitRedeem(r)
    BY <2>7, CommitStaffKeeps, CommitRedeemKeeps
  <2>8. QED
    BY <1>3, <2>1, <2>2, <2>3, <2>4, <2>5, <2>6, <2>7
<1>4. CASE \E p \in Payments : FinalizePayment(p) \/ LateProvision(p)
  BY <1>4, FinalizeKeeps, LateProvisionKeeps
<1>5. CASE \E t \in Tenants, ph \in Phones : RegisterCustomer(t, ph)
  BY <1>5, StutterKeeps DEF RegisterCustomer, core, history
<1>6. CASE \E x \in Walkins : CreateSubscription(x)
  BY <1>6, CreateKeeps
<1>7. CASE \E r \in Workers, x \in Clicks : ActivateSubscription(r, x)
  BY <1>7, StaffKeeps, CastAssumption DEF Subs, Sales
<1>8. CASE \E v \in Vouchers : GenerateBatch(v)
  BY <1>8, GenerateKeeps
<1>9. CASE \E r \in Workers, v \in Vouchers : Redeem(r, v)
  BY <1>9, RedeemKeeps
<1>10. CASE UNCHANGED vars
  BY <1>10, StutterKeeps DEF vars, core, radius
<1>11. QED
  BY <1>1, <1>2, <1>3, <1>4, <1>5, <1>6, <1>7, <1>8, <1>9, <1>10 DEF Next

(* The core invariant holds in every state.                                *)
LEMMA CoreHolds == Spec => []CoreInv
BY CoreInit, CoreStep, PTL DEF Spec

----------------------------------------------------------------------------
(* Portal sessions *)

Waiting(s) ==
    {r \in Workers : job[r].phase = "resolved" /\ SessionOf[job[r].p] = s}

(***************************************************************************)
(* A session is consumed by the commit of one of the requests that had     *)
(* resolved it.  The others may each send one prompt more; none can        *)
(* resolve it again.                                                       *)
(***************************************************************************)
PromptsFit ==
    \A s \in Sessions :
        IF session[s] = "consumed"
        THEN prompts[s] + Cardinality(Waiting(s)) <= Cardinality(Workers) - 1
        ELSE prompts[s] = 0

SessionTypes ==
    /\ session \in [Sessions -> SessionStatus]
    /\ prompts \in [Sessions -> Nat]

SessionInv == SessionTypes /\ PromptsFit

(* The requests waiting on a session are finitely many.                    *)
LEMMA WaitingFinite ==
    /\ \A S \in SUBSET Workers :
          IsFiniteSet(S) /\ Cardinality(S) \in Nat /\ Cardinality(S) <= Cardinality(Workers)
    /\ \A r \in Workers : \A S \in SUBSET (Workers \ {r}) :
          Cardinality(S) <= Cardinality(Workers) - 1
    /\ \A S, T \in SUBSET Workers : S \subseteq T => Cardinality(S) <= Cardinality(T)
    /\ \A T \in SUBSET Workers : \A r \in T : \A S \in SUBSET (T \ {r}) :
          Cardinality(S) <= Cardinality(T) - 1
    /\ Cardinality(Workers) \in Nat /\ Cardinality(Workers) >= 1
<1>1. \A T \in SUBSET Workers : IsFiniteSet(T) /\ Cardinality(T) \in Nat
  BY WorkerAssumption, FS_Subset, FS_CardinalityType
<1>2. \A S, T \in SUBSET Workers : S \subseteq T => Cardinality(S) <= Cardinality(T)
  BY <1>1, FS_Subset
<1>3. ASSUME NEW T \in SUBSET Workers, NEW r \in T, NEW S \in SUBSET (T \ {r})
      PROVE  Cardinality(S) <= Cardinality(T) - 1
  <2>1. Cardinality(T \ {r}) = Cardinality(T) - 1
    BY <1>1, FS_RemoveElement
  <2>2. S \in SUBSET Workers /\ T \ {r} \in SUBSET Workers
    BY <1>3
  <2>3. QED
    BY <1>2, <2>1, <2>2
<1>4. Cardinality(Workers) # 0
  BY WorkerAssumption, FS_EmptySet
<1>5. QED
  BY <1>1, <1>2, <1>3, <1>4

(* A step that resolves no consumed session and sends no prompt.           *)
LEMMA NoPrompt ==
    ASSUME SessionInv, UNCHANGED <<session, prompts>>,
           \A s \in Sessions : session[s] = "consumed" => Waiting(s)' \subseteq Waiting(s)
    PROVE  SessionInv'
<1>1. SessionTypes'
  BY DEF SessionInv, SessionTypes
<1>2. ASSUME NEW s \in Sessions, session[s] = "consumed"
      PROVE  prompts[s] + Cardinality(Waiting(s)') <= Cardinality(Workers) - 1
  <2>1. Waiting(s) \in SUBSET Workers /\ Waiting(s)' \in SUBSET Workers
    BY DEF Waiting
  <2>2. Cardinality(Waiting(s)') <= Cardinality(Waiting(s))
    BY <1>2, <2>1, WaitingFinite
  <2>3. prompts[s] + Cardinality(Waiting(s)) <= Cardinality(Workers) - 1
    BY <1>2 DEF SessionInv, PromptsFit
  <2>4. /\ prompts[s] \in Nat /\ Cardinality(Workers) \in Nat
        /\ Cardinality(Waiting(s)) \in Nat /\ Cardinality(Waiting(s)') \in Nat
    BY <2>1, WaitingFinite DEF SessionInv, SessionTypes
  <2>5. QED
    BY <2>2, <2>3, <2>4
<1>3. PromptsFit'
  BY <1>2 DEF PromptsFit, SessionInv
<1>4. QED
  BY <1>1, <1>3 DEF SessionInv

(* A request goes on to something that is not "resolved".                  *)
LEMMA LeavesWaiting ==
    ASSUME CoreInv, NEW r \in Workers, NEW j, To(r, j), j.phase # "resolved"
    PROVE  \A s \in Sessions : Waiting(s)' = Waiting(s) \ {r}
<1>1. \A q \in Workers : job'[q] = IF q = r THEN j ELSE job[q]
  BY DEF To, CoreInv, Types
<1>2. QED
  BY <1>1 DEF Waiting

(* The session is open when it is resolved.                                *)
LEMMA ResolveSessionKeeps ==
    ASSUME CoreInv, SessionInv, NEW r \in Workers, NEW p \in Payments, ResolveSession(r, p)
    PROVE  SessionInv'
<1> DEFINE j == [phase |-> "resolved", p |-> p]
<1>1. /\ session[SessionOf[p]] = "open" /\ job' = [job EXCEPT ![r] = j]
      /\ UNCHANGED <<session, prompts>>
  BY DEF ResolveSession, Resolvable, To, history
<1>2. \A q \in Workers : job'[q] = IF q = r THEN j ELSE job[q]
  BY <1>1 DEF CoreInv, Types
<1>3. ASSUME NEW s \in Sessions, session[s] = "consumed"
      PROVE  Waiting(s)' \subseteq Waiting(s)
  <2>1. s # SessionOf[p]
    BY <1>1, <1>3
  <2>2. QED
    BY <1>2, <2>1 DEF Waiting
<1>4. QED
  BY <1>1, <1>3, NoPrompt

(* A prompt takes its request off those that wait.                         *)
LEMMA PromptKeeps ==
    ASSUME CoreInv, SessionInv, NEW r \in Workers, Purchase(r)
    PROVE  SessionInv'
<1>1. job[r].phase = "resolved" /\ job[r] \in Jobs
  BY DEF Purchase, CoreInv, Types
<1>2. PICK p \in Payments : p = job[r].p
  BY <1>1, JobPayment DEF Buying
<1>3. PICK s \in Sessions : s = SessionOf[p]
  BY AttemptAssumption
<1>4. PICK status \in {"STK_SENT", "FAILED"}, n \in 0 .. 1 :
         /\ To(r, [phase |-> "bought", p |-> p, status |-> status])
         /\ prompts' = [prompts EXCEPT ![s] = IF session[s] = "consumed" THEN @ + n ELSE @]
  BY <1>2, <1>3 DEF Purchase
<1>5. session' = session
  BY DEF Purchase
<1>6. \A u \in Sessions : Waiting(u)' = Waiting(u) \ {r}
  BY <1>4, LeavesWaiting
<1>7. /\ prompts' \in [Sessions -> Nat]
      /\ \A u \in Sessions : prompts'[u] =
            IF u = s /\ session[s] = "consumed" THEN prompts[u] + n ELSE prompts[u]
  BY <1>4 DEF SessionInv, SessionTypes
<1>8. ASSUME NEW u \in Sessions, session[u] = "consumed"
      PROVE  prompts'[u] + Cardinality(Waiting(u)') <= Cardinality(Workers) - 1
  <2>1. Waiting(u) \in SUBSET Workers /\ Waiting(u)' \in SUBSET Workers
    BY DEF Waiting
  <2>2. prompts[u] + Cardinality(Waiting(u)) <= Cardinality(Workers) - 1
    BY <1>8 DEF SessionInv, PromptsFit
  <2>3. /\ prompts[u] \in Nat /\ Cardinality(Workers) \in Nat
        /\ Cardinality(Waiting(u)) \in Nat /\ Cardinality(Waiting(u)') \in Nat
    BY <2>1, WaitingFinite DEF SessionInv, SessionTypes
  <2>4. CASE u = s
    <3>1. r \in Waiting(u)
      BY <1>1, <1>2, <1>3, <2>4 DEF Waiting
    <3>2. Cardinality(Waiting(u)') <= Cardinality(Waiting(u)) - 1
      BY <1>6, <2>1, <3>1, WaitingFinite
    <3>3. prompts'[u] <= prompts[u] + 1
      BY <1>4, <1>7, <2>3
    <3>4. prompts'[u] \in Nat
      BY <1>7
    <3>5. QED
      BY <2>2, <2>3, <3>2, <3>3, <3>4
  <2>5. CASE u # s
    <3>1. Cardinality(Waiting(u)') <= Cardinality(Waiting(u)) /\ prompts'[u] = prompts[u]
      BY <1>6, <1>7, <2>1, <2>5, WaitingFinite
    <3>2. QED
      BY <2>2, <2>3, <3>1
  <2>6. QED
    BY <2>4, <2>5
<1>9. PromptsFit'
  BY <1>5, <1>7, <1>8 DEF PromptsFit, SessionInv
<1>10. SessionTypes'
  BY <1>5, <1>7 DEF SessionInv, SessionTypes
<1>11. QED
  BY <1>9, <1>10 DEF SessionInv

(* The first commit on a session consumes it, and was one of the requests. *)
LEMMA ConsumeKeeps ==
    ASSUME CoreInv, SessionInv, NEW r \in Workers, CommitPurchase(r)
    PROVE  SessionInv'
<1>1. job[r].phase = "bought" /\ job[r] \in Jobs
  BY DEF CommitPurchase, CoreInv, Types
<1>2. PICK p \in Payments : p = job[r].p
  BY <1>1, JobPayment DEF Buying
<1>3. PICK s \in Sessions : s = SessionOf[p]
  BY AttemptAssumption
<1>4. /\ session' = [session EXCEPT ![s] = "consumed"] /\ UNCHANGED prompts
      /\ To(r, IdleJob)
  BY <1>2, <1>3 DEF CommitPurchase, history
<1>5. \A u \in Sessions : Waiting(u)' = Waiting(u) \ {r}
  BY <1>4, LeavesWaiting, IdleIsGood
<1>6. /\ SessionTypes'
      /\ \A u \in Sessions : session'[u] = IF u = s THEN "consumed" ELSE session[u]
  BY <1>4 DEF SessionInv, SessionTypes, SessionStatus
<1>7. ASSUME NEW u \in Sessions, session'[u] = "consumed"
      PROVE  prompts[u] + Cardinality(Waiting(u)') <= Cardinality(Workers) - 1
  <2>1. Waiting(u) \in SUBSET Workers /\ Waiting(u)' \in SUBSET (Workers \ {r})
    BY <1>5 DEF Waiting
  <2>2. /\ prompts[u] \in Nat /\ Cardinality(Workers) \in Nat
        /\ Cardinality(Waiting(u)) \in Nat /\ Cardinality(Waiting(u)') \in Nat
    BY <2>1, WaitingFinite DEF SessionInv, SessionTypes
  <2>3. CASE session[u] = "consumed"
    <3>1. prompts[u] + Cardinality(Waiting(u)) <= Cardinality(Workers) - 1
      BY <2>3 DEF SessionInv, PromptsFit
    <3>2. Cardinality(Waiting(u)') <= Cardinality(Waiting(u))
      BY <1>5, <2>1, WaitingFinite
    <3>3. QED
      BY <2>2, <3>1, <3>2
  <2>4. CASE session[u] # "consumed"
    <3>1. prompts[u] = 0
      BY <2>4 DEF SessionInv, PromptsFit
    <3>2. Cardinality(Waiting(u)') <= Cardinality(Workers) - 1
      BY <2>1, WaitingFinite
    <3>3. QED
      BY <2>2, <3>1, <3>2
  <2>5. QED
    BY <2>3, <2>4
<1>8. PromptsFit'
  <2>1. \A u \in Sessions : session'[u] # "consumed" => session[u] # "consumed"
    BY <1>6
  <2>2. QED
    BY <1>4, <1>7, <2>1 DEF PromptsFit, SessionInv
<1>9. QED
  BY <1>6, <1>8 DEF SessionInv

(* No request has resolved anything yet.                                   *)
LEMMA SessionInit == Init => SessionInv
BY DEF Init, SessionInv, SessionTypes, SessionStatus, PromptsFit

(* One case for each kind of step.                                         *)
LEMMA SessionStep == CoreInv /\ SessionInv /\ [Next]_vars => SessionInv'
<1> SUFFICES ASSUME CoreInv, SessionInv, [Next]_vars PROVE SessionInv'
  OBVIOUS
<1> DEFINE Elsewhere == UNCHANGED <<session, prompts>>
<1>1. ASSUME NEW r \in Workers, NEW j, To(r, j), j.phase # "resolved", Elsewhere
      PROVE  SessionInv'
  BY <1>1, LeavesWaiting, NoPrompt
<1>2. ASSUME UNCHANGED job, Elsewhere PROVE SessionInv'
  BY <1>2, NoPrompt DEF Waiting
<1>3. ASSUME NEW s \in Sessions, IssueSession(s) \/ SessionExpires(s) PROVE SessionInv'
  <2>1. PICK t \in {"open", "expired"} : session' = [session EXCEPT ![s] = t]
    BY <1>3 DEF IssueSession, SessionExpires
  <2>2. session[s] # "consumed" /\ UNCHANGED <<prompts, job>>
    BY <1>3 DEF IssueSession, SessionExpires, history
  <2>3. /\ SessionTypes'
        /\ \A u \in Sessions : session'[u] = IF u = s THEN t ELSE session[u]
    BY <2>1, <2>2 DEF SessionInv, SessionTypes, SessionStatus
  <2>4. \A u \in Sessions : Waiting(u)' = Waiting(u)
    BY <2>2 DEF Waiting
  <2>5. PromptsFit'
    BY <2>2, <2>3, <2>4 DEF SessionInv, PromptsFit
  <2>6. QED
    BY <2>3, <2>5 DEF SessionInv
<1>4. ASSUME NEW r \in Workers, NEW p \in Payments, ResolveSession(r, p) \/ StartActivation(r, p)
      PROVE  SessionInv'
  <2>1. CASE StartActivation(r, p)
    <3>1. /\ To(r, [phase |-> "activating", p |-> p, seen |-> sub[p]]) /\ Elsewhere
      BY <2>1 DEF StartActivation, history
    <3>2. QED
      BY <1>1, <3>1
  <2>2. QED
    BY <1>4, <2>1, ResolveSessionKeeps
<1>5. ASSUME NEW r \in Workers,
             \/ RateLimited(r) \/ Purchase(r) \/ Collide(r) \/ CommitPurchase(r)
             \/ BeginProvisioning(r) \/ ProvisionDone(r) \/ ProvisionFails(r)
             \/ CommitActivation(r) \/ RecordFailure(r)
             \/ CommitStaff(r) \/ CommitRedeem(r) \/ Crash(r)
      PROVE  SessionInv'
  <2>1. CASE Purchase(r)
    BY <2>1, PromptKeeps
  <2>2. CASE CommitPurchase(r)
    BY <2>2, ConsumeKeeps
  <2>3. CASE To(r, IdleJob) /\ Elsewhere
    BY <1>1, <2>3, IdleIsGood
  <2>4. CASE RateLimited(r) \/ Collide(r) \/ CommitActivation(r) \/ RecordFailure(r)
    BY <2>3, <2>4 DEF RateLimited, Collide, CommitActivation, RecordFailure, history
  <2>5. CASE CommitStaff(r) \/ CommitRedeem(r) \/ Crash(r)
    BY <2>3, <2>5 DEF CommitStaff, CommitRedeem, Crash
  <2>6. CASE BeginProvisioning(r)
    <3>1. \E p, seen, gone : To(r, [phase |-> "provisioning", p |-> p, seen |-> seen, gone |-> gone])
      BY <2>6 DEF BeginProvisioning
    <3>2. Elsewhere
      BY <2>6 DEF BeginProvisioning, history
    <3>3. QED
      BY <1>1, <3>1, <3>2
  <2>7. CASE ProvisionDone(r)
    <3>1. \E p, seen : To(r, [phase |-> "activated", p |-> p, seen |-> seen])
      BY <2>7 DEF ProvisionDone
    <3>2. Elsewhere
      BY <2>7 DEF ProvisionDone, history
    <3>3. QED
      BY <1>1, <3>1, <3>2
  <2>8. CASE ProvisionFails(r)
    <3>1. \E p : To(r, [phase |-> "failing", p |-> p])
      BY <2>8 DEF ProvisionFails
    <3>2. Elsewhere
      BY <2>8 DEF ProvisionFails, history
    <3>3. QED
      BY <1>1, <3>1, <3>2
  <2>9. QED
    BY <1>5, <2>1, <2>2, <2>4, <2>5, <2>6, <2>7, <2>8
<1>6. CASE \E p \in Payments : FinalizePayment(p) \/ LateProvision(p)
  BY <1>2, <1>6 DEF FinalizePayment, LateProvision, history
<1>7. CASE \E t \in Tenants, ph \in Phones : RegisterCustomer(t, ph)
  BY <1>2, <1>7 DEF RegisterCustomer, history
<1>8. CASE \E x \in Walkins : CreateSubscription(x)
  BY <1>2, <1>8 DEF CreateSubscription
<1>9. CASE \E r \in Workers, x \in Clicks : ActivateSubscription(r, x)
  <2>1. PICK r \in Workers, x \in Clicks : ActivateSubscription(r, x)
    BY <1>9
  <2>2. To(r, [phase |-> "staff", x |-> x]) /\ Elsewhere
    BY <2>1 DEF ActivateSubscription, history
  <2>3. QED
    BY <1>1, <2>2
<1>10. CASE \E v \in Vouchers : GenerateBatch(v)
  BY <1>2, <1>10 DEF GenerateBatch, history
<1>11. CASE \E r \in Workers, v \in Vouchers : Redeem(r, v)
  <2>1. PICK r \in Workers, v \in Vouchers : Redeem(r, v)
    BY <1>11
  <2>2. To(r, [phase |-> "redeem", v |-> v]) /\ Elsewhere
    BY <2>1 DEF Redeem, history
  <2>3. QED
    BY <1>1, <2>2
<1>12. CASE UNCHANGED vars
  BY <1>2, <1>12 DEF vars
<1>13. QED
  BY <1>3, <1>4, <1>5, <1>6, <1>7, <1>8, <1>9, <1>10, <1>11, <1>12 DEF Next

----------------------------------------------------------------------------
(* What remains of the types *)

RestTypes ==
    /\ customers \subseteq Tenants \X Phones
    /\ cast \in Casts
    /\ crashes \in 0 .. MaxCrashes

(* A customer is of the tenant behind the session, with the phone asked.   *)
LEMMA RestStep == CoreInv /\ RestTypes /\ [Next]_vars => RestTypes'
<1> SUFFICES ASSUME CoreInv, RestTypes, [Next]_vars PROVE RestTypes'
  OBVIOUS
<1>1. cast' = cast
  BY DEF Next, vars, history, IssueSession, SessionExpires, ResolveSession, StartActivation,
     RateLimited, Purchase, Collide, CommitPurchase, BeginProvisioning, ProvisionDone,
     ProvisionFails, CommitActivation, RecordFailure, CommitStaff, CommitRedeem, Crash,
     FinalizePayment, LateProvision, RegisterCustomer, CreateSubscription,
     ActivateSubscription, GenerateBatch, Redeem
<1>2. crashes' = crashes \/ (crashes < MaxCrashes /\ crashes' = crashes + 1)
  BY DEF Next, vars, history, IssueSession, SessionExpires, ResolveSession, StartActivation,
     RateLimited, Purchase, Collide, CommitPurchase, BeginProvisioning, ProvisionDone,
     ProvisionFails, CommitActivation, RecordFailure, CommitStaff, CommitRedeem, Crash,
     FinalizePayment, LateProvision, RegisterCustomer, CreateSubscription,
     ActivateSubscription, GenerateBatch, Redeem
<1>3. \/ customers' = customers
      \/ \E r \in Workers : CommitPurchase(r)
      \/ \E t \in Tenants, ph \in Phones : RegisterCustomer(t, ph)
  BY DEF Next, vars, IssueSession, SessionExpires, ResolveSession, StartActivation,
     RateLimited, Purchase, Collide, BeginProvisioning, ProvisionDone,
     ProvisionFails, CommitActivation, RecordFailure, CommitStaff, CommitRedeem, Crash,
     FinalizePayment, LateProvision, CreateSubscription,
     ActivateSubscription, GenerateBatch, Redeem
<1>4. ASSUME NEW r \in Workers, CommitPurchase(r)
      PROVE  customers' \subseteq Tenants \X Phones
  <2>1. job[r].phase = "bought" /\ job[r] \in Jobs
    BY <1>4 DEF CommitPurchase, CoreInv, Types
  <2>2. PICK p \in Payments : p = job[r].p
    BY <2>1, JobPayment DEF Buying
  <2>3. CustomerOf(p) \in Tenants \X Phones
    BY AttemptAssumption DEF CustomerOf
  <2>4. QED
    BY <1>4, <2>2, <2>3 DEF CommitPurchase, RestTypes
<1>5. customers' \subseteq Tenants \X Phones
  <2>1. CASE customers' = customers
    BY <2>1 DEF RestTypes
  <2>2. CASE \E t \in Tenants, ph \in Phones : RegisterCustomer(t, ph)
    <3>1. PICK t \in Tenants, ph \in Phones : customers' = customers \cup {<<t, ph>>}
      BY <2>2 DEF RegisterCustomer
    <3>2. QED
      BY <3>1 DEF RestTypes
  <2>3. QED
    BY <1>3, <1>4, <2>1, <2>2
<1>6. crashes' \in 0 .. MaxCrashes
  BY <1>2, WorkerAssumption DEF RestTypes
<1>7. QED
  BY <1>1, <1>5, <1>6 DEF RestTypes

----------------------------------------------------------------------------
(* The theorems *)

(***************************************************************************)
(* Rows, RADIUS users and jobs are well formed in every state (TypeOK).    *)
(***************************************************************************)
THEOREM TypeCorrect == Spec => []TypeOK
<1>1. Init => RestTypes
  BY WorkerAssumption DEF Init, RestTypes
<1>2. CoreInv /\ SessionInv /\ RestTypes => TypeOK
  BY DEF CoreInv, Types, SessionInv, SessionTypes, RestTypes, TypeOK
<1>3. Spec => [](CoreInv /\ SessionInv /\ RestTypes)
  BY <1>1, CoreInit, CoreStep, SessionInit, SessionStep, RestStep, PTL DEF Spec
<1>4. QED
  BY <1>2, <1>3, PTL

(***************************************************************************)
(* A voucher pays for one subscription, however many redeem it at the same *)
(* time and wherever a request dies (vouchers.py, redeem).                 *)
(***************************************************************************)
THEOREM OneSubscription == Spec => []VoucherSpentOnce
<1>1. CoreInv => VoucherSpentOnce
  BY DEF CoreInv
<1>2. QED
  BY <1>1, CoreHolds, PTL

(***************************************************************************)
(* FreeRADIUS accepts no password of a payment that is not completed: not  *)
(* after a retry, a lost answer or a request carried out late              *)
(* (captive_activation.py).                                                *)
(***************************************************************************)
THEOREM MoneyFirst == Spec => []AccessOnlyIfPaid
<1>1. CoreInv => AccessOnlyIfPaid
  BY DEF CoreInv
<1>2. QED
  BY <1>1, CoreHolds, PTL

(***************************************************************************)
(* What staff sell is activated once, however many click at the same time  *)
(* (subscriptions.py, activate).                                           *)
(***************************************************************************)
THEOREM OnePeriod == Spec => []SoldForOnePeriod
<1>1. CoreInv => SoldForOnePeriod
  BY DEF CoreInv
<1>2. QED
  BY <1>1, CoreHolds, PTL

(***************************************************************************)
(* What the status page's credentials promise: the subscription runs, its  *)
(* group exists, FreeRADIUS accepts some password of the phone, and the    *)
(* one shown if the phone never paid for another purchase.  If it did, the *)
(* retry of an earlier one may have replaced the password                  *)
(* (captive_portal.py, get_payment_status; captive_activation.py:139-149). *)
(***************************************************************************)
THEOREM CredentialsWork == Spec => []ShownCredentialsWork
<1>1. CoreInv => ShownCredentialsWork
  <2>1. SUFFICES ASSUME CoreInv, NEW p \in Payments, GetPaymentStatus(p).credentials # {}
                 PROVE  /\ sub[p] = "ACTIVE" /\ PackageOf[p] \in groups
                        /\ radcheck[PhoneOf[p]] # {}
                        /\ OnlyPurchase(p) =>
                              radcheck[PhoneOf[p]] = GetPaymentStatus(p).credentials
    BY DEF ShownCredentialsWork
  <2>2. /\ Paid(p) /\ pay[p].activation = "ACTIVE"
        /\ GetPaymentStatus(p).credentials = {p}
    BY <2>1 DEF GetPaymentStatus, Paid
  <2>3. sub[p] = "ACTIVE" /\ Provisioned(p)
    BY <2>1, <2>2 DEF CoreInv, PaymentsFit
  <2>4. ASSUME OnlyPurchase(p) PROVE radcheck[PhoneOf[p]] = {p}
    <3>1. PhoneOf[p] \in Phones
      BY AttemptAssumption
    <3>2. radcheck[PhoneOf[p]] \subseteq Payments
      BY <2>1, <3>1 DEF CoreInv, Types
    <3>3. \A q \in radcheck[PhoneOf[p]] : q = p
      BY <2>1, <2>4, <3>1, <3>2 DEF CoreInv, AccessOnlyIfPaid, OnlyPurchase
    <3>4. QED
      BY <2>3, <2>4, <3>3 DEF Provisioned
  <2>5. QED
    BY <2>2, <2>3, <2>4 DEF Provisioned
<1>2. QED
  BY <1>1, CoreHolds, PTL

(***************************************************************************)
(* One session sends no more prompts after its first attempt than there    *)
(* were requests beside it (captive_portal.py, initiate_payment).          *)
(***************************************************************************)
THEOREM PromptsAreBounded == Spec => []PromptsBounded
<1>1. SessionInv => PromptsBounded
  <2>1. SUFFICES ASSUME SessionInv, NEW s \in Sessions
                 PROVE  prompts[s] <= Cardinality(Workers) - 1
    BY DEF PromptsBounded
  <2>2. Waiting(s) \in SUBSET Workers
    BY DEF Waiting
  <2>3. /\ prompts[s] \in Nat /\ Cardinality(Waiting(s)) \in Nat
        /\ Cardinality(Workers) \in Nat /\ Cardinality(Workers) >= 1
    BY <2>1, <2>2, WaitingFinite DEF SessionInv, SessionTypes
  <2>4. QED
    BY <2>1, <2>3 DEF SessionInv, PromptsFit
<1>2. Spec => []SessionInv
  BY CoreInit, CoreStep, SessionInit, SessionStep, PTL DEF Spec
<1>3. QED
  BY <1>1, <1>2, PTL

----------------------------------------------------------------------------
(* Access keeps to PaymentLife *)

(* The activation of a payment has a status from the payment on.           *)
OwedFit == \A p \in Payments : pay[p].activation # "NULL" <=> Paid(p)

Lifted == [p \in Payments |-> StageOf(pay[p].status)]
Queued == {p \in Payments : pay[p].activation # "NULL"}

(* The stage of each status.                                               *)
LEMMA StageKinds ==
    /\ StageOf("NONE") = "new" /\ StageOf("STK_SENT") = "open"
    /\ StageOf("COMPLETED") = "paid" /\ StageOf("FAILED") = "FAILED"
BY DEF StageOf

(* What a step that writes one payment's row does to stages and debts.     *)
LEMMA OneRow ==
    ASSUME Types, NEW p \in Payments, NEW x \in PayRows, pay' = [pay EXCEPT ![p] = x]
    PROVE  /\ pay'[p] = x /\ \A q \in Payments \ {p} : pay'[q] = pay[q]
           /\ Lifted' = [Lifted EXCEPT ![p] = StageOf(x.status)]
           /\ Lifted[p] = StageOf(pay[p].status)
           /\ Queued' = IF x.activation # "NULL" THEN Queued \cup {p} ELSE Queued \ {p}
<1>1. pay'[p] = x /\ \A q \in Payments \ {p} : pay'[q] = pay[q]
  BY DEF Types
<1>2. Lifted' = [Lifted EXCEPT ![p] = StageOf(x.status)]
  <2>1. Lifted' = [q \in Payments |-> StageOf(pay'[q].status)]
    BY DEF Lifted, StageOf
  <2>2. [Lifted EXCEPT ![p] = StageOf(x.status)] =
           [q \in Payments |-> IF q = p THEN StageOf(x.status) ELSE StageOf(pay[q].status)]
    BY DEF Lifted
  <2>3. \A q \in Payments :
           StageOf(pay'[q].status) = IF q = p THEN StageOf(x.status) ELSE StageOf(pay[q].status)
    BY <1>1
  <2>4. QED
    BY <2>1, <2>2, <2>3
<1>3. Lifted[p] = StageOf(pay[p].status)
  BY DEF Lifted
<1>4. Queued' = IF x.activation # "NULL" THEN Queued \cup {p} ELSE Queued \ {p}
  BY <1>1 DEF Queued
<1>5. QED
  BY <1>1, <1>2, <1>3, <1>4

(* The commit of a purchase makes the row of a new payment.                *)
LEMMA PurchaseLives ==
    ASSUME CoreInv, OwedFit, NEW r \in Workers, CommitPurchase(r)
    PROVE  OwedFit' /\ Life!Next
<1>1. job[r].phase = "bought" /\ job[r] \in Jobs /\ Good(job[r])
  BY DEF CommitPurchase, CoreInv, Types, JobsGood
<1>2. job[r] \in [phase : {"bought"}, p : Payments, status : {"STK_SENT", "FAILED"}]
  BY <1>1, JobKinds
<1>3. PICK p \in Payments, s \in {"STK_SENT", "FAILED"} : p = job[r].p /\ s = job[r].status
  BY <1>2
<1>4. PICK x \in PayRows : /\ pay' = [pay EXCEPT ![p] = x]
                           /\ x.status = s /\ x.activation = pay[p].activation
  <2>1. pay' = [pay EXCEPT ![p] = [pay[p] EXCEPT !.status = s]]
    BY <1>3 DEF CommitPurchase
  <2>2. pay[p] \in PayRows /\ s \in PayStatus
    BY DEF CoreInv, Types, PayStatus
  <2>3. /\ [pay[p] EXCEPT !.status = s] \in PayRows
        /\ [pay[p] EXCEPT !.status = s].status = s
        /\ [pay[p] EXCEPT !.status = s].activation = pay[p].activation
    BY <2>2, RowUpdates
  <2>4. QED
    BY <2>1, <2>3
<1>5. pay[p].status = "NONE"
  BY <1>1, <1>3 DEF Good, Buying
<1>6. x.activation = "NULL" /\ p \notin Queued
  BY <1>4, <1>5 DEF OwedFit, Paid, Queued
<1>7. /\ pay'[p] = x /\ \A q \in Payments \ {p} : pay'[q] = pay[q]
      /\ Lifted' = [Lifted EXCEPT ![p] = StageOf(s)] /\ Lifted[p] = "new"
      /\ Queued' = Queued
  <2>1. /\ pay'[p] = x /\ \A q \in Payments \ {p} : pay'[q] = pay[q]
        /\ Lifted' = [Lifted EXCEPT ![p] = StageOf(x.status)]
        /\ Lifted[p] = StageOf(pay[p].status)
        /\ Queued' = IF x.activation # "NULL" THEN Queued \cup {p} ELSE Queued \ {p}
    BY <1>4, OneRow DEF CoreInv
  <2>2. StageOf(x.status) = StageOf(s) /\ StageOf(pay[p].status) = "new"
    BY <1>4, <1>5, StageKinds
  <2>3. Queued \ {p} = Queued
    BY <1>6
  <2>4. QED
    BY <1>6, <2>1, <2>2, <2>3
<1>8. OwedFit'
  BY <1>4, <1>6, <1>7 DEF OwedFit, Paid
<1>9. Life!Attempt(p) \/ Life!Close(p)
  <2>1. CASE s = "STK_SENT"
    BY <1>7, <2>1, StageKinds DEF Life!Attempt, Life!Move, Lifted, Queued
  <2>2. CASE s = "FAILED"
    BY <1>7, <2>2, StageKinds DEF Life!Close, Life!Move, Lifted, Queued
  <2>3. QED
    BY <2>1, <2>2
<1>10. QED
  BY <1>8, <1>9 DEF Life!Next, Life!Attempt, Life!Close, Life!Move

(* The payment ends: paid, and owed, or failed.                            *)
LEMMA FinalizeLives ==
    ASSUME CoreInv, OwedFit, NEW p \in Payments, FinalizePayment(p)
    PROVE  OwedFit' /\ Life!Next
<1>1. /\ pay[p] \in PayRows /\ pay[p].status = "STK_SENT"
      /\ pay[p].activation = "NULL" /\ p \notin Queued
  BY DEF FinalizePayment, Live, CoreInv, Types, OwedFit, Paid, Queued
<1>2. CASE pay' = [pay EXCEPT ![p] = [status |-> "COMPLETED", activation |-> "PENDING"]]
  <2>1. PICK x \in PayRows : /\ pay' = [pay EXCEPT ![p] = x]
                             /\ x.status = "COMPLETED" /\ x.activation = "PENDING"
    <3>1. [status |-> "COMPLETED", activation |-> "PENDING"] \in PayRows
      BY DEF PayRows, PayStatus, Activation
    <3>2. QED
      BY <1>2, <3>1
  <2>2. /\ pay'[p] = x /\ \A q \in Payments \ {p} : pay'[q] = pay[q]
        /\ Lifted' = [Lifted EXCEPT ![p] = "paid"] /\ Lifted[p] = "open"
        /\ Queued' = Queued \cup {p}
    <3>1. /\ pay'[p] = x /\ \A q \in Payments \ {p} : pay'[q] = pay[q]
          /\ Lifted' = [Lifted EXCEPT ![p] = StageOf(x.status)]
          /\ Lifted[p] = StageOf(pay[p].status)
          /\ Queued' = IF x.activation # "NULL" THEN Queued \cup {p} ELSE Queued \ {p}
      BY <2>1, OneRow DEF CoreInv
    <3>2. StageOf(x.status) = "paid" /\ StageOf(pay[p].status) = "open"
      BY <1>1, <2>1, StageKinds
    <3>3. QED
      BY <2>1, <3>1, <3>2
  <2>3. OwedFit'
    BY <2>1, <2>2 DEF OwedFit, Paid
  <2>4. Life!Pay(p)
    BY <2>2 DEF Life!Pay, Life!Move, Lifted, Queued
  <2>5. QED
    BY <2>3, <2>4 DEF Life!Next, Life!Pay, Life!Move
<1>3. CASE pay' = [pay EXCEPT ![p].status = "FAILED"]
  <2>1. PICK x \in PayRows : /\ pay' = [pay EXCEPT ![p] = x]
                             /\ x.status = "FAILED" /\ x.activation = "NULL"
    <3>1. pay' = [pay EXCEPT ![p] = [pay[p] EXCEPT !.status = "FAILED"]]
      BY <1>3
    <3>2. "FAILED" \in PayStatus
      BY DEF PayStatus
    <3>3. /\ [pay[p] EXCEPT !.status = "FAILED"] \in PayRows
          /\ [pay[p] EXCEPT !.status = "FAILED"].status = "FAILED"
          /\ [pay[p] EXCEPT !.status = "FAILED"].activation = pay[p].activation
      BY <1>1, <3>2, RowUpdates
    <3>4. QED
      BY <1>1, <3>1, <3>3
  <2>2. /\ pay'[p] = x /\ \A q \in Payments \ {p} : pay'[q] = pay[q]
        /\ Lifted' = [Lifted EXCEPT ![p] = "FAILED"] /\ Lifted[p] = "open"
        /\ Queued' = Queued
    <3>1. /\ pay'[p] = x /\ \A q \in Payments \ {p} : pay'[q] = pay[q]
          /\ Lifted' = [Lifted EXCEPT ![p] = StageOf(x.status)]
          /\ Lifted[p] = StageOf(pay[p].status)
          /\ Queued' = IF x.activation # "NULL" THEN Queued \cup {p} ELSE Queued \ {p}
      BY <2>1, OneRow DEF CoreInv
    <3>2. StageOf(x.status) = "FAILED" /\ StageOf(pay[p].status) = "open"
      BY <1>1, <2>1, StageKinds
    <3>3. Queued \ {p} = Queued
      BY <1>1
    <3>4. QED
      BY <2>1, <3>1, <3>2, <3>3
  <2>3. OwedFit'
    BY <2>1, <2>2 DEF OwedFit, Paid
  <2>4. Life!Close(p)
    BY <2>2 DEF Life!Close, Life!Move, Lifted, Queued
  <2>5. QED
    BY <2>3, <2>4 DEF Life!Next, Life!Close, Life!Move
<1>4. QED
  BY <1>2, <1>3 DEF FinalizePayment

(* An activation that ends, well or not, is of a payment that was paid.    *)
LEMMA ActivationLives ==
    ASSUME CoreInv, OwedFit, NEW r \in Workers, CommitActivation(r) \/ RecordFailure(r)
    PROVE  OwedFit' /\ UNCHANGED <<Lifted, Queued>>
<1>1. job[r].phase \in {"activated", "failing"} /\ job[r] \in Jobs /\ Good(job[r])
  BY DEF CommitActivation, RecordFailure, CoreInv, Types, JobsGood
<1>2. PICK p \in Payments : p = job[r].p
  BY <1>1, JobPayment DEF Activating
<1>3. PICK a \in {"ACTIVE", "FAILED"} :
        pay' = [pay EXCEPT ![p] = [pay[p] EXCEPT !.activation = a]]
  BY <1>2 DEF CommitActivation, RecordFailure
<1>4. PICK x \in PayRows : /\ pay' = [pay EXCEPT ![p] = x]
                           /\ x.status = pay[p].status /\ x.activation # "NULL"
  <2>1. pay[p] \in PayRows /\ a \in Activation /\ a # "NULL"
    BY DEF CoreInv, Types, Activation
  <2>2. /\ [pay[p] EXCEPT !.activation = a] \in PayRows
        /\ [pay[p] EXCEPT !.activation = a].activation = a
        /\ [pay[p] EXCEPT !.activation = a].status = pay[p].status
    BY <2>1, RowUpdates
  <2>3. QED
    BY <1>3, <2>1, <2>2
<1>5. Paid(p) /\ p \in Queued
  BY <1>1, <1>2 DEF Good, Activating, OwedFit, Queued
<1>6. /\ pay'[p] = x /\ \A q \in Payments \ {p} : pay'[q] = pay[q]
      /\ Lifted' = Lifted /\ Queued' = Queued
  <2>1. [Lifted EXCEPT ![p] = Lifted[p]] = Lifted
    BY DEF Lifted
  <2>2. /\ pay'[p] = x /\ \A q \in Payments \ {p} : pay'[q] = pay[q]
        /\ Lifted' = [Lifted EXCEPT ![p] = StageOf(x.status)]
        /\ Lifted[p] = StageOf(pay[p].status)
        /\ Queued' = IF x.activation # "NULL" THEN Queued \cup {p} ELSE Queued \ {p}
    BY <1>4, OneRow DEF CoreInv
  <2>3. Queued \cup {p} = Queued
    BY <1>5
  <2>4. QED
    BY <1>4, <2>1, <2>2, <2>3
<1>7. OwedFit'
  BY <1>4, <1>5, <1>6 DEF OwedFit, Paid
<1>8. QED
  BY <1>6, <1>7

(* One case for each action: the others leave the payments' rows alone.    *)
LEMMA LifeStep ==
    CoreInv /\ OwedFit /\ [Next]_vars => OwedFit' /\ [Life!Next]_<<Lifted, Queued>>
<1> SUFFICES ASSUME CoreInv, OwedFit, [Next]_vars
             PROVE  OwedFit' /\ [Life!Next]_<<Lifted, Queued>>
  OBVIOUS
<1>1. pay' = pay => OwedFit' /\ UNCHANGED <<Lifted, Queued>>
  BY DEF OwedFit, Paid, Lifted, Queued
<1>2. ASSUME NEW s \in Sessions, IssueSession(s) \/ SessionExpires(s) PROVE pay' = pay
  BY <1>2 DEF IssueSession, SessionExpires
<1>3. ASSUME NEW r \in Workers, NEW p \in Payments,
             ResolveSession(r, p) \/ StartActivation(r, p)
      PROVE  pay' = pay
  BY <1>3 DEF ResolveSession, StartActivation
<1>4. ASSUME NEW r \in Workers,
             \/ RateLimited(r) \/ Purchase(r) \/ Collide(r)
             \/ BeginProvisioning(r) \/ ProvisionDone(r) \/ ProvisionFails(r)
             \/ CommitStaff(r) \/ CommitRedeem(r) \/ Crash(r)
      PROVE  pay' = pay
  BY <1>4 DEF RateLimited, Purchase, Collide, BeginProvisioning, ProvisionDone,
              ProvisionFails, CommitStaff, CommitRedeem, Crash
<1>5. ASSUME NEW p \in Payments, LateProvision(p) PROVE pay' = pay
  BY <1>5 DEF LateProvision
<1>6. ASSUME NEW t \in Tenants, NEW ph \in Phones, RegisterCustomer(t, ph) PROVE pay' = pay
  BY <1>6 DEF RegisterCustomer
<1>7. ASSUME NEW x \in Walkins, CreateSubscription(x) PROVE pay' = pay
  BY <1>7 DEF CreateSubscription
<1>8. ASSUME NEW r \in Workers, NEW x \in Clicks, ActivateSubscription(r, x) PROVE pay' = pay
  BY <1>8 DEF ActivateSubscription
<1>9. ASSUME NEW v \in Vouchers, GenerateBatch(v) PROVE pay' = pay
  BY <1>9 DEF GenerateBatch
<1>10. ASSUME NEW r \in Workers, NEW v \in Vouchers, Redeem(r, v) PROVE pay' = pay
  BY <1>10 DEF Redeem
<1>11. UNCHANGED vars => pay' = pay
  BY DEF vars
<1>12. QED
  BY <1>1, <1>2, <1>3, <1>4, <1>5, <1>6, <1>7, <1>8, <1>9, <1>10, <1>11,
     PurchaseLives, FinalizeLives, ActivationLives DEF Next

(***************************************************************************)
(* Purchases and activations keep to PaymentLife, as Collections does: a   *)
(* payment ends once, and what a payer is owed is never taken back by a    *)
(* retry, a crash or the late record of a failure.                         *)
(***************************************************************************)
THEOREM LifeKept == Spec => LifeOfPayment
<1>1. Init => Life!Init
  BY StageKinds DEF Init, Life!Init
<1>2. Init => OwedFit
  BY DEF Init, OwedFit, Paid
<1>3. CoreInv /\ OwedFit /\ [Next]_vars =>
        OwedFit' /\ [Life!Next]_<<[p \in Payments |-> StageOf(pay[p].status)],
                                 {p \in Payments : pay[p].activation # "NULL"}>>
  BY LifeStep DEF Lifted, Queued
<1>4. QED
  BY <1>1, <1>2, <1>3, CoreHolds, PTL DEF Spec, LifeOfPayment, Life!Spec
=============================================================================
