------------------------- MODULE CollectionsProofs -------------------------
(* Proofs about Collections and the sweep that drives it, for every number *)
(* of payments, tenants, requests and crashes.                             *)
EXTENDS CollectionSweep, Sums, TLAPS

----------------------------------------------------------------------------
(* The operators the handlers are built from *)

(* A credit is a movement, and not the empty one.                          *)
LEMMA CollectMoves ==
    /\ Collect \in Moves /\ NoMove \in Moves
    /\ Collect # NoMove
BY DEF Collect, NoMove, Moves, Buckets, None

(* A credited wallet is a wallet (_move_bucket).                           *)
LEMMA ApplyWallet ==
    ASSUME NEW a \in Int, NEW seen \in Wallets, NEW live \in Wallets
    PROVE  Apply(Collect, a, seen, live) \in Wallets
BY DEF Apply, Collect, Wallets, Buckets, None

(* The share of a payment is a number of cents.                            *)
LEMMA ShareType ==
    ASSUME NEW p \in Payments
    PROVE  Share[p] \in Int
<1>1. Amount[p] \in Nat /\ Rate \in Nat
  BY AmountAssumption, RateAssumption
<1>2. Amount[p] * Rate + 5000 \in Int
  BY <1>1
<1>3. PICK n \in Int : n = Amount[p] * Rate + 5000
  BY <1>2
<1>4. n \div 10000 \in Int
  BY <1>3
<1>5. QED
  BY <1>1, <1>3, <1>4 DEF Share, TenantShare, PlatformFee

(* The kinds of statuses.                                                  *)
LEMMA StatusKinds ==
    /\ Open \subseteq Statuses /\ Terminal \subseteq Statuses
    /\ Unsuccessful \subseteq Terminal \ {"COMPLETED"}
    /\ "COMPLETED" \in Terminal /\ "NONE" \in Statuses
    /\ "NONE" \notin Open \cup Terminal
    /\ "COMPLETED" \notin Open
    /\ Statuses = {"NONE"} \cup Open \cup Terminal
    /\ {"AMBIGUOUS", "REQUIRES_REVIEW", "PENDING", "INPROGRESS"} \subseteq Open
    /\ {"FAILED", "STK_SENT"} \subseteq Statuses \ {"NONE", "COMPLETED"}
BY DEF Open, Terminal, Unsuccessful, Statuses

(* Selcom's words are those apply_order_status tells apart.                *)
LEMMA Replies ==
    ASSUME NEW o \in Orders, o # "none"
    PROVE  /\ \/ Reply(o) \in {"COMPLETED", "ODD", "WEIRD"}
              \/ Reply(o) \in Unsuccessful
              \/ Reply(o) \in Waiting
           /\ Reply(o) = "COMPLETED" <=> o = "COMPLETED"
BY DEF Reply, Waiting, Orders, Prompted, Unsuccessful

(***************************************************************************)
(* What a request may leave for its commit: a terminal row as it is; the   *)
(* credit with, and only with, the step to COMPLETED; COMPLETED only for a *)
(* paid order; and the activation queued with a completed purchase.        *)
(***************************************************************************)
WriteOK(p, x, m) ==
    /\ x.status # "NONE"
    /\ row[p].status \in Terminal => x = row[p]
    /\ m = Collect <=> x.status = "COMPLETED" /\ row[p].status # "COMPLETED"
    /\ x.status = "COMPLETED" => order[p] = "COMPLETED"
    /\ x.activation = "PENDING" <=> x.status = "COMPLETED" /\ p \in Captive

PaidRow(p) ==
    /\ row[p].status = "COMPLETED" => order[p] = "COMPLETED"
    /\ row[p].activation = "PENDING" <=> row[p].status = "COMPLETED" /\ p \in Captive

(* What apply_order_status answers is a row and a movement, and safe.      *)
LEMMA Applied ==
    ASSUME TypeOK, NEW p \in Payments, PaidRow(p),
           row[p].status # "NONE", order[p] # "none"
    PROVE  LET res == ApplyOrderStatus(p, Reply(order[p]))
           IN  res.row \in Rows /\ res.move \in {Collect, NoMove} /\ WriteOK(p, res.row, res.move)
<1> DEFINE word == Reply(order[p])
           res == ApplyOrderStatus(p, word)
<1>1. /\ \/ word \in {"COMPLETED", "ODD", "WEIRD"}
         \/ word \in Unsuccessful
         \/ word \in Waiting
      /\ word = "COMPLETED" <=> order[p] = "COMPLETED"
  BY Replies DEF TypeOK
<1>2. row[p] \in Rows /\ row[p].status \in Open \cup Terminal
  BY StatusKinds DEF TypeOK, Rows
<1> HIDE DEF word
<1>4. ASSUME row[p].status \in Terminal
      PROVE  res.row \in Rows /\ res.move \in {Collect, NoMove} /\ WriteOK(p, res.row, res.move)
  <2>1. res = Result(row[p], NoMove)
    BY <1>4 DEF ApplyOrderStatus, Open, Terminal, Unsuccessful
  <2>2. QED
    BY <2>1, <1>2, <1>4, StatusKinds, CollectMoves DEF Result, WriteOK, PaidRow
<1>5. ASSUME row[p].status \in Open
      PROVE  res.row \in Rows /\ res.move \in {Collect, NoMove} /\ WriteOK(p, res.row, res.move)
  <2>1. row[p].status \notin Terminal /\ row[p].status # "COMPLETED"
    BY <1>5 DEF Open, Terminal, Unsuccessful
  <2>2. CASE word = "COMPLETED"
    <3>1. res = Result(FinalizePayment(p), Collect)
      BY <1>5, <2>1, <2>2 DEF ApplyOrderStatus, Waiting, Unsuccessful
    <3>2. FinalizePayment(p) \in Rows
      BY StatusKinds DEF FinalizePayment, FinalizeCaptivePayment, CreditTenantWallet, Rows
    <3>3. /\ FinalizePayment(p).status = "COMPLETED"
          /\ FinalizePayment(p).activation = "PENDING" <=> p \in Captive
      BY DEF FinalizePayment, FinalizeCaptivePayment, CreditTenantWallet, ProviderFor
    <3>4. QED
      BY <3>1, <3>2, <3>3, <1>1, <2>1, <2>2, StatusKinds DEF Result, WriteOK
  <2>3. ASSUME NEW s \in Statuses \ {"NONE", "COMPLETED"}, res = Result(Transition(p, s), NoMove)
        PROVE  res.row \in Rows /\ res.move \in {Collect, NoMove} /\ WriteOK(p, res.row, res.move)
    <3>1. res.row = [status |-> s, activation |-> row[p].activation] /\ res.move = NoMove
      BY <1>2, <2>3 DEF Result, Transition, Rows
    <3>2. row[p].activation \in {"NULL", "PENDING"} /\ row[p].activation # "PENDING"
      BY <1>2, <2>1 DEF Rows, PaidRow
    <3>3. QED
      BY <3>1, <3>2, <2>1, CollectMoves DEF WriteOK, Rows
  <2>4. CASE word \in {"ODD", "WEIRD"}
    <3>1. res = Result(Transition(p, "AMBIGUOUS"), NoMove)
      BY <1>5, <2>1, <2>4 DEF ApplyOrderStatus, Waiting, Unsuccessful
    <3>2. QED
      BY <3>1, <2>3, StatusKinds
  <2>5. CASE word \in Unsuccessful
    <3>1. res = Result(Transition(p, word), NoMove)
      BY <1>5, <2>1, <2>5 DEF ApplyOrderStatus, Waiting, Unsuccessful
    <3>2. QED
      BY <3>1, <2>3, <2>5, StatusKinds
  <2>6. CASE word \in Waiting /\ row[p].status = "REQUIRES_REVIEW"
    <3>1. res = Result(row[p], NoMove)
      BY <1>5, <2>1, <2>6 DEF ApplyOrderStatus, Waiting, Unsuccessful
    <3>2. QED
      BY <3>1, <1>2, <2>1, <2>6, CollectMoves DEF Result, WriteOK, PaidRow
  <2>7. CASE word \in Waiting /\ row[p].status # "REQUIRES_REVIEW"
    <3>1. PICK s \in {"REQUIRES_REVIEW", "PENDING", "INPROGRESS"} :
             s = IF p \in old THEN "REQUIRES_REVIEW" ELSE word
      BY <2>7 DEF Waiting
    <3>2. res = Result(Transition(p, s), NoMove)
      BY <1>5, <2>1, <2>7, <3>1 DEF ApplyOrderStatus, Waiting, Unsuccessful
    <3>3. QED
      BY <3>2, <2>3, StatusKinds
  <2>8. QED
    BY <1>1, <2>2, <2>4, <2>5, <2>6, <2>7
<1>6. res.row \in Rows /\ res.move \in {Collect, NoMove} /\ WriteOK(p, res.row, res.move)
  BY <1>2, <1>4, <1>5
<1>7. QED
  BY <1>6 DEF word

----------------------------------------------------------------------------
(* The inductive invariant of Collections *)

(***************************************************************************)
(* CreditedIffCompleted made inductive: one request at a time holds a      *)
(* payment, and what it will write is safe to commit.                      *)
(***************************************************************************)
OneHolder ==
    \A r, s \in Workers :
        job[r].phase = "commit" /\ job[s].phase = "commit" /\ job[r].p = job[s].p => r = s

SafeWrites ==
    \A r \in Workers :
        job[r].phase = "commit" => WriteOK(job[r].p, job[r].write, job[r].move)

CreditInv ==
    /\ TypeOK
    /\ CreditedIffCompleted
    /\ \A p \in Payments : PaidRow(p)
    /\ OneHolder
    /\ SafeWrites

(* A job in its commit phase holds a payment, a row and a movement.        *)
LEMMA CommitShape ==
    ASSUME TypeOK, NEW r \in Workers, job[r].phase = "commit"
    PROVE  /\ job[r].p \in Payments /\ job[r].write \in Rows
           /\ job[r].move \in {Collect, NoMove} /\ job[r].seen \in Wallets
<1>1. job[r] \in CommitJobs
  BY DEF TypeOK, Jobs, IdleJob
<1>2. QED
  BY <1>1 DEF CommitJobs

(* What all handlers have in common: the job they leave is safe.           *)
LEMMA Handled ==
    ASSUME CreditInv, NEW r \in Workers, NEW p \in Payments, NEW x \in Rows,
           NEW m \in {Collect, NoMove}, Finish(r, p, x, m), ~Locked(p), WriteOK(p, x, m)',
           order' \in [Payments -> Orders],
           \A q \in Payments : order[q] = "COMPLETED" => order'[q] = "COMPLETED",
           UNCHANGED <<row, wallet, terms, old, credits, lost, crashes>>
    PROVE  CreditInv'
<1>1. /\ job'[r] = [phase |-> "commit", p |-> p, write |-> x, move |-> m, seen |-> wallet[TenantOf[p]]]
      /\ \A s \in Workers \ {r} : job'[s] = job[s]
  BY DEF Finish, CreditInv, TypeOK
<1>2. TypeOK'
  <2>1. wallet[TenantOf[p]] \in Wallets
    BY TenantAssumption DEF CreditInv, TypeOK
  <2>2. job' \in [Workers -> Jobs]
    BY <2>1 DEF Finish, Jobs, CommitJobs, CreditInv, TypeOK
  <2>3. (lost \in BOOLEAN)'
    BY DEF CreditInv, TypeOK
  <2>4. QED
    BY <2>2, <2>3 DEF CreditInv, TypeOK
<1>3. CreditedIffCompleted'
  BY DEF CreditInv, CreditedIffCompleted
<1>4. (\A q \in Payments : PaidRow(q))'
  BY DEF CreditInv, PaidRow
<1>5. OneHolder'
  BY <1>1 DEF CreditInv, OneHolder, Locked
<1>6. SafeWrites'
  <2>1. ASSUME NEW s \in Workers \ {r}, job[s].phase = "commit"
        PROVE  WriteOK(job[s].p, job[s].write, job[s].move)'
    <3>1. job[s].p \in Payments
      BY <2>1, CommitShape DEF CreditInv
    <3>2. WriteOK(job[s].p, job[s].write, job[s].move)
      BY <2>1 DEF CreditInv, SafeWrites
    <3>3. QED
      BY <1>1, <3>1, <3>2 DEF WriteOK
  <2>2. WriteOK(job[r].p, job[r].write, job[r].move)'
    BY <1>1
  <2>3. QED
    BY <1>1, <2>1, <2>2 DEF SafeWrites
<1>7. QED
  BY <1>2, <1>3, <1>4, <1>5, <1>6 DEF CreditInv

(* A new attempt: STK_SENT or FAILED, whatever Selcom did with the order.  *)
LEMMA InitiateStep ==
    ASSUME CreditInv, NEW r \in Workers, NEW p \in Payments, Initiate(r, p)
    PROVE  CreditInv'
<1>1. PICK y \in CreateOrderAndSendStk :
        /\ order' = [order EXCEPT ![p] = y.order]
        /\ Finish(r, p, [EmptyRow EXCEPT !.status = y.status], NoMove)
  BY DEF Initiate
<1>2. y.status \in {"FAILED", "STK_SENT"} /\ y.order \in {"none", "open", "asked"}
  <2>1. CreateOrderMinimal = {"none", "open"}
    BY DEF CreateOrderMinimal, CallEnds
  <2>2. \A o \in CreateOrderMinimal : WalletPayment(o) \subseteq {"none", "open", "asked"}
    BY <2>1 DEF WalletPayment, CallEnds
  <2>3. CASE \E o \in CreateOrderMinimal : y = [status |-> "FAILED", order |-> o]
    BY <2>1, <2>3
  <2>4. CASE \E o \in CreateOrderMinimal : \E t \in {"FAILED", "STK_SENT"}, q \in WalletPayment(o) :
                y = [status |-> t, order |-> q]
    BY <2>2, <2>4
  <2>5. QED
    BY <1>1, <2>3, <2>4 DEF CreateOrderAndSendStk
<1>3. [EmptyRow EXCEPT !.status = y.status] = [status |-> y.status, activation |-> "NULL"]
  BY DEF EmptyRow
<1>4. [status |-> y.status, activation |-> "NULL"] \in Rows
  BY <1>2, StatusKinds DEF Rows
<1>5. order' \in [Payments -> Orders]
  BY <1>1, <1>2 DEF CreditInv, TypeOK, Orders, Prompted
<1>6. \A q \in Payments : order[q] = "COMPLETED" => order'[q] = "COMPLETED"
  BY <1>1 DEF Initiate, CreditInv, TypeOK
<1>7. WriteOK(p, [status |-> y.status, activation |-> "NULL"], NoMove)'
  BY <1>2, StatusKinds, CollectMoves DEF Initiate, WriteOK
<1>8. QED
  BY <1>1, <1>3, <1>4, <1>5, <1>6, <1>7, Handled DEF Initiate

(* What a query makes of a payment that has a row, with an order or none.  *)
LEMMA Queried ==
    ASSUME TypeOK, NEW p \in Payments, PaidRow(p), row[p].status # "NONE"
    PROVE  LET res == QueryResult(p)
           IN  res.row \in Rows /\ res.move \in {Collect, NoMove} /\ WriteOK(p, res.row, res.move)
<1>1. CASE order[p] = "none"
  <2>1. QueryResult(p) = Result(row[p], NoMove)
    BY <1>1 DEF QueryResult
  <2>2. row[p] \in Rows
    BY DEF TypeOK
  <2>3. QED
    BY <2>1, <2>2, CollectMoves DEF Result, WriteOK, PaidRow
<1>2. CASE order[p] # "none"
  BY <1>2, Applied DEF QueryResult
<1>3. QED
  BY <1>1, <1>2

(* A query of a payment that has a row, for webhook and sweep alike.       *)
LEMMA QueryStep ==
    ASSUME CreditInv, NEW r \in Workers, NEW p \in Payments, QueryAndApply(r, p),
           row[p].status # "NONE"
    PROVE  CreditInv'
<1> DEFINE res == QueryResult(p)
<1>1. res.row \in Rows /\ res.move \in {Collect, NoMove} /\ WriteOK(p, res.row, res.move)
  BY Queried DEF CreditInv
<1>2. Finish(r, p, res.row, res.move)
  BY DEF QueryAndApply
<1> HIDE DEF res
<1>3. PICK x \in Rows, m \in {Collect, NoMove} : Finish(r, p, x, m) /\ WriteOK(p, x, m)
  BY <1>1, <1>2
<1>4. /\ ~Locked(p)
      /\ UNCHANGED <<row, wallet, terms, order, old, credits, lost, crashes>>
  BY DEF QueryAndApply
<1>5. WriteOK(p, x, m)'
  BY <1>3, <1>4 DEF WriteOK
<1>6. QED
  BY <1>3, <1>4, <1>5, Handled DEF CreditInv, TypeOK

(* The commit of a safe job: the row, and the credit in the same step.     *)
LEMMA CommitStep ==
    ASSUME CreditInv, NEW r \in Workers, Commit(r)
    PROVE  CreditInv'
<1> DEFINE p == job[r].p
           x == job[r].write
           m == job[r].move
<1>1. /\ p \in Payments /\ x \in Rows /\ m \in {Collect, NoMove} /\ job[r].seen \in Wallets
      /\ WriteOK(p, x, m)
  BY CommitShape DEF Commit, CreditInv, SafeWrites
<1>2. /\ row' = [row EXCEPT ![p] = x]
      /\ credits' = [credits EXCEPT ![p] = IF m = Collect /\ @ < 2 THEN @ + 1 ELSE @]
      /\ job' = [job EXCEPT ![r] = IdleJob]
      /\ UNCHANGED <<terms, order, old, crashes>>
  BY DEF Commit
<1>3. /\ job'[r] = IdleJob
      /\ \A s \in Workers \ {r} : job'[s] = job[s]
  BY <1>2 DEF CreditInv, TypeOK
<1>4. \A s \in Workers \ {r} : job[s].phase = "commit" => job[s].p # p
  BY DEF CreditInv, OneHolder, Commit
<1>5. wallet' \in [Tenants -> Wallets]
  <2>1. TenantOf[p] \in Tenants /\ Share[p] \in Int
    BY <1>1, TenantAssumption, ShareType
  <2>2. Apply(Collect, Share[p], job[r].seen, wallet[TenantOf[p]]) \in Wallets
    BY <1>1, <2>1, ApplyWallet DEF CreditInv, TypeOK
  <2>3. wallet' = IF m = Collect
                  THEN [wallet EXCEPT ![TenantOf[p]] =
                           Apply(Collect, Share[p], job[r].seen, wallet[TenantOf[p]])]
                  ELSE wallet
    BY DEF Commit
  <2>4. QED
    BY <2>1, <2>2, <2>3 DEF CreditInv, TypeOK
<1>6. lost' \in BOOLEAN
  BY DEF Commit
<1> HIDE DEF p, x, m
<1>7. row' \in [Payments -> Rows] /\ credits' \in [Payments -> 0 .. 2]
  BY <1>1, <1>2 DEF CreditInv, TypeOK
<1>8. job' \in [Workers -> Jobs]
  BY <1>2 DEF CreditInv, TypeOK, Jobs
<1>9. TypeOK'
  BY <1>2, <1>5, <1>6, <1>7, <1>8 DEF CreditInv, TypeOK
<1>10. /\ row'[p] = x
       /\ \A q \in Payments \ {p} : row'[q] = row[q] /\ credits'[q] = credits[q]
  BY <1>1, <1>2 DEF CreditInv, TypeOK
<1>11. CreditedIffCompleted'
  <2>1. credits[p] = IF row[p].status = "COMPLETED" THEN 1 ELSE 0
    BY <1>1 DEF CreditInv, CreditedIffCompleted
  <2>2. credits'[p] = IF m = Collect /\ credits[p] < 2 THEN credits[p] + 1 ELSE credits[p]
    BY <1>1, <1>2 DEF CreditInv, TypeOK
  <2>3. CASE row[p].status = "COMPLETED"
    <3>1. x = row[p] /\ m # Collect
      BY <1>1, <2>3, StatusKinds DEF WriteOK
    <3>2. QED
      BY <1>10, <2>1, <2>2, <2>3, <3>1 DEF CreditInv, CreditedIffCompleted
  <2>4. CASE row[p].status # "COMPLETED"
    <3>1. m = Collect <=> x.status = "COMPLETED"
      BY <1>1, <2>4 DEF WriteOK
    <3>2. QED
      BY <1>10, <2>1, <2>2, <2>4, <3>1 DEF CreditInv, CreditedIffCompleted
  <2>5. QED
    BY <2>3, <2>4
<1>12. (\A q \in Payments : PaidRow(q))'
  BY <1>1, <1>2, <1>10 DEF CreditInv, PaidRow, WriteOK
<1>13. OneHolder'
  BY <1>3 DEF CreditInv, OneHolder, IdleJob
<1>14. SafeWrites'
  <2>1. ASSUME NEW s \in Workers \ {r}, job[s].phase = "commit"
        PROVE  WriteOK(job[s].p, job[s].write, job[s].move)'
    <3>1. job[s].p \in Payments \ {p}
      BY <1>4, <2>1, CommitShape DEF CreditInv
    <3>2. WriteOK(job[s].p, job[s].write, job[s].move)
      BY <2>1 DEF CreditInv, SafeWrites
    <3>3. QED
      BY <1>2, <1>3, <1>10, <3>1, <3>2 DEF WriteOK
  <2>2. QED
    BY <1>3, <2>1 DEF SafeWrites, IdleJob
<1>15. QED
  BY <1>9, <1>11, <1>12, <1>13, <1>14 DEF CreditInv

(* A step that touches neither rows nor credits, and no paid order.        *)
LEMMA AsideStep ==
    ASSUME CreditInv, TypeOK', UNCHANGED <<row, credits>>,
           \A q \in Payments : order[q] = "COMPLETED" => order'[q] = "COMPLETED",
           \A s \in Workers : job'[s] = job[s] \/ job'[s] = IdleJob
    PROVE  CreditInv'
<1>1. CreditedIffCompleted' /\ (\A q \in Payments : PaidRow(q))'
  BY DEF CreditInv, CreditedIffCompleted, PaidRow
<1>2. OneHolder'
  BY DEF CreditInv, OneHolder, IdleJob
<1>3. SafeWrites'
  <2>1. ASSUME NEW s \in Workers, job'[s].phase = "commit"
        PROVE  WriteOK(job[s].p, job[s].write, job[s].move)'
    <3>1. job'[s] = job[s]
      BY <2>1 DEF IdleJob
    <3>2. WriteOK(job[s].p, job[s].write, job[s].move) /\ job[s].p \in Payments
      BY <2>1, <3>1, CommitShape DEF CreditInv, SafeWrites
    <3>3. QED
      BY <3>1, <3>2 DEF WriteOK
  <2>2. QED
    BY <2>1 DEF SafeWrites
<1>4. QED
  BY <1>1, <1>2, <1>3 DEF CreditInv

(* Every step of Collections keeps the invariant.                          *)
LEMMA CreditStep ==
    ASSUME CreditInv, [Next]_vars
    PROVE  CreditInv'
<1>1. ASSUME NEW r \in Workers, NEW p \in Payments, Reconcile(r, p) \/ ProcessWebhook(r, p)
      PROVE  CreditInv'
  BY <1>1, QueryStep, StatusKinds DEF Reconcile, ProcessWebhook
<1>2. ASSUME NEW r \in Workers, Crash(r)
      PROVE  CreditInv'
  <2>1. /\ UNCHANGED <<row, wallet, terms, order, old, credits, lost>>
        /\ job' = [job EXCEPT ![r] = IdleJob]
        /\ crashes < MaxCrashes /\ crashes' = crashes + 1
    BY <1>2 DEF Crash
  <2>2. job' \in [Workers -> Jobs]
    BY <2>1 DEF CreditInv, TypeOK, Jobs
  <2>3. crashes' \in 0 .. MaxCrashes
    BY <2>1, CrashAssumption DEF CreditInv, TypeOK
  <2>4. lost' \in BOOLEAN
    BY <2>1 DEF CreditInv, TypeOK
  <2>5. TypeOK'
    BY <2>1, <2>2, <2>3, <2>4 DEF CreditInv, TypeOK
  <2>6. \A s \in Workers : job'[s] = job[s] \/ job'[s] = IdleJob
    BY <2>1 DEF CreditInv, TypeOK
  <2>7. QED
    BY <2>1, <2>5, <2>6, AsideStep
<1>3. ASSUME NEW p \in Payments, OrderMoves(p)
      PROVE  CreditInv'
  <2>1. UNCHANGED <<row, wallet, terms, old, job, credits, lost, crashes>>
    BY <1>3 DEF OrderMoves
  <2>2. PICK o \in Orders : order' = [order EXCEPT ![p] = o] /\ order[p] # "COMPLETED"
    BY <1>3, WordsAssumption DEF OrderMoves, Orders, Prompted
  <2>3. order' \in [Payments -> Orders]
    BY <2>2 DEF CreditInv, TypeOK
  <2>4. \A q \in Payments : order[q] = "COMPLETED" => order'[q] = "COMPLETED"
    BY <2>2 DEF CreditInv, TypeOK
  <2>5. lost' \in BOOLEAN
    BY <2>1 DEF CreditInv, TypeOK
  <2>6. TypeOK'
    BY <2>1, <2>3, <2>5 DEF CreditInv, TypeOK
  <2>7. QED
    BY <2>1, <2>4, <2>6, AsideStep
<1>4. ASSUME UNCHANGED <<row, wallet, order, job, credits, lost, crashes>>,
             terms' \subseteq Tenants, old' \subseteq Payments
      PROVE  CreditInv'
  <2>1. lost' \in BOOLEAN
    BY <1>4 DEF CreditInv, TypeOK
  <2>2. TypeOK'
    BY <1>4, <2>1 DEF CreditInv, TypeOK
  <2>3. QED
    BY <1>4, <2>2, AsideStep
<1>5. ASSUME NEW p \in Payments, GrowsOld(p)
      PROVE  CreditInv'
  BY <1>4, <1>5 DEF GrowsOld, CreditInv, TypeOK
<1>6. ASSUME NEW t \in Tenants, SetTerms(t)
      PROVE  CreditInv'
  BY <1>4, <1>6 DEF SetTerms, CreditInv, TypeOK
<1>7. CASE UNCHANGED vars
  BY <1>4, <1>7 DEF vars, CreditInv, TypeOK
<1>8. QED
  BY <1>1, <1>2, <1>3, <1>5, <1>6, <1>7, InitiateStep, CommitStep DEF Next

(* It holds initially.                                                     *)
LEMMA CreditInit == Init => CreditInv
<1> SUFFICES ASSUME Init PROVE CreditInv
  OBVIOUS
<1>1. [b \in Buckets |-> 0] \in Wallets
  BY DEF Wallets
<1>2. EmptyRow \in Rows /\ EmptyRow.status = "NONE" /\ EmptyRow.activation = "NULL"
  BY StatusKinds DEF EmptyRow, Rows
<1>3. TypeOK
  <2>1. row \in [Payments -> Rows]
    BY <1>2 DEF Init
  <2>2. wallet \in [Tenants -> Wallets]
    BY <1>1 DEF Init
  <2>3. order \in [Payments -> Orders] /\ job \in [Workers -> Jobs]
    BY DEF Init, Orders, Jobs
  <2>4. credits \in [Payments -> 0 .. 2] /\ crashes \in 0 .. MaxCrashes
    BY CrashAssumption DEF Init
  <2>5. lost \in BOOLEAN /\ terms \subseteq Tenants /\ old \subseteq Payments
    BY DEF Init
  <2>6. QED
    BY <2>1, <2>2, <2>3, <2>4, <2>5 DEF TypeOK
<1>4. CreditedIffCompleted /\ \A p \in Payments : PaidRow(p)
  BY <1>2 DEF Init, CreditedIffCompleted, PaidRow
<1>5. OneHolder /\ SafeWrites
  BY DEF Init, OneHolder, SafeWrites, IdleJob
<1>6. QED
  BY <1>3, <1>4, <1>5 DEF CreditInv

(* The invariant of every behaviour.                                       *)
LEMMA CreditInvariant == Spec => []CreditInv
BY CreditInit, CreditStep, PTL DEF Spec

----------------------------------------------------------------------------
(* The theorems *)

(***************************************************************************)
(* The wallet is credited exactly once for a completed payment and never   *)
(* for another, for any number of overlapping webhooks, sweep calls and    *)
(* crashes.                                                                *)
(***************************************************************************)
THEOREM CreditedOnce == Spec => []CreditedIffCompleted
<1>1. CreditInv => CreditedIffCompleted
  BY DEF CreditInv
<1>2. QED
  BY <1>1, CreditInvariant, PTL

(* ... and only for an order that Selcom reports as paid, as asked for.    *)
THEOREM CreditedWhenPaid == Spec => []CreditedOnlyIfPaid
<1>1. CreditInv => CreditedOnlyIfPaid
  BY DEF CreditInv, CreditedIffCompleted, CreditedOnlyIfPaid, PaidRow
<1>2. QED
  BY <1>1, CreditInvariant, PTL

(* A completed purchase of the captive portal, and nothing else, is queued *)
(* for activation.                                                         *)
THEOREM QueuedWhenPaid == Spec => []PaidIsQueued
<1>1. CreditInv => PaidIsQueued
  BY DEF CreditInv, PaidIsQueued, PaidRow
<1>2. QED
  BY <1>1, CreditInvariant, PTL

(* The types of Collections.                                               *)
THEOREM CollectionTypes == Spec => []TypeOK
<1>1. CreditInv => TypeOK
  BY DEF CreditInv
<1>2. QED
  BY <1>1, CreditInvariant, PTL

(***************************************************************************)
(* The pending balance.  A commit credits a payment that had no credit, so *)
(* the set of credited payments of its tenant gains one element and the    *)
(* balance that element's share, unless the request computed from a stale  *)
(* read.                                                                   *)
(***************************************************************************)
AddsUp(t)  == wallet[t]["pending"] = SumOver(Share, Credited(t))
PendingInv == CreditInv /\ (~lost => \A t \in Tenants : AddsUp(t))

(* The tenant's credited payments after a commit.                          *)
LEMMA CreditedAfter ==
    ASSUME CreditInv, NEW r \in Workers, Commit(r), NEW t \in Tenants
    PROVE  IF job[r].move = Collect /\ t = TenantOf[job[r].p]
           THEN /\ job[r].p \notin Credited(t)
                /\ Credited(t)' = Credited(t) \cup {job[r].p}
           ELSE Credited(t)' = Credited(t)
<1> DEFINE p == job[r].p
           c == job[r].move = Collect
<1>1. p \in Payments /\ WriteOK(p, job[r].write, job[r].move)
  BY CommitShape DEF Commit, CreditInv, SafeWrites
<1>2. credits' = [credits EXCEPT ![p] = IF c /\ @ < 2 THEN @ + 1 ELSE @]
  BY DEF Commit
<1>3. c => credits[p] = 0
  BY <1>1, StatusKinds DEF WriteOK, CreditInv, CreditedIffCompleted
<1>4. credits[p] \in 0 .. 2
  BY <1>1 DEF CreditInv, TypeOK
<1>5. /\ c => credits'[p] = 1
      /\ ~c => credits'[p] = credits[p]
      /\ \A q \in Payments \ {p} : credits'[q] = credits[q]
  BY <1>1, <1>2, <1>3, <1>4 DEF CreditInv, TypeOK
<1> HIDE DEF p, c
<1>6. (IF c /\ t = TenantOf[p]
       THEN p \notin Credited(t) /\ Credited(t)' = Credited(t) \cup {p}
       ELSE Credited(t)' = Credited(t))
  <2>1. CASE c
    BY <1>1, <1>3, <1>5, <2>1 DEF Credited
  <2>2. CASE ~c
    BY <1>1, <1>5, <2>2 DEF Credited
  <2>3. QED
    BY <2>1, <2>2
<1>7. QED
  BY <1>6 DEF p, c

(* A commit that lost nothing adds the share it adds to the balance.       *)
LEMMA PendingCommit ==
    ASSUME PendingInv, NEW r \in Workers, Commit(r)
    PROVE  (~lost => \A t \in Tenants : AddsUp(t))'
<1> DEFINE p == job[r].p
           c == job[r].move = Collect
<1> SUFFICES ASSUME ~lost', NEW t \in Tenants
             PROVE  wallet'[t]["pending"] = SumOver(Share, Credited(t)')
  BY DEF AddsUp
<1>1. p \in Payments /\ TenantOf[p] \in Tenants
  BY CommitShape, TenantAssumption DEF Commit, PendingInv, CreditInv
<1>2. ~lost /\ (c => job[r].seen = wallet[TenantOf[p]])
  BY DEF Commit
<1>3. wallet[t]["pending"] = SumOver(Share, Credited(t))
  BY <1>2 DEF PendingInv, AddsUp
<1>4. wallet' = IF c THEN [wallet EXCEPT ![TenantOf[p]] =
                              Apply(Collect, Share[p], job[r].seen, wallet[TenantOf[p]])]
                ELSE wallet
  BY DEF Commit
<1>5. IF c /\ t = TenantOf[p]
      THEN p \notin Credited(t) /\ Credited(t)' = Credited(t) \cup {p}
      ELSE Credited(t)' = Credited(t)
  BY CreditedAfter DEF PendingInv
<1> HIDE DEF p, c
<1>6. CASE c /\ t = TenantOf[p]
  <2>1. wallet'[t] = Apply(Collect, Share[p], wallet[t], wallet[t])
    BY <1>1, <1>2, <1>4, <1>6 DEF PendingInv, CreditInv, TypeOK, p
  <2>2. wallet'[t]["pending"] = wallet[t]["pending"] + Share[p]
    BY <2>1 DEF Apply, Collect, Buckets, None
  <2>3. IsFiniteSet(Credited(t)) /\ Credited(t) \subseteq Payments
    BY PaymentsAssumption, FS_Subset DEF Credited
  <2>4. SumOver(Share, Credited(t) \cup {p}) = SumOver(Share, Credited(t)) + Share[p]
    BY <1>1, <1>5, <1>6, <2>3, ShareType, SumAdd
  <2>5. QED
    BY <1>3, <1>5, <1>6, <2>2, <2>4
<1>7. CASE ~(c /\ t = TenantOf[p])
  <2>1. wallet'[t] = wallet[t]
    BY <1>1, <1>4, <1>7 DEF PendingInv, CreditInv, TypeOK
  <2>2. QED
    BY <1>3, <1>5, <1>7, <2>1
<1>8. QED
  BY <1>6, <1>7

(* Every other step leaves wallets, credits and the history alone.         *)
LEMMA PendingStep ==
    ASSUME PendingInv, [Next]_vars
    PROVE  PendingInv'
<1>1. CreditInv'
  BY CreditStep DEF PendingInv
<1>2. CASE \E r \in Workers : Commit(r)
  BY <1>1, <1>2, PendingCommit DEF PendingInv
<1>3. CASE ~ \E r \in Workers : Commit(r)
  <2>1. UNCHANGED <<wallet, credits, lost>>
    BY <1>3 DEF Next, vars, Initiate, Reconcile, ProcessWebhook, QueryAndApply, Crash,
                OrderMoves, GrowsOld, SetTerms
  <2>2. \A t \in Tenants : Credited(t)' = Credited(t)
    BY <2>1 DEF Credited
  <2>3. (~lost => \A t \in Tenants : AddsUp(t))'
    BY <2>1, <2>2 DEF PendingInv, AddsUp
  <2>4. QED
    BY <1>1, <2>3 DEF PendingInv
<1>4. QED
  BY <1>2, <1>3

(***************************************************************************)
(* The pending balance of every tenant is the sum of the shares of its     *)
(* credited payments, for any number of payments and requests, as long as  *)
(* no credit computed from a stale read of the wallet was committed.       *)
(***************************************************************************)
THEOREM PendingAddsUp == Spec => []PendingIsShares
<1>1. Init => \A t \in Tenants : AddsUp(t)
  <2>1. Init => \A t \in Tenants : Credited(t) = {}
    BY DEF Init, Credited
  <2>2. Init => \A t \in Tenants : wallet[t]["pending"] = 0
    BY DEF Init, Buckets
  <2>3. SumOver(Share, {}) = 0
    BY SumEmpty
  <2>4. QED
    BY <2>1, <2>2, <2>3 DEF AddsUp
<1>2. Init => PendingInv
  BY <1>1, CreditInit DEF PendingInv
<1>3. PendingInv => PendingIsShares
  BY DEF PendingInv, PendingIsShares, AddsUp, SumOver
<1>4. QED
  BY <1>2, <1>3, PendingStep, PTL DEF Spec

(* A terminal row is written only with what it holds already.              *)
LEMMA TerminalStep ==
    ASSUME CreditInv, [Next]_vars, NEW p \in Payments, row[p].status \in Terminal
    PROVE  row'[p] = row[p]
<1>1. CASE row' = row
  BY <1>1
<1>2. ASSUME NEW r \in Workers, Commit(r)
      PROVE  row'[p] = row[p]
  <2>1. WriteOK(job[r].p, job[r].write, job[r].move)
    BY <1>2 DEF Commit, CreditInv, SafeWrites
  <2>2. row' = [row EXCEPT ![job[r].p] = job[r].write]
    BY <1>2 DEF Commit
  <2>3. QED
    BY <2>1, <2>2 DEF WriteOK, CreditInv, TypeOK
<1>3. ASSUME NEW r \in Workers, NEW q \in Payments,
             Initiate(r, q) \/ Reconcile(r, q) \/ ProcessWebhook(r, q)
      PROVE  row' = row
  BY <1>3 DEF Initiate, Reconcile, ProcessWebhook, QueryAndApply
<1>4. ASSUME NEW r \in Workers, Crash(r)
      PROVE  row' = row
  BY <1>4 DEF Crash
<1>5. ASSUME NEW q \in Payments, OrderMoves(q) \/ GrowsOld(q)
      PROVE  row' = row
  BY <1>5 DEF OrderMoves, GrowsOld
<1>6. ASSUME NEW t \in Tenants, SetTerms(t)
      PROVE  row' = row
  BY <1>6 DEF SetTerms
<1>7. QED
  BY <1>1, <1>2, <1>3, <1>4, <1>5, <1>6 DEF Next, vars

(***************************************************************************)
(* A payment in a terminal status never changes again, whatever arrives    *)
(* late.                                                                   *)
(***************************************************************************)
THEOREM TerminalForGood == Spec => TerminalNeverChanges
<1>1. CreditInv /\ [Next]_vars =>
        [\A p \in Payments : row[p].status \in Terminal => row'[p] = row[p]]_vars
  BY TerminalStep
<1>2. QED
  BY <1>1, CreditInvariant, PTL DEF Spec, TerminalNeverChanges

----------------------------------------------------------------------------
(* Collections implements PaymentLife *)

(***************************************************************************)
(* What WriteOK leaves open: the commit that makes a row does not make it  *)
(* COMPLETED, for a query only ever reads a row that is committed.         *)
(***************************************************************************)
NewRows ==
    \A r \in Workers :
        (job[r].phase = "commit" /\ row[job[r].p].status = "NONE")
            => job[r].write.status # "COMPLETED"

Lifted == [p \in Payments |-> StageOf(row[p].status)]
Queued == {p \in Payments : row[p].activation = "PENDING"}

(* The stage of each status.                                               *)
LEMMA StageKinds ==
    /\ StageOf("NONE") = "new"
    /\ \A s \in Open : StageOf(s) = "open"
    /\ StageOf("COMPLETED") = "paid"
    /\ \A s \in Unsuccessful : StageOf(s) = s
    /\ {"new", "open", "paid"} \cap Unsuccessful = {}
BY DEF StageOf, Open, Unsuccessful

(* A request that begins writes no row, and will not complete a new one.   *)
LEMMA NewJob ==
    ASSUME CreditInv, NewRows, NEW r \in Workers, NEW p \in Payments,
           Initiate(r, p) \/ Reconcile(r, p) \/ ProcessWebhook(r, p)
    PROVE  NewRows' /\ row' = row
<1>1. PICK x, m : /\ Finish(r, p, x, m) /\ row' = row
                  /\ row[p].status = "NONE" => x.status # "COMPLETED"
  <2>1. CASE Initiate(r, p)
    <3>1. PICK y \in CreateOrderAndSendStk :
             Finish(r, p, [EmptyRow EXCEPT !.status = y.status], NoMove)
      BY <2>1 DEF Initiate
    <3>2. y.status \in {"FAILED", "STK_SENT"}
      BY <3>1 DEF CreateOrderAndSendStk
    <3>3. [EmptyRow EXCEPT !.status = y.status].status = y.status
      BY DEF EmptyRow
    <3>4. QED
      BY <2>1, <3>1, <3>2, <3>3 DEF Initiate
  <2>2. CASE Reconcile(r, p) \/ ProcessWebhook(r, p)
    <3>1. row[p].status # "NONE" /\ QueryAndApply(r, p)
      BY <2>2, StatusKinds DEF Reconcile, ProcessWebhook
    <3>2. QED
      BY <3>1 DEF QueryAndApply
  <2>3. QED
    BY <2>1, <2>2
<1>2. /\ job'[r].p = p /\ job'[r].write = x
      /\ \A s \in Workers \ {r} : job'[s] = job[s]
  BY <1>1 DEF Finish, CreditInv, TypeOK
<1>3. QED
  BY <1>1, <1>2 DEF NewRows

(* The commit of a row moves its payment along its life, and no other.     *)
LEMMA CommitLives ==
    ASSUME CreditInv, NewRows, NEW r \in Workers, Commit(r)
    PROVE  NewRows' /\ [Life!Next]_<<Lifted, Queued>>
<1> DEFINE p == job[r].p
           x == job[r].write
           from == row[p].status
           to == x.status
<1>1. /\ p \in Payments /\ x \in Rows /\ row[p] \in Rows /\ PaidRow(p)
      /\ WriteOK(p, x, job[r].move)
  BY CommitShape DEF Commit, CreditInv, SafeWrites, TypeOK
<1>2. /\ row' = [row EXCEPT ![p] = x]
      /\ job' = [job EXCEPT ![r] = IdleJob]
  BY DEF Commit
<1>3. row'[p] = x /\ \A q \in Payments \ {p} : row'[q] = row[q]
  BY <1>1, <1>2 DEF CreditInv, TypeOK
<1>4. from = "NONE" => to # "COMPLETED"
  BY DEF NewRows, Commit
<1>0. p \in Payments
  BY <1>1
<1>5. NewRows'
  <2>1. ASSUME NEW s \in Workers, job'[s].phase = "commit"
        PROVE  s # r /\ job'[s] = job[s] /\ job[s].p \in Payments \ {p}
    <3>1. s # r /\ job'[s] = job[s]
      BY <1>2, <2>1 DEF IdleJob, CreditInv, TypeOK
    <3>2. job[s].p # p
      BY <2>1, <3>1 DEF CreditInv, OneHolder, Commit
    <3>3. QED
      BY <2>1, <3>1, <3>2, CommitShape DEF CreditInv
  <2>2. QED
    BY <1>3, <2>1 DEF NewRows
<1> HIDE DEF p, x
<1>6. /\ Lifted' = [Lifted EXCEPT ![p] = StageOf(to)]
      /\ Lifted[p] = StageOf(from)
  BY <1>1, <1>3 DEF Lifted
<1>7. Queued' = IF x.activation = "PENDING" THEN Queued \cup {p} ELSE Queued \ {p}
  BY <1>1, <1>3 DEF Queued
<1>8. /\ x.activation = "PENDING" <=> to = "COMPLETED" /\ p \in Captive
      /\ p \in Queued <=> from = "COMPLETED" /\ p \in Captive
  BY <1>1 DEF WriteOK, PaidRow, Queued
<1>9. from \in Statuses /\ to \in Statuses \ {"NONE"}
  BY <1>1 DEF Rows, WriteOK
<1>10. QED
  <2>1. CASE StageOf(to) = StageOf(from)
    <3>1. to = "COMPLETED" <=> from = "COMPLETED"
      <4>1. \A t \in Statuses : StageOf(t) = "paid" <=> t = "COMPLETED"
        BY StageKinds DEF Statuses, Terminal
      <4>2. QED
        BY <1>9, <2>1, <4>1
    <3>2. Queued' = Queued
      BY <1>7, <1>8, <3>1
    <3>3. Lifted' = Lifted
      BY <1>6, <2>1 DEF Lifted
    <3>4. QED
      BY <1>5, <3>2, <3>3
  <2>2. CASE StageOf(to) # StageOf(from)
    <3>1. from \in {"NONE"} \cup Open
      <4>1. from \in Terminal => x = row[p]
        BY <1>1 DEF WriteOK
      <4>2. QED
        BY <1>9, <2>2, <4>1, StatusKinds
    <3>2. StageOf(from) = IF from = "NONE" THEN "new" ELSE "open"
      BY <3>1, StatusKinds, StageKinds
    <3>3. CASE to \in Open
      <4>1. StageOf(to) = "open" /\ from = "NONE"
        BY <2>2, <3>2, <3>3, StageKinds
      <4>2. to # "COMPLETED" /\ from # "COMPLETED"
        BY <3>3, <4>1, StatusKinds
      <4>3. Life!Attempt(p)
        BY <1>6, <1>7, <1>8, <3>2, <4>1, <4>2 DEF Life!Attempt, Life!Move, Lifted, Queued
      <4>4. Life!Next
        BY <1>0, <4>3 DEF Life!Next
      <4>5. QED
        BY <1>5, <4>4
    <3>4. CASE to \in Unsuccessful
      <4>1. StageOf(to) = to
        BY <3>4, StageKinds
      <4>2. to # "COMPLETED" /\ from # "COMPLETED"
        BY <3>1, <3>4, StatusKinds
      <4>3. Life!Close(p)
        BY <1>6, <1>7, <1>8, <3>2, <3>4, <4>1, <4>2 DEF Life!Close, Life!Move, Lifted, Queued
      <4>4. Life!Next
        BY <1>0, <4>3 DEF Life!Next
      <4>5. QED
        BY <1>5, <4>4
    <3>5. CASE to = "COMPLETED"
      <4>1. StageOf(to) = "paid" /\ StageOf(from) = "open"
        BY <1>4, <3>2, <3>5, StageKinds
      <4>2. Queued' = Queued \cup ({p} \cap Captive)
        <5>1. from # "COMPLETED"
          BY <3>1, StatusKinds
        <5>2. QED
          BY <1>7, <1>8, <3>5, <5>1
      <4>3. Life!Pay(p)
        BY <1>6, <4>1, <4>2 DEF Life!Pay, Life!Move, Lifted, Queued
      <4>4. Life!Next
        BY <1>0, <4>3 DEF Life!Next, Life!Pay, Life!Move
      <4>5. QED
        BY <1>5, <4>4
    <3>6. QED
      BY <1>9, <3>3, <3>4, <3>5 DEF Statuses, Terminal
  <2>3. QED
    BY <2>1, <2>2

(* Every step of Collections is a step of PaymentLife or leaves it alone.  *)
LEMMA LifeStep ==
    CreditInv /\ NewRows /\ [Next]_vars => NewRows' /\ [Life!Next]_<<Lifted, Queued>>
<1> SUFFICES ASSUME CreditInv, NewRows, [Next]_vars
             PROVE  NewRows' /\ [Life!Next]_<<Lifted, Queued>>
  OBVIOUS
<1>1. row' = row => UNCHANGED <<Lifted, Queued>>
  BY DEF Lifted, Queued
<1>2. UNCHANGED <<row, job>> => NewRows'
  BY DEF NewRows
<1>3. ASSUME NEW r \in Workers, NEW p \in Payments,
             Initiate(r, p) \/ Reconcile(r, p) \/ ProcessWebhook(r, p)
      PROVE  NewRows' /\ row' = row
  BY <1>3, NewJob
<1>4. ASSUME NEW r \in Workers, Crash(r)
      PROVE  NewRows' /\ row' = row
  <2>1. job' = [job EXCEPT ![r] = IdleJob] /\ row' = row
    BY <1>4 DEF Crash
  <2>2. \A s \in Workers : job'[s].phase = "commit" => job'[s] = job[s]
    BY <2>1 DEF IdleJob, CreditInv, TypeOK
  <2>3. QED
    BY <2>1, <2>2 DEF NewRows
<1>5. ASSUME NEW p \in Payments, OrderMoves(p) \/ GrowsOld(p)
      PROVE  UNCHANGED <<row, job>>
  BY <1>5 DEF OrderMoves, GrowsOld
<1>6. ASSUME NEW t \in Tenants, SetTerms(t)
      PROVE  UNCHANGED <<row, job>>
  BY <1>6 DEF SetTerms
<1>7. QED
  BY <1>1, <1>2, <1>3, <1>4, <1>5, <1>6, CommitLives DEF Next, vars

(***************************************************************************)
(* The payments of both flows implement PaymentLife, for any number of     *)
(* payments, requests and crashes: what Access relies on.                  *)
(***************************************************************************)
THEOREM LifeKept == Spec => LifeOfPayment
<1>1. Init => Life!Init
  BY StageKinds DEF Init, Life!Init, EmptyRow
<1>2. Init => NewRows
  BY DEF Init, NewRows, IdleJob
<1>3. CreditInv /\ NewRows /\ [Next]_vars =>
        NewRows' /\ [Life!Next]_<<[p \in Payments |-> StageOf(row[p].status)],
                                 {p \in Payments : row[p].activation = "PENDING"}>>
  BY LifeStep DEF Lifted, Queued
<1>4. QED
  BY <1>1, <1>2, <1>3, CreditInvariant, PTL DEF Spec, LifeOfPayment, Life!Spec

----------------------------------------------------------------------------
(* The sweep *)

(***************************************************************************)
(* The sweep's list names payments that exist: rows are never deleted.     *)
(* With it each step of the sweep is a step of Collections or leaves its   *)
(* variables alone.                                                        *)
(***************************************************************************)
Lists == [phase : {"idle", "fresh", "run", "dead"}, todo : SUBSET Payments,
          cur : Payments \cup {Nobody}, by : Workers \cup {Nobody}, attempts : Nat]

Listed ==
    /\ sweep \in Lists
    /\ \A p \in sweep.todo : row[p].status # "NONE"
    /\ sweep.cur = Nobody \/ sweep.cur \in sweep.todo

(* A payment that exists does so after any step of Collections.            *)
LEMMA RowsStay ==
    ASSUME CreditInv, [Next]_vars, NEW p \in Payments, row[p].status # "NONE"
    PROVE  row'[p].status # "NONE"
<1>1. CASE row' = row
  BY <1>1
<1>2. ASSUME NEW r \in Workers, Commit(r)
      PROVE  row'[p].status # "NONE"
  <2>1. WriteOK(job[r].p, job[r].write, job[r].move)
    BY <1>2 DEF Commit, CreditInv, SafeWrites
  <2>2. row' = [row EXCEPT ![job[r].p] = job[r].write]
    BY <1>2 DEF Commit
  <2>3. QED
    BY <2>1, <2>2 DEF WriteOK, CreditInv, TypeOK
<1>3. ASSUME NEW r \in Workers, NEW q \in Payments,
             Initiate(r, q) \/ Reconcile(r, q) \/ ProcessWebhook(r, q)
      PROVE  row' = row
  BY <1>3 DEF Initiate, Reconcile, ProcessWebhook, QueryAndApply
<1>4. ASSUME NEW r \in Workers, Crash(r)
      PROVE  row' = row
  BY <1>4 DEF Crash
<1>5. ASSUME NEW q \in Payments, OrderMoves(q) \/ GrowsOld(q)
      PROVE  row' = row
  BY <1>5 DEF OrderMoves, GrowsOld
<1>6. ASSUME NEW t \in Tenants, SetTerms(t)
      PROVE  row' = row
  BY <1>6 DEF SetTerms
<1>7. QED
  BY <1>1, <1>2, <1>3, <1>4, <1>5, <1>6 DEF Next, vars

(* Asking about a listed payment is a query that a webhook might cause.    *)
LEMMA AskIsQuery ==
    ASSUME Listed, NEW r \in Workers, SweepAsks(r)
    PROVE  \E p \in Payments : ProcessWebhook(r, p)
<1>1. PICK p \in Candidates : QueryAndApply(r, p)
  BY DEF SweepAsks
<1>2. p \in sweep.todo /\ p \in Payments
  BY <1>1 DEF Candidates, Listed, Lists
<1>3. QED
  BY <1>1, <1>2 DEF ProcessWebhook, Listed

(* Every step of the sweep is one of Collections, or stutters there.       *)
LEMMA SweepSteps ==
    ASSUME Listed, [SweepNext]_sweepVars
    PROVE  [Next]_vars
<1>1. ASSUME NEW r \in Workers, SweepAsks(r)
      PROVE  Next
  BY <1>1, AskIsQuery DEF Next
<1>2. ASSUME NEW r \in Workers, WebCommits(r) \/ WebCrashes(r)
      PROVE  Next
  BY <1>2 DEF WebCommits, WebCrashes, Next
<1>3. CASE \/ SweepBegins \/ SweepRefused \/ SweepQueryFails \/ SweepTimesOut \/ SweepEnds
         \/ SweepCrashes
  <2>1. UNCHANGED vars
    BY <1>3 DEF SweepBegins, SweepRefused, SweepQueryFails, SweepTimesOut, SweepEnds,
                SweepCrashes
  <2>2. QED
    BY <2>1
<1>4. CASE Elsewhere
  BY <1>4 DEF Elsewhere, Next
<1>5. CASE UNCHANGED sweepVars
  BY <1>5 DEF sweepVars
<1>6. QED
  BY <1>1, <1>2, <1>3, <1>4, <1>5 DEF SweepNext

(* What the sweep does with its list: it never adds to it.                 *)
Shorter(s, t) ==
    /\ t \in Lists
    /\ t.todo \subseteq s.todo
    /\ t.cur = Nobody \/ t.cur \in t.todo

(* Being done with a payment, or giving up on it, shortens the list.       *)
LEMMA ListShrinks ==
    ASSUME NEW s \in Lists, s.cur = Nobody \/ s.cur \in s.todo
    PROVE  Shorter(s, RowDone(s)) /\ Shorter(s, RowFailed(s)) /\ Shorter(s, TransportError(s))
<1>1. s.todo \ {s.cur} \subseteq Payments
  BY DEF Lists
<1>2. ASSUME NEW f \in {"idle", "fresh", "run", "dead"}
      PROVE  Shorter(s, Between(f, s.todo \ {s.cur}))
  BY <1>1 DEF Shorter, Between, Lists
<1>3. Shorter(s, RowDone(s)) /\ Shorter(s, RowFailed(s))
  BY <1>2 DEF RowDone, RowFailed
<1>4. [s EXCEPT !.by = Nobody] \in Lists /\ Shorter(s, [s EXCEPT !.by = Nobody])
  BY DEF Shorter, Lists
<1>5. QED
  BY <1>3, <1>4 DEF TransportError

(* The next payment to ask about is one of the list.                       *)
LEMMA NextOfList ==
    ASSUME Listed, NEW p \in Candidates, NEW b \in Workers \cup {Nobody}
    PROVE  /\ Asking(p, b) \in Lists
           /\ Asking(p, b).todo = sweep.todo
           /\ Asking(p, b).cur \in Asking(p, b).todo
<1>1. p \in sweep.todo /\ p \in Payments
  BY DEF Candidates, Listed, Lists
<1>2. QED
  BY <1>1 DEF Asking, Listed, Lists

(* Every step keeps the list honest.                                       *)
LEMMA ListedStep ==
    ASSUME CreditInv, Listed, [SweepNext]_sweepVars
    PROVE  Listed'
<1>1. [Next]_vars
  BY SweepSteps
<1>2. \A p \in Payments : row[p].status # "NONE" => row'[p].status # "NONE"
  BY <1>1, RowsStay
<1>3. ASSUME NEW s \in Lists, s.todo = sweep.todo, Shorter(s, sweep')
      PROVE  Listed'
  BY <1>2, <1>3 DEF Shorter, Listed, Lists
<1>4. CASE sweep' = sweep \/ sweep' = NoSweep
  <2>1. Shorter(sweep, sweep) /\ Shorter(sweep, NoSweep)
    BY DEF Shorter, Listed, NoSweep, Between, Lists
  <2>2. QED
    BY <1>3, <1>4, <2>1 DEF Listed
<1>5. CASE SweepBegins
  <2>1. sweep' = Between("fresh", {p \in Payments : row[p].status \in Open}) /\ row' = row
    BY <1>5 DEF SweepBegins, vars
  <2>2. QED
    BY <2>1, StatusKinds DEF Between, Listed, Lists
<1>6. CASE SweepRefused
  <2>1. PICK p \in Candidates : sweep' = RowFailed(Asking(p, Nobody))
    BY <1>6 DEF SweepRefused
  <2>2. QED
    BY <1>3, <2>1, NextOfList, ListShrinks
<1>7. CASE SweepTimesOut
  <2>1. CASE sweep' = TransportError(sweep)
    BY <1>3, <2>1, ListShrinks DEF Listed
  <2>2. ASSUME NEW p \in Candidates, sweep' = TransportError(Asking(p, Nobody))
        PROVE  Listed'
    BY <1>3, <2>2, NextOfList, ListShrinks
  <2>3. QED
    BY <1>7, <2>1, <2>2 DEF SweepTimesOut
<1>8. CASE SweepEnds \/ SweepCrashes
  BY <1>4, <1>8 DEF SweepEnds, SweepCrashes
<1>9. ASSUME NEW r \in Workers, SweepAsks(r)
      PROVE  Listed'
  <2>1. PICK p \in Candidates : sweep' = Asking(p, r)
    BY <1>9 DEF SweepAsks
  <2>2. Shorter(Asking(p, r), sweep')
    BY <2>1, NextOfList DEF Shorter
  <2>3. QED
    BY <1>3, <2>1, <2>2, NextOfList
<1>10. ASSUME NEW r \in Workers, WebCommits(r) \/ WebCrashes(r)
       PROVE  Listed'
  BY <1>3, <1>4, <1>10, ListShrinks DEF WebCommits, WebCrashes, Listed
<1>11. CASE Elsewhere \/ UNCHANGED sweepVars
  BY <1>4, <1>11 DEF Elsewhere, sweepVars
<1>12. CASE SweepQueryFails
  <2>1. PICK p \in Candidates : sweep' = RowDone(Asking(p, Nobody))
    BY <1>12 DEF SweepQueryFails
  <2>2. QED
    BY <1>3, <2>1, NextOfList, ListShrinks
<1>13. QED
  BY <1>5, <1>6, <1>7, <1>8, <1>9, <1>10, <1>11, <1>12 DEF SweepNext

(***************************************************************************)
(* The sweep drives the web service as any webhook might: with its         *)
(* retries, timeouts and crashes it adds no behaviour to Collections, so   *)
(* what is proved of Collections holds beside it.                          *)
(***************************************************************************)
THEOREM SweepIsHarmless == SweepSpec => Spec
<1>1. SweepInit => Init /\ Listed
  BY DEF SweepInit, Listed, NoSweep, Between, Lists
<1>2. SweepInit => CreditInv
  BY CreditInit DEF SweepInit
<1>3. CreditInv /\ Listed /\ [SweepNext]_sweepVars => CreditInv' /\ Listed' /\ [Next]_vars
  BY SweepSteps, ListedStep, CreditStep
<1>4. QED
  BY <1>1, <1>2, <1>3, PTL DEF SweepSpec, Spec

----------------------------------------------------------------------------
(* The two attempts of InternalWebClient *)

(***************************************************************************)
(* A payment is asked about at most MaxAttempts times, and one that waits  *)
(* for nobody's answer has an attempt left; the faults stay within bounds. *)
(***************************************************************************)
AttemptsFit ==
    /\ Listed
    /\ sweep.attempts \in 0 .. MaxAttempts
    /\ sweep.by = Nobody => sweep.attempts < MaxAttempts
    /\ faults \in 0 .. MaxFaults

(* A task that may come next: well formed, with an attempt left.           *)
Fits(t) ==
    /\ t.attempts \in 0 .. MaxAttempts
    /\ t.by = Nobody => t.attempts < MaxAttempts

(* After an answer or an error the next task fits (client.py: the loop     *)
(* over _MAX_ATTEMPTS).                                                    *)
LEMMA AnswersFit ==
    ASSUME NEW s \in Lists, s.attempts \in 0 .. MaxAttempts
    PROVE  Fits(RowDone(s)) /\ Fits(RowFailed(s)) /\ Fits(TransportError(s))
<1>1. \A phase, S : Fits(Between(phase, S))
  BY DEF Fits, Between, MaxAttempts
<1>2. Fits(RowDone(s)) /\ Fits(RowFailed(s))
  BY <1>1 DEF RowDone, RowFailed
<1>3. CASE s.attempts < MaxAttempts
  <2>1. [s EXCEPT !.by = Nobody].attempts = s.attempts
    BY DEF Lists
  <2> QED
    BY <1>2, <1>3, <2>1 DEF Fits, TransportError
<1> QED
  BY <1>2, <1>3 DEF TransportError

(* Asking takes one attempt more, and there was one left.                  *)
LEMMA AskingFits ==
    ASSUME AttemptsFit, sweep.by = Nobody, NEW p, NEW b
    PROVE  /\ Asking(p, b).attempts \in 0 .. MaxAttempts
           /\ b \in Workers => Fits(Asking(p, b))
<1>1. Asking(p, b).attempts = sweep.attempts + 1 /\ Asking(p, b).by = b
  BY DEF Asking
<1>2. sweep.attempts + 1 \in 0 .. MaxAttempts
  BY DEF AttemptsFit, MaxAttempts
<1> QED
  BY <1>1, <1>2, NobodyAssumption DEF Fits

(* Every step of the sweep and of web keeps the bounds, action by action.  *)
LEMMA AttemptsStep ==
    ASSUME CreditInv, AttemptsFit, [SweepNext]_sweepVars
    PROVE  AttemptsFit'
<1>1. Listed'
  BY ListedStep DEF AttemptsFit
<1>2. sweep \in Lists /\ Fits(sweep) /\ sweep.attempts \in 0 .. MaxAttempts
  BY DEF AttemptsFit, Listed, Fits
<1>3. SUFFICES Fits(sweep') /\ faults' \in 0 .. MaxFaults
  BY <1>1 DEF AttemptsFit, Fits
<1>4. faults' \in 0 .. MaxFaults
  <2>1. faults' = faults \/ (faults < MaxFaults /\ faults' = faults + 1)
    BY DEF SweepNext, SweepBegins, SweepAsks, SweepRefused, SweepQueryFails, SweepTimesOut,
           SweepEnds, SweepCrashes, WebCommits, WebCrashes, Elsewhere, sweepVars
  <2> QED
    BY <2>1, FaultAssumption DEF AttemptsFit
<1>5. \A phase, S : Fits(Between(phase, S))
  BY DEF Fits, Between, MaxAttempts
<1>6. RowDone(sweep) = Between("run", sweep.todo \ {sweep.cur})
  BY DEF RowDone
<1>7. CASE SweepBegins \/ SweepEnds \/ SweepCrashes
  BY <1>4, <1>5, <1>7 DEF SweepBegins, SweepEnds, SweepCrashes, NoSweep
<1>8. CASE SweepRefused
  <2>1. PICK p \in Candidates : sweep' = RowFailed(Asking(p, Nobody))
    BY <1>8 DEF SweepRefused
  <2> QED
    BY <1>4, <1>5, <2>1 DEF RowFailed
<1>9. CASE SweepQueryFails
  <2>1. PICK p \in Candidates : sweep' = RowDone(Asking(p, Nobody))
    BY <1>9 DEF SweepQueryFails
  <2> QED
    BY <1>4, <1>5, <2>1 DEF RowDone
<1>10. CASE SweepTimesOut
  <2>1. CASE sweep' = TransportError(sweep)
    BY <1>2, <1>4, <2>1, AnswersFit
  <2>2. ASSUME sweep.by = Nobody, NEW p \in Candidates, sweep' = TransportError(Asking(p, Nobody))
        PROVE  Fits(sweep')
    <3>1. Asking(p, Nobody) \in Lists
      BY NextOfList DEF AttemptsFit
    <3> QED
      BY <2>2, <3>1, AskingFits, AnswersFit
  <2> QED
    BY <1>4, <1>10, <2>1, <2>2 DEF SweepTimesOut
<1>11. ASSUME NEW r \in Workers, SweepAsks(r)
       PROVE  Fits(sweep')
  <2>1. sweep.by = Nobody /\ \E p \in Candidates : sweep' = Asking(p, r)
    BY <1>11 DEF SweepAsks
  <2> QED
    BY <2>1, AskingFits
<1>12. ASSUME NEW r \in Workers, WebCommits(r) \/ WebCrashes(r)
       PROVE  Fits(sweep')
  BY <1>2, <1>12, AnswersFit DEF WebCommits, WebCrashes
<1>13. CASE Elsewhere
  BY <1>2, <1>4, <1>13 DEF Elsewhere
<1>14. CASE UNCHANGED sweepVars
  BY <1>2, <1>4, <1>14 DEF sweepVars
<1> QED
  BY <1>4, <1>7, <1>8, <1>9, <1>10, <1>11, <1>12, <1>13, <1>14 DEF SweepNext

(***************************************************************************)
(* The sweep's own state is well formed in every reachable state: above    *)
(* all, no payment is asked about more often than the client's two         *)
(* attempts, whatever is lost and whenever web or the worker dies.         *)
(***************************************************************************)
THEOREM SweepTypes == SweepSpec => []SweepTypeOK
<1>1. SweepInit => CreditInv /\ AttemptsFit
  <2>1. SweepInit => Listed
    BY DEF SweepInit, Listed, NoSweep, Between, Lists
  <2> QED
    BY <2>1, CreditInit, FaultAssumption
       DEF SweepInit, AttemptsFit, NoSweep, Between, MaxAttempts
<1>2. CreditInv /\ AttemptsFit /\ [SweepNext]_sweepVars => CreditInv' /\ AttemptsFit'
  BY SweepSteps, CreditStep, AttemptsStep DEF AttemptsFit
<1>3. AttemptsFit => SweepTypeOK
  BY DEF AttemptsFit, Listed, Lists, SweepTypeOK, Sweeps
<1> QED
  BY <1>1, <1>2, <1>3, PTL DEF SweepSpec
=============================================================================
