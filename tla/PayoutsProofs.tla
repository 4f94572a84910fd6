--------------------------- MODULE PayoutsProofs ---------------------------
(* Proofs about Payouts, for every number of withdrawals and workers. *)
EXTENDS Payouts, Sums, TLAPS

----------------------------------------------------------------------------
(* The operators the handlers are built from *)

(* A wallet movement leaves a wallet of integer balances (_move_bucket).   *)
LEMMA ApplyType ==
    ASSUME NEW m \in Moves, NEW a \in Nat, NEW seen \in Wallets, NEW live \in Wallets
    PROVE  Apply(m, a, seen, live) \in Wallets
BY DEF Apply, Moves, Wallets, Buckets, None

(* The movements the withdrawal handlers ask for are movements.            *)
LEMMA MoveType ==
    /\ NoMove \in Moves
    /\ Reserve \in Moves
    /\ Release \in Moves
    /\ Complete \in Moves
    /\ Reverse \in Moves
BY DEF NoMove, Reserve, Release, Complete, Reverse, Moves, Buckets, None

Results == [to : Statuses \cup {Keep}, move : Moves]

(* _apply_provider_result writes a status and asks for a movement.         *)
LEMMA ResultType ==
    ASSUME NEW s \in Statuses, NEW p \in ProviderStates
    PROVE  ApplyProviderResult(s, Reply(p)) \in Results
<1>1. Reply(p) \in {"SUCCESS", "MISMATCH", "INPROGRESS", "AMBIGUOUS", "FAIL"}
  BY DEF Reply, Matches, Paid, ProviderStates
<1>2. CASE s \notin InFlight
  BY <1>2, MoveType DEF ApplyProviderResult, Results
<1>3. CASE s \in InFlight
  BY <1>1, <1>3, MoveType DEF ApplyProviderResult, Results, Statuses, InFlight
<1>4. QED
  BY <1>2, <1>3

ExitOK(x) == x.to \in Statuses /\ x.move \in Moves /\ x.provider \in ProviderStates

(* What Selcom knows after a submission is one of its states.              *)
LEMMA NoAnswerType ==
    ASSUME NEW p \in ProviderStates
    PROVE  Received(p) \subseteq ProviderStates /\ NoAnswer(p) \subseteq ProviderStates
BY DEF Received, NoAnswer, ProviderStates

(* The exit of _submit_to_selcom on an answer.                             *)
LEMMA AnsweredType ==
    ASSUME NEW q \in ProviderStates
    PROVE  ExitOK(Answered(q))
<1> DEFINE res == ApplyProviderResult("PROCESSING", Reply(q))
<1>1. res \in Results
  BY ResultType DEF Statuses
<1>2. Answered(q) = Exit(IF res.to = Keep THEN "PROCESSING" ELSE res.to, res.move, q, TRUE)
  BY DEF Answered
<1> HIDE DEF res
<1>3. QED
  BY <1>1, <1>2 DEF Exit, ExitOK, Results, Statuses

(* Every exit of _submit_to_selcom.                                        *)
LEMMA ExitType ==
    ASSUME NEW p \in ProviderStates, NEW x \in Exits(p)
    PROVE  ExitOK(x)
<1>1. CASE x \in NotSubmitted(p) \cup LookupLost(p)
  BY <1>1, MoveType DEF NotSubmitted, LookupLost, Exit, ExitOK, Statuses
<1>2. CASE x \in Submitted(p)
  BY <1>2, NoAnswerType, AnsweredType DEF Submitted
<1>3. CASE x \in SubmitLost(p)
  <2>1. CASE \E q \in NoAnswer(p) : x = Answered(q)
    BY <2>1, NoAnswerType, AnsweredType
  <2>2. CASE \E q \in NoAnswer(p) : x = Exit("PROCESSING", NoMove, q, TRUE)
    BY <2>2, NoAnswerType, MoveType DEF Exit, ExitOK, Statuses
  <2>3. QED
    BY <1>3, <2>1, <2>2 DEF SubmitLost
<1>4. CASE x \in SubmitError(p)
  BY <1>4, NoAnswerType, MoveType DEF SubmitError, Exit, ExitOK, Statuses
<1>5. QED
  BY <1>1, <1>2, <1>3, <1>4 DEF Exits

(***************************************************************************)
(* What _apply_provider_result may decide: a status that is not in flight  *)
(* is left alone; only a payment made and matching becomes SUCCESS and     *)
(* completes the disbursement.                                             *)
(***************************************************************************)
Decisions == {[to |-> Keep, move |-> NoMove], [to |-> "SUCCESS", move |-> Complete],
              [to |-> "AMBIGUOUS", move |-> NoMove], [to |-> "FAILED", move |-> Release]}

(* The decision of _apply_provider_result, case by case.                   *)
LEMMA ResultFacts ==
    ASSUME NEW s \in Statuses, NEW p \in ProviderStates
    PROVE  LET res == ApplyProviderResult(s, Reply(p))
           IN  /\ res \in Decisions
               /\ s \notin InFlight => res = [to |-> Keep, move |-> NoMove]
               /\ res = [to |-> "SUCCESS", move |-> Complete] => p = "paid"
<1>1. CASE s \notin InFlight
  BY <1>1 DEF ApplyProviderResult, Decisions, Keep
<1>2. CASE s \in InFlight /\ p = "paid"
  BY <1>2 DEF ApplyProviderResult, Decisions, Reply, Matches, Paid
<1>3. CASE s \in InFlight /\ p \in {"paid_odd", "unsure"}
  BY <1>3 DEF ApplyProviderResult, Decisions, Reply, Matches, Paid
<1>4. CASE s \in InFlight /\ p = "accepted"
  BY <1>4 DEF ApplyProviderResult, Decisions, Reply, Matches, Paid, Keep
<1>5. CASE s \in InFlight /\ p \in {"unknown", "delayed", "failed"}
  BY <1>5 DEF ApplyProviderResult, Decisions, Reply, Matches, Paid
<1>6. QED
  BY <1>1, <1>2, <1>3, <1>4, <1>5 DEF ProviderStates

(***************************************************************************)
(* Where _submit_to_selcom can leave a withdrawal: the wallet movement     *)
(* follows from the status, SUCCESS from a payment, and Selcom does not    *)
(* forget one.                                                             *)
(***************************************************************************)
Outcome(to, m) ==
    \/ to \in {"APPROVED", "PROCESSING", "AMBIGUOUS"} /\ m = NoMove
    \/ to = "FAILED" /\ m = Release
    \/ to = "SUCCESS" /\ m = Complete

(* ... when transaction_process, or the query after it, was answered.      *)
LEMMA AnsweredFacts ==
    ASSUME NEW q \in ProviderStates
    PROVE  LET x == Answered(q)
           IN  /\ Outcome(x.to, x.move)
               /\ x.to = "SUCCESS" => q = "paid"
               /\ x.provider = q
<1> DEFINE res == ApplyProviderResult("PROCESSING", Reply(q))
<1>1. res \in Decisions /\ (res = [to |-> "SUCCESS", move |-> Complete] => q = "paid")
  BY ResultFacts DEF Statuses
<1>2. Answered(q) = Exit(IF res.to = Keep THEN "PROCESSING" ELSE res.to, res.move, q, TRUE)
  BY DEF Answered
<1> HIDE DEF res
<1>3. QED
  BY <1>1, <1>2 DEF Exit, Decisions, Outcome, Keep

(* ... on every exit.                                                      *)
LEMMA ExitFacts ==
    ASSUME NEW p \in ProviderStates, NEW x \in Exits(p)
    PROVE  /\ Outcome(x.to, x.move)
           /\ x.to = "SUCCESS" => x.provider = "paid"
           /\ p = "paid" => x.provider = "paid"
<1>1. CASE x \in NotSubmitted(p) \cup LookupLost(p)
  BY <1>1 DEF NotSubmitted, LookupLost, Exit, Outcome
<1>2. CASE \E q \in NoAnswer(p) : x = Answered(q)
  BY <1>2, NoAnswerType, AnsweredFacts DEF NoAnswer, Received
<1>3. CASE \E q \in NoAnswer(p) : x = Exit("PROCESSING", NoMove, q, TRUE)
                               \/ x = Exit("FAILED", Release, q, TRUE)
  BY <1>3 DEF Exit, Outcome, NoAnswer, Received
<1>4. QED
  BY <1>1, <1>2, <1>3 DEF Exits, Submitted, SubmitLost, SubmitError, NoAnswer

(* The row and the job a handler leaves behind.                            *)
LEMMA FinishType ==
    ASSUME job \in [Workers -> Jobs], wallet \in Wallets,
           NEW r \in Workers, NEW w \in Withdrawals, NEW x \in Rows, NEW m \in Moves,
           Finish(r, w, x, m)
    PROVE  job' \in [Workers -> Jobs]
<1>1. [phase |-> "commit", w |-> w, write |-> x, move |-> m, seen |-> wallet] \in CommitJobs
  BY DEF CommitJobs
<1>2. QED
  BY <1>1 DEF Finish, Jobs

(* The next challenge of a row is a row of the same status (issue_challenge).*)
LEMMA IssueType ==
    ASSUME NEW x \in Rows
    PROVE  IssueAndSendOtp(x) \in Rows /\ IssueAndSendOtp(x).status = x.status
<1>1. IssueChallenge(x) \in Rows /\ IssueChallenge(x).status = x.status
  BY DEF IssueChallenge, Rows
<1>2. \A y \in Rows : [y EXCEPT !.sends = @ + 1] \in Rows /\ [y EXCEPT !.sends = @ + 1].status = y.status
  BY DEF Rows
<1>3. QED
  BY <1>1, <1>2 DEF IssueAndSendOtp

(* A withdrawal is requested as a DRAFT (request_withdrawal).              *)
LEMMA FirstRow ==
    /\ [IssueAndSendOtp(EmptyRow) EXCEPT !.status = "DRAFT"] \in Rows
    /\ [IssueAndSendOtp(EmptyRow) EXCEPT !.status = "DRAFT"].status = "DRAFT"
<1>1. EmptyRow \in Rows
  BY DEF EmptyRow, Rows, Statuses
<1>2. \A y \in Rows : /\ [y EXCEPT !.status = "DRAFT"] \in Rows
                     /\ [y EXCEPT !.status = "DRAFT"].status = "DRAFT"
  BY DEF Rows, Statuses
<1>3. QED
  BY <1>1, <1>2, IssueType

(* A status written into a row leaves a row.                               *)
LEMMA StatusType ==
    ASSUME NEW x \in Rows, NEW s \in Statuses
    PROVE  [x EXCEPT !.status = s] \in Rows
BY DEF Rows

(* A job's phase says what it holds.                                       *)
LEMMA JobShape ==
    ASSUME job \in [Workers -> Jobs], NEW r \in Workers
    PROVE  /\ job[r].phase = "commit" => job[r] \in CommitJobs
           /\ job[r].phase = "read" => job[r] \in ReadJobs
           /\ job[r].phase \notin {"read", "commit"} => job[r] = IdleJob
BY DEF Jobs, IdleJob, ReadJobs, CommitJobs

----------------------------------------------------------------------------
(* Type correctness *)

(* A saturating counter stays within its bound.                            *)
LEMMA UpToType ==
    ASSUME NEW n \in 0 .. 2
    PROVE  UpTo(n, 2) \in 0 .. 2
BY DEF UpTo

(* What every handler has in common.                                       *)
LEMMA HandlerType ==
    ASSUME TypeOK, NEW r \in Workers, NEW w \in Withdrawals, NEW x \in Rows,
           NEW m \in Moves, Finish(r, w, x, m),
           provider' \in [Withdrawals -> ProviderStates],
           calls' \in [Withdrawals -> 0 .. 2],
           otpPassed' \subseteq Withdrawals, approved' \subseteq Withdrawals,
           guesses' \in [Withdrawals -> Nat],
           UNCHANGED <<row, wallet, paidOut, undone, crashes>>
    PROVE  TypeOK'
<1>1. job' \in [Workers -> Jobs]
  BY FinishType DEF TypeOK
<1>2. QED
  BY <1>1 DEF TypeOK

(* _submit_to_selcom keeps the types, whichever exit it takes.             *)
LEMMA SubmitType ==
    ASSUME TypeOK, NEW r \in Workers, NEW w \in Withdrawals, SubmitToSelcom(r, w),
           otpPassed' \subseteq Withdrawals, approved' \subseteq Withdrawals,
           UNCHANGED <<row, wallet, guesses, paidOut, undone, crashes>>
    PROVE  TypeOK'
<1>1. PICK x \in Exits(provider[w]) :
        /\ provider' = [provider EXCEPT ![w] = x.provider]
        /\ calls' = [calls EXCEPT ![w] = IF x.called THEN UpTo(@, 2) ELSE @]
        /\ Finish(r, w, [row[w] EXCEPT !.status = x.to], x.move)
  BY DEF SubmitToSelcom
<1>2. ExitOK(x)
  BY ExitType DEF TypeOK
<1>3. [row[w] EXCEPT !.status = x.to] \in Rows
  BY <1>2, StatusType DEF TypeOK, ExitOK
<1>4. provider' \in [Withdrawals -> ProviderStates]
  BY <1>1, <1>2 DEF TypeOK, ExitOK
<1>5. calls' \in [Withdrawals -> 0 .. 2]
  BY <1>1, UpToType DEF TypeOK
<1>6. guesses' \in [Withdrawals -> Nat]
  BY DEF TypeOK
<1>7. QED
  BY <1>1, <1>2, <1>3, <1>4, <1>5, <1>6, HandlerType DEF ExitOK

(* The row reconciliation writes.                                          *)
LEMMA ReconcileType ==
    ASSUME NEW x \in Rows, NEW s \in Statuses, NEW p \in ProviderStates
    PROVE  LET res == ApplyProviderResult(s, Reply(p))
           IN  SetStatus(x, res.to) \in Rows /\ res.move \in Moves
<1> DEFINE res == ApplyProviderResult(s, Reply(p))
<1>1. res \in Results
  BY ResultType
<1> HIDE DEF res
<1>2. SetStatus(x, res.to) \in Rows
  BY <1>1, StatusType DEF SetStatus, Results
<1>3. res.move \in Moves
  BY <1>1 DEF Results
<1>4. QED
  BY <1>2, <1>3 DEF res

(* Every step keeps the types.                                             *)
LEMMA TypeStep ==
    ASSUME TypeOK, [Next]_vars
    PROVE  TypeOK'
<1> USE MoveType
<1>1. ASSUME NEW r \in Workers, NEW w \in Withdrawals, RequestWithdrawal(r, w)
      PROVE  TypeOK'
  BY <1>1, FirstRow, HandlerType DEF RequestWithdrawal, TypeOK
<1>2. ASSUME NEW r \in Workers, NEW w \in Withdrawals, ResendOtp(r, w)
      PROVE  TypeOK'
  BY <1>2, IssueType, HandlerType DEF ResendOtp, TypeOK
<1>3. ASSUME NEW r \in Workers, NEW w \in Withdrawals, NEW e \in BOOLEAN,
             ConfirmRefused(r, w, e)
      PROVE  TypeOK'
  <2> DEFINE compared == ~Exhausted(row[w]) /\ e
             tried == IF compared THEN [row[w] EXCEPT !.attempts = @ + 1] ELSE row[w]
  <2>1. row[w] \in Rows
    BY DEF TypeOK
  <2>2. tried \in Rows
    BY <2>1 DEF Rows
  <2>3. guesses' \in [Withdrawals -> Nat]
    BY <1>3 DEF ConfirmRefused, Verify, Compared, TypeOK, UpTo
  <2>4. \/ Finish(r, w, [tried EXCEPT !.status = "CANCELLED"], Release)
        \/ Finish(r, w, tried, NoMove)
    BY <1>3 DEF ConfirmRefused, Verify, Compared
  <2>5. UNCHANGED <<row, wallet, provider, calls, otpPassed, approved, paidOut, undone, crashes>>
    BY <1>3 DEF ConfirmRefused, Verify, Compared
  <2>6. [tried EXCEPT !.status = "CANCELLED"] \in Rows
    BY <2>2, StatusType DEF Statuses
  <2> HIDE DEF tried
  <2>7. QED
    BY <2>2, <2>3, <2>4, <2>5, <2>6, HandlerType DEF TypeOK
<1>4. ASSUME NEW r \in Workers, NEW w \in Withdrawals, ConfirmForReview(r, w)
      PROVE  TypeOK'
  <2>1. [row[w] EXCEPT !.status = "PENDING_APPROVAL"] \in Rows
    BY StatusType DEF TypeOK, Statuses
  <2>2. QED
    BY <1>4, <2>1, HandlerType DEF ConfirmForReview, TypeOK
<1>5. ASSUME NEW r \in Workers, NEW w \in Withdrawals, ConfirmAndSubmit(r, w)
      PROVE  TypeOK'
  BY <1>5, SubmitType DEF ConfirmAndSubmit, TypeOK
<1>6. ASSUME NEW r \in Workers, NEW w \in Withdrawals, ApproveWithdrawal(r, w)
      PROVE  TypeOK'
  BY <1>6, SubmitType DEF ApproveWithdrawal, TypeOK
<1>7. ASSUME NEW r \in Workers, NEW w \in Withdrawals,
             RejectWithdrawal(r, w) \/ CancelWithdrawal(r, w) \/ ReverseWithdrawal(r, w)
      PROVE  TypeOK'
  <2>1. \A s \in {"REJECTED", "CANCELLED", "REVERSED"} : [row[w] EXCEPT !.status = s] \in Rows
    BY StatusType DEF TypeOK, Statuses
  <2>2. QED
    BY <1>7, <2>1, HandlerType DEF RejectWithdrawal, CancelWithdrawal, ReverseWithdrawal, TypeOK
<1>8. ASSUME NEW r \in Workers, NEW w \in Withdrawals, Reconcile(r, w)
      PROVE  TypeOK'
  <2>1. row[w] \in Rows /\ row[w].status \in Statuses /\ provider[w] \in ProviderStates
    BY DEF TypeOK, Rows
  <2>2. QED
    BY <1>8, <2>1, ReconcileType, HandlerType DEF Reconcile, ReconcileLocked, TypeOK
<1>9. ASSUME NEW r \in Workers, NEW w \in Withdrawals, WebhookReads(r, w)
      PROVE  TypeOK'
  <2>1. [phase |-> "read", w |-> w, seen |-> row[w].status] \in Jobs
    BY DEF TypeOK, Rows, Jobs, ReadJobs
  <2>2. QED
    BY <1>9, <2>1 DEF WebhookReads, TypeOK
<1>10. ASSUME NEW r \in Workers, WebhookReconciles(r)
       PROVE  TypeOK'
  <2>1. job[r] \in ReadJobs
    BY <1>10, JobShape DEF WebhookReconciles, ReconcileLocked, TypeOK
  <2>2. job[r].w \in Withdrawals /\ job[r].seen \in Statuses
    BY <2>1 DEF ReadJobs
  <2>3. row[job[r].w] \in Rows /\ provider[job[r].w] \in ProviderStates
    BY <2>2 DEF TypeOK
  <2>4. QED
    BY <1>10, <2>2, <2>3, ReconcileType, HandlerType DEF WebhookReconciles, ReconcileLocked, TypeOK
<1>11. ASSUME NEW r \in Workers, Commit(r)
       PROVE  TypeOK'
  <2>1. job[r] \in CommitJobs
    BY <1>11, JobShape DEF Commit, TypeOK
  <2>2. /\ job[r].w \in Withdrawals /\ job[r].write \in Rows
        /\ job[r].move \in Moves /\ job[r].seen \in Wallets
    BY <2>1 DEF CommitJobs
  <2>3. wallet' \in Wallets
    BY <1>11, <2>2, ApplyType, AmountAssumption DEF Commit, TypeOK
  <2>4. job' \in [Workers -> Jobs]
    BY <1>11 DEF Commit, TypeOK, Jobs
  <2>5. paidOut' \in [Withdrawals -> 0 .. 2]
    BY <1>11, <2>2, UpToType DEF Commit, TypeOK
  <2>6. QED
    BY <1>11, <2>2, <2>3, <2>4, <2>5 DEF Commit, TypeOK
<1>12. ASSUME NEW r \in Workers, Refuse(r) \/ Crash(r)
       PROVE  TypeOK'
  <2>1. job' \in [Workers -> Jobs]
    BY <1>12 DEF Refuse, Crash, TypeOK, Jobs
  <2>2. crashes' \in 0 .. MaxCrashes
    BY <1>12, CrashAssumption DEF Refuse, Crash, TypeOK
  <2>3. undone' \subseteq Withdrawals
    BY <1>12, JobShape DEF Refuse, Crash, TypeOK, CommitJobs
  <2>4. QED
    BY <1>12, <2>1, <2>2, <2>3 DEF Refuse, Crash, TypeOK
<1>13. ASSUME NEW w \in Withdrawals, OtpExpires(w) \/ ProviderSettles(w)
       PROVE  TypeOK'
  <2>1. CASE OtpExpires(w)
    <3>1. row' \in [Withdrawals -> Rows]
      BY <2>1 DEF OtpExpires, TypeOK, Rows
    <3>2. QED
      BY <2>1, <3>1 DEF OtpExpires, TypeOK
  <2>2. CASE ProviderSettles(w)
    <3>1. provider' \in [Withdrawals -> ProviderStates]
      BY <2>2 DEF ProviderSettles, TypeOK, ProviderStates, Paid
    <3>2. QED
      BY <2>2, <3>1 DEF ProviderSettles, TypeOK
  <2>3. QED
    BY <1>13, <2>1, <2>2
<1>14. CASE UNCHANGED vars
  BY <1>14 DEF vars, TypeOK
<1>15. QED
  BY <1>1, <1>2, <1>3, <1>4, <1>5, <1>6, <1>7, <1>8, <1>9, <1>10, <1>11, <1>12,
     <1>13, <1>14 DEF Next, Request

(* The types hold initially.                                               *)
LEMMA TypeInit == Init => TypeOK
BY OpeningAssumption, CrashAssumption
   DEF Init, TypeOK, EmptyRow, Rows, Statuses, Wallets, Buckets, Jobs, ProviderStates

(***************************************************************************)
(* Rows, balances, jobs and Selcom's states are well formed in every       *)
(* reachable state, for any number of withdrawals and workers.             *)
(***************************************************************************)
THEOREM TypeCorrect == Spec => []TypeOK
BY TypeInit, TypeStep, PTL DEF Spec

----------------------------------------------------------------------------
(* Who vouched for a payout *)

(***************************************************************************)
(* A withdrawal of status s has passed its OTP if s comes after the OTP,   *)
(* and the review if s comes after the review.                             *)
(***************************************************************************)
Vouched(w, s) ==
    /\ s \in PastOtp => w \in otpPassed
    /\ s \in PastReview /\ NeedsApproval(w) => w \in approved

(***************************************************************************)
(* AuthorisedPayout made inductive: the committed status is vouched for,   *)
(* and so is the one a webhook read, and the one a request will write.     *)
(***************************************************************************)
AuthInv ==
    /\ AuthorisedPayout
    /\ \A w \in Withdrawals : Vouched(w, row[w].status)
    /\ \A r \in Workers : job[r].phase = "read" => Vouched(job[r].w, job[r].seen)
    /\ \A r \in Workers : job[r].phase = "commit" => Vouched(job[r].w, job[r].write.status)

(***************************************************************************)
(* BookedOnlyIfPaid made inductive: a request about to book a payment, or  *)
(* to write a status that follows one, saw Selcom report it.               *)
(***************************************************************************)
Books(j) == j.move = Complete \/ j.write.status \in {"SUCCESS", "REVERSED"}

PaidInv ==
    /\ BookedOnlyIfPaid
    /\ \A r \in Workers : job[r].phase = "commit" /\ Books(job[r]) => provider[job[r].w] = "paid"

(***************************************************************************)
(* ClosedStaysClosed made inductive.  One request at a time holds a row; a *)
(* row once sent to Selcom stays among the sent ones; what a webhook read  *)
(* as in flight was sent, so it is not one that people closed.             *)
(***************************************************************************)
Closed == {"REJECTED", "CANCELLED"}
Sent == InFlight \cup {"SUCCESS", "FAILED", "REVERSED"}

RowLock ==
    \A r, s \in Workers :
        job[r].phase = "commit" /\ job[s].phase = "commit" /\ job[r].w = job[s].w => r = s

SentStaysSent ==
    \A r \in Workers :
        /\ job[r].phase = "read" /\ job[r].seen \in InFlight => row[job[r].w].status \in Sent
        /\ job[r].phase = "commit" /\ row[job[r].w].status \in Sent => job[r].write.status \in Sent

ClosedKept ==
    \A r \in Workers :
        job[r].phase = "commit" /\ row[job[r].w].status \in Closed => job[r].write = row[job[r].w]

CloseInv == RowLock /\ SentStaysSent /\ ClosedKept

----------------------------------------------------------------------------
(* AuthorisedPayout *)

(* What Finish leaves in the jobs.                                         *)
LEMMA FinishJobs ==
    ASSUME job \in [Workers -> Jobs], NEW r \in Workers, NEW w, NEW x, NEW m,
           Finish(r, w, x, m)
    PROVE  /\ job'[r] = [phase |-> "commit", w |-> w, write |-> x, move |-> m, seen |-> wallet]
           /\ \A s \in Workers \ {r} : job'[s] = job[s]
BY DEF Finish

(* A handler keeps AuthInv if the status it will write is vouched for.     *)
LEMMA AuthHandler ==
    ASSUME TypeOK, AuthInv, NEW r \in Workers, NEW w \in Withdrawals, NEW x, NEW m,
           Finish(r, w, x, m), row' = row,
           otpPassed \subseteq otpPassed', approved \subseteq approved',
           Vouched(w, x.status)', AuthorisedPayout'
    PROVE  AuthInv'
<1>1. \A v, s : Vouched(v, s) => Vouched(v, s)'
  BY DEF Vouched
<1>2. /\ job'[r] = [phase |-> "commit", w |-> w, write |-> x, move |-> m, seen |-> wallet]
      /\ \A s \in Workers \ {r} : job'[s] = job[s]
  BY FinishJobs DEF TypeOK
<1>3. (\A v \in Withdrawals : Vouched(v, row[v].status))'
  BY <1>1 DEF AuthInv
<1>4. ASSUME NEW s \in Workers
      PROVE  /\ (job[s].phase = "read" => Vouched(job[s].w, job[s].seen))'
             /\ (job[s].phase = "commit" => Vouched(job[s].w, job[s].write.status))'
  <2>1. CASE s = r
    BY <1>2, <2>1
  <2>2. CASE s # r
    BY <1>1, <1>2, <2>2 DEF AuthInv
  <2>3. QED
    BY <2>1, <2>2
<1>5. QED
  BY <1>3, <1>4 DEF AuthInv

(* Submitting, by a request that has the authority to.                     *)
LEMMA AuthSubmit ==
    ASSUME TypeOK, AuthInv, NEW r \in Workers, NEW w \in Withdrawals,
           SubmitToSelcom(r, w), row' = row,
           otpPassed \subseteq otpPassed', approved \subseteq approved',
           w \in otpPassed', NeedsApproval(w) => w \in approved'
    PROVE  AuthInv'
<1>1. PICK x \in Exits(provider[w]) :
        /\ calls' = [calls EXCEPT ![w] = IF x.called THEN UpTo(@, 2) ELSE @]
        /\ Finish(r, w, [row[w] EXCEPT !.status = x.to], x.move)
  BY DEF SubmitToSelcom
<1>2. \A s : Vouched(w, s)'
  BY DEF Vouched, NeedsApproval
<1>3. AuthorisedPayout'
  BY <1>1 DEF AuthInv, AuthorisedPayout, TypeOK, NeedsApproval
<1>4. QED
  BY <1>1, <1>2, <1>3, AuthHandler

(* Writing the outcome of a query: the status held was vouched for.        *)
LEMMA AuthReconcile ==
    ASSUME TypeOK, AuthInv, NEW w \in Withdrawals, NEW s \in Statuses, Vouched(w, s)
    PROVE  LET res == ApplyProviderResult(s, Reply(provider[w]))
           IN  Vouched(w, SetStatus(row[w], res.to).status)
<1> DEFINE res == ApplyProviderResult(s, Reply(provider[w]))
<1>1. /\ res \in Decisions
      /\ s \notin InFlight => res = [to |-> Keep, move |-> NoMove]
  BY ResultFacts DEF TypeOK
<1> HIDE DEF res
<1>2. Vouched(w, row[w].status) /\ row[w] \in Rows
  BY DEF AuthInv, TypeOK
<1>3. ASSUME res.to = Keep
      PROVE  Vouched(w, SetStatus(row[w], res.to).status)
  BY <1>2, <1>3 DEF SetStatus, Vouched
<1>4. ASSUME res.to # Keep
      PROVE  Vouched(w, SetStatus(row[w], res.to).status)
  <2>1. s \in InFlight /\ res.to \in {"SUCCESS", "AMBIGUOUS", "FAILED"}
    BY <1>1, <1>4 DEF Decisions
  <2>2. SetStatus(row[w], res.to).status = res.to
    BY <1>2, <1>4 DEF SetStatus, Rows
  <2>3. Vouched(w, res.to)
    BY <2>1 DEF Vouched, PastOtp, PastReview, InFlight
  <2>4. QED
    BY <2>2, <2>3 DEF Vouched
<1>5. QED
  BY <1>3, <1>4 DEF res

(* AuthInv is inductive.                                                   *)
LEMMA AuthStep ==
    ASSUME TypeOK, AuthInv, [Next]_vars
    PROVE  AuthInv'
<1> USE DEF PastOtp, PastReview
<1>0. \A w \in Withdrawals : row[w] \in Rows /\ Vouched(w, row[w].status)
  BY DEF AuthInv, TypeOK
<1>1. ASSUME NEW r \in Workers, NEW w \in Withdrawals,
             RequestWithdrawal(r, w) \/ ResendOtp(r, w)
      PROVE  AuthInv'
  <2>1. PICK x : (\E m : Finish(r, w, x, m)) /\ x.status = "DRAFT"
    BY <1>0, <1>1, FirstRow, IssueType DEF RequestWithdrawal, ResendOtp
  <2>2. UNCHANGED <<row, calls, otpPassed, approved>>
    BY <1>1 DEF RequestWithdrawal, ResendOtp
  <2>3. Vouched(w, x.status)' /\ AuthorisedPayout'
    BY <2>1, <2>2 DEF Vouched, AuthInv, AuthorisedPayout
  <2>4. QED
    BY <2>1, <2>2, <2>3, AuthHandler
<1>2. ASSUME NEW r \in Workers, NEW w \in Withdrawals, NEW e \in BOOLEAN,
             ConfirmRefused(r, w, e)
      PROVE  AuthInv'
  <2>1. PICK x : (\E m : Finish(r, w, x, m)) /\ x.status \in {"DRAFT", "CANCELLED"}
    BY <1>0, <1>2 DEF ConfirmRefused, Verify, Compared, Rows
  <2>2. UNCHANGED <<row, calls, otpPassed, approved>>
    BY <1>2 DEF ConfirmRefused, Verify, Compared
  <2>3. Vouched(w, x.status)' /\ AuthorisedPayout'
    BY <2>1, <2>2 DEF Vouched, AuthInv, AuthorisedPayout
  <2>4. QED
    BY <2>1, <2>2, <2>3, AuthHandler
<1>3. ASSUME NEW r \in Workers, NEW w \in Withdrawals, ConfirmForReview(r, w)
      PROVE  AuthInv'
  <2>1. PICK x : (\E m : Finish(r, w, x, m)) /\ x.status = "PENDING_APPROVAL"
    BY <1>0, <1>3 DEF ConfirmForReview, Rows
  <2>2. UNCHANGED <<row, calls, approved>> /\ otpPassed' = otpPassed \cup {w}
    BY <1>3 DEF ConfirmForReview
  <2>3. Vouched(w, x.status)' /\ AuthorisedPayout'
    BY <2>1, <2>2 DEF Vouched, AuthInv, AuthorisedPayout
  <2>4. QED
    BY <2>1, <2>2, <2>3, AuthHandler
<1>4. ASSUME NEW r \in Workers, NEW w \in Withdrawals, ConfirmAndSubmit(r, w)
      PROVE  AuthInv'
  BY <1>4, AuthSubmit DEF ConfirmAndSubmit
<1>5. ASSUME NEW r \in Workers, NEW w \in Withdrawals, ApproveWithdrawal(r, w)
      PROVE  AuthInv'
  <2>1. w \in otpPassed
    BY <1>0, <1>5 DEF ApproveWithdrawal, Vouched
  <2>2. QED
    BY <1>5, <2>1, AuthSubmit DEF ApproveWithdrawal
<1>6. ASSUME NEW r \in Workers, NEW w \in Withdrawals,
             RejectWithdrawal(r, w) \/ CancelWithdrawal(r, w) \/ ReverseWithdrawal(r, w)
      PROVE  AuthInv'
  <2>1. PICK x : /\ \E m : Finish(r, w, x, m)
                 /\ \/ x.status \in {"REJECTED", "CANCELLED"}
                    \/ x.status = "REVERSED" /\ row[w].status = "SUCCESS"
    BY <1>0, <1>6 DEF RejectWithdrawal, CancelWithdrawal, ReverseWithdrawal, Rows
  <2>2. UNCHANGED <<row, calls, otpPassed, approved>>
    BY <1>6 DEF RejectWithdrawal, CancelWithdrawal, ReverseWithdrawal
  <2>3. Vouched(w, x.status)' /\ AuthorisedPayout'
    BY <1>0, <2>1, <2>2 DEF Vouched, AuthInv, AuthorisedPayout
  <2>4. QED
    BY <2>1, <2>2, <2>3, AuthHandler
<1>7. ASSUME NEW r \in Workers, NEW w \in Withdrawals, Reconcile(r, w)
      PROVE  AuthInv'
  <2> DEFINE res == ApplyProviderResult(row[w].status, Reply(provider[w]))
  <2>1. Vouched(w, SetStatus(row[w], res.to).status)
    BY <1>0, AuthReconcile DEF Rows
  <2>2. PICK x : (\E m : Finish(r, w, x, m)) /\ Vouched(w, x.status)
    BY <1>7, <2>1 DEF Reconcile, ReconcileLocked
  <2>3. UNCHANGED <<row, calls, otpPassed, approved>>
    BY <1>7 DEF Reconcile, ReconcileLocked
  <2>4. Vouched(w, x.status)' /\ AuthorisedPayout'
    BY <2>2, <2>3 DEF Vouched, AuthInv, AuthorisedPayout
  <2>5. QED
    BY <2>2, <2>3, <2>4, AuthHandler
<1>8. ASSUME NEW r \in Workers, NEW w \in Withdrawals, WebhookReads(r, w)
      PROVE  AuthInv'
  <2>1. UNCHANGED <<row, calls, otpPassed, approved>>
    BY <1>8 DEF WebhookReads
  <2>2. AuthorisedPayout' /\ (\A v \in Withdrawals : Vouched(v, row[v].status))'
    BY <2>1 DEF Vouched, AuthInv, AuthorisedPayout
  <2>3. ASSUME NEW s \in Workers
        PROVE  /\ (job[s].phase = "read" => Vouched(job[s].w, job[s].seen))'
               /\ (job[s].phase = "commit" => Vouched(job[s].w, job[s].write.status))'
    <3>1. CASE s = r
      <4>1. job'[s] = [phase |-> "read", w |-> w, seen |-> row[w].status]
        BY <1>8, <3>1 DEF WebhookReads, TypeOK
      <4>2. QED
        BY <1>0, <2>1, <4>1 DEF Vouched
    <3>2. CASE s # r
      <4>1. job'[s] = job[s]
        BY <1>8, <3>2 DEF WebhookReads, TypeOK
      <4>2. QED
        BY <2>1, <4>1 DEF Vouched, AuthInv
    <3>3. QED
      BY <3>1, <3>2
  <2>4. QED
    BY <2>2, <2>3 DEF AuthInv
<1>9. ASSUME NEW r \in Workers, WebhookReconciles(r)
      PROVE  AuthInv'
  <2>1. job[r] \in ReadJobs
    BY <1>9, JobShape DEF WebhookReconciles, ReconcileLocked, TypeOK
  <2>2. PICK w \in Withdrawals, seen \in Statuses : w = job[r].w /\ seen = job[r].seen
    BY <2>1 DEF ReadJobs
  <2>3. Vouched(w, seen)
    BY <1>9, <2>2 DEF AuthInv, WebhookReconciles, ReconcileLocked
  <2>4. PICK x : (\E m : Finish(r, w, x, m)) /\ Vouched(w, x.status)
    BY <1>9, <2>2, <2>3, AuthReconcile DEF WebhookReconciles, ReconcileLocked
  <2>5. UNCHANGED <<row, calls, otpPassed, approved>>
    BY <1>9 DEF WebhookReconciles, ReconcileLocked
  <2>6. Vouched(w, x.status)' /\ AuthorisedPayout'
    BY <2>4, <2>5 DEF Vouched, AuthInv, AuthorisedPayout
  <2>7. QED
    BY <2>4, <2>5, <2>6, AuthHandler
<1>10. ASSUME NEW r \in Workers, Commit(r) \/ Refuse(r) \/ Crash(r)
       PROVE  AuthInv'
  <2>1. UNCHANGED <<calls, otpPassed, approved>>
    BY <1>10 DEF Commit, Refuse, Crash
  <2>2. job' = [job EXCEPT ![r] = IdleJob]
    BY <1>10 DEF Commit, Refuse, Crash
  <2>3. (\A v \in Withdrawals : Vouched(v, row[v].status))'
    <3>1. CASE row' = row
      BY <1>0, <2>1, <3>1 DEF Vouched
    <3>2. CASE Commit(r)
      BY <1>0, <2>1, <3>2 DEF Commit, Vouched, AuthInv, TypeOK
    <3>3. QED
      BY <1>10, <3>1, <3>2 DEF Refuse, Crash
  <2>4. \A s \in Workers : job'[s] = job[s] \/ job'[s] = IdleJob
    BY <2>2 DEF TypeOK
  <2>5. ASSUME NEW s \in Workers
        PROVE  /\ (job[s].phase = "read" => Vouched(job[s].w, job[s].seen))'
               /\ (job[s].phase = "commit" => Vouched(job[s].w, job[s].write.status))'
    BY <2>1, <2>4 DEF AuthInv, Vouched, IdleJob
  <2>6. QED
    BY <2>1, <2>3, <2>5 DEF AuthInv, AuthorisedPayout
<1>11. ASSUME NEW w \in Withdrawals, OtpExpires(w) \/ ProviderSettles(w)
       PROVE  AuthInv'
  <2>1. UNCHANGED <<job, calls, otpPassed, approved>>
    BY <1>11 DEF OtpExpires, ProviderSettles
  <2>2. \A v \in Withdrawals : row'[v].status = row[v].status
    <3>1. row' = row \/ row' = [row EXCEPT ![w] = [row[w] EXCEPT !.code = "expired"]]
      BY <1>11 DEF OtpExpires, ProviderSettles
    <3>2. QED
      BY <1>0, <3>1 DEF TypeOK, Rows
  <2>3. QED
    BY <2>1, <2>2 DEF AuthInv, AuthorisedPayout, Vouched
<1>12. CASE UNCHANGED vars
  BY <1>12 DEF vars, AuthInv, AuthorisedPayout, Vouched
<1>13. QED
  BY <1>1, <1>2, <1>3, <1>4, <1>5, <1>6, <1>7, <1>8, <1>9, <1>10, <1>11, <1>12
     DEF Next, Request

(***************************************************************************)
(* No interleaving, crash or retry gets money sent for a withdrawal whose  *)
(* OTP was not entered or whose review was skipped.                        *)
(***************************************************************************)
THEOREM Authorised == Spec => []AuthorisedPayout
<1>1. Init => AuthInv
  BY DEF Init, AuthInv, AuthorisedPayout, Vouched, EmptyRow, PastOtp, PastReview, IdleJob
<1>2. TypeOK /\ AuthInv /\ [Next]_vars => AuthInv'
  BY AuthStep
<1>3. AuthInv => AuthorisedPayout
  BY DEF AuthInv
<1>4. QED
  BY <1>1, <1>2, <1>3, TypeCorrect, PTL DEF Spec

----------------------------------------------------------------------------
(* BookedOnlyIfPaid *)

Evidence(w, x, m) == m = Complete \/ x.status \in {"SUCCESS", "REVERSED"} => provider[w] = "paid"
PaidKept == \A v \in Withdrawals : provider[v] = "paid" => provider'[v] = "paid"

(* The movements of the handlers differ, and only one is a payment.        *)
LEMMA MovesDiffer ==
    Complete \notin {NoMove, Reserve, Release, Reverse}
BY DEF NoMove, Reserve, Release, Complete, Reverse, None

(* A handler keeps PaidInv if it has evidence for what it will book.       *)
LEMMA PaidHandler ==
    ASSUME TypeOK, PaidInv, NEW r \in Workers, NEW w \in Withdrawals, NEW x, NEW m,
           Finish(r, w, x, m), UNCHANGED <<row, paidOut>>, PaidKept, Evidence(w, x, m)'
    PROVE  PaidInv'
<1>1. /\ job'[r] = [phase |-> "commit", w |-> w, write |-> x, move |-> m, seen |-> wallet]
      /\ \A s \in Workers \ {r} : job'[s] = job[s]
  BY FinishJobs DEF TypeOK
<1>2. BookedOnlyIfPaid'
  BY DEF PaidInv, BookedOnlyIfPaid, PaidKept
<1>3. ASSUME NEW s \in Workers, job'[s].phase = "commit", Books(job[s])'
      PROVE  provider'[job'[s].w] = "paid"
  <2>1. CASE s = r
    BY <1>1, <1>3, <2>1 DEF Evidence, Books
  <2>2. CASE s # r
    <3>1. job[s].phase = "commit" /\ Books(job[s]) /\ job'[s].w = job[s].w
      BY <1>1, <1>3, <2>2 DEF Books
    <3>2. provider[job[s].w] = "paid" /\ job[s].w \in Withdrawals
      BY <3>1, JobShape DEF PaidInv, TypeOK, CommitJobs
    <3>3. QED
      BY <3>1, <3>2 DEF PaidKept
  <2>3. QED
    BY <2>1, <2>2
<1>4. QED
  BY <1>2, <1>3 DEF PaidInv

(* Submitting books a payment only on Selcom's word.                       *)
LEMMA PaidSubmit ==
    ASSUME TypeOK, PaidInv, NEW r \in Workers, NEW w \in Withdrawals,
           SubmitToSelcom(r, w), UNCHANGED <<row, paidOut>>
    PROVE  PaidInv'
<1>1. PICK x \in Exits(provider[w]) :
        /\ provider' = [provider EXCEPT ![w] = x.provider]
        /\ Finish(r, w, [row[w] EXCEPT !.status = x.to], x.move)
  BY DEF SubmitToSelcom
<1>2. /\ Outcome(x.to, x.move)
      /\ x.to = "SUCCESS" => x.provider = "paid"
      /\ provider[w] = "paid" => x.provider = "paid"
  BY ExitFacts DEF TypeOK
<1>3. PICK y : y = [row[w] EXCEPT !.status = x.to]
  OBVIOUS
<1>4. y.status = x.to
  BY <1>3 DEF TypeOK, Rows
<1>5. Evidence(w, y, x.move)'
  BY <1>1, <1>2, <1>4, MovesDiffer DEF Evidence, Outcome, TypeOK
<1>6. PaidKept
  BY <1>1, <1>2 DEF PaidKept, TypeOK
<1>7. QED
  BY <1>1, <1>3, <1>5, <1>6, PaidHandler

(* The outcome of a query is a payment only if Selcom reports it.          *)
LEMMA PaidReconcile ==
    ASSUME TypeOK, PaidInv, NEW w \in Withdrawals, NEW s \in Statuses
    PROVE  LET res == ApplyProviderResult(s, Reply(provider[w]))
           IN  Evidence(w, SetStatus(row[w], res.to), res.move)
<1> DEFINE res == ApplyProviderResult(s, Reply(provider[w]))
<1>1. res \in Decisions /\ (res = [to |-> "SUCCESS", move |-> Complete] => provider[w] = "paid")
  BY ResultFacts DEF TypeOK
<1> HIDE DEF res
<1>2. row[w] \in Rows /\ (row[w].status \in {"SUCCESS", "REVERSED"} => provider[w] = "paid")
  BY DEF PaidInv, BookedOnlyIfPaid, TypeOK
<1>3. ASSUME res.to = Keep
      PROVE  Evidence(w, SetStatus(row[w], res.to), res.move)
  BY <1>1, <1>2, <1>3, MovesDiffer DEF SetStatus, Evidence, Decisions, Keep
<1>4. ASSUME res.to # Keep
      PROVE  Evidence(w, SetStatus(row[w], res.to), res.move)
  <2>1. SetStatus(row[w], res.to).status = res.to
    BY <1>2, <1>4 DEF SetStatus, Rows
  <2>2. QED
    BY <1>1, <1>4, <2>1, MovesDiffer DEF Evidence, Decisions
<1>5. QED
  BY <1>3, <1>4 DEF res

(* PaidInv is inductive.                                                   *)
LEMMA PaidStep ==
    ASSUME TypeOK, PaidInv, [Next]_vars
    PROVE  PaidInv'
<1>0. \A w \in Withdrawals : row[w] \in Rows
  BY DEF TypeOK
<1>1. ASSUME NEW r \in Workers, NEW w \in Withdrawals,
             \/ RequestWithdrawal(r, w) \/ ResendOtp(r, w)
             \/ \E e \in BOOLEAN : ConfirmRefused(r, w, e)
             \/ ConfirmForReview(r, w)
             \/ RejectWithdrawal(r, w) \/ CancelWithdrawal(r, w)
      PROVE  PaidInv'
  <2>1. PICK x, m : /\ Finish(r, w, x, m)
                    /\ m \in {NoMove, Reserve, Release}
                    /\ x.status \notin {"SUCCESS", "REVERSED"}
    <3>1. CASE RequestWithdrawal(r, w)
      BY <3>1, FirstRow DEF RequestWithdrawal
    <3>2. CASE ResendOtp(r, w)
      BY <1>0, <3>2, IssueType DEF ResendOtp
    <3>3. CASE \E e \in BOOLEAN : ConfirmRefused(r, w, e)
      BY <1>0, <3>3 DEF ConfirmRefused, Verify, Compared, Rows
    <3>4. CASE ConfirmForReview(r, w) \/ RejectWithdrawal(r, w) \/ CancelWithdrawal(r, w)
      BY <1>0, <3>4 DEF ConfirmForReview, RejectWithdrawal, CancelWithdrawal, Rows
    <3>5. QED
      BY <1>1, <3>1, <3>2, <3>3, <3>4
  <2>2. UNCHANGED <<row, paidOut, provider>>
    BY <1>1 DEF RequestWithdrawal, ResendOtp, ConfirmRefused, Verify, Compared, ConfirmForReview,
                RejectWithdrawal, CancelWithdrawal
  <2>3. PaidKept /\ Evidence(w, x, m)'
    BY <2>1, <2>2, MovesDiffer DEF PaidKept, Evidence
  <2>4. QED
    BY <2>1, <2>2, <2>3, PaidHandler
<1>2. ASSUME NEW r \in Workers, NEW w \in Withdrawals,
             ConfirmAndSubmit(r, w) \/ ApproveWithdrawal(r, w)
      PROVE  PaidInv'
  BY <1>2, PaidSubmit DEF ConfirmAndSubmit, ApproveWithdrawal
<1>3. ASSUME NEW r \in Workers, NEW w \in Withdrawals, ReverseWithdrawal(r, w)
      PROVE  PaidInv'
  <2>1. PICK x : Finish(r, w, x, Reverse)
    BY <1>3 DEF ReverseWithdrawal
  <2>2. UNCHANGED <<row, paidOut, provider>>
    BY <1>3 DEF ReverseWithdrawal
  <2>3. PaidKept /\ Evidence(w, x, Reverse)'
    BY <1>3, <2>2 DEF ReverseWithdrawal, PaidKept, Evidence, PaidInv, BookedOnlyIfPaid
  <2>4. QED
    BY <2>1, <2>2, <2>3, PaidHandler
<1>4. ASSUME NEW r \in Workers, NEW w \in Withdrawals, NEW s \in Statuses, NEW x, NEW m,
             Finish(r, w, x, m), UNCHANGED <<row, paidOut, provider>>,
             x = SetStatus(row[w], ApplyProviderResult(s, Reply(provider[w])).to),
             m = ApplyProviderResult(s, Reply(provider[w])).move
      PROVE  PaidInv'
  <2>1. Evidence(w, x, m)
    BY <1>4, PaidReconcile
  <2>2. PaidKept /\ Evidence(w, x, m)'
    BY <1>4, <2>1 DEF PaidKept, Evidence
  <2>3. QED
    BY <1>4, <2>2, PaidHandler
<1>5. ASSUME NEW r \in Workers, NEW w \in Withdrawals, Reconcile(r, w)
      PROVE  PaidInv'
  <2>1. row[w].status \in Statuses
    BY <1>0 DEF Rows
  <2>2. QED
    BY <1>4, <1>5, <2>1 DEF Reconcile, ReconcileLocked
<1>6. ASSUME NEW r \in Workers, WebhookReconciles(r)
      PROVE  PaidInv'
  <2>1. job[r] \in ReadJobs
    BY <1>6, JobShape DEF WebhookReconciles, ReconcileLocked, TypeOK
  <2>2. job[r].w \in Withdrawals /\ job[r].seen \in Statuses
    BY <2>1 DEF ReadJobs
  <2>3. QED
    BY <1>4, <1>6, <2>2 DEF WebhookReconciles, ReconcileLocked
<1>7. ASSUME NEW r \in Workers, NEW w \in Withdrawals,
             job' = [job EXCEPT ![r] = [phase |-> "read", w |-> w, seen |-> row[w].status]],
             UNCHANGED <<row, paidOut, provider>>
      PROVE  PaidInv'
  <2>1. \A s \in Workers : job'[s] = job[s] \/ job'[s].phase = "read"
    BY <1>7 DEF TypeOK
  <2>2. QED
    BY <1>7, <2>1 DEF PaidInv, BookedOnlyIfPaid, Books
<1>8. ASSUME NEW r \in Workers, Commit(r) \/ Refuse(r) \/ Crash(r)
      PROVE  PaidInv'
  <2>1. provider' = provider /\ job' = [job EXCEPT ![r] = IdleJob]
    BY <1>8 DEF Commit, Refuse, Crash
  <2>2. \A s \in Workers : job'[s] = job[s] \/ job'[s].phase = "idle"
    BY <2>1 DEF TypeOK, IdleJob
  <2>3. BookedOnlyIfPaid'
    <3>1. CASE UNCHANGED <<row, paidOut>>
      BY <2>1, <3>1 DEF PaidInv, BookedOnlyIfPaid
    <3>2. CASE Commit(r)
      <4>1. job[r] \in CommitJobs
        BY <3>2, JobShape DEF Commit, TypeOK
      <4>2. PICK v \in Withdrawals : v = job[r].w
        BY <4>1 DEF CommitJobs
      <4>3. /\ row' = [row EXCEPT ![v] = job[r].write]
            /\ paidOut' = [paidOut EXCEPT ![v] = IF job[r].move = Complete
                                                THEN UpTo(@, 2) ELSE @]
        BY <3>2, <4>2 DEF Commit
      <4>4. Books(job[r]) => provider[v] = "paid"
        BY <3>2, <4>2 DEF Commit, PaidInv
      <4>5. QED
        BY <2>1, <4>3, <4>4 DEF Books, PaidInv, BookedOnlyIfPaid, TypeOK
    <3>3. QED
      BY <1>8, <3>1, <3>2 DEF Refuse, Crash
  <2>4. QED
    BY <2>1, <2>2, <2>3 DEF PaidInv, Books
<1>9. ASSUME NEW w \in Withdrawals, OtpExpires(w) \/ ProviderSettles(w)
      PROVE  PaidInv'
  <2>1. UNCHANGED <<job, paidOut>>
    BY <1>9 DEF OtpExpires, ProviderSettles
  <2>2. \A v \in Withdrawals : row'[v].status = row[v].status
    <3>1. row' = row \/ row' = [row EXCEPT ![w] = [row[w] EXCEPT !.code = "expired"]]
      BY <1>9 DEF OtpExpires, ProviderSettles
    <3>2. QED
      BY <1>0, <3>1 DEF TypeOK, Rows
  <2>3. PaidKept
    BY <1>9 DEF OtpExpires, ProviderSettles, PaidKept, TypeOK
  <2>4. BookedOnlyIfPaid'
    BY <2>1, <2>2, <2>3 DEF PaidInv, BookedOnlyIfPaid, PaidKept
  <2>5. ASSUME NEW s \in Workers, job[s].phase = "commit", Books(job[s])
        PROVE  provider'[job[s].w] = "paid"
    <3>1. job[s].w \in Withdrawals
      BY <2>5, JobShape DEF TypeOK, CommitJobs
    <3>2. QED
      BY <2>3, <2>5, <3>1 DEF PaidInv, PaidKept
  <2>6. QED
    BY <2>1, <2>4, <2>5 DEF PaidInv, Books
<1>10. CASE UNCHANGED vars
  BY <1>10 DEF vars, PaidInv, BookedOnlyIfPaid, Books
<1>11. QED
  BY <1>1, <1>2, <1>3, <1>5, <1>6, <1>7, <1>8, <1>9, <1>10 DEF Next, Request, WebhookReads

(***************************************************************************)
(* A disbursement is booked, and a withdrawal called successful, only when *)
(* Selcom paid it, whatever order answers, webhooks and sweeps come in.    *)
(***************************************************************************)
THEOREM Booked == Spec => []BookedOnlyIfPaid
<1>1. Init => PaidInv
  BY DEF Init, PaidInv, BookedOnlyIfPaid, EmptyRow, IdleJob
<1>2. TypeOK /\ PaidInv /\ [Next]_vars => PaidInv'
  BY PaidStep
<1>3. PaidInv => BookedOnlyIfPaid
  BY DEF PaidInv
<1>4. QED
  BY <1>1, <1>2, <1>3, TypeCorrect, PTL DEF Spec

----------------------------------------------------------------------------
(* ClosedStaysClosed *)

(* What a handler may write over the committed row. *)
KeepsSent(w, x) ==
    /\ row[w].status \in Sent => x.status \in Sent
    /\ row[w].status \in Closed => x = row[w]

(* A handler that took the row lock and respects the row keeps CloseInv.   *)
LEMMA CloseHandler ==
    ASSUME TypeOK, CloseInv, NEW r \in Workers, NEW w \in Withdrawals, NEW x, NEW m,
           Finish(r, w, x, m), row' = row, ~Locked(w), KeepsSent(w, x)
    PROVE  CloseInv'
<1>1. /\ job'[r] = [phase |-> "commit", w |-> w, write |-> x, move |-> m, seen |-> wallet]
      /\ \A s \in Workers \ {r} : job'[s] = job[s]
  BY FinishJobs DEF TypeOK
<1>2. \A s \in Workers : job[s].phase = "commit" => job[s].w # w
  BY DEF Locked
<1>3. RowLock'
  <2> SUFFICES ASSUME NEW s \in Workers, NEW t \in Workers,
                      job'[s].phase = "commit", job'[t].phase = "commit",
                      job'[s].w = job'[t].w
               PROVE  s = t
    BY DEF RowLock
  <2>1. CASE s = r \/ t = r
    BY <1>1, <1>2, <2>1
  <2>2. CASE s # r /\ t # r
    BY <1>1, <2>2 DEF CloseInv, RowLock
  <2>3. QED
    BY <2>1, <2>2
<1>4. SentStaysSent'
  BY <1>1 DEF CloseInv, SentStaysSent, KeepsSent
<1>5. ClosedKept'
  BY <1>1 DEF CloseInv, ClosedKept, KeepsSent
<1>6. QED
  BY <1>3, <1>4, <1>5 DEF CloseInv

(* Every handler but the reconciling ones finds the row in a status of its *)
(* own choice, none of them closed, and only SUCCESS among the sent.       *)
LEMMA CloseRequests ==
    ASSUME TypeOK, CloseInv, NEW r \in Workers, NEW w \in Withdrawals,
           \/ RequestWithdrawal(r, w) \/ ResendOtp(r, w)
           \/ \E e \in BOOLEAN : ConfirmRefused(r, w, e)
           \/ ConfirmForReview(r, w) \/ ConfirmAndSubmit(r, w) \/ ApproveWithdrawal(r, w)
           \/ RejectWithdrawal(r, w) \/ CancelWithdrawal(r, w) \/ ReverseWithdrawal(r, w)
    PROVE  CloseInv'
<1>1. row' = row /\ ~Locked(w)
  BY DEF RequestWithdrawal, ResendOtp, ConfirmRefused, Verify, Compared, ConfirmForReview, ConfirmAndSubmit,
         ApproveWithdrawal, RejectWithdrawal, CancelWithdrawal, ReverseWithdrawal
<1>2. CASE ReverseWithdrawal(r, w)
  <2>1. PICK x, m : Finish(r, w, x, m) /\ x.status = "REVERSED"
    BY <1>2 DEF ReverseWithdrawal, TypeOK, Rows
  <2>2. KeepsSent(w, x)
    BY <1>2, <2>1 DEF ReverseWithdrawal, KeepsSent, Sent, Closed
  <2>3. QED
    BY <1>1, <2>1, <2>2, CloseHandler
<1>3. CASE ~ReverseWithdrawal(r, w)
  <2>1. row[w].status \in {"NONE", "DRAFT", "PENDING_APPROVAL"}
    BY <1>3 DEF RequestWithdrawal, ResendOtp, ConfirmRefused, Verify, Compared, ConfirmForReview,
                ConfirmAndSubmit, ApproveWithdrawal, RejectWithdrawal, CancelWithdrawal
  <2>2. PICK x, m : Finish(r, w, x, m)
    BY <1>3 DEF RequestWithdrawal, ResendOtp, ConfirmRefused, Verify, Compared, ConfirmForReview,
                ConfirmAndSubmit, ApproveWithdrawal, RejectWithdrawal, CancelWithdrawal,
                SubmitToSelcom
  <2>3. KeepsSent(w, x)
    BY <2>1 DEF KeepsSent, Sent, InFlight, Closed
  <2>4. QED
    BY <1>1, <2>2, <2>3, CloseHandler
<1>4. QED
  BY <1>2, <1>3

(* The outcome of a query, for a status held that was in flight only if    *)
(* the row has been sent.                                                  *)
LEMMA CloseReconcile ==
    ASSUME TypeOK, CloseInv, NEW r \in Workers, NEW w \in Withdrawals, NEW s \in Statuses,
           NEW x, NEW m, Finish(r, w, x, m), row' = row, ~Locked(w),
           x = SetStatus(row[w], ApplyProviderResult(s, Reply(provider[w])).to),
           s \in InFlight => row[w].status \in Sent
    PROVE  CloseInv'
<1> DEFINE res == ApplyProviderResult(s, Reply(provider[w]))
<1>1. /\ res \in Decisions
      /\ s \notin InFlight => res = [to |-> Keep, move |-> NoMove]
  BY ResultFacts DEF TypeOK
<1>2. x = SetStatus(row[w], res.to)
  OBVIOUS
<1> HIDE DEF res
<1>3. KeepsSent(w, x)
  <2>1. CASE res.to = Keep
    BY <1>2, <2>1 DEF SetStatus, KeepsSent
  <2>2. CASE res.to # Keep
    <3>1. res.to \in {"SUCCESS", "AMBIGUOUS", "FAILED"} /\ row[w].status \in Sent
      BY <1>1, <2>2 DEF Decisions
    <3>2. x.status = res.to
      BY <1>2, <2>2 DEF SetStatus, TypeOK, Rows
    <3>3. QED
      BY <3>1, <3>2 DEF KeepsSent, Sent, InFlight, Closed
  <2>3. QED
    BY <2>1, <2>2
<1>4. QED
  BY <1>3, CloseHandler

(* CloseInv is inductive.                                                  *)
LEMMA CloseStep ==
    ASSUME TypeOK, CloseInv, [Next]_vars
    PROVE  CloseInv'
<1>0. \A w \in Withdrawals : row[w] \in Rows
  BY DEF TypeOK
<1>1. ASSUME NEW r \in Workers, NEW w \in Withdrawals, Reconcile(r, w)
      PROVE  CloseInv'
  <2>1. row[w].status \in Statuses /\ row[w].status \in Sent
    BY <1>0, <1>1 DEF Reconcile, ReconcileLocked, Rows, Sent
  <2>2. QED
    BY <1>1, <2>1, CloseReconcile DEF Reconcile, ReconcileLocked
<1>2. ASSUME NEW r \in Workers, NEW w \in Withdrawals, WebhookReads(r, w)
      PROVE  CloseInv'
  <2>1. /\ job'[r] = [phase |-> "read", w |-> w, seen |-> row[w].status]
        /\ \A s \in Workers \ {r} : job'[s] = job[s]
        /\ row' = row
    BY <1>2 DEF WebhookReads, TypeOK
  <2>2. \A s \in Workers : job'[s].phase = "commit" => job'[s] = job[s]
    BY <2>1
  <2>3. RowLock' /\ ClosedKept'
    BY <2>1, <2>2 DEF CloseInv, RowLock, ClosedKept
  <2>4. SentStaysSent'
    BY <2>1 DEF CloseInv, SentStaysSent, Sent
  <2>5. QED
    BY <2>3, <2>4 DEF CloseInv
<1>3. ASSUME NEW r \in Workers, WebhookReconciles(r)
      PROVE  CloseInv'
  <2>1. job[r] \in ReadJobs
    BY <1>3, JobShape DEF WebhookReconciles, ReconcileLocked, TypeOK
  <2>2. PICK w \in Withdrawals, s \in Statuses : w = job[r].w /\ s = job[r].seen
    BY <2>1 DEF ReadJobs
  <2>3. s \in InFlight => row[w].status \in Sent
    BY <1>3, <2>2 DEF WebhookReconciles, ReconcileLocked, CloseInv, SentStaysSent
  <2>4. QED
    BY <1>3, <2>2, <2>3, CloseReconcile DEF WebhookReconciles, ReconcileLocked
<1>4. ASSUME NEW r \in Workers, Refuse(r) \/ Crash(r)
      PROVE  CloseInv'
  <2>1. row' = row /\ \A s \in Workers : job'[s] = job[s] \/ job'[s] = IdleJob
    BY <1>4 DEF Refuse, Crash, TypeOK
  <2>2. QED
    BY <2>1 DEF CloseInv, RowLock, SentStaysSent, ClosedKept, IdleJob
<1>5. ASSUME NEW r \in Workers, Commit(r)
      PROVE  CloseInv'
  <2>1. job[r] \in CommitJobs
    BY <1>5, JobShape DEF Commit, TypeOK
  <2>2. PICK v \in Withdrawals : v = job[r].w
    BY <2>1 DEF CommitJobs
  <2>3. /\ job'[r] = IdleJob
        /\ \A s \in Workers \ {r} : job'[s] = job[s]
        /\ row'[v] = job[r].write
        /\ \A u \in Withdrawals \ {v} : row'[u] = row[u]
    BY <1>5, <2>2 DEF Commit, TypeOK
  <2>4. \A s \in Workers : job'[s].phase = "commit" => s # r /\ job[s].w # v
    BY <1>5, <2>2, <2>3 DEF Commit, IdleJob, CloseInv, RowLock
  <2>5. \A s \in Workers : job'[s].phase \in {"read", "commit"} => job'[s].w \in Withdrawals
    BY <2>3, JobShape DEF IdleJob, TypeOK, ReadJobs, CommitJobs
  <2>6. RowLock'
    BY <2>3, <2>4 DEF CloseInv, RowLock
  <2>7. row[v].status \in Sent => row'[v].status \in Sent
    BY <1>5, <2>2, <2>3 DEF Commit, CloseInv, SentStaysSent
  <2>8. ASSUME NEW s \in Workers, job'[s].phase = "read", job'[s].seen \in InFlight
        PROVE  row'[job'[s].w].status \in Sent
    <3>1. job'[s] = job[s]
      BY <2>3, <2>8 DEF IdleJob
    <3>2. row[job[s].w].status \in Sent
      BY <2>8, <3>1 DEF CloseInv, SentStaysSent
    <3>3. QED
      BY <2>3, <2>5, <2>7, <2>8, <3>1, <3>2
  <2>9. ASSUME NEW s \in Workers, job'[s].phase = "commit"
        PROVE  job'[s] = job[s] /\ row'[job'[s].w] = row[job[s].w]
    BY <2>3, <2>4, <2>5, <2>9
  <2>10. SentStaysSent' /\ ClosedKept'
    BY <2>8, <2>9 DEF CloseInv, SentStaysSent, ClosedKept
  <2>11. QED
    BY <2>6, <2>10 DEF CloseInv
<1>6. ASSUME NEW w \in Withdrawals, OtpExpires(w)
      PROVE  CloseInv'
  <2>1. /\ row' = [row EXCEPT ![w] = [row[w] EXCEPT !.code = "expired"]]
        /\ row[w].status = "DRAFT" /\ job' = job
    BY <1>6 DEF OtpExpires
  <2>2. \A v \in Withdrawals : row'[v].status = row[v].status
    BY <1>0, <2>1 DEF TypeOK, Rows
  <2>3. \A v \in Withdrawals : row[v].status \in Closed => row'[v] = row[v]
    BY <2>1 DEF TypeOK, Closed
  <2>4. \A s \in Workers : job[s].phase \in {"read", "commit"} => job[s].w \in Withdrawals
    BY JobShape DEF TypeOK, ReadJobs, CommitJobs
  <2>5. QED
    BY <2>1, <2>2, <2>3, <2>4 DEF CloseInv, RowLock, SentStaysSent, ClosedKept
<1>7. CASE UNCHANGED <<row, job>>
  BY <1>7 DEF CloseInv, RowLock, SentStaysSent, ClosedKept
<1>8. QED
  BY <1>1, <1>2, <1>3, <1>4, <1>5, <1>6, <1>7, CloseRequests
     DEF Next, Request, ProviderSettles, vars

(* A step writes a closed row only as it was.                              *)
LEMMA CloseAction ==
    ASSUME TypeOK, CloseInv, [Next]_vars, NEW w \in Withdrawals, row[w].status \in Closed
    PROVE  row'[w] = row[w]
<1>1. CASE row' = row
  BY <1>1
<1>2. ASSUME NEW r \in Workers, Commit(r)
      PROVE  row'[w] = row[w]
  <2>1. row' = [row EXCEPT ![job[r].w] = job[r].write]
    BY <1>2 DEF Commit
  <2>2. QED
    BY <1>2, <2>1 DEF Commit, CloseInv, ClosedKept, TypeOK
<1>3. ASSUME NEW v \in Withdrawals, OtpExpires(v)
      PROVE  row'[w] = row[w]
  BY <1>3 DEF OtpExpires, Closed, TypeOK
<1>4. ASSUME NEW r \in Workers, NEW v \in Withdrawals, Request(r, v)
      PROVE  row' = row
  BY <1>4 DEF Request, RequestWithdrawal, ResendOtp, ConfirmRefused, Verify, Compared, ConfirmForReview,
              ConfirmAndSubmit, ApproveWithdrawal, RejectWithdrawal, CancelWithdrawal,
              ReverseWithdrawal, Reconcile, WebhookReads
<1>5. ASSUME NEW r \in Workers, WebhookReconciles(r) \/ Refuse(r) \/ Crash(r)
      PROVE  row' = row
  BY <1>5 DEF WebhookReconciles, ReconcileLocked, Refuse, Crash
<1>6. ASSUME NEW v \in Withdrawals, ProviderSettles(v)
      PROVE  row' = row
  BY <1>6 DEF ProviderSettles
<1>7. QED
  BY <1>1, <1>2, <1>3, <1>4, <1>5, <1>6 DEF Next, vars

(***************************************************************************)
(* What a person rejected or cancelled stays so, for any number of         *)
(* requests, webhooks and sweep calls in progress at once.                 *)
(***************************************************************************)
THEOREM ClosedForGood == Spec => ClosedStaysClosed
<1>1. Init => CloseInv
  BY DEF Init, CloseInv, RowLock, SentStaysSent, ClosedKept, IdleJob
<1>2. TypeOK /\ CloseInv /\ [Next]_vars => CloseInv'
  BY CloseStep
<1>3. TypeOK /\ CloseInv /\ [Next]_vars =>
        [\A w \in Withdrawals :
            row[w].status \in {"REJECTED", "CANCELLED"} => row'[w] = row[w]]_vars
  BY CloseAction DEF Closed
<1>4. QED
  BY <1>1, <1>2, <1>3, TypeCorrect, PTL DEF Spec, ClosedStaysClosed

----------------------------------------------------------------------------
(* Submitted once, unless rolled back *)

(***************************************************************************)
(* ResentOnlyAfterRollback made inductive: what was submitted, and never   *)
(* rolled back, has a row past the submission, or the request that         *)
(* submitted it still holds the row and will write such a status.          *)
(***************************************************************************)
Recorded(w) ==
    \/ row[w].status \in Sent
    \/ \E r \in Workers :
          job[r].phase = "commit" /\ job[r].w = w /\ job[r].write.status \in Sent

ResentInv ==
    /\ ResentOnlyAfterRollback
    /\ \A w \in Withdrawals : calls[w] > 0 => w \in undone \/ Recorded(w)

(* An exit of _submit_to_selcom that called transaction_process leaves a   *)
(* status past the submission.                                             *)
LEMMA CalledIsSent ==
    ASSUME NEW p \in ProviderStates, NEW x \in Exits(p), x.called
    PROVE  x.to \in Sent
<1>1. CASE x \in NotSubmitted(p) \cup LookupLost(p)
  BY <1>1 DEF NotSubmitted, LookupLost, Exit
<1>2. CASE \E q \in NoAnswer(p) : x = Answered(q)
  <2>1. PICK q \in ProviderStates : x = Answered(q)
    BY <1>2, NoAnswerType
  <2> DEFINE res == ApplyProviderResult("PROCESSING", Reply(q))
  <2>2. res \in Decisions
    BY ResultFacts DEF Statuses
  <2>3. x = Exit(IF res.to = Keep THEN "PROCESSING" ELSE res.to, res.move, q, TRUE)
    BY <2>1 DEF Answered
  <2> HIDE DEF res
  <2>4. QED
    BY <2>2, <2>3 DEF Exit, Decisions, Keep, Sent, InFlight
<1>3. CASE \E q \in NoAnswer(p) : x = Exit("PROCESSING", NoMove, q, TRUE)
                               \/ x = Exit("FAILED", Release, q, TRUE)
  BY <1>3 DEF Exit, Sent, InFlight
<1>4. QED
  BY <1>1, <1>2, <1>3 DEF Exits, Submitted, SubmitLost, SubmitError, NoAnswer

(* A handler that submits nothing, or only reads, leaves every record.     *)
LEMMA ResentHandler ==
    ASSUME TypeOK, ResentInv, NEW r \in Workers, job[r].phase # "commit",
           \A s \in Workers \ {r} : job'[s] = job[s],
           \A w \in Withdrawals : row'[w].status = row[w].status,
           UNCHANGED <<calls, undone>>
    PROVE  ResentInv'
<1>1. ResentOnlyAfterRollback'
  BY DEF ResentInv, ResentOnlyAfterRollback
<1>2. ASSUME NEW w \in Withdrawals, Recorded(w)
      PROVE  Recorded(w)'
  BY <1>2 DEF Recorded
<1>3. QED
  BY <1>1, <1>2 DEF ResentInv

(* A submission of a row nobody holds and nobody submitted.                *)
LEMMA ResentSubmit ==
    ASSUME TypeOK, ResentInv, NEW r \in Workers, NEW w \in Withdrawals, Idle(r),
           ~Locked(w), row[w].status \in {"DRAFT", "PENDING_APPROVAL"},
           SubmitToSelcom(r, w), UNCHANGED <<row, undone>>
    PROVE  ResentInv'
<1>1. PICK x \in Exits(provider[w]) :
        /\ calls' = [calls EXCEPT ![w] = IF x.called THEN UpTo(@, 2) ELSE @]
        /\ Finish(r, w, [row[w] EXCEPT !.status = x.to], x.move)
  BY DEF SubmitToSelcom
<1>2. calls[w] > 0 => w \in undone
  BY DEF ResentInv, Recorded, Locked, Sent, InFlight
<1>3. /\ \A s \in Workers \ {r} : job'[s] = job[s]
      /\ job'[r].phase = "commit" /\ job'[r].w = w
      /\ job'[r].write = [row[w] EXCEPT !.status = x.to]
  BY <1>1 DEF Finish, TypeOK
<1>4. job'[r].write.status = x.to
  BY <1>3 DEF TypeOK, Rows
<1>5. calls[w] \in 0 .. 2 /\ \A v \in Withdrawals \ {w} : calls'[v] = calls[v]
  BY <1>1 DEF TypeOK
<1>6. ASSUME NEW v \in Withdrawals \ {w}
      PROVE  calls'[v] > 0 => v \in undone' \/ Recorded(v)'
  BY <1>3, <1>5 DEF ResentInv, Recorded, Idle, IdleJob
<1>7. CASE x.called
  <2>1. calls'[w] = IF calls[w] < 2 THEN calls[w] + 1 ELSE calls[w]
    BY <1>1, <1>7 DEF UpTo, TypeOK
  <2>2. Recorded(w)'
    BY <1>3, <1>4, <1>7, CalledIsSent DEF Recorded, TypeOK
  <2>3. ResentOnlyAfterRollback'
    BY <1>2, <1>5, <2>1 DEF ResentInv, ResentOnlyAfterRollback
  <2>4. QED
    BY <1>6, <2>2, <2>3 DEF ResentInv
<1>8. CASE ~x.called
  <2>1. calls'[w] = calls[w]
    BY <1>1, <1>8 DEF TypeOK
  <2>2. ResentOnlyAfterRollback'
    BY <1>5, <2>1 DEF ResentInv, ResentOnlyAfterRollback
  <2>3. QED
    BY <1>2, <1>6, <2>1, <2>2 DEF ResentInv
<1>9. QED
  BY <1>7, <1>8

(* Every step keeps it.                                                    *)
LEMMA ResentStep ==
    ASSUME TypeOK, CloseInv, ResentInv, [Next]_vars
    PROVE  ResentInv'
<1>1. ASSUME NEW r \in Workers, NEW w \in Withdrawals,
             ConfirmAndSubmit(r, w) \/ ApproveWithdrawal(r, w)
      PROVE  ResentInv'
  BY <1>1, ResentSubmit DEF ConfirmAndSubmit, ApproveWithdrawal
<1>2. ASSUME NEW r \in Workers, NEW w \in Withdrawals,
             \/ RequestWithdrawal(r, w) \/ ResendOtp(r, w)
             \/ \E e \in BOOLEAN : ConfirmRefused(r, w, e)
             \/ ConfirmForReview(r, w) \/ RejectWithdrawal(r, w)
             \/ CancelWithdrawal(r, w) \/ ReverseWithdrawal(r, w)
             \/ Reconcile(r, w) \/ WebhookReads(r, w)
      PROVE  ResentInv'
  <2>1. /\ job[r].phase # "commit" /\ UNCHANGED <<row, calls, undone>>
        /\ \A s \in Workers \ {r} : job'[s] = job[s]
    BY <1>2 DEF RequestWithdrawal, ResendOtp, ConfirmRefused, Verify, Compared, ConfirmForReview,
                RejectWithdrawal, CancelWithdrawal, ReverseWithdrawal, Reconcile,
                WebhookReads, Idle, IdleJob, Finish, TypeOK
  <2>2. QED
    BY <2>1, ResentHandler
<1>3. ASSUME NEW r \in Workers, WebhookReconciles(r)
      PROVE  ResentInv'
  <2>1. /\ job[r].phase # "commit" /\ UNCHANGED <<row, calls, undone>>
        /\ \A s \in Workers \ {r} : job'[s] = job[s]
    BY <1>3 DEF WebhookReconciles, ReconcileLocked, Finish, TypeOK
  <2>2. QED
    BY <2>1, ResentHandler
<1>4. ASSUME NEW r \in Workers, Commit(r)
      PROVE  ResentInv'
  <2>1. job[r] \in CommitJobs
    BY <1>4, JobShape DEF Commit, TypeOK
  <2>2. PICK v \in Withdrawals : v = job[r].w
    BY <2>1 DEF CommitJobs
  <2>3. /\ \A s \in Workers \ {r} : job'[s] = job[s]
        /\ row'[v] = job[r].write
        /\ \A u \in Withdrawals \ {v} : row'[u] = row[u]
        /\ UNCHANGED <<calls, undone>>
    BY <1>4, <2>2 DEF Commit, TypeOK
  <2>4. ASSUME NEW u \in Withdrawals \ {v}, Recorded(u)
        PROVE  Recorded(u)'
    BY <2>2, <2>3, <2>4 DEF Recorded
  <2>5. ASSUME Recorded(v)
        PROVE  Recorded(v)'
    <3>1. row[v].status \in Sent => job[r].write.status \in Sent
      BY <1>4, <2>2 DEF Commit, CloseInv, SentStaysSent
    <3>2. ASSUME NEW s \in Workers, job[s].phase = "commit", job[s].w = v,
                 job[s].write.status \in Sent
          PROVE  s = r
      BY <1>4, <2>2, <3>2 DEF Commit, CloseInv, RowLock
    <3>3. row'[v].status \in Sent
      BY <2>3, <2>5, <3>1, <3>2 DEF Recorded
    <3>4. QED
      BY <3>3 DEF Recorded
  <2>6. QED
    BY <2>3, <2>4, <2>5 DEF ResentInv, ResentOnlyAfterRollback
<1>5. ASSUME NEW r \in Workers, Refuse(r) \/ Crash(r)
      PROVE  ResentInv'
  <2>1. /\ UNCHANGED <<row, calls>> /\ undone \subseteq undone'
        /\ \A s \in Workers \ {r} : job'[s] = job[s]
        /\ job[r].phase = "commit" => job[r].w \in undone'
    BY <1>5 DEF Refuse, Crash, TypeOK
  <2>2. ASSUME NEW w \in Withdrawals, Recorded(w)
        PROVE  w \in undone' \/ Recorded(w)'
    BY <2>1, <2>2 DEF Recorded
  <2>3. QED
    BY <2>1, <2>2 DEF ResentInv, ResentOnlyAfterRollback
<1>6. ASSUME NEW w \in Withdrawals, OtpExpires(w)
      PROVE  ResentInv'
  <2>1. row' = [row EXCEPT ![w] = [row[w] EXCEPT !.code = "expired"]]
    BY <1>6 DEF OtpExpires
  <2>2. \A v \in Withdrawals : row'[v].status = row[v].status
    BY <2>1 DEF TypeOK, Rows
  <2>3. UNCHANGED <<job, calls, undone>>
    BY <1>6 DEF OtpExpires
  <2>4. QED
    BY <2>2, <2>3 DEF ResentInv, ResentOnlyAfterRollback, Recorded
<1>7. CASE UNCHANGED <<row, job, calls, undone>>
  BY <1>7 DEF ResentInv, ResentOnlyAfterRollback, Recorded
<1>8. QED
  BY <1>1, <1>2, <1>3, <1>4, <1>5, <1>6, <1>7 DEF Next, Request, ProviderSettles, vars

(***************************************************************************)
(* A withdrawal is sent to Selcom a second time only after a request for   *)
(* it was rolled back, whatever races in between.                          *)
(***************************************************************************)
THEOREM SentOnce == Spec => []ResentOnlyAfterRollback
<1>1. Init => CloseInv
  BY DEF Init, CloseInv, RowLock, SentStaysSent, ClosedKept, IdleJob
<1>2. TypeOK /\ CloseInv /\ [Next]_vars => CloseInv'
  BY CloseStep
<1>3. Init => ResentInv
  BY DEF Init, ResentInv, ResentOnlyAfterRollback
<1>4. TypeOK /\ CloseInv /\ ResentInv /\ [Next]_vars => ResentInv'
  BY ResentStep
<1>5. ResentInv => ResentOnlyAfterRollback
  BY DEF ResentInv
<1>6. QED
  BY <1>1, <1>2, <1>3, <1>4, <1>5, TypeCorrect, PTL DEF Spec

----------------------------------------------------------------------------
(* Wrong codes *)

(***************************************************************************)
(* GuessesBounded made inductive: the wrong codes compared so far are      *)
(* within what the row, or the row a request is about to write, accounts   *)
(* for: all of the challenges before the current one, and its attempts.    *)
(***************************************************************************)
Spent(x) == IF x.sends = 0 THEN 0 ELSE MaxAttempts * (x.sends - 1) + x.attempts

Fit(x, g) ==
    /\ x.sends <= MaxSends /\ x.attempts <= MaxAttempts
    /\ g \in Nat /\ g <= Spent(x)
    /\ x.status = "NONE" => g = 0
    /\ x.status = "DRAFT" => x.sends >= 1

GuessInv ==
    \A w \in Withdrawals \ undone :
        /\ ~Locked(w) => Fit(row[w], guesses[w])
        /\ \A r \in Workers :
              job[r].phase = "commit" /\ job[r].w = w => Fit(job[r].write, guesses[w])

(* A whole challenge more.                                                 *)
LEMMA OneMore ==
    ASSUME NEW m \in Nat, NEW s \in Nat, s >= 1
    PROVE  /\ m * (s - 1) \in Nat
           /\ m * (s - 1) + m = m * s
OBVIOUS

(* Fewer challenges spend no more guesses.                                 *)
LEMMA FewerSpendLess ==
    ASSUME NEW m \in Nat, NEW s \in Nat, NEW t \in Nat, s <= t
    PROVE  m * s <= m * t
<1> DEFINE d == t - s
<1>1. d \in Nat /\ t = s + d
  OBVIOUS
<1>2. m * d \in Nat
  BY <1>1
<1> HIDE DEF d
<1> QED
  BY <1>1, <1>2

(* What a row accounts for is within the bound of the challenge.           *)
LEMMA FitIsBounded ==
    ASSUME NEW x \in Rows, NEW g, Fit(x, g)
    PROVE  g <= MaxAttempts * MaxSends
<1>1. x.sends \in Nat /\ x.attempts \in Nat /\ g \in Nat /\ g <= Spent(x)
  BY DEF Rows, Fit
<1>2. MaxAttempts \in Nat /\ MaxSends \in Nat /\ MaxAttempts * MaxSends \in Nat
  BY OtpAssumption
<1>3. CASE x.sends = 0
  BY <1>1, <1>2, <1>3 DEF Spent
<1>4. CASE x.sends >= 1
  <2>1. g <= MaxAttempts * (x.sends - 1) + x.attempts
    BY <1>1, <1>4 DEF Spent
  <2>2. /\ MaxAttempts * (x.sends - 1) \in Nat
        /\ MaxAttempts * (x.sends - 1) + MaxAttempts = MaxAttempts * x.sends
    BY <1>1, <1>2, <1>4, OneMore
  <2>3. MaxAttempts * x.sends <= MaxAttempts * MaxSends
    BY <1>1, <1>2, FewerSpendLess DEF Fit
  <2>4. x.attempts <= MaxAttempts
    BY DEF Fit
  <2>5. MaxAttempts * x.sends \in Nat
    BY <1>1, <1>2, <2>2
  <2> QED
    BY <1>1, <1>2, <2>1, <2>2, <2>3, <2>4, <2>5
<1> QED
  BY <1>1, <1>3, <1>4

(* A change of status alone, other than back to a draft.                   *)
LEMMA StatusFits ==
    ASSUME NEW x \in Rows, NEW g, Fit(x, g), NEW s \in Statuses \ {"NONE", "DRAFT"}
    PROVE  Fit([x EXCEPT !.status = s], g)
BY DEF Fit, Rows, Spent

(* issue_challenge: the first one, and the next one (resend_otp).          *)
LEMMA IssueFits ==
    /\ Fit([IssueAndSendOtp(EmptyRow) EXCEPT !.status = "DRAFT"], 0)
    /\ \A x \in Rows : \A g :
          Fit(x, g) /\ x.status = "DRAFT" /\ x.sends < MaxSends => Fit(IssueAndSendOtp(x), g)
<1>1. MaxAttempts \in Nat /\ MaxSends \in Nat /\ 1 <= MaxSends
  BY OtpAssumption
<1>2. Fit([IssueAndSendOtp(EmptyRow) EXCEPT !.status = "DRAFT"], 0)
  <2>1. [IssueAndSendOtp(EmptyRow) EXCEPT !.status = "DRAFT"]
          = [status |-> "DRAFT", attempts |-> 0, sends |-> 1, code |-> "live"]
    <3>1. IssueChallenge(EmptyRow)
            = [status |-> "NONE", attempts |-> 0, sends |-> 0, code |-> "live"]
      BY DEF IssueChallenge, EmptyRow
    <3>2. IssueAndSendOtp(EmptyRow)
            = [status |-> "NONE", attempts |-> 0, sends |-> 1, code |-> "live"]
      BY <3>1 DEF IssueAndSendOtp
    <3> QED
      BY <3>2
  <2>2. MaxAttempts * (1 - 1) = 0
    BY <1>1
  <2> QED
    BY <1>1, <2>1, <2>2 DEF Fit, Spent
<1>3. ASSUME NEW x \in Rows, NEW g, Fit(x, g), x.status = "DRAFT", x.sends < MaxSends
      PROVE  Fit(IssueAndSendOtp(x), g)
  <2>1. x.sends \in Nat /\ x.attempts \in Nat /\ x.sends >= 1 /\ x.attempts <= MaxAttempts
    BY <1>3 DEF Rows, Fit
  <2>2. IssueAndSendOtp(x)
          = [status |-> "DRAFT", attempts |-> 0, sends |-> x.sends + 1, code |-> "live"]
    BY <1>3 DEF IssueAndSendOtp, IssueChallenge
  <2>3. /\ MaxAttempts * (x.sends - 1) \in Nat
        /\ MaxAttempts * (x.sends - 1) + MaxAttempts = MaxAttempts * x.sends
    BY <1>1, <2>1, OneMore
  <2>4. Spent(IssueAndSendOtp(x)) = MaxAttempts * x.sends
    <3>1. (x.sends + 1) - 1 = x.sends /\ x.sends + 1 # 0
      BY <2>1
    <3>2. MaxAttempts * x.sends \in Nat
      BY <1>1, <2>1
    <3> QED
      BY <2>2, <3>1, <3>2 DEF Spent
  <2>5. Spent(x) = MaxAttempts * (x.sends - 1) + x.attempts
    BY <2>1 DEF Spent
  <2>6. g \in Nat /\ g <= Spent(x)
    BY <1>3 DEF Fit
  <2>7. MaxAttempts * x.sends \in Nat
    BY <1>1, <2>1
  <2>8. g <= Spent(IssueAndSendOtp(x))
    BY <1>1, <2>1, <2>3, <2>4, <2>5, <2>6, <2>7
  <2> QED
    BY <1>1, <1>3, <2>1, <2>2, <2>6, <2>8 DEF Fit
<1> QED
  BY <1>2, <1>3

(* A wrong code that was compared takes one attempt (verify).              *)
LEMMA GuessFits ==
    ASSUME NEW x \in Rows, NEW g, Fit(x, g), x.status = "DRAFT", NEW e \in BOOLEAN,
           NEW h \in Nat, h <= (IF Compared(x, e) THEN g + 1 ELSE g)
    PROVE  Verify(x, e) \in Rows /\ Verify(x, e).status = "DRAFT" /\ Fit(Verify(x, e), h)
<1>1. /\ x.sends \in Nat /\ x.attempts \in Nat /\ x.sends >= 1 /\ x.attempts <= MaxAttempts
      /\ x.sends <= MaxSends /\ g \in Nat /\ g <= Spent(x)
  BY DEF Rows, Fit
<1>2. Spent(x) = MaxAttempts * (x.sends - 1) + x.attempts
  BY <1>1 DEF Spent
<1>3. MaxAttempts \in Nat /\ MaxAttempts * (x.sends - 1) \in Nat
  BY <1>1, OneMore, OtpAssumption
<1>4. CASE Compared(x, e)
  <2>1. Verify(x, e) = [x EXCEPT !.attempts = @ + 1]
    BY <1>4 DEF Verify
  <2>2. x.attempts + 1 <= MaxAttempts
    BY <1>1, <1>3, <1>4 DEF Compared, Exhausted
  <2>3. /\ Verify(x, e) \in Rows /\ Verify(x, e).status = "DRAFT"
        /\ Verify(x, e).attempts = x.attempts + 1 /\ Verify(x, e).sends = x.sends
    BY <2>1 DEF Rows
  <2>4. Spent(Verify(x, e)) = MaxAttempts * (x.sends - 1) + (x.attempts + 1)
    BY <1>1, <2>3 DEF Spent
  <2>5. h <= Spent(Verify(x, e))
    BY <1>1, <1>2, <1>3, <1>4, <2>4
  <2> QED
    BY <1>1, <2>2, <2>3, <2>5 DEF Fit
<1>5. CASE ~Compared(x, e)
  <2>1. Verify(x, e) = x
    BY <1>5 DEF Verify
  <2>2. h <= Spent(x)
    BY <1>1, <1>2, <1>3, <1>5
  <2> QED
    BY <1>1, <2>1, <2>2 DEF Fit
<1> QED
  BY <1>4, <1>5

(* A handler keeps GuessInv if the row it will write accounts for all.     *)
LEMMA GuessHandler ==
    ASSUME TypeOK, GuessInv, NEW r \in Workers, NEW w \in Withdrawals, NEW x, NEW m,
           job[r].phase # "commit", ~Locked(w), Finish(r, w, x, m),
           UNCHANGED <<row, undone>>,
           \A v \in Withdrawals \ {w} : guesses'[v] = guesses[v],
           Fit(row[w], guesses[w]) => Fit(x, guesses'[w])
    PROVE  GuessInv'
<1>1. /\ job'[r] = [phase |-> "commit", w |-> w, write |-> x, move |-> m, seen |-> wallet]
      /\ \A s \in Workers \ {r} : job'[s] = job[s]
  BY FinishJobs DEF TypeOK
<1>2. job'[r].phase = "commit" /\ job'[r].w = w /\ job'[r].write = x
  BY <1>1
<1>3. ASSUME NEW v \in Withdrawals \ undone, v # w
      PROVE  /\ ~Locked(v)' => Fit(row'[v], guesses'[v])
             /\ \A s \in Workers :
                   job'[s].phase = "commit" /\ job'[s].w = v => Fit(job'[s].write, guesses'[v])
  BY <1>1, <1>2, <1>3 DEF GuessInv, Locked
<1>4. ASSUME w \notin undone
      PROVE  /\ Locked(w)'
             /\ \A s \in Workers :
                   job'[s].phase = "commit" /\ job'[s].w = w => Fit(job'[s].write, guesses'[w])
  <2>1. Fit(row[w], guesses[w])
    BY <1>4 DEF GuessInv
  <2> QED
    BY <1>1, <1>2, <2>1 DEF Locked
<1> QED
  BY <1>3, <1>4 DEF GuessInv

(* A handler that only changes the status.                                 *)
LEMMA GuessByStatus ==
    ASSUME TypeOK, GuessInv, NEW r \in Workers, NEW w \in Withdrawals, NEW m,
           NEW s \in Statuses \ {"NONE", "DRAFT"},
           job[r].phase # "commit", ~Locked(w), Finish(r, w, [row[w] EXCEPT !.status = s], m),
           UNCHANGED <<row, undone, guesses>>
    PROVE  GuessInv'
<1>1. row[w] \in Rows
  BY DEF TypeOK
<1>2. Fit(row[w], guesses[w]) => Fit([row[w] EXCEPT !.status = s], guesses'[w])
  BY <1>1, StatusFits
<1> QED
  BY <1>2, GuessHandler

(* A reconciliation, of a status current or stale.                         *)
LEMMA GuessReconcile ==
    ASSUME TypeOK, GuessInv, NEW r \in Workers, NEW w \in Withdrawals, NEW s \in Statuses,
           job[r].phase # "commit", ~Locked(w),
           Finish(r, w, SetStatus(row[w], ReconcileLocked(s, provider[w]).to),
                  ReconcileLocked(s, provider[w]).move),
           UNCHANGED <<row, undone, guesses>>
    PROVE  GuessInv'
<1> DEFINE res == ReconcileLocked(s, provider[w])
<1>1. res \in Decisions
  BY ResultFacts DEF TypeOK, ReconcileLocked
<1> HIDE DEF res
<1>2. CASE res.to = Keep
  <2>1. SetStatus(row[w], res.to) = row[w]
    BY <1>2 DEF SetStatus
  <2>2. Finish(r, w, row[w], res.move)
    BY <2>1 DEF res
  <2> QED
    BY <2>2, GuessHandler
<1>3. CASE res.to # Keep
  <2>1. res.to \in Statuses \ {"NONE", "DRAFT"}
    BY <1>1, <1>3 DEF Decisions, Statuses
  <2>2. SetStatus(row[w], res.to) = [row[w] EXCEPT !.status = res.to]
    BY <1>3 DEF SetStatus
  <2>3. Finish(r, w, [row[w] EXCEPT !.status = res.to], res.move)
    BY <2>2 DEF res
  <2> QED
    BY <2>1, <2>3, GuessByStatus
<1> QED
  BY <1>2, <1>3

(* A refused code.                                                         *)
LEMMA GuessRefused ==
    ASSUME TypeOK, GuessInv, NEW r \in Workers, NEW w \in Withdrawals, NEW e \in BOOLEAN,
           ConfirmRefused(r, w, e)
    PROVE  GuessInv'
<1> DEFINE tried == Verify(row[w], e)
<1>1. /\ job[r].phase # "commit" /\ ~Locked(w) /\ row[w].status = "DRAFT" /\ row[w] \in Rows
      /\ UNCHANGED <<row, undone>>
  BY DEF ConfirmRefused, Idle, IdleJob, TypeOK
<1>2. /\ guesses'[w] = IF Compared(row[w], e) THEN UpTo(guesses[w], GuessBound + 1) ELSE guesses[w]
      /\ \A v \in Withdrawals \ {w} : guesses'[v] = guesses[v]
  BY DEF ConfirmRefused, TypeOK
<1>3. guesses'[w] \in Nat
      /\ guesses'[w] <= (IF Compared(row[w], e) THEN guesses[w] + 1 ELSE guesses[w])
  BY <1>2 DEF UpTo, TypeOK
<1>4. ASSUME Fit(row[w], guesses[w])
      PROVE  /\ tried \in Rows /\ Fit(tried, guesses'[w])
             /\ Fit([tried EXCEPT !.status = "CANCELLED"], guesses'[w])
  <2>1. tried \in Rows /\ Fit(tried, guesses'[w])
    BY <1>1, <1>3, <1>4, GuessFits
  <2> HIDE DEF tried
  <2>2. "CANCELLED" \in Statuses \ {"NONE", "DRAFT"}
    BY DEF Statuses
  <2> QED
    BY <2>1, <2>2, StatusFits
<1>5. \/ Finish(r, w, [tried EXCEPT !.status = "CANCELLED"], Release)
      \/ Finish(r, w, tried, NoMove)
  BY DEF ConfirmRefused
<1> HIDE DEF tried
<1> QED
  BY <1>1, <1>2, <1>4, <1>5, GuessHandler

(* A submission.                                                           *)
LEMMA GuessSubmit ==
    ASSUME TypeOK, GuessInv, NEW r \in Workers, NEW w \in Withdrawals,
           job[r].phase # "commit", ~Locked(w), SubmitToSelcom(r, w),
           UNCHANGED <<row, undone, guesses>>
    PROVE  GuessInv'
<1>1. PICK x \in Exits(provider[w]) : Finish(r, w, [row[w] EXCEPT !.status = x.to], x.move)
  BY DEF SubmitToSelcom
<1>2. x.to \in Statuses \ {"NONE", "DRAFT"}
  BY ExitFacts DEF Outcome, Statuses, TypeOK
<1> QED
  BY <1>1, <1>2, GuessByStatus

(* Every step keeps it.                                                    *)
LEMMA GuessStep ==
    ASSUME TypeOK, CloseInv, GuessInv, [Next]_vars
    PROVE  GuessInv'
<1>1. ASSUME NEW r \in Workers, NEW w \in Withdrawals, RequestWithdrawal(r, w)
      PROVE  GuessInv'
  <2>1. /\ job[r].phase # "commit" /\ ~Locked(w) /\ row[w].status = "NONE"
        /\ UNCHANGED <<row, undone, guesses>>
        /\ Finish(r, w, [IssueAndSendOtp(EmptyRow) EXCEPT !.status = "DRAFT"], Reserve)
    BY <1>1 DEF RequestWithdrawal, Idle, IdleJob
  <2>2. Fit(row[w], guesses[w]) => guesses'[w] = 0
    BY <2>1 DEF Fit
  <2> QED
    BY <2>1, <2>2, IssueFits, GuessHandler
<1>2. ASSUME NEW r \in Workers, NEW w \in Withdrawals, ResendOtp(r, w)
      PROVE  GuessInv'
  <2>1. /\ job[r].phase # "commit" /\ ~Locked(w) /\ row[w].status = "DRAFT"
        /\ row[w].sends < MaxSends /\ row[w] \in Rows
        /\ UNCHANGED <<row, undone, guesses>>
        /\ Finish(r, w, IssueAndSendOtp(row[w]), NoMove)
    BY <1>2 DEF ResendOtp, Idle, IdleJob, TypeOK
  <2>2. Fit(row[w], guesses[w]) => Fit(IssueAndSendOtp(row[w]), guesses'[w])
    BY <2>1, IssueFits
  <2> QED
    BY <2>1, <2>2, GuessHandler
<1>3. ASSUME NEW r \in Workers, NEW w \in Withdrawals, NEW e \in BOOLEAN, ConfirmRefused(r, w, e)
      PROVE  GuessInv'
  BY <1>3, GuessRefused
<1>4. ASSUME NEW r \in Workers, NEW w \in Withdrawals,
             ConfirmAndSubmit(r, w) \/ ApproveWithdrawal(r, w)
      PROVE  GuessInv'
  BY <1>4, GuessSubmit DEF ConfirmAndSubmit, ApproveWithdrawal, Idle, IdleJob
<1>5. ASSUME NEW r \in Workers, NEW w \in Withdrawals,
             \/ ConfirmForReview(r, w) \/ RejectWithdrawal(r, w)
             \/ CancelWithdrawal(r, w) \/ ReverseWithdrawal(r, w)
      PROVE  GuessInv'
  <2>1. /\ job[r].phase # "commit" /\ ~Locked(w) /\ UNCHANGED <<row, undone, guesses>>
        /\ \E s \in {"PENDING_APPROVAL", "REJECTED", "CANCELLED", "REVERSED"}, m \in Moves :
              Finish(r, w, [row[w] EXCEPT !.status = s], m)
    BY <1>5, MoveType DEF ConfirmForReview, RejectWithdrawal, CancelWithdrawal,
                          ReverseWithdrawal, Idle, IdleJob
  <2>2. {"PENDING_APPROVAL", "REJECTED", "CANCELLED", "REVERSED"}
           \subseteq Statuses \ {"NONE", "DRAFT"}
    BY DEF Statuses
  <2> QED
    BY <2>1, <2>2, GuessByStatus
<1>6. ASSUME NEW r \in Workers, NEW w \in Withdrawals, Reconcile(r, w)
      PROVE  GuessInv'
  <2>1. row[w].status \in Statuses
    BY DEF TypeOK, Rows
  <2> QED
    BY <1>6, <2>1, GuessReconcile DEF Reconcile, Idle, IdleJob
<1>7. ASSUME NEW r \in Workers, WebhookReconciles(r)
      PROVE  GuessInv'
  <2>1. job[r] \in ReadJobs
    BY <1>7, JobShape DEF WebhookReconciles, TypeOK
  <2>2. job[r].w \in Withdrawals /\ job[r].seen \in Statuses
    BY <2>1 DEF ReadJobs
  <2> QED
    BY <1>7, <2>2, GuessReconcile DEF WebhookReconciles
<1>8. ASSUME NEW r \in Workers, Commit(r)
      PROVE  GuessInv'
  <2>1. job[r] \in CommitJobs /\ job[r].phase = "commit"
    BY <1>8, JobShape DEF Commit, TypeOK
  <2>2. PICK v \in Withdrawals : v = job[r].w
    BY <2>1 DEF CommitJobs
  <2>3. /\ job'[r] = IdleJob /\ \A s \in Workers \ {r} : job'[s] = job[s]
        /\ row'[v] = job[r].write
        /\ \A u \in Withdrawals \ {v} : row'[u] = row[u]
        /\ UNCHANGED <<guesses, undone>>
    BY <1>8, <2>2 DEF Commit, TypeOK
  <2>4. \A u \in Withdrawals \ {v} : Locked(u) <=> Locked(u)'
    BY <2>2, <2>3 DEF Locked, IdleJob
  <2>5. \A s \in Workers : ~(job'[s].phase = "commit" /\ job'[s].w = v)
    BY <2>1, <2>2, <2>3 DEF CloseInv, RowLock, IdleJob
  <2>6. v \notin undone => Fit(row'[v], guesses'[v])
    BY <2>1, <2>2, <2>3 DEF GuessInv
  <2>7. \A s \in Workers : job'[s].phase = "commit" => job'[s] = job[s]
    BY <2>3 DEF IdleJob
  <2> QED
    BY <2>3, <2>4, <2>5, <2>6, <2>7 DEF GuessInv
<1>9. ASSUME NEW r \in Workers, Refuse(r) \/ Crash(r)
      PROVE  GuessInv'
  <2>1. /\ UNCHANGED <<row, guesses>> /\ undone \subseteq undone'
        /\ job'[r] = IdleJob /\ \A s \in Workers \ {r} : job'[s] = job[s]
        /\ job[r].phase = "commit" => job[r].w \in undone'
    BY <1>9 DEF Refuse, Crash, TypeOK
  <2>2. \A u \in Withdrawals \ undone' : Locked(u) <=> Locked(u)'
    BY <2>1 DEF Locked, IdleJob
  <2>3. \A s \in Workers : job'[s].phase = "commit" => job'[s] = job[s]
    BY <2>1 DEF IdleJob
  <2> QED
    BY <2>1, <2>2, <2>3 DEF GuessInv
<1>10. ASSUME NEW r \in Workers, NEW w \in Withdrawals, WebhookReads(r, w)
       PROVE  GuessInv'
  <2>1. /\ UNCHANGED <<row, guesses, undone>> /\ job[r].phase = "idle" /\ job'[r].phase = "read"
        /\ \A s \in Workers \ {r} : job'[s] = job[s]
    BY <1>10 DEF WebhookReads, Idle, IdleJob, TypeOK
  <2>2. \A u \in Withdrawals : Locked(u) <=> Locked(u)'
    BY <2>1 DEF Locked
  <2>3. \A s \in Workers : job'[s].phase = "commit" => job'[s] = job[s]
    BY <2>1
  <2> QED
    BY <2>1, <2>2, <2>3 DEF GuessInv
<1>11. ASSUME NEW w \in Withdrawals, OtpExpires(w)
       PROVE  GuessInv'
  <2>1. /\ row' = [row EXCEPT ![w] = [row[w] EXCEPT !.code = "expired"]]
        /\ UNCHANGED <<job, guesses, undone>>
    BY <1>11 DEF OtpExpires
  <2>2. \A v \in Withdrawals : \A g : Fit(row[v], g) => Fit(row'[v], g)
    BY <2>1 DEF TypeOK, Rows, Fit, Spent
  <2> QED
    BY <2>1, <2>2 DEF GuessInv, Locked
<1>12. CASE UNCHANGED <<row, job, guesses, undone>>
  BY <1>12 DEF GuessInv, Locked
<1> QED
  BY <1>1, <1>2, <1>3, <1>4, <1>5, <1>6, <1>7, <1>8, <1>9, <1>10, <1>11, <1>12
     DEF Next, Request, ProviderSettles, vars

(***************************************************************************)
(* However the requests of one withdrawal interleave, no more wrong codes  *)
(* are compared with its hash than MaxAttempts for each of MaxSends        *)
(* challenges, unless a request for it was rolled back.                    *)
(***************************************************************************)
THEOREM CodesAreBounded == Spec => []GuessesBounded
<1>1. Init => CloseInv
  BY DEF Init, CloseInv, RowLock, SentStaysSent, ClosedKept, IdleJob
<1>2. TypeOK /\ CloseInv /\ [Next]_vars => CloseInv'
  BY CloseStep
<1>3. Init => GuessInv
  BY OtpAssumption DEF Init, GuessInv, Fit, Spent, EmptyRow, IdleJob
<1>4. TypeOK /\ CloseInv /\ GuessInv /\ [Next]_vars => GuessInv'
  BY GuessStep
<1>5. TypeOK /\ GuessInv => GuessesBounded
  <2> SUFFICES ASSUME TypeOK, GuessInv, NEW w \in Withdrawals, w \notin undone
               PROVE  guesses[w] <= MaxAttempts * MaxSends
    BY DEF GuessesBounded
  <2>1. CASE ~Locked(w)
    BY <2>1, FitIsBounded DEF GuessInv, TypeOK
  <2>2. CASE Locked(w)
    <3>1. PICK r \in Workers : job[r].phase = "commit" /\ job[r].w = w
      BY <2>2 DEF Locked
    <3>2. job[r].write \in Rows
      BY <3>1, JobShape DEF TypeOK, CommitJobs
    <3> QED
      BY <3>1, <3>2, FitIsBounded DEF GuessInv
  <2> QED
    BY <2>1, <2>2
<1>6. QED
  BY <1>1, <1>2, <1>3, <1>4, <1>5, TypeCorrect, PTL DEF Spec

----------------------------------------------------------------------------
(* Requests that do not overlap hold funds once *)

OneWorker == \A r, s \in Workers : r = s

(* Where the funds go follows the withdrawal from stage to stage. *)
Follows(s, t, m) ==
    \/ m = NoMove   /\ StageOf(s) = StageOf(t)
    \/ m = Reserve  /\ StageOf(s) = "new"  /\ StageOf(t) = "held"
    \/ m = Release  /\ StageOf(s) = "held" /\ StageOf(t) = "returned"
    \/ m = Complete /\ StageOf(s) = "held" /\ StageOf(t) = "paid"
    \/ m = Reverse  /\ StageOf(s) = "paid" /\ StageOf(t) = "recalled"

(***************************************************************************)
(* With one request at a time nothing moves behind its back: the wallet it *)
(* read is the wallet, the status a webhook read is the row's, and the row *)
(* it will write follows the row that is there.                            *)
(***************************************************************************)
SerialInv ==
    \A r \in Workers :
        /\ job[r].phase = "read" => job[r].seen = row[job[r].w].status
        /\ job[r].phase = "commit" =>
              /\ job[r].seen = wallet
              /\ Follows(row[job[r].w].status, job[r].write.status, job[r].move)

(* The stage of each status.                                               *)
LEMMA Stages ==
    /\ StageOf("NONE") = "new"
    /\ \A s \in Holding : StageOf(s) = "held"
    /\ \A s \in Refused : StageOf(s) = "returned"
    /\ StageOf("SUCCESS") = "paid"
    /\ StageOf("REVERSED") = "recalled"
<1>1. StageOf("NONE") = "new"
  BY DEF StageOf, Holding, Refused
<1>2. ASSUME NEW s \in Holding PROVE StageOf(s) = "held"
  BY DEF StageOf, Holding, Refused
<1>3. ASSUME NEW s \in Refused PROVE StageOf(s) = "returned"
  BY DEF StageOf, Holding, Refused
<1>4. StageOf("SUCCESS") = "paid"
  BY DEF StageOf, Holding, Refused
<1>5. StageOf("REVERSED") = "recalled"
  BY DEF StageOf, Holding, Refused
<1>6. QED
  BY <1>1, <1>2, <1>3, <1>4, <1>5

(* A handler whose write follows the row keeps SerialInv.                  *)
LEMMA SerialHandler ==
    ASSUME TypeOK, OneWorker, NEW r \in Workers, NEW w \in Withdrawals, NEW x, NEW m,
           Finish(r, w, x, m), UNCHANGED <<row, wallet>>, Follows(row[w].status, x.status, m)
    PROVE  SerialInv'
<1>1. job'[r] = [phase |-> "commit", w |-> w, write |-> x, move |-> m, seen |-> wallet]
  BY FinishJobs DEF TypeOK
<1>2. \A s \in Workers : s = r
  BY DEF OneWorker
<1>3. Follows(row'[w].status, x.status, m)
  BY DEF Follows
<1>4. QED
  BY <1>1, <1>2, <1>3 DEF SerialInv, Follows

(* The writes of the handlers that query Selcom follow the row.            *)
LEMMA ReconcileFollows ==
    ASSUME TypeOK, NEW w \in Withdrawals
    PROVE  LET res == ApplyProviderResult(row[w].status, Reply(provider[w]))
           IN  Follows(row[w].status, SetStatus(row[w], res.to).status, res.move)
<1> DEFINE res == ApplyProviderResult(row[w].status, Reply(provider[w]))
<1>1. row[w] \in Rows /\ row[w].status \in Statuses
  BY DEF TypeOK, Rows
<1>2. /\ res \in Decisions
      /\ row[w].status \notin InFlight => res = [to |-> Keep, move |-> NoMove]
  BY <1>1, ResultFacts DEF TypeOK
<1> HIDE DEF res
<1>3. ASSUME res.to = Keep
      PROVE  Follows(row[w].status, SetStatus(row[w], res.to).status, res.move)
  BY <1>2, <1>3 DEF SetStatus, Follows, Decisions, Keep
<1>4. ASSUME res.to # Keep
      PROVE  Follows(row[w].status, SetStatus(row[w], res.to).status, res.move)
  <2>1. SetStatus(row[w], res.to).status = res.to
    BY <1>1, <1>4 DEF SetStatus, Rows
  <2>2. row[w].status \in InFlight /\ StageOf(row[w].status) = "held"
    BY <1>2, <1>4, Stages DEF InFlight, Holding
  <2>3. Follows(row[w].status, res.to, res.move)
    BY <1>2, <1>4, <2>2, Stages DEF Decisions, Follows, Holding, Refused
  <2>4. QED
    BY <2>1, <2>3 DEF Follows
<1>5. QED
  BY <1>3, <1>4 DEF res

(* The writes of the other handlers follow the row.                        *)
LEMMA RequestFollows ==
    ASSUME TypeOK, NEW r \in Workers, NEW w \in Withdrawals, Request(r, w),
           ~WebhookReads(r, w)
    PROVE  \E x, m : Finish(r, w, x, m) /\ Follows(row[w].status, x.status, m)
<1>0. row[w] \in Rows
  BY DEF TypeOK
<1>1. CASE RequestWithdrawal(r, w)
  <2>1. PICK x : Finish(r, w, x, Reserve) /\ x.status = "DRAFT"
    BY <1>1, FirstRow DEF RequestWithdrawal
  <2>2. Follows(row[w].status, x.status, Reserve)
    BY <1>1, <2>1, Stages DEF RequestWithdrawal, Follows, Holding
  <2>3. QED
    BY <2>1, <2>2
<1>2. CASE ResendOtp(r, w)
  <2>1. PICK x : Finish(r, w, x, NoMove) /\ x.status = row[w].status
    BY <1>0, <1>2, IssueType DEF ResendOtp
  <2>2. QED
    BY <2>1 DEF Follows
<1>3. CASE \E e \in BOOLEAN : ConfirmRefused(r, w, e)
  <2>1. PICK x, m : /\ Finish(r, w, x, m)
                    /\ \/ m = NoMove /\ x.status = "DRAFT"
                       \/ m = Release /\ x.status = "CANCELLED"
    BY <1>0, <1>3 DEF ConfirmRefused, Verify, Compared, Rows
  <2>2. row[w].status = "DRAFT"
    BY <1>3 DEF ConfirmRefused, Verify, Compared
  <2>3. Follows(row[w].status, x.status, m)
    BY <2>1, <2>2, Stages DEF Follows, Holding, Refused
  <2>4. QED
    BY <2>1, <2>3
<1>4. CASE ConfirmForReview(r, w)
  <2>1. PICK x : Finish(r, w, x, NoMove) /\ x.status = "PENDING_APPROVAL"
    BY <1>0, <1>4 DEF ConfirmForReview, Rows
  <2>2. Follows(row[w].status, x.status, NoMove)
    BY <1>4, <2>1, Stages DEF ConfirmForReview, Follows, Holding
  <2>3. QED
    BY <2>1, <2>2
<1>5. CASE ConfirmAndSubmit(r, w) \/ ApproveWithdrawal(r, w)
  <2>1. PICK y \in Exits(provider[w]) :
          Finish(r, w, [row[w] EXCEPT !.status = y.to], y.move)
    BY <1>5 DEF ConfirmAndSubmit, ApproveWithdrawal, SubmitToSelcom
  <2>2. Outcome(y.to, y.move)
    BY ExitFacts DEF TypeOK
  <2>3. PICK x : Finish(r, w, x, y.move) /\ x.status = y.to
    BY <1>0, <2>1 DEF Rows
  <2>4. row[w].status \in Holding
    BY <1>5 DEF ConfirmAndSubmit, ApproveWithdrawal, Holding
  <2>5. Follows(row[w].status, x.status, y.move)
    BY <2>2, <2>3, <2>4, Stages DEF Outcome, Follows, Holding, Refused
  <2>6. QED
    BY <2>3, <2>5
<1>6. CASE RejectWithdrawal(r, w) \/ CancelWithdrawal(r, w)
  <2>1. PICK x : Finish(r, w, x, Release) /\ x.status \in {"REJECTED", "CANCELLED"}
    BY <1>0, <1>6 DEF RejectWithdrawal, CancelWithdrawal, Rows
  <2>2. row[w].status \in {"DRAFT", "PENDING_APPROVAL"}
    BY <1>6 DEF RejectWithdrawal, CancelWithdrawal
  <2>3. Follows(row[w].status, x.status, Release)
    BY <2>1, <2>2, Stages DEF Follows, Holding, Refused
  <2>4. QED
    BY <2>1, <2>3
<1>7. CASE ReverseWithdrawal(r, w)
  <2>1. PICK x : Finish(r, w, x, Reverse) /\ x.status = "REVERSED"
    BY <1>0, <1>7 DEF ReverseWithdrawal, Rows
  <2>2. Follows(row[w].status, x.status, Reverse)
    BY <1>7, <2>1, Stages DEF ReverseWithdrawal, Follows
  <2>3. QED
    BY <2>1, <2>2
<1>8. CASE Reconcile(r, w)
  BY <1>8, ReconcileFollows DEF Reconcile, ReconcileLocked
<1>9. QED
  BY <1>1, <1>2, <1>3, <1>4, <1>5, <1>6, <1>7, <1>8 DEF Request

(* SerialInv is inductive when requests do not overlap.                    *)
LEMMA SerialStep ==
    ASSUME TypeOK, OneWorker, SerialInv, [Next]_vars
    PROVE  SerialInv'
<1>1. ASSUME NEW r \in Workers, NEW w \in Withdrawals, Request(r, w), ~WebhookReads(r, w)
      PROVE  SerialInv'
  <2>1. PICK x, m : Finish(r, w, x, m) /\ Follows(row[w].status, x.status, m)
    BY <1>1, RequestFollows
  <2>2. UNCHANGED <<row, wallet>>
    BY <1>1 DEF Request, RequestWithdrawal, ResendOtp, ConfirmRefused, Verify, Compared, ConfirmForReview,
                ConfirmAndSubmit, ApproveWithdrawal, RejectWithdrawal, CancelWithdrawal,
                ReverseWithdrawal, Reconcile
  <2>3. QED
    BY <2>1, <2>2, SerialHandler
<1>2. ASSUME NEW r \in Workers, NEW w \in Withdrawals, WebhookReads(r, w)
      PROVE  SerialInv'
  <2>1. job'[r] = [phase |-> "read", w |-> w, seen |-> row[w].status] /\ row' = row
    BY <1>2 DEF WebhookReads, TypeOK
  <2>2. QED
    BY <2>1 DEF SerialInv, OneWorker
<1>3. ASSUME NEW r \in Workers, WebhookReconciles(r)
      PROVE  SerialInv'
  <2>1. job[r] \in ReadJobs
    BY <1>3, JobShape DEF WebhookReconciles, ReconcileLocked, TypeOK
  <2>2. PICK w \in Withdrawals : w = job[r].w
    BY <2>1 DEF ReadJobs
  <2>3. job[r].seen = row[w].status
    BY <1>3, <2>2 DEF WebhookReconciles, ReconcileLocked, SerialInv
  <2>4. PICK x, m : Finish(r, w, x, m) /\ Follows(row[w].status, x.status, m)
    BY <1>3, <2>2, <2>3, ReconcileFollows DEF WebhookReconciles, ReconcileLocked
  <2>5. QED
    BY <1>3, <2>4, SerialHandler DEF WebhookReconciles, ReconcileLocked
<1>4. ASSUME NEW r \in Workers, Commit(r) \/ Refuse(r) \/ Crash(r)
      PROVE  SerialInv'
  <2>1. job'[r] = IdleJob
    BY <1>4 DEF Commit, Refuse, Crash, TypeOK
  <2>2. QED
    BY <2>1 DEF SerialInv, OneWorker, IdleJob
<1>5. ASSUME NEW w \in Withdrawals, OtpExpires(w) \/ ProviderSettles(w)
      PROVE  SerialInv'
  <2>1. UNCHANGED <<job, wallet>>
    BY <1>5 DEF OtpExpires, ProviderSettles
  <2>2. \A v \in Withdrawals : row'[v].status = row[v].status
    <3>1. row' = row \/ row' = [row EXCEPT ![w] = [row[w] EXCEPT !.code = "expired"]]
      BY <1>5 DEF OtpExpires, ProviderSettles
    <3>2. QED
      BY <3>1 DEF TypeOK, Rows
  <2>3. \A s \in Workers : job[s].phase \in {"read", "commit"} => job[s].w \in Withdrawals
    BY JobShape DEF TypeOK, ReadJobs, CommitJobs
  <2>4. QED
    BY <2>1, <2>2, <2>3 DEF SerialInv, Follows
<1>6. CASE UNCHANGED vars
  BY <1>6 DEF vars, SerialInv, Follows
<1>7. QED
  BY <1>1, <1>2, <1>3, <1>4, <1>5, <1>6 DEF Next

(* What each movement does to the available balance.                       *)
LEMMA AvailableAfter ==
    ASSUME NEW x \in Wallets, NEW a \in Nat
    PROVE  /\ Apply(NoMove, a, x, x)["available"]   = x["available"]
           /\ Apply(Reserve, a, x, x)["available"]  = x["available"] - a
           /\ Apply(Release, a, x, x)["available"]  = x["available"] + a
           /\ Apply(Complete, a, x, x)["available"] = x["available"]
           /\ Apply(Reverse, a, x, x)["available"]  = x["available"] + a
BY DEF Apply, Wallets, Buckets, None, NoMove, Reserve, Release, Complete, Reverse

StageMap == [w \in Withdrawals |-> StageOf(row[w].status)]
Free == wallet["available"]

Unmoved ==
    /\ wallet' = wallet
    /\ paidOut' = paidOut
    /\ \A v \in Withdrawals : row'[v].status = row[v].status

(***************************************************************************)
(* Nothing but a commit writes the wallet or a status: a handler only      *)
(* prepares its write, and the end of a code's life changes no status.     *)
(***************************************************************************)
LEMMA OnlyCommitsMove ==
    ASSUME TypeOK, [Next]_vars, ~ \E r \in Workers : Commit(r)
    PROVE  Unmoved
<1>1. ASSUME UNCHANGED <<row, wallet, paidOut>>
      PROVE  Unmoved
  BY <1>1 DEF Unmoved
<1>2. ASSUME NEW w \in Withdrawals, OtpExpires(w)
      PROVE  Unmoved
  BY <1>2 DEF Unmoved, OtpExpires, TypeOK, Rows
<1>3. ASSUME NEW r \in Workers, NEW w \in Withdrawals, Request(r, w)
      PROVE  UNCHANGED <<row, wallet, paidOut>>
  BY <1>3 DEF Request, RequestWithdrawal, ResendOtp, ConfirmRefused, Verify, Compared, ConfirmForReview,
              ConfirmAndSubmit, ApproveWithdrawal, RejectWithdrawal, CancelWithdrawal,
              ReverseWithdrawal, Reconcile, WebhookReads
<1>4. ASSUME NEW r \in Workers, WebhookReconciles(r) \/ Refuse(r) \/ Crash(r)
      PROVE  UNCHANGED <<row, wallet, paidOut>>
  BY <1>4 DEF WebhookReconciles, ReconcileLocked, Refuse, Crash
<1>5. ASSUME UNCHANGED vars \/ \E w \in Withdrawals : ProviderSettles(w)
      PROVE  UNCHANGED <<row, wallet, paidOut>>
  BY <1>5 DEF ProviderSettles, vars
<1>6. QED
  BY <1>1, <1>2, <1>3, <1>4, <1>5 DEF Next

(***************************************************************************)
(* The commit of a request is a step of FundsHold if the wallet it moves   *)
(* is the one it read and its write follows the row.                       *)
(***************************************************************************)
LEMMA CommitRefines ==
    ASSUME TypeOK, NEW r \in Workers, Commit(r),
           job[r].move # NoMove => job[r].seen = wallet,
           Follows(row[job[r].w].status, job[r].write.status, job[r].move)
    PROVE  Funds!Next \/ (StageMap' = StageMap /\ Free' = Free)
<1>1. job[r] \in CommitJobs
  BY JobShape DEF Commit, TypeOK
<1>2. PICK w \in Withdrawals, m \in Moves, x \in Rows :
        w = job[r].w /\ m = job[r].move /\ x = job[r].write
  BY <1>1 DEF CommitJobs
<1>3. Follows(row[w].status, x.status, m)
  BY <1>2
<1>4. /\ wallet' = Apply(m, Amount[w], wallet, wallet)
      /\ Covered(m, Amount[w], wallet)
      /\ row' = [row EXCEPT ![w] = x]
  <2>1. /\ wallet' = Apply(m, Amount[w], job[r].seen, wallet)
        /\ Covered(m, Amount[w], job[r].seen)
        /\ row' = [row EXCEPT ![w] = x]
    BY <1>2 DEF Commit
  <2>2. CASE m = NoMove
    BY <2>1, <2>2 DEF Apply, Covered, NoMove, None, Buckets
  <2>3. CASE m # NoMove
    BY <1>2, <2>1, <2>3
  <2>4. QED
    BY <2>2, <2>3
<1>5. StageMap' = [StageMap EXCEPT ![w] = StageOf(x.status)]
  BY <1>4 DEF StageMap, TypeOK
<1>6. StageMap[w] = StageOf(row[w].status) /\ Amount[w] \in Nat /\ wallet \in Wallets
  BY AmountAssumption DEF StageMap, TypeOK
<1>7. Free \in Int
  BY <1>6 DEF Free, Wallets, Buckets
<1>8. CASE m = NoMove /\ StageOf(row[w].status) = StageOf(x.status)
  <2>1. StageMap' = StageMap
    BY <1>5, <1>6, <1>8 DEF StageMap
  <2>2. Free' = Free
    BY <1>4, <1>6, <1>8, AvailableAfter DEF Free
  <2>3. QED
    BY <2>1, <2>2
<1>9. CASE m = Reserve /\ StageOf(row[w].status) = "new" /\ StageOf(x.status) = "held"
  <2>1. Free' = Free + -Amount[w] /\ Free >= Amount[w]
    BY <1>4, <1>6, <1>7, <1>9, AvailableAfter DEF Free, Covered, Reserve, None
  <2>2. Funds!Hold(w)
    BY <1>5, <1>6, <1>9, <2>1 DEF Funds!Hold, Funds!Move, StageMap, Free
  <2>3. QED
    BY <2>2 DEF Funds!Next
<1>10. CASE m = Release /\ StageOf(row[w].status) = "held" /\ StageOf(x.status) = "returned"
  <2>1. Free' = Free + Amount[w]
    BY <1>4, <1>6, <1>10, AvailableAfter DEF Free
  <2>2. Funds!Return(w)
    BY <1>5, <1>6, <1>10, <2>1 DEF Funds!Return, Funds!Move, StageMap, Free
  <2>3. QED
    BY <2>2 DEF Funds!Next
<1>11. CASE m = Complete /\ StageOf(row[w].status) = "held" /\ StageOf(x.status) = "paid"
  <2>1. Free' = Free + 0
    BY <1>4, <1>6, <1>7, <1>11, AvailableAfter DEF Free
  <2>2. Funds!Pay(w)
    BY <1>5, <1>6, <1>11, <2>1 DEF Funds!Pay, Funds!Move, StageMap, Free
  <2>3. QED
    BY <2>2 DEF Funds!Next
<1>12. CASE m = Reverse /\ StageOf(row[w].status) = "paid" /\ StageOf(x.status) = "recalled"
  <2>1. Free' = Free + Amount[w]
    BY <1>4, <1>6, <1>12, AvailableAfter DEF Free
  <2>2. Funds!Recall(w)
    BY <1>5, <1>6, <1>12, <2>1 DEF Funds!Recall, Funds!Move, StageMap, Free
  <2>3. QED
    BY <2>2 DEF Funds!Next
<1>13. QED
  BY <1>3, <1>8, <1>9, <1>10, <1>11, <1>12 DEF Follows

(* Every other step changes neither stages nor the free balance.           *)
LEMMA AsideStutters ==
    ASSUME TypeOK, [Next]_vars, ~ \E r \in Workers : Commit(r)
    PROVE  StageMap' = StageMap /\ Free' = Free
BY OnlyCommitsMove DEF Unmoved, StageMap, Free

(* With one request at a time every step is one of FundsHold or a stutter. *)
LEMMA StepRefines ==
    ASSUME TypeOK, SerialInv, [Next]_vars
    PROVE  Funds!Next \/ (StageMap' = StageMap /\ Free' = Free)
BY CommitRefines, AsideStutters DEF SerialInv, Commit

(***************************************************************************)
(* If the tenant's requests do not overlap, the withdrawal lifecycle       *)
(* implements FundsHold: whatever Selcom answers, and wherever a request   *)
(* dies, funds are held once and then returned once or paid once.          *)
(***************************************************************************)
THEOREM HeldOnce == ASSUME OneWorker PROVE Spec => FundsHeldOnce
<1>1. Init => Funds!Init
  BY Stages DEF Init, Funds!Init, EmptyRow, Buckets
<1>2. Init => SerialInv
  BY DEF Init, SerialInv, IdleJob
<1>3. TypeOK /\ SerialInv /\ [Next]_vars => SerialInv'
  BY SerialStep
<1>4. TypeOK /\ SerialInv /\ [Next]_vars =>
        [Funds!Next]_<<[w \in Withdrawals |-> StageOf(row[w].status)], wallet["available"]>>
  BY StepRefines DEF StageMap, Free
<1>5. QED
  BY <1>1, <1>2, <1>3, <1>4, TypeCorrect, PTL DEF Spec, FundsHeldOnce, Funds!Spec

----------------------------------------------------------------------------
(* The books *)

(***************************************************************************)
(* BooksBalance with each sum written as one of module Sums: Balanced is   *)
(* what the steps preserve.                                                *)
(***************************************************************************)
Disbursed == {"SUCCESS"}
Taken     == Holding \cup {"SUCCESS"}

Balanced ==
    /\ wallet["reserved"] = SumOver(Amount, In(Holding))
    /\ wallet["total_disbursed"] = SumOver(Amount, In(Disbursed))
    /\ wallet["available"] = Opening - SumOver(Amount, In(Taken))

(* The two are the same statement.                                         *)
LEMMA BalancedIsBooks == BooksBalance <=> Balanced
BY DEF BooksBalance, Balanced, Total, SumOver, Disbursed, Taken

(* The withdrawals in a set of statuses, as a row changes.                 *)
LEMMA SumAfter ==
    ASSUME TypeOK, NEW w \in Withdrawals, NEW x \in Rows, row' = [row EXCEPT ![w] = x],
           NEW S
    PROVE  /\ SumOver(Amount, In(S)) \in Int
           /\ SumOver(Amount, In(S)') =
                  SumOver(Amount, In(S)) + (IF x.status \in S THEN Amount[w] ELSE 0)
                                         - (IF row[w].status \in S THEN Amount[w] ELSE 0)
<1>1. IsFiniteSet(In(S)) /\ IsFiniteSet(In(S) \ {w}) /\ IsFiniteSet(In(S)')
  BY WithdrawalsAssumption, FS_Subset DEF In
<1>2. \A v \in Withdrawals : Amount[v] \in Int
  BY AmountAssumption
<1>3. In(S) \subseteq Withdrawals
  BY DEF In
<1>4. SumOver(Amount, In(S)) \in Int
  BY <1>1, <1>2, <1>3, SumType
<1>5. /\ w \in In(S) <=> row[w].status \in S
      /\ In(S)' = IF x.status \in S THEN In(S) \cup {w} ELSE In(S) \ {w}
  BY DEF In, TypeOK
<1> DEFINE a == Amount[w]
           old == SumOver(Amount, In(S))
           new == SumOver(Amount, In(S)')
<1>6. CASE row[w].status \in S
  <2>1. old = a + SumOver(Amount, In(S) \ {w})
    BY <1>1, <1>2, <1>3, <1>5, <1>6, SumRemove
  <2>2. SumOver(Amount, In(S) \ {w}) \in Int /\ a \in Int
    BY <1>1, <1>2, <1>3, SumType
  <2>3. In(S)' = IF x.status \in S THEN In(S) ELSE In(S) \ {w}
    BY <1>5, <1>6
  <2>4. x.status \in S => new = old
    BY <2>3
  <2>5. x.status \notin S => new = old - a
    BY <2>1, <2>2, <2>3
  <2> HIDE DEF a, old, new
  <2>6. new = old + (IF x.status \in S THEN a ELSE 0) - a
    BY <1>4, <2>2, <2>4, <2>5 DEF old
  <2>7. QED
    BY <1>4, <1>6, <2>6 DEF a, old, new
<1>7. CASE row[w].status \notin S
  <2>1. x.status \in S => new = old + a
    <3>1. w \notin In(S)
      BY <1>5, <1>7
    <3>2. \A v \in In(S) \cup {w} : Amount[v] \in Int
      BY <1>2, <1>3
    <3>3. SumOver(Amount, In(S) \cup {w}) = SumOver(Amount, In(S)) + Amount[w]
      BY <1>1, <3>1, <3>2, SumAdd
    <3>4. QED
      BY <1>5, <3>3
  <2>2. x.status \notin S => new = old
    <3>1. In(S) \ {w} = In(S)
      BY <1>5, <1>7
    <3>2. QED
      BY <1>5, <3>1
  <2> HIDE DEF a, old, new
  <2>3. a \in Int /\ old \in Int
    BY <1>2, <1>4 DEF a, old
  <2>4. new = old + (IF x.status \in S THEN a ELSE 0) - 0
    BY <2>1, <2>2, <2>3
  <2>5. QED
    BY <1>4, <1>7, <2>4 DEF a, old, new
<1>8. QED
  BY <1>4, <1>6, <1>7

(* What each movement does to the two balances a withdrawal is counted in. *)
LEMMA HeldAfter ==
    ASSUME NEW y \in Wallets, NEW a \in Nat
    PROVE  /\ Apply(NoMove, a, y, y)["reserved"]   = y["reserved"]
           /\ Apply(Reserve, a, y, y)["reserved"]  = y["reserved"] + a
           /\ Apply(Release, a, y, y)["reserved"]  = y["reserved"] - a
           /\ Apply(Complete, a, y, y)["reserved"] = y["reserved"] - a
           /\ Apply(Reverse, a, y, y)["reserved"]  = y["reserved"]
           /\ Apply(NoMove, a, y, y)["total_disbursed"]   = y["total_disbursed"]
           /\ Apply(Reserve, a, y, y)["total_disbursed"]  = y["total_disbursed"]
           /\ Apply(Release, a, y, y)["total_disbursed"]  = y["total_disbursed"]
           /\ Apply(Complete, a, y, y)["total_disbursed"] = y["total_disbursed"] + a
           /\ Apply(Reverse, a, y, y)["total_disbursed"]  = y["total_disbursed"] - a
BY DEF Apply, Wallets, Buckets, None, NoMove, Reserve, Release, Complete, Reverse

(* The stage tells the statuses that hold funds and the paid one apart.    *)
LEMMA StageTells ==
    ASSUME NEW s \in Statuses
    PROVE  /\ s \in Holding <=> StageOf(s) = "held"
           /\ s \in Disbursed <=> StageOf(s) = "paid"
           /\ s \in Taken <=> StageOf(s) \in {"held", "paid"}
<1>1. \/ s \in Holding
      \/ s \in Refused
      \/ s \in {"NONE", "SUCCESS", "REVERSED"}
  BY DEF Statuses, Holding, Refused
<1>2. Holding \cap Refused = {} /\ \A t \in {"NONE", "SUCCESS", "REVERSED"} : t \notin Holding \cup Refused
  BY DEF Holding, Refused
<1>3. QED
  BY <1>1, <1>2, Stages DEF Disbursed, Taken

(* A commit whose wallet is current and whose write follows the row.       *)
LEMMA BalancedCommit ==
    ASSUME TypeOK, Balanced, NEW r \in Workers, Commit(r),
           job[r].move # NoMove => job[r].seen = wallet,
           Follows(row[job[r].w].status, job[r].write.status, job[r].move)
    PROVE  Balanced'
<1>1. job[r] \in CommitJobs
  BY JobShape DEF Commit, TypeOK
<1>2. PICK w \in Withdrawals, m \in Moves, x \in Rows :
        w = job[r].w /\ m = job[r].move /\ x = job[r].write
  BY <1>1 DEF CommitJobs
<1> DEFINE s == row[w].status
           t == x.status
           a == Amount[w]
<1>3. /\ s \in Statuses /\ t \in Statuses /\ a \in Nat /\ wallet \in Wallets
      /\ Follows(s, t, m)
  BY <1>2, AmountAssumption DEF TypeOK, Rows
<1>4. row' = [row EXCEPT ![w] = x]
  BY <1>2 DEF Commit
<1>5. wallet' = Apply(m, a, wallet, wallet)
  <2>1. CASE m = NoMove
    BY <1>2, <2>1 DEF Commit, Apply, NoMove, None, Buckets
  <2>2. CASE m # NoMove
    BY <1>2, <2>2 DEF Commit
  <2>3. QED
    BY <2>1, <2>2
<1> DEFINE Change(S) == (IF t \in S THEN a ELSE 0) - (IF s \in S THEN a ELSE 0)
<1>6. /\ SumOver(Amount, In(Holding)')   = SumOver(Amount, In(Holding)) + Change(Holding)
      /\ SumOver(Amount, In(Disbursed)') = SumOver(Amount, In(Disbursed)) + Change(Disbursed)
      /\ SumOver(Amount, In(Taken)')     = SumOver(Amount, In(Taken)) + Change(Taken)
  BY <1>3, <1>4, SumAfter
<1>7. /\ SumOver(Amount, In(Holding)) \in Int
      /\ SumOver(Amount, In(Disbursed)) \in Int
      /\ SumOver(Amount, In(Taken)) \in Int
  BY <1>4, SumAfter
<1>8. /\ wallet'["reserved"] = wallet["reserved"] + Change(Holding)
      /\ wallet'["total_disbursed"] = wallet["total_disbursed"] + Change(Disbursed)
      /\ wallet'["available"] = wallet["available"] - Change(Taken)
  <2>1. /\ wallet["reserved"] \in Int /\ wallet["total_disbursed"] \in Int
        /\ wallet["available"] \in Int
    BY <1>3 DEF Wallets, Buckets
  <2> HIDE DEF s, t, a
  <2>2. CASE m = NoMove /\ StageOf(s) = StageOf(t)
    <3>1. Change(Holding) = 0 /\ Change(Disbursed) = 0 /\ Change(Taken) = 0
      BY <1>3, <2>2, StageTells
    <3>2. QED
      BY <1>3, <1>5, <2>1, <2>2, <3>1, AvailableAfter, HeldAfter
  <2>3. CASE m = Reserve /\ StageOf(s) = "new" /\ StageOf(t) = "held"
    <3>1. Change(Holding) = a /\ Change(Disbursed) = 0 /\ Change(Taken) = a
      BY <1>3, <2>3, StageTells
    <3>2. QED
      BY <1>3, <1>5, <2>1, <2>3, <3>1, AvailableAfter, HeldAfter
  <2>4. CASE m = Release /\ StageOf(s) = "held" /\ StageOf(t) = "returned"
    <3>1. Change(Holding) = -a /\ Change(Disbursed) = 0 /\ Change(Taken) = -a
      BY <1>3, <2>4, StageTells
    <3>2. QED
      BY <1>3, <1>5, <2>1, <2>4, <3>1, AvailableAfter, HeldAfter
  <2>5. CASE m = Complete /\ StageOf(s) = "held" /\ StageOf(t) = "paid"
    <3>1. Change(Holding) = -a /\ Change(Disbursed) = a /\ Change(Taken) = 0
      BY <1>3, <2>5, StageTells
    <3>2. QED
      BY <1>3, <1>5, <2>1, <2>5, <3>1, AvailableAfter, HeldAfter
  <2>6. CASE m = Reverse /\ StageOf(s) = "paid" /\ StageOf(t) = "recalled"
    <3>1. Change(Holding) = 0 /\ Change(Disbursed) = -a /\ Change(Taken) = -a
      BY <1>3, <2>6, StageTells
    <3>2. QED
      BY <1>3, <1>5, <2>1, <2>6, <3>1, AvailableAfter, HeldAfter
  <2>7. QED
    BY <1>3, <2>2, <2>3, <2>4, <2>5, <2>6 DEF Follows
<1>9. /\ wallet["reserved"] \in Int /\ wallet["total_disbursed"] \in Int
      /\ wallet["available"] \in Int /\ Change(Taken) \in Int
  BY <1>3 DEF Wallets, Buckets
<1> HIDE DEF Change
<1>10. QED
  BY <1>6, <1>7, <1>8, <1>9, OpeningAssumption DEF Balanced

(* Every other step leaves the wallet and the statuses alone.              *)
LEMMA BalancedAside ==
    ASSUME TypeOK, Balanced, [Next]_vars, ~ \E r \in Workers : Commit(r)
    PROVE  Balanced'
<1>1. wallet' = wallet /\ \A v \in Withdrawals : row'[v].status = row[v].status
  BY OnlyCommitsMove DEF Unmoved
<1>2. /\ In(Holding)' = In(Holding)
      /\ In(Disbursed)' = In(Disbursed)
      /\ In(Taken)' = In(Taken)
  BY <1>1 DEF In
<1>3. QED
  BY <1>1, <1>2 DEF Balanced

(* The books balance initially: nothing is held, and all is available.     *)
LEMMA BalancedInit == Init => Balanced
<1> SUFFICES ASSUME Init PROVE Balanced
  OBVIOUS
<1>1. In(Holding) = {} /\ In(Disbursed) = {} /\ In(Taken) = {}
  BY DEF Init, In, EmptyRow, Holding, Disbursed, Taken
<1>2. /\ wallet["reserved"] = 0 /\ wallet["total_disbursed"] = 0
      /\ wallet["available"] = Opening
  BY DEF Init, Buckets
<1>3. QED
  BY <1>1, <1>2, SumEmpty, OpeningAssumption DEF Balanced

(***************************************************************************)
(* If the tenant's requests do not overlap, the wallet agrees with the     *)
(* withdrawals in every state: what is reserved is what the open ones      *)
(* hold, what is disbursed is what succeeded, the rest of the opening      *)
(* balance is available.                                                   *)
(***************************************************************************)
THEOREM BooksBalanced == ASSUME OneWorker PROVE Spec => []BooksBalance
<1>1. Init => SerialInv
  BY DEF Init, SerialInv, IdleJob
<1>2. TypeOK /\ SerialInv /\ [Next]_vars => SerialInv'
  BY SerialStep
<1>3. TypeOK /\ SerialInv /\ Balanced /\ [Next]_vars => Balanced'
  <2> SUFFICES ASSUME TypeOK, SerialInv, Balanced, [Next]_vars PROVE Balanced'
    OBVIOUS
  <2>1. ASSUME NEW r \in Workers, Commit(r)
        PROVE  Balanced'
    BY <2>1, BalancedCommit DEF SerialInv, Commit
  <2>2. QED
    BY <2>1, BalancedAside
<1>4. QED
  BY <1>1, <1>2, <1>3, BalancedInit, BalancedIsBooks, TypeCorrect, PTL DEF Spec

(***************************************************************************)
(* With requests that overlap: what a request is about to commit follows   *)
(* the row it holds, or applies an old answer to a resolved withdrawal.    *)
(* The row lock keeps the row, and a webhook that read "in flight" finds a *)
(* row that was sent (CloseInv).                                           *)
(***************************************************************************)
WriteFits(j) == Follows(row[j.w].status, j.write.status, j.move) \/ StaleStatus(j)
WritesFit == \A r \in Workers : job[r].phase = "commit" => WriteFits(job[r])

(* A handler whose write fits leaves the other jobs as they were.          *)
LEMMA FitHandler ==
    ASSUME TypeOK, WritesFit, NEW r \in Workers, NEW w \in Withdrawals, NEW x, NEW m,
           Finish(r, w, x, m), row' = row,
           WriteFits([phase |-> "commit", w |-> w, write |-> x, move |-> m, seen |-> wallet])
    PROVE  WritesFit'
<1>1. /\ job'[r] = [phase |-> "commit", w |-> w, write |-> x, move |-> m, seen |-> wallet]
      /\ \A s \in Workers \ {r} : job'[s] = job[s]
  BY FinishJobs DEF TypeOK
<1>2. QED
  BY <1>1 DEF WritesFit, WriteFits, Follows, StaleStatus

(* The webhook's answer, for the status it read and the row it finds.      *)
LEMMA WebhookFits ==
    ASSUME TypeOK, CloseInv, NEW r \in Workers, WebhookReconciles(r)
    PROVE  \E w \in Withdrawals : \E x, m :
              /\ Finish(r, w, x, m)
              /\ WriteFits([phase |-> "commit", w |-> w, write |-> x, move |-> m,
                            seen |-> wallet])
<1>1. job[r] \in ReadJobs
  BY JobShape DEF WebhookReconciles, TypeOK
<1>2. PICK w \in Withdrawals, s \in Statuses : w = job[r].w /\ s = job[r].seen
  BY <1>1 DEF ReadJobs
<1> DEFINE res == ApplyProviderResult(s, Reply(provider[w]))
           x == SetStatus(row[w], res.to)
           j == [phase |-> "commit", w |-> w, write |-> x, move |-> res.move, seen |-> wallet]
<1>3. Finish(r, w, x, res.move)
  BY <1>2 DEF WebhookReconciles, ReconcileLocked
<1>4. /\ row[w] \in Rows /\ row[w].status \in Statuses
      /\ s \in InFlight => row[w].status \in Sent
  BY <1>2 DEF TypeOK, Rows, WebhookReconciles, CloseInv, SentStaysSent
<1>5. /\ res \in Decisions
      /\ s \notin InFlight => res = [to |-> Keep, move |-> NoMove]
  BY ResultFacts DEF TypeOK
<1> HIDE DEF res
<1>6. j.w = w /\ j.write = x /\ j.move = res.move
  OBVIOUS
<1>7. CASE res.to = Keep
  <2>1. x = row[w] /\ res.move = NoMove
    BY <1>5, <1>7 DEF SetStatus, Decisions, Keep
  <2>2. QED
    BY <1>3, <1>6, <2>1 DEF WriteFits, Follows
<1>8. CASE res.to # Keep
  <2>1. x.status = res.to
    BY <1>4, <1>8 DEF SetStatus, Rows
  <2>2. row[w].status \in Sent
    BY <1>4, <1>5, <1>8
  <2>3. CASE row[w].status \in InFlight
    <3>1. StageOf(row[w].status) = "held"
      BY <2>3, Stages DEF InFlight, Holding
    <3>2. Follows(row[w].status, res.to, res.move)
      BY <1>5, <1>8, <3>1, Stages DEF Decisions, Follows, Holding, Refused
    <3>3. QED
      BY <1>3, <1>6, <2>1, <3>2 DEF WriteFits
  <2>4. CASE row[w].status \in {"SUCCESS", "FAILED", "REVERSED"}
    <3>1. /\ res.move # Reverse
          /\ res.move # NoMove \/ res.to = "AMBIGUOUS"
      BY <1>5, <1>8 DEF Decisions, Reverse, Complete, Release, NoMove, None
    <3>2. StaleStatus(j)
      BY <1>6, <2>1, <2>4, <3>1 DEF StaleStatus
    <3>3. QED
      BY <1>3, <3>2 DEF WriteFits
  <2>5. QED
    BY <2>2, <2>3, <2>4 DEF Sent
<1>9. QED
  BY <1>7, <1>8

(* WritesFit is inductive beside CloseInv.                                 *)
LEMMA FitsStep ==
    ASSUME TypeOK, CloseInv, WritesFit, [Next]_vars
    PROVE  WritesFit'
<1>1. ASSUME NEW r \in Workers, NEW w \in Withdrawals, Request(r, w), ~WebhookReads(r, w)
      PROVE  WritesFit'
  <2>1. PICK x, m : Finish(r, w, x, m) /\ Follows(row[w].status, x.status, m)
    BY <1>1, RequestFollows
  <2>2. row' = row
    BY <1>1 DEF Request, RequestWithdrawal, ResendOtp, ConfirmRefused, Verify, Compared, ConfirmForReview,
                ConfirmAndSubmit, ApproveWithdrawal, RejectWithdrawal, CancelWithdrawal,
                ReverseWithdrawal, Reconcile
  <2>3. WriteFits([phase |-> "commit", w |-> w, write |-> x, move |-> m, seen |-> wallet])
    BY <2>1 DEF WriteFits
  <2>4. QED
    BY <2>1, <2>2, <2>3, FitHandler
<1>2. ASSUME NEW r \in Workers, NEW w \in Withdrawals, WebhookReads(r, w)
      PROVE  WritesFit'
  <2>1. /\ row' = row
        /\ \A s \in Workers : job'[s].phase = "commit" => job'[s] = job[s]
    BY <1>2 DEF WebhookReads, TypeOK
  <2>2. QED
    BY <2>1 DEF WritesFit, WriteFits, Follows, StaleStatus
<1>3. ASSUME NEW r \in Workers, WebhookReconciles(r)
      PROVE  WritesFit'
  <2>1. row' = row
    BY <1>3 DEF WebhookReconciles
  <2>2. QED
    BY <1>3, <2>1, WebhookFits, FitHandler
<1>4. ASSUME NEW r \in Workers, Refuse(r) \/ Crash(r)
      PROVE  WritesFit'
  <2>1. row' = row /\ \A s \in Workers : job'[s] = job[s] \/ job'[s] = IdleJob
    BY <1>4 DEF Refuse, Crash, TypeOK
  <2>2. QED
    BY <2>1 DEF WritesFit, WriteFits, Follows, StaleStatus, IdleJob
<1>5. ASSUME NEW r \in Workers, Commit(r)
      PROVE  WritesFit'
  <2>1. job'[r] = IdleJob /\ \A s \in Workers \ {r} : job'[s] = job[s]
    BY <1>5 DEF Commit, TypeOK
  <2>2. row' = [row EXCEPT ![job[r].w] = job[r].write]
    BY <1>5 DEF Commit
  <2>3. ASSUME NEW s \in Workers, job'[s].phase = "commit"
        PROVE  job'[s] = job[s] /\ row'[job[s].w] = row[job[s].w]
    <3>1. s # r /\ job'[s] = job[s]
      BY <2>1, <2>3 DEF IdleJob
    <3>2. job[s].w # job[r].w /\ job[s].w \in Withdrawals
      BY <1>5, <2>3, <3>1, JobShape DEF Commit, CloseInv, RowLock, TypeOK, CommitJobs
    <3>3. QED
      BY <2>2, <3>1, <3>2 DEF TypeOK
  <2>4. QED
    BY <2>3 DEF WritesFit, WriteFits, Follows, StaleStatus
<1>6. ASSUME NEW w \in Withdrawals, OtpExpires(w)
      PROVE  WritesFit'
  <2>1. row' = [row EXCEPT ![w] = [row[w] EXCEPT !.code = "expired"]] /\ job' = job
    BY <1>6 DEF OtpExpires
  <2>2. \A v \in Withdrawals : row'[v].status = row[v].status
    BY <2>1 DEF TypeOK, Rows
  <2>3. \A s \in Workers : job[s].phase = "commit" => job[s].w \in Withdrawals
    BY JobShape DEF TypeOK, CommitJobs
  <2>4. QED
    BY <2>1, <2>2, <2>3 DEF WritesFit, WriteFits, Follows, StaleStatus
<1>7. CASE UNCHANGED <<row, job>>
  BY <1>7 DEF WritesFit, WriteFits, Follows, StaleStatus
<1>8. QED
  BY <1>1, <1>2, <1>3, <1>4, <1>5, <1>6, <1>7 DEF Next, ProviderSettles, vars

(***************************************************************************)
(* Whatever overlaps, whatever Selcom answers and wherever a request dies: *)
(* a step that unbalances the books is a commit computed from a wallet     *)
(* changed since it was read, or an old answer applied to a resolved       *)
(* withdrawal.  With those two mended the wallet would agree with the      *)
(* withdrawals for any number of them and of requests.                     *)
(***************************************************************************)
THEOREM UnbalancedOnlyByStaleReads == Spec => OnlyStaleReadsUnbalance
<1>1. Init => CloseInv /\ WritesFit
  BY DEF Init, CloseInv, RowLock, SentStaysSent, ClosedKept, WritesFit, IdleJob
<1>2. TypeOK /\ CloseInv /\ WritesFit /\ [Next]_vars => CloseInv' /\ WritesFit'
  BY CloseStep, FitsStep
<1> DEFINE Stale == \E r \in Workers : Commit(r) /\ (StaleWallet(job[r]) \/ StaleStatus(job[r]))
<1>3. TypeOK /\ WritesFit /\ Balanced /\ [Next]_vars => Balanced' \/ Stale
  <2> SUFFICES ASSUME TypeOK, WritesFit, Balanced, [Next]_vars, ~Stale PROVE Balanced'
    OBVIOUS
  <2>1. ASSUME NEW r \in Workers, Commit(r)
        PROVE  Balanced'
    <3>1. ~StaleWallet(job[r]) /\ ~StaleStatus(job[r])
      BY <2>1
    <3>2. job[r].move # NoMove => job[r].seen = wallet
      BY <3>1 DEF StaleWallet
    <3>3. Follows(row[job[r].w].status, job[r].write.status, job[r].move)
      BY <2>1, <3>1 DEF WritesFit, WriteFits, Commit
    <3>4. QED
      BY <2>1, <3>2, <3>3, BalancedCommit
  <2>2. QED
    BY <2>1, BalancedAside
<1>4. QED
  BY <1>1, <1>2, <1>3, BalancedIsBooks, TypeCorrect, PTL
     DEF Spec, OnlyStaleReadsUnbalance

----------------------------------------------------------------------------
(* What current reads are enough for *)

(* A commit of something read before its locks and changed since.          *)
StaleStatusCommit == \E r \in Workers : Commit(r) /\ StaleStatus(job[r])
StaleCommit == \E r \in Workers : Commit(r) /\ (StaleWallet(job[r]) \/ StaleStatus(job[r]))

(***************************************************************************)
(* However requests overlap, what a tenant sees departs from the promise   *)
(* of FundsHold at a commit of a stale read and nowhere else: before and   *)
(* after it, every step is one of the promise or not seen at all.          *)
(***************************************************************************)
OnlyStaleReadsDiverge == [][StaleCommit \/ [Funds!Next]_<<StageMap, Free>>]_vars

(***************************************************************************)
(* What is held for withdrawals or paid out never exceeds what the tenant  *)
(* had: no withdrawal is made of money another one holds.                  *)
(***************************************************************************)
NeverOverspent == Total(In(Holding \cup {"SUCCESS"})) <= Opening

(***************************************************************************)
(* A movement that the wallet refuses, which rolls a request back and with *)
(* it what Selcom was asked to do, is a reservation or of a stale read:    *)
(* what was held can always be given back, paid out and recalled.          *)
(***************************************************************************)
OnlyReservesRefused ==
    [][\A r \in Workers : Refuse(r) =>
          job[r].move = Reserve \/ StaleWallet(job[r]) \/ StaleStatus(job[r])]_vars

(* What a request would commit, if nothing changed since it read.          *)
Current(j) ==
    /\ j.move # NoMove => j.seen = wallet
    /\ Follows(row[j.w].status, j.write.status, j.move)

(* A write that fits and is not stale is current.                          *)
LEMMA FitIsCurrent ==
    ASSUME WritesFit, NEW r \in Workers, job[r].phase = "commit",
           ~StaleWallet(job[r]), ~StaleStatus(job[r])
    PROVE  Current(job[r])
BY DEF WritesFit, WriteFits, StaleWallet, Current

(* What the available balance keeps to at the commit of a current read.    *)
LEMMA SolventCommit ==
    ASSUME TypeOK, Free >= 0, NEW r \in Workers, Commit(r), Current(job[r])
    PROVE  Free' >= 0
<1>1. job[r] \in CommitJobs
  BY JobShape DEF Commit, TypeOK
<1>2. PICK w \in Withdrawals, m \in Moves : w = job[r].w /\ m = job[r].move
  BY <1>1 DEF CommitJobs
<1> DEFINE a == Amount[w]
<1>3. a \in Nat /\ wallet \in Wallets /\ Free \in Int
  BY AmountAssumption DEF TypeOK, Free, Wallets, Buckets
<1>4. m \in {NoMove, Reserve, Release, Complete, Reverse}
  BY <1>2 DEF Current, Follows
<1>5. /\ m # NoMove => wallet' = Apply(m, a, wallet, wallet) /\ Covered(m, a, wallet)
      /\ m = NoMove => wallet' = Apply(m, a, job[r].seen, wallet)
  BY <1>2 DEF Commit, Current
<1> HIDE DEF a
<1>6. CASE m = NoMove
  BY <1>3, <1>5, <1>6 DEF Apply, NoMove, None, Buckets, Free
<1>7. CASE m = Reserve
  BY <1>3, <1>5, <1>7, AvailableAfter DEF Free, Covered, Reserve, NoMove, None
<1>8. CASE m \in {Release, Complete, Reverse}
  BY <1>3, <1>5, <1>8, AvailableAfter DEF Free, Release, Complete, Reverse, NoMove, None
<1>9. QED
  BY <1>4, <1>6, <1>7, <1>8

(* Balanced books and a wallet that is not overdrawn.                      *)
Solvent == Balanced /\ Free >= 0

(* They are kept by every step that commits nothing, and initial.          *)
LEMMA SolventAside ==
    ASSUME TypeOK, Solvent, [Next]_vars,
           \A r \in Workers : Commit(r) => Current(job[r])
    PROVE  Solvent'
<1>1. ASSUME NEW r \in Workers, Commit(r)
      PROVE  Solvent'
  BY <1>1, BalancedCommit, SolventCommit DEF Solvent, Current
<1>2. ASSUME ~ \E r \in Workers : Commit(r)
      PROVE  Solvent'
  BY <1>2, BalancedAside, AsideStutters DEF Solvent
<1>3. QED
  BY <1>1, <1>2

(* The opening balance is not negative.                                    *)
LEMMA SolventInit == Init => Solvent
BY BalancedInit, OpeningAssumption DEF Solvent, Init, Free, Buckets

(* A solvent tenant never had to spend more than it had.                   *)
LEMMA SolventMeans == ASSUME TypeOK, Solvent PROVE BooksBalance /\ NeverOverspent
<1>1. Total(In(Holding \cup {"SUCCESS"})) = SumOver(Amount, In(Taken))
  BY DEF Total, SumOver, Taken
<1>2. IsFiniteSet(In(Taken)) /\ \A w \in In(Taken) : Amount[w] \in Int
  BY WithdrawalsAssumption, AmountAssumption, FS_Subset DEF In
<1>3. SumOver(Amount, In(Taken)) \in Int
  BY <1>2, SumType
<1>4. QED
  BY <1>1, <1>3, BalancedIsBooks, OpeningAssumption DEF Solvent, Balanced, Free, NeverOverspent

(***************************************************************************)
(* What a withdrawal holds is in the reserved balance and what it paid out *)
(* in the disbursed one, so a current movement of it is covered.           *)
(***************************************************************************)
LEMMA HeldIsCovered ==
    ASSUME TypeOK, Balanced, NEW r \in Workers, job[r].phase = "commit", Current(job[r]),
           job[r].move # Reserve
    PROVE  Covered(job[r].move, Amount[job[r].w], job[r].seen)
<1>1. job[r] \in CommitJobs
  BY JobShape DEF TypeOK
<1>2. PICK w \in Withdrawals, m \in Moves, x \in Rows :
        w = job[r].w /\ m = job[r].move /\ x = job[r].write
  BY <1>1 DEF CommitJobs
<1> DEFINE s == row[w].status
<1>3. s \in Statuses /\ Follows(s, x.status, m) /\ Amount[w] \in Nat
  BY <1>2, AmountAssumption DEF TypeOK, Rows, Current
<1>4. ASSUME NEW S, s \in S
      PROVE  Amount[w] <= SumOver(Amount, In(S))
  <2>1. IsFiniteSet(In(S)) /\ w \in In(S) /\ \A v \in In(S) : Amount[v] \in Nat
    BY <1>4, WithdrawalsAssumption, AmountAssumption, FS_Subset DEF In
  <2>2. QED
    BY <2>1, SumAtLeast
<1>5. CASE m = NoMove
  BY <1>2, <1>5 DEF Covered, NoMove, None
<1>6. CASE m \in {Release, Complete} /\ StageOf(s) = "held"
  <2>1. job[r].seen = wallet /\ m.from = "reserved"
    BY <1>2, <1>6 DEF Current, Release, Complete, NoMove, None
  <2>2. Amount[w] <= wallet["reserved"]
    BY <1>3, <1>4, <1>6, StageTells DEF Balanced
  <2>3. QED
    BY <1>2, <2>1, <2>2 DEF Covered
<1>7. CASE m = Reverse /\ StageOf(s) = "paid"
  <2>1. job[r].seen = wallet /\ m.from = "total_disbursed"
    BY <1>2, <1>7 DEF Current, Reverse, NoMove, None
  <2>2. Amount[w] <= wallet["total_disbursed"]
    BY <1>3, <1>4, <1>7, StageTells DEF Balanced
  <2>3. QED
    BY <1>2, <2>1, <2>2 DEF Covered
<1>8. QED
  BY <1>2, <1>3, <1>5, <1>6, <1>7 DEF Follows

(***************************************************************************)
(* A paid withdrawal was booked as disbursed once, any other one never.    *)
(***************************************************************************)
BookedByStage ==
    \A w \in Withdrawals :
        paidOut[w] = IF StageOf(row[w].status) \in {"paid", "recalled"} THEN 1 ELSE 0

(* A write that follows the row books what it pays.                        *)
LEMMA BookedStep ==
    ASSUME TypeOK, BookedByStage, [Next]_vars,
           \A r \in Workers : Commit(r) =>
               Follows(row[job[r].w].status, job[r].write.status, job[r].move)
    PROVE  BookedByStage'
<1>1. ASSUME NEW r \in Workers, Commit(r)
      PROVE  BookedByStage'
  <2>1. job[r] \in CommitJobs
    BY <1>1, JobShape DEF Commit, TypeOK
  <2>2. PICK w \in Withdrawals, m \in Moves, x \in Rows :
          w = job[r].w /\ m = job[r].move /\ x = job[r].write
    BY <2>1 DEF CommitJobs
  <2>3. /\ row' = [row EXCEPT ![w] = x]
        /\ paidOut' = [paidOut EXCEPT ![w] = IF m = Complete THEN UpTo(@, 2) ELSE @]
        /\ Follows(row[w].status, x.status, m)
    BY <1>1, <2>2 DEF Commit
  <2>4. \A v \in Withdrawals \ {w} : row'[v] = row[v] /\ paidOut'[v] = paidOut[v]
    BY <2>3 DEF TypeOK
  <2>5. /\ row'[w].status = x.status
        /\ paidOut'[w] = IF m = Complete THEN UpTo(paidOut[w], 2) ELSE paidOut[w]
    BY <2>3 DEF TypeOK
  <2>6. CASE m = Complete /\ StageOf(row[w].status) = "held" /\ StageOf(x.status) = "paid"
    <3>1. paidOut[w] = 0
      BY <2>6 DEF BookedByStage
    <3>2. paidOut'[w] = 1
      BY <2>5, <2>6, <3>1 DEF UpTo
    <3>3. QED
      BY <2>4, <2>5, <2>6, <3>2 DEF BookedByStage
  <2>7. CASE /\ m # Complete
             /\ \/ StageOf(row[w].status) = StageOf(x.status)
                \/ {StageOf(row[w].status), StageOf(x.status)} = {"paid", "recalled"}
                \/ StageOf(row[w].status) \in {"new", "held"}
                   /\ StageOf(x.status) \in {"held", "returned"}
    <3>1. paidOut'[w] = paidOut[w]
      BY <2>5, <2>7
    <3>2. StageOf(row[w].status) \in {"paid", "recalled"}
            <=> StageOf(x.status) \in {"paid", "recalled"}
      BY <2>7
    <3>3. QED
      BY <2>4, <2>5, <3>1, <3>2 DEF BookedByStage
  <2>8. QED
    BY <2>3, <2>6, <2>7, MovesDiffer DEF Follows
<1>2. ASSUME ~ \E r \in Workers : Commit(r)
      PROVE  BookedByStage'
  BY <1>2, OnlyCommitsMove DEF Unmoved, BookedByStage
<1>3. QED
  BY <1>1, <1>2

(* Nothing is booked initially.                                            *)
LEMMA BookedInit == Init => BookedByStage
BY Stages DEF Init, EmptyRow, BookedByStage

(* No booking is a second one.                                             *)
LEMMA BookedMeans == BookedByStage => DisbursedAtMostOnce
BY DEF BookedByStage, DisbursedAtMostOnce

(* The invariants that hold whatever is stale.                             *)
LEMMA FitsInvariant == Spec => [](TypeOK /\ CloseInv /\ WritesFit)
<1>1. Init => CloseInv /\ WritesFit
  BY DEF Init, CloseInv, RowLock, SentStaysSent, ClosedKept, WritesFit, IdleJob
<1>2. TypeOK /\ CloseInv /\ WritesFit /\ [Next]_vars => CloseInv' /\ WritesFit'
  BY CloseStep, FitsStep
<1>3. QED
  BY <1>1, <1>2, TypeCorrect, PTL DEF Spec

(***************************************************************************)
(* For any number of overlapping requests, whatever Selcom answers and     *)
(* wherever a request dies: a step that is none of FundsHold is the commit *)
(* of a stale read.                                                        *)
(***************************************************************************)
THEOREM DivergedOnlyByStaleReads == Spec => OnlyStaleReadsDiverge
<1>1. TypeOK /\ WritesFit /\ [Next]_vars =>
        StaleCommit \/ Funds!Next \/ (StageMap' = StageMap /\ Free' = Free)
  <2> SUFFICES ASSUME TypeOK, WritesFit, [Next]_vars, ~StaleCommit
               PROVE  Funds!Next \/ (StageMap' = StageMap /\ Free' = Free)
    OBVIOUS
  <2>1. ASSUME NEW r \in Workers, Commit(r)
        PROVE  Funds!Next \/ (StageMap' = StageMap /\ Free' = Free)
    <3>1. Current(job[r])
      BY <2>1, FitIsCurrent DEF StaleCommit, Commit
    <3>2. QED
      BY <2>1, <3>1, CommitRefines DEF Current
  <2>2. QED
    BY <2>1, AsideStutters
<1>2. TypeOK /\ WritesFit /\ [Next]_vars => StaleCommit \/ [Funds!Next]_<<StageMap, Free>>
  BY <1>1
<1>3. QED
  BY <1>2, FitsInvariant, PTL DEF Spec, OnlyStaleReadsDiverge

(***************************************************************************)
(* If every commit is of what the wallet and the row still say, as a read  *)
(* under the lock would make it, then any number of overlapping requests   *)
(* keep the promise of FundsHold, the books balance, and no tenant spends  *)
(* what it does not have.                                                  *)
(***************************************************************************)
THEOREM CurrentReadsSuffice ==
    Spec /\ [][~StaleCommit]_vars => FundsHeldOnce /\ [](BooksBalance /\ NeverOverspent)
<1>1. Init => Funds!Init
  BY Stages DEF Init, Funds!Init, EmptyRow, Buckets
<1>2. TypeOK /\ WritesFit /\ Solvent /\ [Next]_vars /\ [~StaleCommit]_vars => Solvent'
  <2> SUFFICES ASSUME TypeOK, WritesFit, Solvent, [Next]_vars, [~StaleCommit]_vars
               PROVE  Solvent'
    OBVIOUS
  <2>1. CASE UNCHANGED vars
    BY <2>1 DEF vars, Solvent, Balanced, Free, In
  <2>2. CASE ~StaleCommit
    <3>1. \A r \in Workers : Commit(r) => Current(job[r])
      BY <2>2, FitIsCurrent DEF StaleCommit, Commit
    <3>2. QED
      BY <3>1, SolventAside
  <2>3. QED
    BY <2>1, <2>2
<1>3. [StaleCommit \/ [Funds!Next]_<<StageMap, Free>>]_vars /\ [~StaleCommit]_vars =>
        [Funds!Next]_<<[w \in Withdrawals |-> StageOf(row[w].status)], wallet["available"]>>
  BY DEF StageMap, Free, vars
<1>4. TypeOK /\ Solvent => BooksBalance /\ NeverOverspent
  BY SolventMeans
<1>5. QED
  BY <1>1, <1>2, <1>3, <1>4, SolventInit, FitsInvariant, DivergedOnlyByStaleReads, PTL
     DEF Spec, FundsHeldOnce, Funds!Spec, OnlyStaleReadsDiverge

(***************************************************************************)
(* Against a second disbursement the withdrawal's own status is enough: if *)
(* no request applies an answer to a withdrawal resolved since it read it, *)
(* each is booked as disbursed once, however stale the wallets are.        *)
(***************************************************************************)
THEOREM CurrentStatusDisbursesOnce ==
    Spec /\ [][~StaleStatusCommit]_vars => []DisbursedAtMostOnce
<1>1. WritesFit /\ ~StaleStatusCommit =>
        \A r \in Workers : Commit(r) =>
            Follows(row[job[r].w].status, job[r].write.status, job[r].move)
  BY DEF WritesFit, WriteFits, StaleStatusCommit, Commit
<1>2. TypeOK /\ WritesFit /\ BookedByStage /\ [Next]_vars /\ [~StaleStatusCommit]_vars
        => BookedByStage'
  <2>1. ASSUME BookedByStage, UNCHANGED vars
        PROVE  BookedByStage'
    BY <2>1 DEF vars, BookedByStage
  <2>2. QED
    BY <1>1, <2>1, BookedStep
<1>3. QED
  BY <1>2, BookedInit, BookedMeans, FitsInvariant, PTL DEF Spec

(***************************************************************************)
(* With such reads only a reservation, or a stale request, is refused for  *)
(* want of funds, so no answer of Selcom is rolled back for it.            *)
(***************************************************************************)
THEOREM CurrentReadsAreCovered == Spec /\ [][~StaleCommit]_vars => OnlyReservesRefused
<1>1. TypeOK /\ WritesFit /\ BooksBalance =>
        \A r \in Workers : Refuse(r) =>
            job[r].move = Reserve \/ StaleWallet(job[r]) \/ StaleStatus(job[r])
  <2> SUFFICES ASSUME TypeOK, WritesFit, BooksBalance, NEW r \in Workers, Refuse(r),
                      job[r].move # Reserve, ~StaleWallet(job[r]), ~StaleStatus(job[r])
               PROVE  FALSE
    OBVIOUS
  <2>1. Current(job[r])
    BY FitIsCurrent DEF Refuse
  <2>2. QED
    BY <2>1, HeldIsCovered, BalancedIsBooks DEF Refuse
<1>2. QED
  BY <1>1, CurrentReadsSuffice, FitsInvariant, PTL DEF OnlyReservesRefused

(***************************************************************************)
(* Requests that do not overlap read nothing stale: each withdrawal is     *)
(* disbursed once, no tenant spends what it does not have, and only a      *)
(* reservation is refused.                                                 *)
(***************************************************************************)
THEOREM SerialIsSound ==
    ASSUME OneWorker
    PROVE  Spec => /\ [](DisbursedAtMostOnce /\ NeverOverspent)
                   /\ [][\A r \in Workers : Refuse(r) => job[r].move = Reserve]_vars
<1>1. Init => SerialInv
  BY DEF Init, SerialInv, IdleJob
<1>2. TypeOK /\ SerialInv /\ [Next]_vars => SerialInv'
  BY SerialStep
<1>3. TypeOK /\ SerialInv /\ Solvent /\ BookedByStage /\ [Next]_vars =>
        Solvent' /\ BookedByStage'
  BY SolventAside, BookedStep DEF SerialInv, Commit, Current
<1>4. TypeOK /\ SerialInv /\ Solvent =>
        \A r \in Workers : Refuse(r) => job[r].move = Reserve
  BY HeldIsCovered DEF SerialInv, Solvent, Refuse, Current
<1>5. TypeOK /\ Solvent => NeverOverspent
  BY SolventMeans
<1>6. QED
  BY <1>1, <1>2, <1>3, <1>4, <1>5, SolventInit, BookedInit, BookedMeans, TypeCorrect, PTL
     DEF Spec
=============================================================================
