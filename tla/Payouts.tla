------------------------------ MODULE Payouts ------------------------------
(***************************************************************************)
(* The withdrawal lifecycle of one tenant: PayoutService                   *)
(* (apps/api/app/services/payouts.py) with its OTP challenge               *)
(* (two_factor.py), its wallet (WalletOps), the Selcom Business provider   *)
(* and the HTTP requests, webhooks and sweep calls that drive it.          *)
(*                                                                         *)
(* Each HTTP request is one database transaction, committed by the route   *)
(* when the service method has returned.  A worker serves one request at a *)
(* time:                                                                   *)
(*   - the request's action locks the withdrawal row, runs the handler,    *)
(*     including its calls to Selcom, and leaves the row to write, the     *)
(*     wallet movement and the wallet as the unlocked read saw it in       *)
(*     job[r];                                                             *)
(*   - Commit(r) takes the wallet lock, applies the movement and commits;  *)
(*   - Refuse(r) is the movement that raises (a bucket below zero) and     *)
(*     rolls back, Crash(r) the process dying before its commit.           *)
(* What Selcom did in between is not rolled back.                          *)
(***************************************************************************)
EXTENDS WalletOps, FiniteSets, FiniteSetsExt

CONSTANTS
    Withdrawals,       \* the withdrawals the tenant may request
    Workers,           \* requests in progress at the same time
    Amount,            \* the amount each withdrawal is requested for
    Threshold,         \* selcom_withdrawal_approval_threshold_tzs
    Opening,           \* the available balance at the start
    MaxAttempts,       \* withdrawal_otp_max_attempts
    MaxSends,          \* withdrawal_otp_max_sends
    DailyCountLimit,   \* withdrawal_daily_count_limit
    MaxCrashes         \* bound on the crashes of a behaviour

ASSUME WithdrawalsAssumption == IsFiniteSet(Withdrawals)  \* the rows of a table
ASSUME AmountAssumption   == Amount \in [Withdrawals -> Nat \ {0}]
ASSUME ThresholdAssumption == Threshold \in Nat
ASSUME OpeningAssumption  == Opening \in Nat
ASSUME OtpAssumption      == MaxAttempts \in Nat \ {0} /\ MaxSends \in Nat \ {0}
ASSUME LimitAssumption    == DailyCountLimit \in Nat
ASSUME CrashAssumption    == MaxCrashes \in Nat

VARIABLES
    row,        \* the committed withdrawals rows
    wallet,     \* the committed tenant_wallets row
    job,        \* what each worker is doing
    provider,   \* Selcom's own state of the transId of each withdrawal
    calls,      \* calls of transaction_process for each withdrawal: 0, 1 or more (2)
    otpPassed,  \* withdrawals whose requester entered the right code (history)
    approved,   \* withdrawals a SUPER_ADMIN approved (history)
    guesses,    \* wrong codes compared with the stored hash (history)
    paidOut,    \* DISBURSEMENT ledger entries committed: 0, 1 or more (2)
    undone,     \* withdrawals a request for which was rolled back (history)
    crashes     \* crashes so far

vars == <<row, wallet, job, provider, calls, otpPassed, approved, guesses, paidOut, undone, crashes>>

----------------------------------------------------------------------------
(* State *)

Statuses == {"NONE", "DRAFT", "PENDING_APPROVAL", "APPROVED", "PROCESSING",
             "AMBIGUOUS", "SUCCESS", "FAILED", "REJECTED", "CANCELLED", "REVERSED"}

InFlight  == {"PROCESSING", "AMBIGUOUS"}
Refused   == {"FAILED", "REJECTED", "CANCELLED"}
Holding   == {"DRAFT", "PENDING_APPROVAL", "APPROVED", "PROCESSING", "AMBIGUOUS"}
PastOtp   == {"PENDING_APPROVAL", "APPROVED", "PROCESSING", "AMBIGUOUS",
              "SUCCESS", "REVERSED"}
PastReview == PastOtp \ {"PENDING_APPROVAL"}

Rows == [status : Statuses, attempts : Nat, sends : Nat, code : {"live", "expired"}]

(***************************************************************************)
(* What Selcom knows of a transId.  "delayed": the submission left this    *)
(* process, the connection failed, and it may still arrive.  "paid_odd":   *)
(* paid, but reported with a transId, currency or amount the withdrawal    *)
(* does not explain.                                                       *)
(***************************************************************************)
ProviderStates == {"unknown", "delayed", "accepted", "unsure", "paid", "paid_odd", "failed"}
Paid == {"paid", "paid_odd"}

(***************************************************************************)
(* The history counters saturate: twice is already too often, and a guess  *)
(* beyond the bound is one too many.                                       *)
(***************************************************************************)
UpTo(n, bound) == IF n < bound THEN n + 1 ELSE n
GuessBound == MaxAttempts * MaxSends + MaxCrashes

IdleJob == [phase |-> "idle"]
ReadJobs == [phase : {"read"}, w : Withdrawals, seen : Statuses]
CommitJobs == [phase : {"commit"}, w : Withdrawals, write : Rows,
               move : Moves, seen : Wallets]
Jobs == {IdleJob} \cup ReadJobs \cup CommitJobs

NeedsApproval(w) == Amount[w] > Threshold

Idle(r) == job[r] = IdleJob

(* SELECT ... FOR UPDATE on the withdrawal: the lock lasts to the commit.  *)
LockedNever(w) == FALSE \* no SELECT ... FOR UPDATE
Locked(w) == \E r \in Workers : job[r].phase = "commit" /\ job[r].w = w

EmptyRow == [status |-> "NONE", attempts |-> 0, sends |-> 0, code |-> "live"]

Init ==
    /\ row = [w \in Withdrawals |-> EmptyRow]
    /\ wallet = [b \in Buckets |-> IF b = "available" THEN Opening ELSE 0]
    /\ job = [r \in Workers |-> IdleJob]
    /\ provider = [w \in Withdrawals |-> "unknown"]
    /\ calls = [w \in Withdrawals |-> 0]
    /\ otpPassed = {}
    /\ approved = {}
    /\ guesses = [w \in Withdrawals |-> 0]
    /\ paidOut = [w \in Withdrawals |-> 0]
    /\ undone = {}
    /\ crashes = 0

(***************************************************************************)
(* The end of a handler: the row it flushed, the wallet movement it asks   *)
(* for and the wallet its plain SELECT just returned.                      *)
(***************************************************************************)
Finish(r, w, newRow, m) ==
    job' = [job EXCEPT ![r] = [phase |-> "commit", w |-> w, write |-> newRow,
                               move |-> m, seen |-> wallet]]

----------------------------------------------------------------------------
(* request_withdrawal, resend_otp and the OTP challenge *)

(***************************************************************************)
(* daily_totals: every withdrawal of the day but the refused ones.  The    *)
(* count stands for both daily limits: one query, one check, no lock.      *)
(***************************************************************************)
CountedToday == {w \in Withdrawals : row[w].status \notin Refused \cup {"NONE"}}

WithinLimits == Cardinality(CountedToday) + 1 <= DailyCountLimit

(* issue_challenge: a fresh code, the attempt counter back to zero.        *)
IssueChallenge(x) ==
    [status |-> x.status, attempts |-> 0, sends |-> x.sends, code |-> "live"]

(* _issue_and_send_otp counts the sending, whether the e-mail went or not. *)
IssueAndSendOtp(x) == [IssueChallenge(x) EXCEPT !.sends = @ + 1]

RequestWithdrawal(r, w) ==
    /\ Idle(r)
    /\ row[w].status = "NONE"
    /\ ~Locked(w)
    /\ WithinLimits
    /\ Finish(r, w, [IssueAndSendOtp(EmptyRow) EXCEPT !.status = "DRAFT"], Reserve)
    /\ UNCHANGED <<row, wallet, provider, calls, otpPassed, approved, guesses, paidOut, undone, crashes>>

ResendOtp(r, w) ==
    /\ Idle(r)
    /\ ~Locked(w)
    /\ row[w].status = "DRAFT"
    /\ row[w].sends < MaxSends
    /\ Finish(r, w, IssueAndSendOtp(row[w]), NoMove)
    /\ UNCHANGED <<row, wallet, provider, calls, otpPassed, approved, guesses, paidOut, undone, crashes>>

(* The TTL of the current code runs out. *)
OtpExpires(w) ==
    /\ row[w].status = "DRAFT"
    /\ row[w].code = "live"
    /\ ~Locked(w)
    /\ row' = [row EXCEPT ![w].code = "expired"]
    /\ UNCHANGED <<wallet, job, provider, calls, otpPassed, approved, guesses, paidOut, undone, crashes>>

ExhaustedLate(x) == x.attempts > MaxAttempts \/ x.code = "expired" \* off by one
Exhausted(x) == x.attempts >= MaxAttempts \/ x.code = "expired"

(***************************************************************************)
(* verify() of a wrong code: it counts an attempt, unless the challenge is *)
(* exhausted or was sent to an address that is no longer the account's;    *)
(* then the code is refused without a comparison.                          *)
(***************************************************************************)
Compared(x, sameEmail) == ~Exhausted(x) /\ sameEmail
Verify(x, sameEmail) ==
    IF Compared(x, sameEmail) THEN [x EXCEPT !.attempts = @ + 1] ELSE x

(***************************************************************************)
(* confirm_two_factor when verify() returns False.  The route commits      *)
(* either way, and a challenge exhausted by now cancels.                   *)
(***************************************************************************)
ConfirmRefused(r, w, sameEmail) ==
    LET compared == Compared(row[w], sameEmail)
        tried    == Verify(row[w], sameEmail)
    IN  /\ Idle(r)
        /\ ~Locked(w)
        /\ row[w].status = "DRAFT"
        /\ guesses' = [guesses EXCEPT ![w] = IF compared THEN UpTo(@, GuessBound + 1) ELSE @]
        /\ IF Exhausted(tried)
           THEN Finish(r, w, [tried EXCEPT !.status = "CANCELLED"], Release)
           ELSE Finish(r, w, tried, NoMove)
        /\ UNCHANGED <<row, wallet, provider, calls, otpPassed, approved, paidOut, undone, crashes>>

----------------------------------------------------------------------------
(* Selcom: submission, replies and reconciliation *)

(***************************************************************************)
(* What a reply says, over what Selcom knows.  interpret_resultcode: a     *)
(* transId it has no record of gets a result code outside 000/111/927/999, *)
(* which is a failure.  match_provider_amount: a payment explains the      *)
(* withdrawal if its amount is the requested one, with or without Selcom's *)
(* own charge.                                                             *)
(***************************************************************************)
MatchesAny(p) == TRUE \* any reported amount taken for the requested one
Matches(p) == p # "paid_odd"

Reply(p) == CASE p \in Paid      -> IF Matches(p) THEN "SUCCESS" ELSE "MISMATCH"
              [] p = "accepted" -> "INPROGRESS"
              [] p = "unsure"   -> "AMBIGUOUS"
              [] p \in {"unknown", "delayed", "failed"} -> "FAIL"

(***************************************************************************)
(* _apply_provider_result: the status the handler holds (which may be      *)
(* stale), the reply it got; the status it writes and the wallet movement. *)
(***************************************************************************)
Keep == "KEEP"

ApplyForgetsRelease(status, reply) == \* FAILED without giving the funds back
    CASE status \notin InFlight \/ reply = "INPROGRESS" -> [to |-> Keep, move |-> NoMove]
      [] status \in InFlight /\ reply = "SUCCESS" -> [to |-> "SUCCESS", move |-> Complete]
      [] status \in InFlight /\ reply \in {"AMBIGUOUS", "MISMATCH"}
            -> [to |-> "AMBIGUOUS", move |-> NoMove]
      [] status \in InFlight /\ reply = "FAIL" -> [to |-> "FAILED", move |-> NoMove]

ApplyUnguarded(status, reply) == \* acting on a withdrawal already resolved
    CASE reply = "INPROGRESS" -> [to |-> Keep, move |-> NoMove]
      [] reply = "SUCCESS"    -> [to |-> "SUCCESS", move |-> Complete]
      [] reply \in {"AMBIGUOUS", "MISMATCH"} -> [to |-> "AMBIGUOUS", move |-> NoMove]
      [] reply = "FAIL"       -> [to |-> "FAILED", move |-> Release]

ApplyProcessingOnly(status, reply) == \* an AMBIGUOUS withdrawal is never looked at again
    CASE status # "PROCESSING" \/ reply = "INPROGRESS" -> [to |-> Keep, move |-> NoMove]
      [] status = "PROCESSING" /\ reply = "SUCCESS" -> [to |-> "SUCCESS", move |-> Complete]
      [] status = "PROCESSING" /\ reply \in {"AMBIGUOUS", "MISMATCH"}
            -> [to |-> "AMBIGUOUS", move |-> NoMove]
      [] status = "PROCESSING" /\ reply = "FAIL" -> [to |-> "FAILED", move |-> Release]

ApplyProviderResult(status, reply) ==
    CASE status \notin InFlight \/ reply = "INPROGRESS" -> [to |-> Keep, move |-> NoMove]
      [] status \in InFlight /\ reply = "SUCCESS"
            -> [to |-> "SUCCESS", move |-> Complete]
      [] status \in InFlight /\ reply \in {"AMBIGUOUS", "MISMATCH"}
            -> [to |-> "AMBIGUOUS", move |-> NoMove]
      [] status \in InFlight /\ reply = "FAIL"
            -> [to |-> "FAILED", move |-> Release]

SetStatusAlways(x, to) == [x EXCEPT !.status = to] \* the sentinel written as a status
SetStatus(x, to) == IF to = Keep THEN x ELSE [x EXCEPT !.status = to]

(* _reconcile_locked: what the answer to a query makes of a held status.   *)
ReconcileLocked(status, p) == ApplyProviderResult(status, Reply(p))

(***************************************************************************)
(* What Selcom may know after a submission it received (the idempotency    *)
(* key is its transId, so it handles a transId once), and after one whose  *)
(* response this process never got.                                        *)
(***************************************************************************)
Received(p) ==
    IF p \in {"unknown", "delayed"}
    THEN {"accepted", "unsure", "paid", "paid_odd", "failed"}
    ELSE {p}
NoAnswer(p) == Received(p) \cup (IF p = "unknown" THEN {"unknown", "delayed"} ELSE {p})

(***************************************************************************)
(* _submit_to_selcom from APPROVED: where each of its exits leaves the     *)
(* withdrawal and Selcom.                                                  *)
(*   NotSubmitted: a gate, the destination or the account lookup refuses.  *)
(*   LookupLost:   the lookup could not be completed; status stays APPROVED*)
(*   Submitted:    transaction_process answered.                           *)
(*   SubmitLost:   it timed out; the query that follows is answered or not.*)
(*   SubmitError:  a 5xx or non-JSON answer (SelcomBusinessAPIError); what *)
(*                 was sent is no longer under way.                        *)
(***************************************************************************)
Exit(to, m, p, called) == [to |-> to, move |-> m, provider |-> p, called |-> called]

NotSubmitted(p) == {Exit("FAILED", Release, p, FALSE)}
LookupLost(p)   == {Exit("APPROVED", NoMove, p, FALSE)}
Answered(q) ==
    LET res == ApplyProviderResult("PROCESSING", Reply(q))
    IN  Exit(IF res.to = Keep THEN "PROCESSING" ELSE res.to, res.move, q, TRUE)
Submitted(p)   == {Answered(q) : q \in Received(p)}
SubmitLost(p)  == {Answered(q) : q \in NoAnswer(p)}
                    \cup {Exit("PROCESSING", NoMove, q, TRUE) : q \in NoAnswer(p)}
SubmitError(p) == {Exit("FAILED", Release, q, TRUE) : q \in Received(p) \cup {p}}

Exits(p) == NotSubmitted(p) \cup LookupLost(p) \cup Submitted(p)
               \cup SubmitLost(p) \cup SubmitError(p)

SubmitToSelcom(r, w) ==
    \E x \in Exits(provider[w]) :
        /\ provider' = [provider EXCEPT ![w] = x.provider]
        /\ calls' = [calls EXCEPT ![w] = IF x.called THEN UpTo(@, 2) ELSE @]
        /\ Finish(r, w, [row[w] EXCEPT !.status = x.to], x.move)

(* confirm_two_factor with the right code, for an amount to be reviewed.   *)
ConfirmForReview(r, w) ==
    /\ Idle(r)
    /\ ~Locked(w)
    /\ row[w].status = "DRAFT"
    /\ ~Exhausted(row[w])
    /\ NeedsApproval(w)
    /\ otpPassed' = otpPassed \cup {w}
    /\ Finish(r, w, [row[w] EXCEPT !.status = "PENDING_APPROVAL"], NoMove)
    /\ UNCHANGED <<row, wallet, provider, calls, approved, guesses, paidOut, undone, crashes>>

(* ... and at or under the threshold: APPROVED and submitted at once.      *)
ConfirmAndSubmit(r, w) ==
    /\ Idle(r)
    /\ ~Locked(w)
    /\ row[w].status = "DRAFT"
    /\ ~Exhausted(row[w])
    /\ ~NeedsApproval(w)
    /\ otpPassed' = otpPassed \cup {w}
    /\ SubmitToSelcom(r, w)
    /\ UNCHANGED <<row, wallet, approved, guesses, paidOut, undone, crashes>>

ApproveAnyOpen(r, w) == \* without the check that the OTP came first
    /\ Idle(r)
    /\ ~Locked(w)
    /\ row[w].status \in {"DRAFT", "PENDING_APPROVAL"}
    /\ approved' = approved \cup {w}
    /\ SubmitToSelcom(r, w)
    /\ UNCHANGED <<row, wallet, otpPassed, guesses, paidOut, undone, crashes>>

ApproveWithdrawal(r, w) ==
    /\ Idle(r)
    /\ ~Locked(w)
    /\ row[w].status = "PENDING_APPROVAL"
    /\ approved' = approved \cup {w}
    /\ SubmitToSelcom(r, w)
    /\ UNCHANGED <<row, wallet, otpPassed, guesses, paidOut, undone, crashes>>

RejectWithdrawal(r, w) ==
    /\ Idle(r)
    /\ ~Locked(w)
    /\ row[w].status = "PENDING_APPROVAL"
    /\ Finish(r, w, [row[w] EXCEPT !.status = "REJECTED"], Release)
    /\ UNCHANGED <<row, wallet, provider, calls, otpPassed, approved, guesses, paidOut, undone, crashes>>

CancelWithdrawal(r, w) ==
    /\ Idle(r)
    /\ ~Locked(w)
    /\ row[w].status \in {"DRAFT", "PENDING_APPROVAL"}
    /\ Finish(r, w, [row[w] EXCEPT !.status = "CANCELLED"], Release)
    /\ UNCHANGED <<row, wallet, provider, calls, otpPassed, approved, guesses, paidOut, undone, crashes>>

ReverseWithdrawal(r, w) ==
    /\ Idle(r)
    /\ ~Locked(w)
    /\ row[w].status = "SUCCESS"
    /\ Finish(r, w, [row[w] EXCEPT !.status = "REVERSED"], Reverse)
    /\ UNCHANGED <<row, wallet, provider, calls, otpPassed, approved, guesses, paidOut, undone, crashes>>

(***************************************************************************)
(* reconcile_if_pending (the sweep's internal endpoint) and                *)
(* reconcile_withdrawal (the SUPER_ADMIN requery): the first load of the   *)
(* row takes the lock, so the status is current.  On any other status both *)
(* change nothing; a query that fails changes nothing either.              *)
(***************************************************************************)
Reconcile(r, w) ==
    LET res == ReconcileLocked(row[w].status, provider[w])
    IN  /\ Idle(r)
        /\ ~Locked(w)
        /\ row[w].status \in InFlight
        /\ Finish(r, w, SetStatus(row[w], res.to), res.move)
        /\ UNCHANGED <<row, wallet, provider, calls, otpPassed, approved, guesses, paidOut, undone, crashes>>

(***************************************************************************)
(* The disbursement webhook looks the withdrawal up with a plain SELECT    *)
(* (get_by_idempotency_key) and then calls reconcile_withdrawal, whose     *)
(* FOR UPDATE query returns the object already in the session: the status  *)
(* it acts on is the one read before the lock.                             *)
(***************************************************************************)
WebhookReads(r, w) ==
    /\ Idle(r)
    /\ row[w].status # "NONE"
    /\ job' = [job EXCEPT ![r] = [phase |-> "read", w |-> w, seen |-> row[w].status]]
    /\ UNCHANGED <<row, wallet, provider, calls, otpPassed, approved, guesses, paidOut, undone, crashes>>

WebhookReconciles(r) ==
    /\ job[r].phase = "read"
    /\ ~Locked(job[r].w)
    /\ LET w   == job[r].w
           res == ReconcileLocked(job[r].seen, provider[w])
       IN  Finish(r, w, SetStatus(row[w], res.to), res.move)
    /\ UNCHANGED <<row, wallet, provider, calls, otpPassed, approved, guesses, paidOut, undone, crashes>>

----------------------------------------------------------------------------
(* The end of a request, and the provider *)

Commit(r) ==
    /\ job[r].phase = "commit"
    /\ Covered(job[r].move, Amount[job[r].w], job[r].seen)
    /\ LET j == job[r]
       IN  /\ row' = [row EXCEPT ![j.w] = j.write]
           /\ wallet' = Apply(j.move, Amount[j.w], j.seen, wallet)
           /\ paidOut' = [paidOut EXCEPT ![j.w] = IF j.move = Complete THEN UpTo(@, 2) ELSE @]
    /\ job' = [job EXCEPT ![r] = IdleJob]
    /\ UNCHANGED <<provider, calls, otpPassed, approved, guesses, undone, crashes>>

Refuse(r) ==
    /\ job[r].phase = "commit"
    /\ ~Covered(job[r].move, Amount[job[r].w], job[r].seen)
    /\ undone' = undone \cup {job[r].w}
    /\ job' = [job EXCEPT ![r] = IdleJob]
    /\ UNCHANGED <<row, wallet, provider, calls, otpPassed, approved, guesses, paidOut, crashes>>

Crash(r) ==
    /\ job[r].phase # "idle"
    /\ crashes < MaxCrashes
    /\ crashes' = crashes + 1
    /\ undone' = IF job[r].phase = "commit" THEN undone \cup {job[r].w} ELSE undone
    /\ job' = [job EXCEPT ![r] = IdleJob]
    /\ UNCHANGED <<row, wallet, provider, calls, otpPassed, approved, guesses, paidOut>>

(* Selcom settles what it accepted; a delayed submission arrives.          *)
ProviderSettles(w) ==
    /\ provider[w] \in {"delayed", "accepted", "unsure"}
    /\ \E p \in Paid \cup {"failed"} : provider' = [provider EXCEPT ![w] = p]
    /\ UNCHANGED <<row, wallet, job, calls, otpPassed, approved, guesses, paidOut, undone, crashes>>

Request(r, w) ==
    \/ RequestWithdrawal(r, w)
    \/ ResendOtp(r, w)
    \/ \E sameEmail \in BOOLEAN : ConfirmRefused(r, w, sameEmail)
    \/ ConfirmForReview(r, w)
    \/ ConfirmAndSubmit(r, w)
    \/ ApproveWithdrawal(r, w)
    \/ RejectWithdrawal(r, w)
    \/ CancelWithdrawal(r, w)
    \/ ReverseWithdrawal(r, w)
    \/ Reconcile(r, w)
    \/ WebhookReads(r, w)

Next ==
    \/ \E r \in Workers, w \in Withdrawals : Request(r, w)
    \/ \E r \in Workers : WebhookReconciles(r) \/ Commit(r) \/ Refuse(r) \/ Crash(r)
    \/ \E w \in Withdrawals : OtpExpires(w) \/ ProviderSettles(w)

Spec == Init /\ [][Next]_vars

(***************************************************************************)
(* Fairness.  A request ends.  Selcom settles what it accepted.  Celery    *)
(* beat sweeps every PROCESSING or AMBIGUOUS withdrawal each 120 seconds,  *)
(* so one is reconciled if that is possible again and again.  Requests of  *)
(* people and webhooks are not fair.                                       *)
(***************************************************************************)
Fairness ==
    /\ \A r \in Workers : WF_vars(Commit(r) \/ Refuse(r) \/ WebhookReconciles(r))
    /\ \A w \in Withdrawals : SF_vars(\E r \in Workers : Reconcile(r, w))
    /\ \A w \in Withdrawals : WF_vars(ProviderSettles(w))

FairSpec == Spec /\ Fairness

----------------------------------------------------------------------------
(* Properties *)

(* Every variable keeps its type: rows, jobs and balances are well formed. *)
TypeOK ==
    /\ row \in [Withdrawals -> Rows]
    /\ wallet \in Wallets
    /\ job \in [Workers -> Jobs]
    /\ provider \in [Withdrawals -> ProviderStates]
    /\ calls \in [Withdrawals -> 0 .. 2]
    /\ otpPassed \subseteq Withdrawals
    /\ approved \subseteq Withdrawals
    /\ guesses \in [Withdrawals -> Nat]
    /\ paidOut \in [Withdrawals -> 0 .. 2]
    /\ undone \subseteq Withdrawals
    /\ crashes \in 0 .. MaxCrashes

Total(S) == MapThenSumSet(LAMBDA w : Amount[w], S)
In(S) == {w \in Withdrawals : row[w].status \in S}

(***************************************************************************)
(* The wallet agrees with the withdrawals: what is reserved is what the    *)
(* open ones hold, what is disbursed is what succeeded, and the rest of    *)
(* the opening balance is available.  Row locking is there to keep this    *)
(* true (wallet.py, _locked_wallet).                                       *)
(***************************************************************************)
BooksBalance ==
    /\ wallet["reserved"] = Total(In(Holding))
    /\ wallet["total_disbursed"] = Total(In({"SUCCESS"}))
    /\ wallet["available"] = Opening - Total(In(Holding \cup {"SUCCESS"}))

(***************************************************************************)
(* Only two things unbalance the books, however requests overlap: a commit *)
(* that computed from a wallet another commit has changed since, and a     *)
(* webhook that applies its answer to a withdrawal which was in flight     *)
(* when it read it and has been resolved since.                            *)
(***************************************************************************)
StaleWallet(j) == j.move # NoMove /\ j.seen # wallet
StaleStatus(j) ==
    /\ row[j.w].status \in {"SUCCESS", "FAILED", "REVERSED"}
    /\ j.move # Reverse
    /\ j.move # NoMove \/ j.write.status # row[j.w].status

OnlyStaleReadsUnbalance ==
    [][BooksBalance /\ ~BooksBalance' =>
          \E r \in Workers : Commit(r) /\ (StaleWallet(job[r]) \/ StaleStatus(job[r]))]_vars

(***************************************************************************)
(* The promise of the wallet behind a withdrawal (module FundsHold), and   *)
(* how the rows and the wallet show it.  With requests that do not overlap *)
(* Payouts implements it.                                                  *)
(***************************************************************************)
StageOf(status) == CASE status = "NONE" -> "new"
                     [] status \in Holding -> "held"
                     [] status \in Refused -> "returned"
                     [] status = "SUCCESS" -> "paid"
                     [] status = "REVERSED" -> "recalled"

Funds == INSTANCE FundsHold WITH
            stage <- [w \in Withdrawals |-> StageOf(row[w].status)],
            free  <- wallet["available"]

FundsHeldOnce == Funds!Spec

(***************************************************************************)
(* transaction_process is only ever called for a withdrawal whose          *)
(* requester passed the OTP and, above the threshold, that a SUPER_ADMIN   *)
(* approved, whatever was rolled back or raced in between.                 *)
(***************************************************************************)
AuthorisedPayout ==
    \A w \in Withdrawals :
        calls[w] > 0 => w \in otpPassed /\ (NeedsApproval(w) => w \in approved)

(***************************************************************************)
(* complete_disbursement and the status SUCCESS follow only on a payment   *)
(* Selcom itself reports as made, with matching transId, currency and      *)
(* amount: never on a callback, a timeout, an unclear or an odd answer.    *)
(***************************************************************************)
BookedOnlyIfPaid ==
    \A w \in Withdrawals :
        paidOut[w] > 0 \/ row[w].status \in {"SUCCESS", "REVERSED"} => provider[w] = "paid"

(***************************************************************************)
(* Guessing the code: issue_challenge resets the attempt counter and       *)
(* resend_otp is capped, so a withdrawal's code is compared with a wrong   *)
(* guess at most MaxAttempts times per send.  Only a request that is       *)
(* rolled back forgets a guess: by a crash, or because the wallet cannot   *)
(* release what the exhausted challenge held.                              *)
(***************************************************************************)
GuessesBounded ==
    \A w \in Withdrawals : w \notin undone => guesses[w] <= MaxAttempts * MaxSends

(***************************************************************************)
(* What people closed stays closed: no late webhook, sweep or retried      *)
(* request moves a withdrawal that was rejected or cancelled.              *)
(***************************************************************************)
ClosedStaysClosed ==
    [][\A w \in Withdrawals :
          row[w].status \in {"REJECTED", "CANCELLED"} => row'[w] = row[w]]_vars

(***************************************************************************)
(* transaction_process is called again for a withdrawal only when an       *)
(* earlier request for it was rolled back, by a crash or by its wallet     *)
(* movement: no race of clicks, webhooks and sweeps submits it twice.      *)
(***************************************************************************)
ResentOnlyAfterRollback == \A w \in Withdrawals : calls[w] > 1 => w \in undone

(* A resolved withdrawal is an idempotent no-op for any later result, so   *)
(* it is booked as disbursed once.                                         *)
DisbursedAtMostOnce == \A w \in Withdrawals : paidOut[w] <= 1

(***************************************************************************)
(* A submitted withdrawal does not hang: once Selcom has settled it, the   *)
(* sweep closes it, unless Selcom's own report does not match it.          *)
(***************************************************************************)
InFlightResolved ==
    \A w \in Withdrawals :
        row[w].status \in InFlight ~> row[w].status \notin InFlight \/ provider[w] = "paid_odd"
=============================================================================
