------------------------------- MODULE Wallet -------------------------------
(***************************************************************************)
(* WalletService (apps/api/app/services/wallet.py): every movement of one  *)
(* tenant's wallet, called by requests that may overlap, and the records   *)
(* that justify them: the ledger entries, the settlement logs and the      *)
(* holds of withdrawals.                                                   *)
(*                                                                         *)
(* A call is two steps.  Begin loads the wallet with a plain SELECT;       *)
(* Commit takes the row lock, moves the buckets as WalletOps!Apply does,   *)
(* writes the records and commits.  Raise is _move_bucket refusing.        *)
(***************************************************************************)
EXTENDS WalletOps, FiniteSets

CONSTANTS
    Workers,    \* requests in progress at the same time
    Amounts,    \* the amounts calls are made with, in minor units
    Rates,      \* commission rates, in hundredths of a percent
    MaxCalls    \* bound on the calls of a behaviour

ASSUME AmountsAssumption == Amounts \subseteq Nat \ {0}
ASSUME RatesAssumption   == Rates \subseteq 0 .. 10000
ASSUME CallsAssumption   == MaxCalls \in Nat

VARIABLES
    wallet,     \* the committed tenant_wallets row
    ledger,     \* credits minus debits of the ledger entries, per wallet_bucket
    settled,    \* what the settlement logs add up to
    holds,      \* what was reserved and neither released nor disbursed
    paid,       \* what the DISBURSEMENT entries add up to
    recalled,   \* what the DISBURSEMENT_REVERSAL entries add up to
    lost,       \* some call wrote balances it computed from a stale read (history)
    job,        \* what each worker is doing
    started     \* calls so far

vars == <<wallet, ledger, settled, holds, paid, recalled, lost, job, started>>

records == <<ledger, settled, holds, paid, recalled, lost>>

IdleJob == [phase |-> "idle"]
CallJobs == [phase : {"call"}, move : Moves, amount : Nat, seen : Wallets]
Jobs == {IdleJob} \cup CallJobs

Zero == [b \in Buckets |-> 0]

Init ==
    /\ wallet = Zero
    /\ ledger = Zero
    /\ settled = 0 /\ holds = 0 /\ paid = 0 /\ recalled = 0
    /\ lost = FALSE
    /\ job = [r \in Workers |-> IdleJob]
    /\ started = 0

(***************************************************************************)
(* The checks every method makes first, and the unlocked read of the       *)
(* wallet.                                                                 *)
(***************************************************************************)
Begin(r, m, a) ==
    /\ job[r] = IdleJob
    /\ started < MaxCalls
    /\ started' = started + 1
    /\ job' = [job EXCEPT ![r] = [phase |-> "call", move |-> m, amount |-> a, seen |-> wallet]]
    /\ UNCHANGED <<wallet, records>>

ProcessCollection(r)   == \E gross \in Amounts, rate \in Rates :
                            Begin(r, Collect, TenantShare(gross, rate))
CreateAdjustment(r)    == \E b \in Buckets, a \in Amounts :
                            Begin(r, AdjustUp(b), a) \/ Begin(r, AdjustDown(b), a)
SettlePending(r)       == \E a \in Amounts \cup {wallet["pending"]} :
                            a > 0 /\ a <= wallet["pending"] /\ Begin(r, Settle, a)
ReserveForWithdrawal(r) == \E a \in Amounts : Begin(r, Reserve, a)
ReleaseReservation(r)  == \E a \in Amounts : Begin(r, Release, a)
CompleteDisbursement(r) == \E a \in Amounts : Begin(r, Complete, a)
ReverseDisbursement(r) == \E a \in Amounts : Begin(r, Reverse, a)
RecordRefund(r)        == \E a \in Amounts : Begin(r, Refund, a)
RecordReversal(r)      == \E a \in Amounts : Begin(r, Reversal, a)

(***************************************************************************)
(* The ledger entry a movement is recorded with, as what it adds to the    *)
(* sum of its bucket: the movements into or out of the tenant's wallet     *)
(* have one on the bucket they move, Complete and Reverse on the bucket    *)
(* that receives, Settle, Reserve and Release none.                        *)
(***************************************************************************)
NoEntry(m) == m \in {Settle, Reserve, Release}
LedgerEffect(m, a, b) ==
    CASE NoEntry(m)                        -> 0
      [] ~NoEntry(m) /\ b = m.to           -> a
      [] ~NoEntry(m) /\ b = m.from /\ m.to = None -> -a
      [] OTHER                             -> 0

Commit(r) ==
    LET m == job[r].move
        a == job[r].amount
    IN  /\ job[r].phase = "call"
        /\ Covered(m, a, job[r].seen)
        /\ wallet' = Apply(m, a, job[r].seen, wallet)
        /\ ledger' = [b \in Buckets |-> ledger[b] + LedgerEffect(m, a, b)]
        /\ settled' = IF m = Settle THEN settled + a ELSE settled
        /\ holds' = CASE m = Reserve -> holds + a
                      [] m \in {Release, Complete} -> holds - a
                      [] OTHER -> holds
        /\ paid' = IF m = Complete THEN paid + a ELSE paid
        /\ recalled' = IF m = Reverse THEN recalled + a ELSE recalled
        /\ lost' = (lost \/ job[r].seen # wallet)
        /\ job' = [job EXCEPT ![r] = IdleJob]
        /\ UNCHANGED started

Raise(r) ==
    /\ job[r].phase = "call"
    /\ ~Covered(job[r].move, job[r].amount, job[r].seen)
    /\ job' = [job EXCEPT ![r] = IdleJob]
    /\ UNCHANGED <<wallet, records, started>>

Next ==
    \E r \in Workers :
        \/ ProcessCollection(r)
        \/ CreateAdjustment(r)
        \/ SettlePending(r)
        \/ ReserveForWithdrawal(r)
        \/ ReleaseReservation(r)
        \/ CompleteDisbursement(r)
        \/ ReverseDisbursement(r)
        \/ RecordRefund(r)
        \/ RecordReversal(r)
        \/ Commit(r)
        \/ Raise(r)

Spec == Init /\ [][Next]_vars

----------------------------------------------------------------------------
(* Properties *)

(* Every variable keeps its type. *)
TypeOK ==
    /\ wallet \in Wallets
    /\ ledger \in Wallets
    /\ settled \in Nat /\ paid \in Nat /\ recalled \in Nat /\ holds \in Int
    /\ lost \in BOOLEAN
    /\ job \in [Workers -> Jobs]
    /\ started \in 0 .. MaxCalls

(***************************************************************************)
(* No bucket is ever below zero ("never lets a bucket go negative",        *)
(* _move_bucket), although the check is made on a balance read before the  *)
(* lock: a stale read may lose money, it does not overdraw.                *)
(***************************************************************************)
NeverNegative == \A b \in Buckets : wallet[b] >= 0

(***************************************************************************)
(* Every balance can be recomputed from the durable records, the ledger    *)
(* together with the settlement logs and the withdrawals, until a call     *)
(* commits balances it computed from a read that was stale by then.        *)
(***************************************************************************)
Recomputable ==
    ~lost =>
        /\ wallet["pending"]         = ledger["pending"] - settled
        /\ wallet["available"]       = ledger["available"] + settled - holds - paid
        /\ wallet["reserved"]        = ledger["reserved"] + holds
        /\ wallet["frozen"]          = ledger["frozen"]
        /\ wallet["total_disbursed"] = ledger["total_disbursed"] - recalled
=============================================================================
