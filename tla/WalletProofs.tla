---------------------------- MODULE WalletProofs ----------------------------
(* Proofs about Wallet and the fee split, for every amount, rate and       *)
(* number of overlapping calls.                                            *)
EXTENDS Wallet, TLAPS

(***************************************************************************)
(* The split of a payment (process_collection): the rounded fee is never   *)
(* more than the payment, so the tenant's share is never negative, and the *)
(* two add up to it.                                                       *)
(***************************************************************************)
THEOREM FeeSplit ==
    ASSUME NEW gross \in Nat, NEW rate \in Nat, rate <= 10000
    PROVE  /\ PlatformFee(gross, rate) \in 0 .. gross
           /\ TenantShare(gross, rate) \in 0 .. gross
           /\ PlatformFee(gross, rate) + TenantShare(gross, rate) = gross
<1>1. gross * rate \in Nat /\ gross * rate <= gross * 10000
  OBVIOUS
<1>2. PICK n \in Nat : n = gross * rate
  BY <1>1
<1>3. PICK q : q = (n + 5000) \div 10000
  OBVIOUS
<1>4. q \in Int /\ 10000 * q <= n + 5000 /\ n + 5000 < 10000 * q + 10000
  BY <1>2, <1>3, Z3
<1>5. n <= gross * 10000
  BY <1>1, <1>2
<1>6. q \in 0 .. gross
  BY <1>4, <1>5
<1>7. QED
  BY <1>2, <1>3, <1>6 DEF PlatformFee, TenantShare

(* A movement leaves a wallet of integer balances.                         *)
LEMMA ApplyWallet ==
    ASSUME NEW m \in Moves, NEW a \in Nat, NEW seen \in Wallets, NEW live \in Wallets
    PROVE  Apply(m, a, seen, live) \in Wallets
BY DEF Apply, Moves, Wallets, Buckets, None

(* ... and of balances that are not negative, if neither what was seen nor *)
(* what is there is, and what was seen covers the amount.                  *)
LEMMA ApplyNonNegative ==
    ASSUME NEW m \in Moves, NEW a \in Nat, NEW seen \in Wallets, NEW live \in Wallets,
           \A b \in Buckets : seen[b] >= 0 /\ live[b] >= 0, Covered(m, a, seen)
    PROVE  \A b \in Buckets : Apply(m, a, seen, live)[b] >= 0
BY DEF Apply, Covered, Moves, Wallets, Buckets, None

(* The movements of WalletService are movements.                           *)
LEMMA MoveTypes ==
    /\ Collect \in Moves /\ Settle \in Moves /\ Reserve \in Moves /\ Release \in Moves
    /\ Complete \in Moves /\ Reverse \in Moves /\ Refund \in Moves /\ Reversal \in Moves
    /\ \A b \in Buckets : AdjustUp(b) \in Moves /\ AdjustDown(b) \in Moves
BY DEF Collect, Settle, Reserve, Release, Complete, Reverse, Refund, Reversal,
       AdjustUp, AdjustDown, Moves, Buckets, None

(* Each method begins with a movement and an amount that is not negative.  *)
LEMMA CallBegins ==
    ASSUME TypeOK, NEW r \in Workers,
           \/ ProcessCollection(r) \/ CreateAdjustment(r) \/ SettlePending(r)
           \/ ReserveForWithdrawal(r) \/ ReleaseReservation(r) \/ CompleteDisbursement(r)
           \/ ReverseDisbursement(r) \/ RecordRefund(r) \/ RecordReversal(r)
    PROVE  \E m \in Moves, a \in Nat : Begin(r, m, a)
<1>1. CASE ProcessCollection(r)
  <2>1. PICK gross \in Amounts, rate \in Rates : Begin(r, Collect, TenantShare(gross, rate))
    BY <1>1 DEF ProcessCollection
  <2>2. gross \in Nat /\ rate \in Nat /\ rate <= 10000
    <3>1. gross \in Nat \ {0}
      BY AmountsAssumption
    <3>2. rate \in 0 .. 10000
      BY RatesAssumption
    <3>3. QED
      BY <3>1, <3>2
  <2>3. TenantShare(gross, rate) \in 0 .. gross
    BY <2>2, FeeSplit
  <2>4. TenantShare(gross, rate) \in Nat
    BY <2>2, <2>3
  <2>5. QED
    BY <2>1, <2>4, MoveTypes
<1>2. CASE CreateAdjustment(r)
  BY <1>2, MoveTypes, AmountsAssumption DEF CreateAdjustment
<1>3. CASE SettlePending(r)
  <2>1. PICK a \in Amounts \cup {wallet["pending"]} : a > 0 /\ Begin(r, Settle, a)
    BY <1>3 DEF SettlePending
  <2>2. wallet["pending"] \in Int
    BY DEF TypeOK, Wallets, Buckets
  <2>3. a \in Nat
    BY <2>1, <2>2, AmountsAssumption
  <2>4. QED
    BY <2>1, <2>3, MoveTypes
<1>4. CASE \/ ReserveForWithdrawal(r) \/ ReleaseReservation(r) \/ CompleteDisbursement(r)
           \/ ReverseDisbursement(r) \/ RecordRefund(r) \/ RecordReversal(r)
  <2>1. \E a \in Amounts : \E m \in Moves : Begin(r, m, a)
    BY <1>4, MoveTypes DEF ReserveForWithdrawal, ReleaseReservation, CompleteDisbursement,
                           ReverseDisbursement, RecordRefund, RecordReversal
  <2>2. QED
    BY <2>1, AmountsAssumption
<1>5. QED
  BY <1>1, <1>2, <1>3, <1>4

(* A job in progress is a call.                                            *)
LEMMA CallShape ==
    ASSUME TypeOK, NEW r \in Workers, job[r].phase = "call"
    PROVE  /\ job[r].move \in Moves
           /\ job[r].amount \in Nat
           /\ job[r].seen \in Wallets
BY DEF TypeOK, Jobs, IdleJob, CallJobs

(* What a ledger entry adds to a bucket's sum is an amount or its negative.*)
LEMMA EffectType ==
    ASSUME NEW m \in Moves, NEW a \in Nat, NEW b \in Buckets
    PROVE  LedgerEffect(m, a, b) \in Int
<1>1. CASE NoEntry(m)
  BY <1>1 DEF LedgerEffect
<1>2. CASE ~NoEntry(m) /\ b = m.to
  BY <1>2 DEF LedgerEffect
<1>3. CASE ~NoEntry(m) /\ b # m.to
  BY <1>3 DEF LedgerEffect
<1>4. QED
  BY <1>1, <1>2, <1>3

(* Every step keeps the types.                                             *)
LEMMA WalletTypeStep ==
    ASSUME TypeOK, [Next]_vars
    PROVE  TypeOK'
<1>1. ASSUME NEW r \in Workers, NEW m \in Moves, NEW a \in Nat, Begin(r, m, a)
      PROVE  TypeOK'
  <2>1. [phase |-> "call", move |-> m, amount |-> a, seen |-> wallet] \in Jobs
    BY DEF TypeOK, Jobs, CallJobs
  <2>2. job' \in [Workers -> Jobs]
    BY <1>1, <2>1 DEF Begin, TypeOK
  <2>3. started' \in 0 .. MaxCalls
    BY <1>1, CallsAssumption DEF Begin, TypeOK
  <2>4. QED
    BY <1>1, <2>2, <2>3 DEF Begin, TypeOK, records
<1>2. ASSUME NEW r \in Workers, Commit(r)
      PROVE  TypeOK'
  <2>1. PICK m \in Moves, a \in Nat, seen \in Wallets :
          m = job[r].move /\ a = job[r].amount /\ seen = job[r].seen
    BY <1>2, CallShape DEF Commit
  <2>2. wallet' \in Wallets
    BY <1>2, <2>1, ApplyWallet DEF Commit, TypeOK
  <2>3. ledger' \in Wallets
    <3>1. ledger' = [b \in Buckets |-> ledger[b] + LedgerEffect(m, a, b)]
      BY <1>2, <2>1 DEF Commit
    <3>2. \A b \in Buckets : ledger[b] + LedgerEffect(m, a, b) \in Int
      BY EffectType DEF TypeOK, Wallets
    <3>3. QED
      BY <3>1, <3>2 DEF Wallets
  <2>4. settled' \in Nat /\ paid' \in Nat /\ recalled' \in Nat
    BY <1>2, <2>1 DEF Commit, TypeOK
  <2>5. holds' \in Int
    <3>1. holds' \in {holds, holds + a, holds - a}
      BY <1>2, <2>1 DEF Commit
    <3>2. QED
      BY <3>1 DEF TypeOK
  <2>6. job' \in [Workers -> Jobs] /\ started' = started
    BY <1>2 DEF Commit, TypeOK, Jobs
  <2>7. lost' \in BOOLEAN
    BY <1>2 DEF Commit
  <2>8. QED
    BY <2>2, <2>3, <2>4, <2>5, <2>6, <2>7 DEF TypeOK
<1>3. ASSUME NEW r \in Workers, Raise(r)
      PROVE  TypeOK'
  <2>1. job' \in [Workers -> Jobs]
    BY <1>3 DEF Raise, TypeOK, Jobs
  <2>2. QED
    BY <1>3, <2>1 DEF Raise, TypeOK, records
<1>4. CASE UNCHANGED vars
  <2>1. UNCHANGED <<wallet, ledger, settled, holds, paid, recalled, lost, job, started>>
    BY <1>4, Zenon DEF vars
  <2>2. QED
    BY <2>1, Zenon DEF TypeOK
<1>5. QED
  BY <1>1, <1>2, <1>3, <1>4, CallBegins DEF Next

(***************************************************************************)
(* Balances, sums of records and calls are well formed.                    *)
(***************************************************************************)
THEOREM WalletTypes == Spec => []TypeOK
<1>1. ASSUME Init
      PROVE  TypeOK
  <2>1. /\ wallet \in Wallets /\ ledger \in Wallets
        /\ settled \in Nat /\ paid \in Nat /\ recalled \in Nat /\ holds \in Int
        /\ job \in [Workers -> Jobs] /\ started \in 0 .. MaxCalls
    BY <1>1, CallsAssumption DEF Init, Zero, Wallets, Jobs
  <2>2. lost \in BOOLEAN
    BY <1>1 DEF Init
  <2>3. QED
    BY <2>1, <2>2, Zenon DEF TypeOK
<1>2. QED
  BY <1>1, WalletTypeStep, PTL DEF Spec

(* NeverNegative made inductive: what a call saw was not negative either.  *)
SeenNonNegative ==
    \A r \in Workers : job[r].phase = "call" => \A b \in Buckets : job[r].seen[b] >= 0

(* A step keeps both. *)
LEMMA NonNegativeStep ==
    ASSUME TypeOK, NeverNegative, SeenNonNegative, [Next]_vars
    PROVE  NeverNegative' /\ SeenNonNegative'
<1>1. ASSUME NEW r \in Workers, NEW m \in Moves, NEW a \in Nat, Begin(r, m, a)
      PROVE  NeverNegative' /\ SeenNonNegative'
  <2>1. /\ wallet' = wallet
        /\ job'[r].seen = wallet
        /\ \A s \in Workers \ {r} : job'[s] = job[s]
    BY <1>1 DEF Begin, TypeOK
  <2>2. QED
    BY <2>1 DEF NeverNegative, SeenNonNegative
<1>2. ASSUME NEW r \in Workers, Commit(r)
      PROVE  NeverNegative' /\ SeenNonNegative'
  <2>1. PICK m \in Moves, a \in Nat, seen \in Wallets :
          m = job[r].move /\ a = job[r].amount /\ seen = job[r].seen
    BY <1>2, CallShape DEF Commit
  <2>2. wallet' = Apply(m, a, seen, wallet) /\ Covered(m, a, seen)
    BY <1>2, <2>1 DEF Commit
  <2>3. \A b \in Buckets : seen[b] >= 0 /\ wallet[b] >= 0
    BY <1>2, <2>1 DEF Commit, NeverNegative, SeenNonNegative
  <2>4. NeverNegative'
    BY <2>2, <2>3, ApplyNonNegative DEF NeverNegative, TypeOK
  <2>5. \A s \in Workers : job'[s] = job[s] \/ job'[s].phase = "idle"
    BY <1>2 DEF Commit, TypeOK, IdleJob
  <2>6. QED
    BY <2>4, <2>5 DEF SeenNonNegative
<1>3. ASSUME NEW r \in Workers, Raise(r)
      PROVE  NeverNegative' /\ SeenNonNegative'
  <2>1. wallet' = wallet /\ \A s \in Workers : job'[s] = job[s] \/ job'[s].phase = "idle"
    BY <1>3 DEF Raise, TypeOK, IdleJob
  <2>2. QED
    BY <2>1 DEF NeverNegative, SeenNonNegative
<1>4. CASE UNCHANGED vars
  BY <1>4 DEF vars, NeverNegative, SeenNonNegative
<1>5. QED
  BY <1>1, <1>2, <1>3, <1>4, CallBegins DEF Next

(***************************************************************************)
(* No overlap of calls, however stale their reads, takes a bucket below    *)
(* zero.                                                                   *)
(***************************************************************************)
THEOREM NeverOverdrawn == Spec => []NeverNegative
<1>1. Init => NeverNegative /\ SeenNonNegative
  BY DEF Init, NeverNegative, SeenNonNegative, Zero, IdleJob
<1>2. TypeOK /\ NeverNegative /\ SeenNonNegative /\ [Next]_vars
        => NeverNegative' /\ SeenNonNegative'
  BY NonNegativeStep
<1>3. QED
  BY <1>1, <1>2, WalletTypes, PTL DEF Spec

----------------------------------------------------------------------------
(* The books *)

KnownMoves == {Collect, Settle, Reserve, Release, Complete, Reverse, Refund, Reversal}
                \cup {AdjustUp(b) : b \in Buckets} \cup {AdjustDown(b) : b \in Buckets}

(* Recomputable made inductive: a call in progress is one of the methods'. *)
KnownCalls == \A r \in Workers : job[r].phase = "call" => job[r].move \in KnownMoves

(* A balance and its records move together, method by method.              *)
LEMMA BooksStep ==
    ASSUME TypeOK, Recomputable, KnownCalls, NEW r \in Workers, Commit(r)
    PROVE  Recomputable'
<1> SUFFICES ASSUME ~lost'
             PROVE  Recomputable'
  BY DEF Recomputable
<1>1. PICK m \in KnownMoves, a \in Nat : m = job[r].move /\ a = job[r].amount
  BY CallShape DEF Commit, KnownCalls
<1>2. ~lost /\ job[r].seen = wallet
  BY DEF Commit
<1>3. /\ wallet' = Apply(m, a, wallet, wallet)
      /\ ledger' = [b \in Buckets |-> ledger[b] + LedgerEffect(m, a, b)]
      /\ settled' = IF m = Settle THEN settled + a ELSE settled
      /\ holds' = CASE m = Reserve -> holds + a
                    [] m \in {Release, Complete} -> holds - a
                    [] OTHER -> holds
      /\ paid' = IF m = Complete THEN paid + a ELSE paid
      /\ recalled' = IF m = Reverse THEN recalled + a ELSE recalled
  BY <1>1, <1>2 DEF Commit
<1>4. /\ wallet["pending"]         = ledger["pending"] - settled
      /\ wallet["available"]       = ledger["available"] + settled - holds - paid
      /\ wallet["reserved"]        = ledger["reserved"] + holds
      /\ wallet["frozen"]          = ledger["frozen"]
      /\ wallet["total_disbursed"] = ledger["total_disbursed"] - recalled
  BY <1>2 DEF Recomputable
<1>5. /\ wallet \in Wallets /\ ledger \in Wallets
      /\ settled \in Nat /\ paid \in Nat /\ recalled \in Nat /\ holds \in Int
  BY DEF TypeOK
<1> USE DEF Apply, LedgerEffect, NoEntry, Collect, Settle, Reserve, Release, Complete,
            Reverse, Refund, Reversal, AdjustUp, AdjustDown, Buckets, Wallets, None
<1>6. CASE m \in {Settle, Reserve, Release}
  BY <1>3, <1>4, <1>5, <1>6 DEF Recomputable
<1>7. CASE m \in {Complete, Reverse}
  BY <1>3, <1>4, <1>5, <1>7 DEF Recomputable
<1>8. CASE m \in {Collect, Refund, Reversal}
  BY <1>3, <1>4, <1>5, <1>8 DEF Recomputable
<1>9. CASE m \in {AdjustUp(b) : b \in Buckets} \cup {AdjustDown(b) : b \in Buckets}
  BY <1>3, <1>4, <1>5, <1>9 DEF Recomputable
<1>10. QED
  BY <1>6, <1>7, <1>8, <1>9 DEF KnownMoves

(* The methods begin with their own movements.                             *)
LEMMA KnownBegins ==
    ASSUME NEW r \in Workers,
           \/ ProcessCollection(r) \/ CreateAdjustment(r) \/ SettlePending(r)
           \/ ReserveForWithdrawal(r) \/ ReleaseReservation(r) \/ CompleteDisbursement(r)
           \/ ReverseDisbursement(r) \/ RecordRefund(r) \/ RecordReversal(r)
    PROVE  \E m \in KnownMoves : \E a : Begin(r, m, a)
BY DEF ProcessCollection, CreateAdjustment, SettlePending, ReserveForWithdrawal,
       ReleaseReservation, CompleteDisbursement, ReverseDisbursement, RecordRefund,
       RecordReversal, KnownMoves

(* Every step keeps the books and the calls known.                         *)
LEMMA RecomputableStep ==
    ASSUME TypeOK, Recomputable, KnownCalls, [Next]_vars
    PROVE  Recomputable' /\ KnownCalls'
<1>1. ASSUME NEW r \in Workers, NEW m \in KnownMoves, NEW a, Begin(r, m, a)
      PROVE  Recomputable' /\ KnownCalls'
  <2>1. /\ UNCHANGED <<wallet, ledger, settled, holds, paid, recalled, lost>>
        /\ job'[r].move = m
        /\ \A s \in Workers \ {r} : job'[s] = job[s]
    BY <1>1 DEF Begin, records, TypeOK
  <2>2. Recomputable'
    BY <2>1 DEF Recomputable
  <2>3. KnownCalls'
    BY <2>1 DEF KnownCalls
  <2>4. QED
    BY <2>2, <2>3
<1>2. ASSUME NEW r \in Workers, Commit(r) \/ Raise(r)
      PROVE  KnownCalls'
  <2>1. \A s \in Workers : job'[s] = job[s] \/ job'[s].phase = "idle"
    BY <1>2 DEF Commit, Raise, TypeOK, IdleJob
  <2>2. QED
    BY <2>1 DEF KnownCalls
<1>3. ASSUME NEW r \in Workers, Raise(r)
      PROVE  Recomputable'
  BY <1>3 DEF Raise, records, Recomputable
<1>4. CASE UNCHANGED vars
  BY <1>4 DEF vars, Recomputable, KnownCalls
<1>5. QED
  BY <1>1, <1>2, <1>3, <1>4, KnownBegins, BooksStep DEF Next

(***************************************************************************)
(* Until a stale read is committed, every balance follows from the ledger, *)
(* the settlement logs and the withdrawals.                                *)
(***************************************************************************)
THEOREM BooksRecomputable == Spec => []Recomputable
<1>1. Init => Recomputable /\ KnownCalls
  BY DEF Init, Recomputable, KnownCalls, Zero, Buckets, IdleJob
<1>2. TypeOK /\ Recomputable /\ KnownCalls /\ [Next]_vars => Recomputable' /\ KnownCalls'
  BY RecomputableStep
<1>3. QED
  BY <1>1, <1>2, WalletTypes, PTL DEF Spec
=============================================================================
