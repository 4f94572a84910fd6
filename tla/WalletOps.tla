----------------------------- MODULE WalletOps -----------------------------
(***************************************************************************)
(* The money movements of WalletService (apps/api/app/services/wallet.py)  *)
(* as constant-level operators, shared by the wallet component (Wallet)    *)
(* and the withdrawal lifecycle (Payouts).                                 *)
(*                                                                         *)
(* A wallet is one tenant_wallets row: five balance columns.  A movement   *)
(* is a pair of buckets: money leaves "from" and arrives in "to"; None on  *)
(* either side is money entering or leaving the tenant's wallet.           *)
(*                                                                         *)
(* Every method starts with _locked_wallet, which first loads the row with *)
(* a plain SELECT and only then takes SELECT ... FOR UPDATE.  The session's*)
(* identity map keeps the attributes of the first load (no                 *)
(* populate_existing), so the first _move_bucket of a request computes     *)
(* from the balances of the unlocked read ("seen") and writes an absolute  *)
(* value; repo.update then refreshes the object, so a second _move_bucket  *)
(* computes from the locked, current row ("live").                         *)
(***************************************************************************)
EXTENDS Integers

None == "none"

Buckets == {"available", "pending", "reserved", "frozen", "total_disbursed"}

Wallets == [Buckets -> Int]

Moves == [from : Buckets \cup {None}, to : Buckets \cup {None}]

NoMove       == [from |-> None,              to |-> None]
CollectAvailable == [from |-> None, to |-> "available"] \* the settlement skipped
Collect      == [from |-> None,              to |-> "pending"]
Settle       == [from |-> "pending",         to |-> "available"]
Reserve      == [from |-> "available",       to |-> "reserved"]
Release      == [from |-> "reserved",        to |-> "available"]
CompleteFromAvailable == [from |-> "available", to |-> "total_disbursed"] \* the hold ignored
Complete     == [from |-> "reserved",        to |-> "total_disbursed"]
Reverse      == [from |-> "total_disbursed", to |-> "available"]
Refund       == [from |-> "available",       to |-> None]
Reversal     == [from |-> "pending",         to |-> None]
AdjustUp(b)   == [from |-> None, to |-> b]
AdjustDown(b) == [from |-> b,    to |-> None]

(***************************************************************************)
(* _move_bucket raises when the value it computed would be negative; only  *)
(* the debited bucket, the first one moved, can be.                        *)
(***************************************************************************)
CoveredBefore(m, a, seen) == m.from # None => seen[m.from] > 0 \* the old balance checked
Covered(m, a, seen) == m.from # None => seen[m.from] >= a

(***************************************************************************)
(* The row a request writes: the first bucket it moves from the balances   *)
(* it saw before the lock, the second one from the row under the lock.     *)
(***************************************************************************)
Apply(m, a, seen, live) ==
    [b \in Buckets |->
        IF b = m.from THEN seen[b] - a
        ELSE IF b = m.to
             THEN (IF m.from = None THEN seen[b] ELSE live[b]) + a
             ELSE live[b]]

(***************************************************************************)
(* process_collection's split, in minor units (cents): the fee is          *)
(* gross * rate / 100 rounded half up (quantize_tzs), rate a percentage    *)
(* with two decimals (NUMERIC(5,2)), here in hundredths of a percent.      *)
(***************************************************************************)
PlatformFeeUndivided(gross, rate) == gross * rate \* the rate not read as a percentage
PlatformFee(gross, rate) == (gross * rate + 5000) \div 10000
TenantShare(gross, rate) == gross - PlatformFee(gross, rate)
=============================================================================
