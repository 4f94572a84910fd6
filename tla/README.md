# Infinity Radius: a TLA+ verification project

Infinity Radius sells Wi-Fi access for hotspot operators (tenants). Customers pay
through Selcom Mobile Checkout and get a RADIUS user, each tenant has a wallet, and a
tenant takes its money out through Selcom Business. This directory holds TLA+ models of
the back end (`src/apps/api/app`, called `app/` below) and of the network agent
(`src/apps/network-agent/app`, `agent/`), the TLC configurations that check them,
and TLAPS proofs about them. `PROJECT.json` maps every definition to the source
lines it stands for, and lists the runs, mutants, findings, hazards and theorems.

    tlc -workers 2 -config MCPayoutsSerial.cfg MCPayouts.tla     # one run
    tlapm PayoutsProofs.tla                                      # one proof module

## 1. Inventory

The back end is two processes over one PostgreSQL database, and an agent. *web* serves HTTP
requests and provider callbacks and is the only one that talks to Selcom. *worker*
runs Celery tasks, started by Celery beat, and reaches Selcom through web's internal
HMAC-signed endpoints. The *network agent*, on the operator's side of a WireGuard
tunnel, is the one that talks to routers and to the FreeRADIUS database; web and worker
send it signed requests. Accounts live at Supabase. One request is one database
transaction: the service methods flush, the route commits at the end. Row locks are
`SELECT ... FOR UPDATE`.

| Component (source) | State | Operations | Hard behaviour | What makes it correct |
|---|---|---|---|---|
| Withdrawals: `services/payouts.py`, `two_factor.py`, routes, `tasks/reconciliation.py` | `withdrawals` rows: status, OTP challenge | request, resend, confirm, approve, reject, cancel, reverse, submit, reconcile, webhook | submission that times out; callback, sweep and requery for one row; crash after the provider acted; stale reads | no payout without OTP and review; booked only when paid; the wallet agrees with the rows; nothing hangs |
| Wallet and ledger: `services/wallet.py` | five balances, ledger entries, settlement logs | collection, adjustment, settlement, reserve, release, complete, reverse, refund, reversal | balances read before the lock is taken | never negative; recomputable from the records |
| Collections: `services/selcom_payment_provider.py`, `collections.py`, webhook, `tasks/collections.py` | `transactions` rows | initiate (order and push), order-status query, webhook, sweep | two flows behind one webhook and one sweep; lost, repeated, late callbacks; worker timeouts and retries | credited once, only when paid; terminal stays terminal; a paid order is completed |
| Captive portal: `captive_portal.py`, `captive_session.py`, customers | portal sessions, `transactions`, customers | issue, expire, resolve, consume, buy, status page | a session read without a lock and consumed later by overlapping requests | at most one prompt per request in progress; the credentials shown work for a phone that paid once |
| Captive activation: `captive_activation.py`, its task | `activation_status`, RADIUS users | activate, record failure, retry | RADIUS written before the commit; requests the agent carries out late; a late failure report | access never ahead of the money, and granted in the end |
| Subscriptions, packages: `subscriptions.py` | subscription rows | create, activate, CRUD | two clicks on activate | a sale runs for one period |
| Vouchers: `vouchers.py` | voucher rows | generate, redeem | two redemptions at once | redeemed once, with its subscription |
| Router provisioning: `router_provisioning.py`, `repositories/network.py` | routers, tunnel addresses, keys, RADIUS secret | the wizard's steps | the free address is looked for without a lock | addresses and NAS blocks tell routers apart |
| Network agent: `agent/`, `integrations/network_agent/` | nonce cache, registry | reads, test, disconnect, RADIUS group and user, revoke, ping | copies that are late or arrive twice; restart | a request is carried out once; reported success is true, but for a diagnosis |
| Internal authentication: `internal_auth.py`, `signing.py`, internal client | nonces in Redis | sign, verify, retry | replay at the edge of the clock window | as above |
| Onboarding: `onboarding.py`, `supabase_admin.py`, script `assign_super_admin.py` | Supabase accounts, profiles, tenants | register, verify e-mail, make super admin | an account outside the transaction, a compensating delete, a commit that is carried out and raises | no account without tenant; no tenant without owner, unless its own attempt was told that it failed |
| Tenant administration: `admin_tenants.py`, `settlement_config.py`, `commercial_terms.py`, gate `core/context.py` | tenant and verification status, flags, versions | approve, reject, more information, suspend, reactivate, flags, mode, terms | decisions on unlocked reads; overlapping changes | one active version; an e-mail only after its commit; only active tenants work |
| Rate limiting, reports, audit, JWT, web front end, migrations | - | - | none a model would show | - |

How they interact: a purchase consumes a portal *session*, is a *collection*
(transaction row, Selcom order) that credits the *wallet* at the tenant's *commercial
terms* and queues an *activation*, which writes RADIUS through the *agent*;
a *withdrawal* reserves, releases and completes through the *wallet*; both sweeps
call web through the *internal client*; both webhooks are only signals to query
Selcom; the *gate* stands before every request of a tenant. All of these share the
database, and wallets are shared by everything.

## 2. Plan

Done, in this order, the money first:

1. `WalletOps` -> `FundsHold` (abstract) -> `Payouts` + `MCPayouts` -> `PayoutsProofs`
2. `Wallet` -> `WalletProofs`
3. `Collections` + `MCCollections` -> `CollectionSweep` + `MCCollectionSweep` (composes
   the worker with `Collections`) -> `CollectionsProofs`
4. `Access` + `MCAccess` -> `AccessProofs`: portal, purchase, activation with its retry,
   subscriptions and vouchers, composed with the RADIUS database
5. `SignedCalls` (abstract) -> `Network` + `MCNetwork` -> `NetworkProofs`: the router wizard, and the
   signed channel with both its receivers (agent and web)
6. `TenantAccounts` (abstract) -> `Tenancy` + `MCTenancy` -> `TenancyProofs`: the registration saga,
   decisions, versioned settings, the gate

7. `Sums`: sums over finite sets, for the balance theorems of 1 and 3; `PaymentLife`
   (abstract), implemented by `Collections` and kept to by `Access`

Left: the creation race of a wallet; the sessions FreeRADIUS accounts; the sweep of
withdrawals as a module of its own, as `CollectionSweep` is for payments.

## 3. The modules

**WalletOps** is `_locked_wallet` and `_move_bucket` as operators. A movement is a
pair of buckets. The important detail is `Apply(m, a, seen, live)`: a
request first loads the wallet with a plain SELECT (`get_or_create_wallet`), then
locks it, and SQLAlchemy's identity map keeps the values of the first load. So the
first bucket is computed from the *seen* row; `repo.update` refreshes the object, so
the second is computed from the *live* one.

**Payouts** is a withdrawal from request to resolution. `row` is the committed
`withdrawals` table, `wallet` the wallet row, `provider` what Selcom knows of each
transId, `job[r]` the request in progress at worker `r`. A handler's action takes the row
lock, does everything the service method does, Selcom calls included, and leaves
the row to write, the movement and the wallet it saw in `job[r]`. `Commit(r)` applies the
movement and commits, `Refuse(r)` is the movement that raises, `Crash(r)` the process
dying before the commit: what Selcom did stays done. `Exits` lists the ways
`_submit_to_selcom` ends. `WebhookReads` and `WebhookReconciles` are two
actions because the disbursement webhook reads the row before it locks it. Guards are
the handlers' status checks; `otpPassed`, `approved`, `guesses`, `calls`, `paidOut` and
`undone` are history variables, used by properties only.

`StaleWallet` and `StaleStatus` name the two ways a job can be out of date when it commits.

**FundsHold** is what a withdrawal promises about money: held once, then returned or
paid once, and recalled at most once, and only from those stages.

**Wallet** has all nine operations of `WalletService`, called by overlapping requests
(`Begin` is the unlocked read, `Commit` the locked update with its records, `Raise` the
refused one), with ledger sums per bucket, settlement logs and holds beside the balances.

**Collections** is a payment of either flow. `CreateOrderAndSendStk` gives every
combination of row and order the two Selcom calls can leave. `ApplyOrderStatus` is the
decision table of `apply_order_status`; `ProviderFor` the dispatch to the flow that owns
the payment; `QueryAndApply` the locked query that webhook and sweep share. `Share` is what
`process_collection` leaves the tenant of a payment.

**PaymentLife** is what a payment promises the rest of the system: attempted once, ended once and for
good, and owed access from the moment it is paid if it is a purchase. `Collections!LifeOfPayment` maps
a row to a stage (every status not terminal is "open") and PENDING activation to "owed";
`Access!LifeOfPayment` maps the coarser rows of Access to the same stages and any activation status to
"owed". So what Access assumes of payments is what Collections provides.

**CollectionSweep** EXTENDS Collections with the worker's task: it lists, asks about one
payment at a time, waits for web's answer, tries once more after a transport error, gives
up on a payment after an error answer, and may crash. `Between` and `Asking` are the
states of its loop. Its phase "fresh" says that the transaction of the list query is
still open, which decides what `db.rollback()` does (finding 4 below).

**Access** goes from a portal session to a RADIUS user. How a payment ends is module
Collections; here it is one action (`FinalizePayment`). `job[r]` is a request or task in
progress, phase by phase: resolving reads the session without a lock, `Purchase` writes and
prompts, `CommitPurchase` consumes the session. An activation locks its payment
(`StartActivation`), deletes and writes the RADIUS user (`BeginProvisioning`, `ProvisionDone`,
`ProvisionFails`), and commits or is rolled back and then records its failure in a
transaction of its own (`RecordFailure`, which does not look at what is there now). The RADIUS
database is not part of the transaction: `radcheck` keeps what was written by a request that
failed, and `late` holds requests the agent has yet to carry out. Staff sell, activate and
redeem beside all of it. `prompts`, `periods` and `spent` are history.

**Network** has two halves. A wizard request loads the router (and, for WireGuard, looks for
the lowest free address) without a lock and commits later; the unique index on the address
refuses the second of two (`Clash`, `Contested`). The NAS block is computed from what the
request loaded, and `overtaken` marks the blocks whose router was reconfigured since. A call
(`call`, `sent`) is one or two signed copies, each with the sender's time; a copy
arrives late, twice or never, is checked for its time and its nonce, and is carried out by
its handler; the answer may be lost, or the proxy in front of the agent may answer in its place
(`ProxyAnswers`). `Success`, `ErrorStatus`, `Refusal` and `Failure` say what the caller makes of each; a diagnosis
takes any status but a refusal for an answer of the agent, so it is told "answered", never "ok". `seen` is the nonce cache, lost by `RestartAgent`.
The constants `Skew` and `Ttl` stand for both receivers, with the
assumption that is true of both: a nonce outlives the window of its time stamp.

**SignedCalls** is what the caller of a signed call can rely on: it is answered once, with success
only as it is carried out; a failure says nothing, for a copy on its way may be carried out
afterwards; no copy is carried out twice unless its receiver forgets in between, which the agent
does when it restarts (`Forgotten`), and web does not. The answer to a `Blind` call, which a diagnosis is, shows
nothing. `Network!CallsKept` makes one "waiting" of both
attempts and one "failed" of the ways to fail, and hides signatures, nonces, the proxy and clocks.

**Tenancy** has a registration as the steps it takes over two systems: find the address
free, create the account (a trigger inserts the profile), insert the tenant, commit, or
compensate by deleting the account. `CommitAnswerLost` is the commit that is carried out and raises: the
compensation follows it as it follows a failed one, and `lost` remembers the attempt. A decision loads tenant and verification without a lock,
and writes only the attributes it changed, as SQLAlchemy does. Settings are versions, each
closing the one before; the partial unique index is `Taken`. `Admit` is the gate, `ServeTenant`
the work that follows it. The script that makes a super admin runs beside registrations.

**TenantAccounts** is what registration promises: an attempt that is told it registered its tenant is its
address's only one from then on, on an account that belongs to no other tenant and is not closed. Before that
an account may come and go. An attempt may also make its tenant and be told that it failed; then the account may
be closed and the address register again. `Tenancy!RegistrationKept` maps the accounts there are, whatever their
state, the tenants committed and `lost`; the steps in between, the e-mails and the decisions are stutters.

**MC\*** give the constants values that a .cfg cannot write: functions, and the *scenes*
of Network and Tenancy and *casts* of Access, which say what is tried together in one behaviour. **\*Proofs** hold the
theorems, and **Sums** the lemmas about sums that two of them use.

## 4. The runs

| Run | States | What it asks |
|---|---|---|
| `payouts_serial` | 64 000 | Two withdrawals, one request at a time, a crash anywhere: the wallet agrees with the rows (`BooksBalance`), `FundsHold` is implemented, every submitted withdrawal is resolved |
| `payouts_concurrent` | 188 000 | One withdrawal above the review threshold, three requests at a time, two codes of two guesses, a crash: authorisation, booking, guesses, resubmission, closed stays closed, and only a stale read takes the books out of balance |
| `wallet` | 1 070 000 | Four calls, two at a time, amounts 1 and 2, rates 0 and 50 %: never negative, recomputable |
| `collections` | 522 000 | A purchase and a collection of one tenant, two requests at a time, a crash: credit and activation rules, and `PaymentLife` is implemented |
| `sweep_live` | 41 000 | One payment, the sweep with two web workers, two web crashes, two timeouts or worker crashes: a paid order is completed |
| `access` | 86 500 | Two attempts on one session, or one beside a walk-in and a voucher, two workers, a crash: access follows the money, comes in the end, works as shown for a phone that paid once; sessions and vouchers are spent once |
| `network` | 173 000 | Two routers and two wizard requests at a time, or one or two calls that are late, repeated, lost, answered by the proxy or cut off by a restart: addresses and blocks apart, `SignedCalls` is implemented, what is told as success is true |
| `tenancy` | 114 000 | Two registrations of one address, or one tenant under overlapping decisions, settings and requests, a fault: `TenantAccounts` is implemented, no other attempt takes a tenant's owner, no orphan without a fault, no e-mail before its commit |
| `payouts_lost_update`, `payouts_double`, `collections_charged`, `sweep_stops` | - | The findings; each ends in a counterexample |

Every property of a passing run has a mutant: a plausible mistake (a dropped guard, no lock,
an off-by-one, a swapped bucket) put into a definition, after which TLC reports that
property violated. The mutated forms stand beside the definitions they mutate.

**Bounds.** `MaxCrashes`, `MaxFaults` (a lost answer to a commit is a fault), `MaxCalls`, `MaxSteps` and `MaxTime` cap what could go on forever. Saturating counters stop
where the answer is known (twice is already too often). Two withdrawals of different
amounts on either side of the threshold are enough
for the races over the wallet (the serial run opens with what both need; the refusal of a reservation is in
`wallet` and, for every opening balance, in the theorem `CurrentReadsAreCovered`); three requests let a webhook, the sweep and a person meet on one
row. `OnlyStaleReadsUnbalance` meets there only its second cause, the webhook's stale status, for one
withdrawal is one balance; its first, the stale wallet, is the counterexample of
`payouts_lost_update`. Two withdrawals and two workers together (that run's constants, 2 571 000 states)
satisfy it too, but take longer than a run should, and section 6 proves it for all. Payments interact only through a tenant's wallet and the sweep's list, so two of
each suffice; liveness of the sweep uses one payment, because with two the code does not
have it (finding 4). `Words` has one of the six closing words in the runs: the
code treats the six alike. `Casts` and `Clicks` (Access) and `Scenes` (Network, Tenancy) keep apart
what does not interact: two attempts meet on their session and their phone, a walk-in and a
voucher meet an attempt on the RADIUS user and the staff's clicks; wizard requests meet each
other and calls meet their own copies; a decision meets another decision or the
gate, a setting another setting of its kind. `Skew` = 2 and `Ttl` = 4 keep the proportion of the
agent's 300 and 600 seconds, the tighter of the two receivers, and time runs to 6, past the
last moment at which a copy could be accepted again; `ahead` is the sender's clock, a step before or
after the receiver's. The two workers of Network and Tenancy are interchangeable, which is
what `SYMMETRY` uses; both runs have safety properties only. Theorems that hold for
every value of these constants are in section 6.

**Deadlock** is checked in the Payouts runs. It is off for `wallet`, which stops after `MaxCalls`
calls, and for the collections runs, which may stop: each payment can be made
once, and one that failed before its order existed leaves nothing to do. It is off for
`access`, `network` and `tenancy` for the same reason: what is tried in a behaviour comes to an end.

**Fairness** (`Payouts!Fairness`, `CollectionSweep!SweepSpec`, `Access!Fairness`) is weak for the end of a
request that began, and for Selcom settling what it accepted. Beat starts a sweep each
120 s (withdrawals) or 180 s (collections), the sweep takes its steps, and
PostgreSQL serves waiters for a row lock in turn; another request may hold the lock whenever
one looks, so asking about a row is strongly fair. Two assumptions hide in that: Selcom
answers a query in the end, and for `InFlightResolved` no earlier row of the list keeps
stopping the sweep (finding 4 says that one can). In Access, where the periodic retry of
activations is enabled (it is off by default), the retry finds each payment it may activate
again and again, and RADIUS does not fail every time (both strongly fair); its list is cut off at 100 payments in
no stated order (`captive_activation.py:214-228`), so this assumes that fewer are waiting. People, payers, webhooks
and administrators are never fair.

## 5. Findings

Each is a run that ends in a counterexample; `PROJECT.json` quotes the lines.

1. `payouts_lost_update`: two requests of one tenant. The wallet lock comes after the read,
   so the second writes over the first (`wallet.py:78`).
2. `payouts_double`: the disbursement webhook acts on a status it read before the lock
   and books a withdrawal the sweep has just booked.
3. `collections_charged`: the push times out, the payment is closed FAILED, and the payer,
   who is told they were not charged, can still approve it.
4. `sweep_stops`: the first payment asked about fails, the rollback expires the list, and
   the warning in the handler raises; the others are never asked about.
   `tasks/reconciliation.py` has the same shape.

Seen on the way, without a run of their own: `payouts.py:859-860` says
`transaction_process` is called "at most once per withdrawal, ever", and a crash
between submission and commit lets it be called again (`ResentOnlyAfterRollback` says
that a rollback is the only way; Selcom's own idempotency by transId is what saves the money).
`enums.py:244` says a terminal withdrawal never transitions again, and finding 2's stale
webhook moves one. `models/finance.py:143-145` says every balance is the sum of its ledger
entries; settlement, reservation and release write none, so
`Recomputable` adds the settlement logs and the withdrawals. The daily limits of
withdrawals are not enforced between overlapping requests.

Withdrawals, further. A submission that times out and whose query finds nothing becomes
FAILED although the transfer may still arrive (`payouts.py:967`; `docs/architecture.md:479-480`
says a timeout is never a failure). A lookup that cannot be completed leaves APPROVED,
which no sweep lists (`payouts.py:918`). After a lost update of the reserved bucket (finding 1)
the wallet refuses to release what an exhausted challenge held, the request is rolled back, and with it the
attempt it counted: the cap on guesses is void for that withdrawal, which is why
`GuessesBounded` is about the ones no request of which was rolled back.

Access. A late `record_failure` overwrites an ACTIVE activation
(`tasks/captive_activation.py:14`); `PaidIsActivated` shows that the retry repairs it where it is
enabled. A subscription that staff and the retry activate at the same time starts twice
(`subscriptions.py:144-147`; `SoldForOnePeriod` is about counter sales, whose first read takes the lock), and
staff can activate one that awaits its payment (`subscriptions.py:79-81`). The passwords of a phone replace
each other in the order in which they are provisioned, not bought: a later purchase replaces the password of an
earlier one, and so does the retry of an earlier purchase, or a request of it the agent carries out late, that of a
later one (`captive_activation.py:139-149`). Either way a status page shows credentials that FreeRADIUS
rejects, which `schemas/captive_portal.py:145-148` says never happens. `ShownCredentialsWork` therefore
promises the shown password only to a phone that paid for one purchase ever (`OnlyPurchase`), and to any other that some
password it paid for is accepted.
Requests that overlap on one session each send a prompt (`captive_portal.py:287-289`);
`PromptsBounded` says how many can.

Network. Two requests generate WireGuard for one router: one that loaded the old
address, while the other replaced it, may find that address free and choose it again. To
SQLAlchemy nothing changed, so the address is handed out and not written
(`router_provisioning.py:117-128`; `repositories/network.py:22-34` calls the column the source of
truth). A RADIUS block handed out before WireGuard is generated again names the old address. `complete_provisioning` has no
prerequisites. The agent's nonces live for exactly twice the clock window: enough while the sender's
clock is less than 300 s ahead (`ClockAssumption`), and not beyond a restart, which
forgets them. Between its test of the time and its record of the nonce the agent awaits the body
(`core/security.py:84-115`); the models make one step of it, so they assume that the body of a copy does not arrive
minutes after its headers (300 s and more, for clocks that agree, would outlast the nonce). `diagnostic_ping` says that any status but 401 and
403 means the signature was accepted (`integrations/network_agent/client.py:192-194`); with the agent down, the
502 of the proxy in front of it (`docs/architecture.md:192-193`) is one, and `admin_diagnostics.py:65-71` reports
the agent as reachable and authenticated. So `SuccessMeansDone` and `SignedCalls` promise nothing of a diagnosis.

Tenancy. `enums.py:324-328` says a tenant's status mirrors its verification; reactivating a
rejected or pending tenant (`admin_tenants.py:240-270`), or an approval beside a rejection, breaks that. An
account can outlive its registration after a `create_user` that timed out, a crash, or a
`delete_user` that failed (`supabase_admin.py:126-135`, `onboarding.py:115`): `NoOrphanUnlessFault`
says that nothing else leaves one. `onboarding.py:13-16` says that once the transaction commits the
account exists and nothing undoes it. But `except Exception` stands around the commit
(`onboarding.py:112-118`): if PostgreSQL carries it out and the connection is lost before the answer, `commit()`
raises, the rollback finds nothing, and the compensation deletes the account of the tenant just made. The tenant
stays, without an owner (`scripts/integrity_check.py` reports it once it is ACTIVE), and the address, free again, may register a
second one; in the runs of `Tenancy` both happen. `TenantKeepsOwner` and `OneTenantPerEmail` name that
attempt (`lost`) as the exception and say that no other attempt does such harm. Elsewhere nothing compensates: a commit
whose answer is lost is a crash right after it, which the models have where they crash. A transport error while the
verification link is made ends a committed registration with an error 500, though the comment calls it
best-effort (`onboarding.py:127`). `assign_super_admin` beside a registration can leave a
profile with both a tenant and the platform role.

Collections. `create_order_minimal` and `wallet_payment` answer with a result code nobody
examines, so STK_SENT can stand for an order Selcom refused. A failed order-status query counts as a
handled row of the sweep.

## 6. What is proved

TLAPS proves these for every value of the constants under the named assumptions of
the modules (amounts are positive, a rate is at most 100 %, bounds are naturals,
closing words are among the unsuccessful statuses, the workers of Access, the withdrawals
and the payments are finitely many, a nonce
outlives its time stamp).

- **PayoutsProofs.** `TypeCorrect`. `Authorised`: `AuthInv` says that not only a row but also
  a status read by a webhook and a status about to be written are vouched for.
  `Booked`: `PaidInv` adds the requests about to book. `ClosedForGood`: `CloseInv` needs
  that one request holds a row (`RowLock`), that a row once sent stays among the sent
  ones, so that a webhook's stale "in flight" never meets a closed row. `SentOnce`:
  `ResentInv` says that what was sent and not rolled back is recorded in the row or in the job
  that still holds it. `CodesAreBounded`: `GuessInv` charges every wrong code to the row, or to the row a request is
  about to write: all attempts of the earlier challenges and those of this one; a resend
  resets the counter and pays with a sending. `HeldOnce`: with requests that do not overlap (`OneWorker`)
  each step of Payouts is a step of `FundsHold` or a stutter; finding 2 is why this needs
  the hypothesis. `BooksBalanced`: under the same hypothesis the three buckets are the sums
  the statuses call for. `Balanced` states them with the sums of `Sums`, and a job in progress has
  seen the wallet as it is and moves what the change of its row's status calls for (`StageTells`).
  `UnbalancedOnlyByStaleReads` has no hypothesis about overlaps: with any number of workers, the step that breaks
  `BooksBalance` is a commit whose wallet was read before another commit changed it, or whose status was. Its
  invariant `WritesFit` says that the movement of every other job fits the row as it is now;
  findings 1 and 2 are the two causes, and there is no third.
  What would be enough to mend them is proved too. `DivergedOnlyByStaleReads`: a step that is none of
  `FundsHold` is the commit of a stale read. `CurrentReadsSuffice`: in a behaviour without
  such a commit (`[][~StaleCommit]_vars`, what a read under the lock would give), any number of overlapping
  requests keep `FundsHold` and `BooksBalance`, and no tenant spends what it does not have
  (`NeverOverspent`; the invariant is `Solvent`). `CurrentReadsAreCovered`: then the wallet refuses
  nothing but reservations, so no answer of Selcom is rolled back for want of funds. `CurrentStatusDisbursesOnce`:
  reading the status under the lock is enough by itself against finding 2, however
  stale the wallets are (`BookedByStage`). Requests meet these hypotheses as long as none commits
  between another one's reads and its commit; for requests that do not overlap at all `SerialIsSound` proves
  the conclusions from `OneWorker` alone, beside `HeldOnce` and `BooksBalanced`.
- **WalletProofs.** `FeeSplit`: fee and share are within the payment and add up to it.
  `WalletTypes`, `NeverOverdrawn` (a call's `seen` is never negative either),
  `BooksRecomputable` (balances and records move together, method by method).
- **CollectionsProofs.** `CreditInv`: one request holds a payment (`OneHolder`), and what
  each will write is safe to commit (`WriteOK`: a terminal row as it is, the credit with and only
  with the step to COMPLETED, COMPLETED only for a paid order, activation with a
  completed purchase). From it `CollectionTypes`, `CreditedOnce`, `CreditedWhenPaid`,
  `QueuedWhenPaid`, `TerminalForGood` (which no run lists, as `LifeOfPayment` implies it). `PendingAddsUp`: until a stale read is committed, the pending balance
  is the sum of the shares of the credited payments; a commit adds one payment to that set, and
  `CreditInv` is why it was not in it before. `LifeKept`: each step is a step of `PaymentLife` or a stutter. It needs
  `NewRows`, which `WriteOK` leaves open: the commit that inserts a row never inserts it
  COMPLETED. `SweepIsHarmless`: `SweepSpec => Spec`, so
  all of these hold beside the sweep with its retries and crashes; `Listed` (the
  list names rows that exist) is why a sweep call is one a webhook might have caused.
  `SweepTypes`: `AttemptsFit` adds that a payment nobody serves has an attempt left.
- **AccessProofs.** `CoreInv` is one invariant for five theorems: what each
  status of a payment says of its subscription and of RADIUS (`PaymentsFit`), requests under way to the
  agent are of paid payments (`LateFit`), the rows of sales agree with their history
  (`SalesFit`), each job is good to commit (`JobsGood`), and no two jobs hold one row
  (`JobsApart`). From it `TypeCorrect`, `OneSubscription`, `MoneyFirst`, `OnePeriod`,
  `CredentialsWork` (`Provisioned` has both of its cases: a phone with one paid purchase, and with more). `PromptsAreBounded`: `SessionInv` counts the requests that still wait on
  a consumed session; they and the prompts sent stay below the number of workers,
  because none can begin after the session was consumed. `LifeKept`: Access keeps to `PaymentLife`;
  `OwedFit` says that exactly the paid have an activation status, and `CoreInv` that an
  activation, or the late record of its failure, is of a paid one. TLC has checked
  this on the constants of `access`, where it is not listed because it needs no run of its own.
- **NetworkProofs.** `WizardInv`: no two requests past the unique index are about to commit one address (`Apart`), nor one
  a row has (`Reserved`), and each block not overtaken is the one its row says (`BlocksFit`). `ChannelInv`: a copy carried out
  has a nonce remembered until its time is refused, which is where `ClockAssumption` is used. That the lowest free address is
  free and exists is by well-foundedness of the naturals. `CallsHold`: each step is a step of `SignedCalls` or tells
  no caller anything; a retry stutters, and a copy is served for the first time because `ChannelInv` says that one
  accepted was not carried out (`AcceptedIsNew`), of a call that was made (`SentFits`). `NoReplay` states the invariant behind it.
  `NoFalseSuccess` is about the calls that are told of success, which no diagnosis is (`ErrorsTell`).
- **TenancyProofs.** `IInv`: profiles and tenants refer to each other (`ProfilesFit`,
  `TenantsFit`), the account a registration will delete is its own and not yet anyone's
  (`OwnAccount`, `JobsGood`), no two registrations hold one address (`AccountsApart`), and
  no two jobs can commit the same version (`ConfigsApart`). From it all the properties of the run,
  and `OneTenant`: of two tenants of one address, one is of an attempt that was told it failed. `RegistrationHolds`: each step
  is a step of `TenantAccounts` or changes nothing it tells; a commit registers on a vacant account and a compensation
  closes a vacant one, because of `OwnAccount`: the compensation after a commit whose answer was lost closes
  the account of its own attempt, and never that of another.

- **Sums.** `MapThenSumSet` folds over a set in an order that CHOOSE picks. `SumAdd` and `SumRemove` say
  what one element more or less makes of a sum, `SumSame` that only the values on the set count, `SumType` that
  it is an integer. The library's induction theorems take an operator as a parameter, which the provers cannot
  instantiate; the inductions here look for a counterexample of smallest size instead
  (`Smallest`, from the well-foundedness of the naturals). `IterMeets` shows that the recursive function
  behind the fold exists, and `SolutionsAgree` that it is the only one; `SumStep` is its equation.

Only model-checked: the liveness properties (`InFlightResolved`, `PaidIsCompleted`,
`PaidIsActivated`), which need fairness and ENABLED. Every safety property of a passing run
is a theorem.

## 7. What is not modelled

- *Withdrawals and wallet*: the alert e-mail of stale withdrawals (`maybe_alert_stale`), destinations
  and `preview_lookup` before a withdrawal exists, `apply_disbursement_result`, which no route
  reaches; the race of two first loads of a wallet, which a unique constraint decides.
- *Collections and portal*: requests refused before anything is written; `finalize_payment`
  of the captive portal, which no route reaches; the contents of intent and transaction tokens.
- *RADIUS and agent*: the hotspot and walled-garden scripts, which are text; loading the registry
  file; the handler that describes a router from several reads; the sessions FreeRADIUS accounts.
- *Tenants*: lists, details and the edits of a business profile; the checking of a JWT; the
  audit log, which the code only appends to.
- *Packages, reports, dashboards*: plain create, read and update, with no state a
  property could be about. *Rate limiting*: a counter that fails open; in Access it is a refusal
  that may come. *E-mail*: templates. *Web front end*: presentation. *Legacy Selcom stub*: every call
  raises. *Migrations*: the tables and indexes they make are the state and the guards of the
  models; a migration is not a step.

Selcom, Supabase, RouterOS and FreeRADIUS are external: their states and answers are those
the code tells apart.
