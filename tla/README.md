# TLA+ verification of Too Fresh To Waste

Too Fresh To Waste (TFTW) sells surplus food: merchants publish offers of a few
bags, consumers reserve a bag and collect it, or have a driver bring it, and
TFTW takes a commission. The program is a NestJS backend over MongoDB (with
transactions), Redis and Bull queues, deployed as several replicas, with a web
and a mobile client. This directory models the part of it in which a mistake
costs somebody a bag or money: the stock of an offer, the payment of an order,
the merchant's commission balance, the drivers with the cash they carry, the
payout of the merchants under the lock of its jobs, the charity pool that a
completed order feeds, and the community vote it counts in.

All paths below are under `src/apps/food-waste-backend/src/` unless they begin
with `src/`.

## 1. The system

| component | state | operations | interacts with |
|---|---|---|---|
| checkout and orders (`orders/order.service.ts`) | order: status, paymentStatus, items, expiry | create, updateStatus, confirmPickup, cancel, updateExpiredOrders, cancelUserPendingOrders, trackFailedPickupAttempt, unlockPickup | offers, payments, commission, drivers: all write the same order document |
| offers and stock (`offers/`) | totalQuantity, reservedQuantity, soldQuantity, status, slots with maxOrders and currentOrders | create, update, remove, toggle, reactivate, updateExpiredOffers | every order operation increments or decrements its counters |
| online payment (`payments/services/konnect-order.service.ts`, `payments/tasks/`) | order.paymentSession, payment attempts, refund requests, wallet and its transactions | initOrderPayment, createRetrySession, handleOrderWebhook, processRefundRequest; the expiry and reconciliation jobs | Konnect by HTTP and webhooks; orders; wallet |
| commission (`payments/services/commission.service.ts`, `orders/utils/*`) | Establishment.commissionDue, commission ledger, order.commission, platform transactions | applyForOrder, reverseForOrder, revenue booking and its reversal | called inside the transactions of pickup, delivery, failure, recovery and refunds |
| driver dispatch (`drivers/drivers.service.ts`, `drivers/processors/`) | order.status and driverId, driver availability, one delayed job per order | acceptOrder, markPickedUp, markDelivered, failDelivery, unassignOrder, autoUnassignOnTimeout | Bull queue; order routes |
| driver cash (`drivers/services/driver-cash.service.ts`) | cash record per delivery, float movements, handover batches | onMerchantPickup, onDelivered, onFailed, resolveFailedRecovery, recordHandover, moveFloat, reconciliation | dispatch, commission |
| admin (`admin/services/order-management.service.ts`) | none of its own | adminCancelOrder, adminIssueRefund, recordOfflineRefund | orders, payments, commission |
| payouts and wallet (`payments/services/payout.service.ts`, `wallet-payout.service.ts`, `payments/tasks/payout.task.ts`) | settlement ledger (status, retryCount, nextRetryAt), wallet balances and transactions | runWeeklyPayoutBatch, retryFailedPayouts, processMerchantPayout, processWeeklyWalletPayouts | pickups book its entries; the bank; cron lock |
| cron lock (`common/services/cron-lock.service.ts`) | a Redis key with a token and a time to live | runExclusive, release | every scheduled job |
| donations and community goal (`donations/`) | pools with a goal, a target and an amount; one contribution per order; DONATION rows of the platform ledger | createDonation, rotateIfFunded, createNextPool, reverseForOrder, updateActivePool, resetPool, archival | order.completed, order.refunded; loyalty points may be donated |
| voting (`voting/`) | the cycle of a season with its progress, eligibility snapshots, votes, winner; prize claims | updateCycle, activateCycle, openBallot, createEligibilitySnapshots, castVote, closeBallotAndTally, manualTally, expireCycle, archiveCycle, claimPrize | order.completed counts bags; the leaderboard decides who claims |
| loyalty (`loyalty/`) | points and pointsHistory of a user, streaks, badges, discount claims | addPoints, donatePoints, processOrderLoyalty | order.completed; voting; donations |
| failed pickup lockout (`orders/order.service.ts`) | attempt counter and lockout time of an order | trackFailedPickupAttempt, unlockPickup | confirmPickup reads it |
| subscriptions (`subscription/`) | plan and billing period of an establishment | initiatePayment, handleWebhook, handlePaymentCallback | shares the payment provider |
| authentication (`auth/`) | sessions and refresh tokens | login, refresh, revoke | - |
| inventory, notifications, reviews, search, analytics, users, establishments, web, mobile | records and views | - | - |

What is hard about it:

- **One document, many writers.** An order is written by its customer, its
  merchant, a driver, an administrator, three scheduled jobs and a webhook.
  Some writes test the status they replace (`findOneAndUpdate` with a filter),
  some are writes by id after a read, some are inside a transaction whose reads
  were made before it.
- **Transactions that run again.** `withTransaction` repeats its callback after
  a write conflict, so a callback with an effect on memory is not repeatable.
- **Money from outside.** A capture at Konnect may be reported late, twice, or
  never, for a session that was superseded, of an order that was cancelled.
- **Running balances.** The commission balance, the wallet's pending balance,
  the stock counters and a driver's debt are each kept beside the rows they sum.
- **Events without a key.** order.completed and order.refunded arrive by
  RabbitMQ, which delivers again what was not acknowledged, or by an
  EventEmitter, which forgets what failed. Some handlers are idempotent by a
  unique key, some are not.
- **Something outside a transaction.** A bank transfer, or a second write after
  a compare and set, is not undone by the death of the process between the two.
- **A timeout of somebody else.** The job that takes an order from a driver who
  went dark may fire when the order is in another driver's hands.

Properties that make each part correct are listed with its module below, and
the places where the code is exposed, line by line, in `PROJECT.json` under
`hazards`.

## 2. The modules

| module | models | kind |
|---|---|---|
| `CommissionRules` | the arithmetic of one commission decision and its reversal, as operators | pure |
| `CommissionBook` | balance, ledger, revenue and the transactions that move them | state machine |
| `CommissionProofs` | theorems about `CommissionBook` | proofs |
| `DriverDispatch` | an order's way through the drivers' pool | state machine |
| `DriverCash` | the cash of one driver | state machine |
| `DriverProofs` | theorems about `DriverDispatch` and `DriverCash` | proofs |
| `OnlinePayment` | sessions, webhook, expiry, reconciliation, cancels and refunds | state machine |
| `PaymentProofs` | theorems about `OnlinePayment` | proofs |
| `OfferStock` | the counters of one offer and every handler that moves them | state machine |
| `StockProofs` | theorems about `OfferStock` | proofs |
| `ExclusiveRun` | what the lock of a scheduled job promises | abstract specification |
| `CronLock` | the Redis key, its token, its release and its expiry | state machine, refines `ExclusiveRun` |
| `Payout` | weekly batch, retry and wallet payouts, each job under its lock | state machine, extends `CronLock` |
| `PayoutProofs` | theorems about `CronLock` and `Payout` | proofs |
| `Donations` | pools, pledges, rotation and reversal | state machine |
| `DonationProofs` | theorems about `Donations` | proofs |
| `Voting` | one season of the community vote | state machine |
| `VotingProofs` | theorems about `Voting` | proofs |
| `Sums` | lemmas about sums over finite sets, which the proofs about money and votes rest on | proofs |
| `MCCommission`, `MCDriverCash`, `MCPayment`, `MCStock`, `MCPayout`, `MCDonations`, `MCVoting` | instances for TLC | model checking |

Three conventions hold throughout.

*Steps.* What one MongoDB transaction writes is one step; so is one write
outside a transaction. Between two such writes, and between a read outside a
transaction and the write that relies on it, a handler is a record in
`process`, `request` or `txn`, and any other step may happen there. The record
holds what the handler remembers of its reads.

*Conflicts.* MongoDB transactions are snapshot isolated: a transaction that
writes a document somebody has written since its snapshot aborts and is run
again. The modules where this decides something keep the snapshot and compare
(`Conflict` in `CommissionBook`, `HandoverConflict` in `DriverCash`, `Stale` in
`OfferStock`, `Touched` in `OnlinePayment`). Nothing conflicts on documents that
are only read, which is how write skew enters (`InsertMovement`).

*Mutations.* An operator under a comment that begins "Mutation:" is a wrong version of the
operator after it. No specification uses it: it is what the property it is
listed with in `PROJECT.json` must detect.

### CommissionRules and CommissionBook

`DecideV2` is `decideCommission` of `commission-model.util.ts`, `DecideLegacy`
the settlement of `order-pricing.util.ts` that governs orders placed before
`COMMISSION_MODEL_EFFECTIVE_AT`; amounts are in thousandths of a dinar, so
rounding is integer division. A worker is `called`, opens a transaction
(`Begin`, which takes the snapshot), and commits or conflicts. `Effect` is the
whole callback of each caller: the claim of the order, `applyForOrder` or
`reverseForOrder`, the rows and the order's own status. The six callers are the
operations `confirm`, `deliver`, `fail`, `resolve`, `refund`, `refundOffline`,
and `cancel`, which calls neither.

Properties: the balance is what the ledger replays to (`LedgerReplays`); the
decision frozen on the order is the one its rows were written from
(`DecisionMatchesLedger`); commission is only ever taken out of a sale whose
money TFTW holds (`SettlementIsEarned`); a sale that was undone carries no commission,
exactly, whichever of the four paths undid it (`UndoneSaleOwesNothing`);
revenue rows follow the ledger (`RevenueMatchesLedger`).

### DriverDispatch

`StartAccept`, `Claim` and `ScheduleTimeout` are the three awaits of
`acceptOrder`; `Release` is `releaseOrder`, reached from `UnassignOrder` and
from the timeout; `RemoveJob` follows it later. A job is delayed, active (a
worker has locked it), handled or failed (not yet removed), and its id is the
order's, so an `add` while any of these exists is dropped, as Bull does. The
handler may throw (`TimeoutThrows`): the job has one attempt and is removed on
failure. `ReadForWrite`
and `WriteStatus` are the writers of `order.service.ts` that know nothing of
drivers. The specification is `DispatchSpec`: the module shares no name with
`DriverCash`, so that `DriverProofs` can extend both.

Properties: food that was collected stays with its driver until it is
delivered, failed or the order is ended (`CollectedStaysWithDriver`); a timeout
of one driver never takes the order from the next (`TimeoutSparesNextDriver`);
the first driver of an order who goes dark is relieved of it unless the handler
of his job throws (`FirstDriverIsRelieved`, liveness). It is stated of the first
driver only: the
job of a released driver may still be there when the next one adds his, which
is then dropped, so a later driver may stay dark for ever.

### DriverCash

Amounts are whole units. A delivery step reads and writes one order and one
record, so its transaction is one action; a handover reads all open records and
writes several, and a float movement reads a sum and inserts a row, so each is
two actions. `pocket` is what the driver really holds, a history variable moved
by what people do with money, not by what the records say; `AbandonHandover`
only closes a handover when the model's bound on batches is reached.

Properties: the reconciliation report explains the pocket to the last unit
(`PocketExplained`); a handover only pays down, and leaves a failed delivery
its flag (`HandoverPaysDown`); the fate of failed food is decided once
(`FailureSettledOnce`).

### OnlinePayment

The order of one process per handler, stopped at every await. A `Request`
serves API calls and webhooks, `Expiry` and `Reconciliation` the two jobs, which
run under the cron lock and so are one process each, which is what `CronLock`
implements. `Crash` ends any handler anywhere; `provider` is the state
of each payment at Konnect, moved by the customer.

The wallet has two balances. `Settle` credits a sale to the pending one,
`ProcessRefundRequest` takes it from there, and a pickup (`Complete`) moves it
to the available one when the order's Payment document is HELD and makes that
EARNED. Nothing under `src/` creates Payment documents any more, the code only
reads and updates them, so `Init` gives each order one or none (`held`). A
customer who cancels a RESERVED order that is not paid has a HELD Payment
refunded (`CancelReserved`). The available balance counts the sale and not
`merchantAmount`, which is `CommissionBook`'s matter; `Payout` models the same
pickup of an order with a HELD Payment, the one that books a payout.

Properties: an order or an attempt counts as paid only by a capture of the
right amount at the provider (`MoneyCameIn`); the two balances together are the SALE rows less the REFUND
rows, and no pickup makes a sale available twice (`WalletIsRows`); an order is
paid by one attempt although webhook, retry and reconciliation race
(`PaidByOne`); a refund of a paid pickup is booked, and nothing makes the order
paid again (`RefundIsBooked`); a capture does not stay unnoticed
(`ReconciliationRescues`, liveness).

Not in the module: `cancelUserPendingOrders`, the bulk cancellation of a
suspended user's orders (`SuspendUser` of `OfferStock`), and what becomes of a
refund request.

### OfferStock

One offer, orders of one bag each in one slot. `kind` says whether an order is
a pickup paid in cash or online, or a cash delivery. `gone` and `handed` are
history variables: how often the bag of an order was taken out of
`reservedQuantity`, and which orders were handed over since the offer was last
activated. `UNPAID` stands for PENDING and FAILED.

Properties: however checkouts, releases and expiries interleave, only an edit
of `totalQuantity` can commit more bags than there are
(`OnlyAnEditOvercommits`); a slot takes no more than maxOrders, although the
update that counts an order in does not test it (`SlotWithinMax`); the counters
cover every bag that is owed as long as no bag was taken out twice or from under
a live order (`CountersCoverOrders`, which therefore says nothing of the paths
that release a bag twice: those are steps of the model, and the counters do go
wrong there); a pickup paid in cash is sold once (`CashBagSoldOnce`).

Simplifications: a handler that dies takes no further step, so there is no
crash action; `EditTotal` only lowers the total and may always happen, because an
administrator needs no offer without reservations; `Reactivate` stands for
`updateExpiredOffers` followed by `reactivateOffer`; re-sent slots, removal and
toggling of the offer are left out; the counter of a slot without maxOrders is
not kept; `MaxGone` bounds the releases of one order, so that a handler that
would release once more waits.

### ExclusiveRun and CronLock

`ExclusiveRun` knows a set of runners for each job: one may start a job that
nobody executes, and whoever executes it may stop. `CronLock` is
`runExclusive`. `Win` is the `SET NX PX` that succeeds and hands the task a
fresh token; `EndTask` is the end of the task, by return or by throw; `Release`
is the script that compares the token before it deletes the key, or fails and
is swallowed; `Crash` is a process that dies and leaves its key. A call that
finds the key present, or Redis down, or a process without the scheduler role,
changes nothing and is no step.

`Expire` may happen at any time but while the task of the key's token is being
executed. This is the assumption that `common/constants/cron-lock.constant.ts`
states where it lists the times to live ("It must exceed the job's worst-case
runtime"); nothing in the code enforces it. A key may still expire between the
end of the task and its release, so that a late release meets the key of the
next holder. The refinement maps `running` to the runners whose step is
`"task"`.

### Payout

Extends `CronLock`: the task of the lock is the weekly batch or the daily
retry, one action per await. `AggregatePending` and `AggregateFailed` are their
first reads, `TakeMerchant` the read of one merchant's entries, `Transfer` the
call to the bank, `Mark` and `MarkThrows` the update that follows it,
`PayWallet` and `WalletThrows` the transaction of one wallet. `ConfirmPickup`
is the pickup that books an entry and credits the wallet. An entry is worth one
unit. `executeBankTransfer` is a stub that accepts everything; the model takes
both answers its caller is written for.

Properties: each job is executed by one runner at a time (`RunsExclusively`,
the refinement of `ExclusiveRun`); a dead holder is succeeded
(`JobsKeepRunning`, liveness); an entry is transferred twice only if a batch
was cut off between the transfer and the mark, or if the weekly batch and the
retry, whose locks differ, had it in hand together (`DoubleTransferExplained`);
a wallet loses and gains nothing beside its pickups and payouts
(`WalletConserved`).

What the model makes visible of the code: a FAILED entry is never paid, because
the retry selects the merchants of failed entries and then processes their
pending ones; a week with nothing pending pays no wallet, because the batch
returns before it comes to them.

### Donations

A worker is one delivery of order.completed: `Take` (the order is read),
`FindPool`, `Pledge` (the transaction of `createDonation`), `Rotate` (the claim
of `rotateIfFunded`), `CreateNext`, with `Fail` anywhere; an event may be
delivered any number of times or never. `ReverseForOrder` handles
order.refunded, `EditTarget` is an administrator, `DonatePoints` the gift of
loyalty points, `ResetArchives` and `ResetInserts` are the two writes of
`resetPool`. `OpenDefault` is `getActivePool` when no pool is open, which any
reader may call, also between a claim and the insert of the next pool.

Properties: TFTW's ledger ends at what the charity keeps of an order
(`LedgerMatchesCharity`); what the pools hold is what was pledged and given,
less the overflow that was lost (`PoolsHoldPledges`); a funded goal is
succeeded once (`FundedIsSucceededOnce`); a refunded order keeps its pledge
only in the races the comments of the listener describe
(`RefundedPledgeOnlyInRace`).

What the model makes visible: the claim sets the amount to the target its
caller remembers, so an edit in between changes what the pools hold
(`staleClaim`); an overflow is lost when the process dies before `CreateNext`,
when another pool was opened first, whose goal starts from the beginning, and
at the last goal; a gift of points is not in the ledger and does not rotate a
pool it fills.

Simplifications: category snapshots, meal and contributor counts, badges, the
number of the season, the choice of the active category and soft deletion are
left out. `donatePoints` is one step; a process that dies after the points were
deducted and before the pool is increased loses them.

### Voting

One cycle from `draft` to `archived`. Every transition is a compare and set on
its status (`Activate`, `OpenBallot`, `CloseBallot`, `Complete`, `Expire`,
`Archive`); what goes with it reads first and writes by id later, in actions of
its own: `Seed` after the activation, `AdminReads` and `AdminWrites` of
`updateCycle`, `ReadPoints`, `WriteSnapshots` and `SnapshotReady` of
`createEligibilitySnapshots` (run by the job that opened the ballot, by
`retryFailedSnapshots` or by an administrator), `CastVote` and `InsertVote`,
`CountVotes` and `Complete` of `runTally`. `AddPoints` and
`IncrementSeasonBagProgress` are the two effects of one order.completed, which
may be redelivered or swallowed in between. `DeactivateUserLoyalty` and
`ReactivateUserLoyalty` are what the loyalty listener makes of a user who is
suspended or deleted, and restored: `Winners` ranks active accounts only, and
an account may change between two claims. `changed` is a history variable, the
users whose account earned points or was deactivated or restored since the
cycle was completed.

Properties: the winner is what the votes give (`WinnerIsVotes`); a vote weighs
what its voter's eligibility row says (`VoteCarriesSnapshot`); an order is in
the progress of the season, and once (`BagsCountOnce`); votes are for prizes of
the cycle and no more users claim the grand prize than were announced
(`OutcomeAsAnnounced`). Each names the cases in which the code does not keep
it: a redelivery counts a bag twice, because the increment has no key; an
activation that dies before it seeds is never seeded; an edit that had read an
earlier status lands after the ballot opened; and the users are ranked when
they claim, so points earned, and accounts deactivated or restored, after
completion let more of them claim than `recipientCount` (a claimant who is
deactivated makes room for the next). What holds is that those whose account
did not change are not more than that.

Simplifications: an order is one bag; time is left out, a ballot may close and
a season end at any moment; points come from orders only and none is spent, so
available and total points are the same; the read of the eligible users and of
their points is one step, as are the seeding's aggregate and its increment and
the rank of a claim and its insert; `WriteSnapshots` writes all rows in one
step, where the unordered `bulkWrite` may write some and throw (a later run then
writes the rest, since it inserts what is missing); which accounts are ever
deactivated is a constant (`Removable`). Audit rows, notifications, `deleteCycle`,
what becomes of a claim, and further seasons are left out.

## 3. The runs

| run | instance | shows |
|---|---|---|
| `commission` | 2 orders of 5 kinds of sale, 2 workers; subtotals 30 and 3 TND against a threshold of 5 | all properties of the commission book: one sale is past the threshold at once, the other leaves a remainder |
| `dispatch` | 2 drivers, 1 order, 2 requests, a limit of 1, 2 releases, a queue that may refuse, handlers that may throw | safety and liveness of dispatch |
| `driver_cash` | 2 deliveries, 2 administrators, 2 batches, 1 float movement, handovers of -4, 1 and 4 | what the records say of the driver's pocket under overlapping handovers |
| `payment` | 1 pickup order with or without a HELD Payment, 2 sessions, 1 request beside the 2 jobs, 1 crash | safety of payment and wallet |
| `payment_liveness` | 1 order, pickup or delivery, 1 session, 1 request beside the 2 jobs, 2 crashes | a captured payment is dealt with |
| `payment_expiry` | as `payment`, pickup or delivery | the expiry job overwrites an order that was paid while it asked the provider |
| `stock` | 2 orders of any kind, 2 handlers; an offer of 1 bag that may be reactivated, or of 2 bags in a slot for 1 order | the counters against the orders |
| `stock_oversold` | 2 orders, 2 handlers, 1 bag, no reactivation | a webhook revives an order that was cancelled meanwhile, and its bag is owed twice |
| `payout` | 2 runners, 2 jobs, 4 tokens, 2 entries of 2 merchants; crashes without bound | the refinement, the books of the payout, and that a dead holder is succeeded |
| `donations` | 2 orders of 2 and 3, one booked at payment time; 2 goals of target 2; 2 workers; 1 edit, reset or gift | ledger, pools and rotation: each order funds a goal alone, both together fund two |
| `voting` | 2 users, 3 orders, 2 of them before the season, 1 snapshot run, request and tally at a time, 1 or 2 recipients, 1 user whose account may be deactivated and restored, 1 failure | a whole season from its draft to the claims |
| `ballot` | from the opening of the ballot: 2 snapshot runs, 2 requests and 2 tallies at a time, 1 failure | the vote and its tally under overlap |

The instances are small because the races are between two: two transactions
that overlap, two sessions of one order, two drivers of one order, a handler
and one that overtakes it, the holder of a key and the next. Orders of
different customers meet only in what they share, the balance of the merchant,
the counters of the offer, the pocket of the driver, the pool or the season,
and those runs have two orders or three. `MaxReleases`, `MaxBatches`,
`MaxMovements`, `MaxCrashes`, `MaxGone`, `MaxInterventions` and `MaxFailures`
bound what could repeat for ever; each is large enough for the thing to happen,
and where an answer to it may fail again, to happen twice. Four tokens for two
runners and two keys mean that a fresh one can always be found when a runner is
idle. `ballot` starts where `voting` opens the ballot, with nothing behind it but
the orders of the past (`BallotInit`), so that two of each kind of process fit.
Where deadlock checking is off, the bounded system really comes to rest: every
order ended, no session left, the season archived. Symmetry is used in safety
runs only.

**Fairness.** `DriverDispatch`: a handler that has started runs on, and the
queue's worker comes round to each job: Bull keeps jobs in Redis and its
workers poll. That a job is handled without a throw is not assumed.
`OnlinePayment`: a handler that has started runs on, and
reconciliation is strongly fair for each attempt it lists, because it runs on a
schedule, lists what is old every time, and is idle again and again (the listing
is cut at 50 attempts, so this assumes that fewer are stale at a time). No
fairness is assumed of webhooks, customers, the expiry job or retries, and at
most `MaxCrashes` handlers die. `Payout`: a batch that runs comes to an end and
releases, a key whose time is up goes away, and the acquisition of each job's
lock is strongly fair: the schedule calls it again and again, and Redis is not
silent each time the lock is free. Nothing is assumed of crashes, which may
happen for ever, of pickups, or of the success of a transfer or a write.

**The two disagreements** between the code and what the repository says of it
are the `violation` runs `payment_expiry` and `stock_oversold`; `PROJECT.json`
quotes the sentence and the line of each. Their counterexamples are short: two
or three handlers.

Some steps that a reader may not expect are in the models, and the properties
are stated around them: `cancel` of a paid order leaves its commission standing
(`CommissionBook`); the timeout job of a second driver may be lost
(`DriverDispatch`); two float returns that overlap leave a negative float
(`DriverCash`); a repeated callback of `adminCancelOrder` skips the refund
request, and a process that dies after it marked an attempt anomalous leaves
none (`OnlinePayment`); a refund of an order that was picked up takes its sale
from the pending balance, which the pickup had emptied of it, so that pending may
fall below zero while the sale stays available (`OnlinePayment`; the schema of
the wallet asks for `min: 0`, `payments/schemas/merchant-wallet.schema.ts:17`,
which an `$inc` does not validate, and `payments/README.md:37-39` says that
exactly the subtotal leaves pending at the pickup); two cancellations release one bag twice (`OfferStock`,
`gone`); a donation adds to the pool it found, also when that was funded
meanwhile, so that a funded pool may hold more than its target, which
`scripts/verify-loadtest-invariants.ts` (lines 228-243) asserts it never does
(`Donations`; `PoolsHoldPledges` counts what such a pool holds).

With `MaxMovements = 1` the `driver_cash` run gives a driver a float and has no
movement left to return it; that a return keeps the account is shown by the
theorem `PocketIsExplained`, for any number of movements.

## 4. What is proved

Each proofs module shows its theorems for every value of the constants that
satisfies the named assumptions of the module it extends: any number of orders,
users, workers, amounts. Every theorem of a state property has the same shape.
The property is not inductive: to know that a step keeps it one must know what
the handlers in the middle of their work remember. So there is an inductive
invariant, `Init => IInv`, `IInv /\ [Next]_vars => IInv'` with one lemma for
each action or group of actions, and the properties follow from it. TLC found
each of these invariants to hold on the instances of section 3 before it was
proved. The bounds of the models (`MaxCrashes`, `MaxReleases`, `MaxFailures` and
the like) are any natural numbers in the proofs.

### CommissionProofs

`TypeCorrect`, `BalanceIsLedger`, `DecisionIsLedger`, `SettlementsAreEarned`,
`UndoneOwesNothing` and `RevenueIsLedger`: all properties of `CommissionBook`,
from `SaleAssumption` and `ThresholdAssumption`.

`BalanceIsLedger` (`LedgerReplays`) rests on

    IInv == TypeOK /\ LedgerReplays /\ SnapshotsCurrent

A transaction decides on the balance of its snapshot and writes rows that carry
the balance after them, so the step that commits needs to know that the
snapshot is still current: `SnapshotsCurrent` says that an open transaction not
marked stale has seen the present balance. The argument has three layers:
lemmas about one decision (`V2Outcome`, `LegacyOutcome`: it leaves the balance
it saw plus what it accrued less what it settled), lemmas about the rows of a
decision and of a reversal (they replay from the balance seen to the balance
written), and a lemma about appending rows that replay to a ledger that
replays.

The others rest on

    BookInv == IInv /\ ReadsCurrent /\ OneRowEach /\ SettlementIsEarned /\ OrdersFit

`ReadsCurrent` is the same of the order document and its rows: who commits has
seen them as they are. `OneRowEach` is that no order has two ledger rows of a
type: the guards of `applyForOrder` and `reverseForOrder` keep it, and the
unique index on (orderId, type) aborts a commit that would add a second row
(`DuplicateKey`). `OrdersFit` relates, order by order, the frozen decision to
its rows (`DecisionFits`), the platform's revenue to the decision and to its
reversal (`RevenueFits`), and the status of a sale that was undone to the
reversal of its decision (`StatusFits`). One lemma per operation (confirm,
deliver, fail, resolve, refund, cancel) shows what it makes of the document it
has seen; since what it has seen is current, that is what becomes of the order.

### PayoutProofs

`LockImplementsExclusion` (`LockSpec => Abstract!Spec`: the lock implements
`ExclusiveRun`), `PayoutRunsExclusively` (so does `Payout`: each of its steps is
a step of the lock or leaves the lock alone), `PayoutTypeCorrect`,
`WalletsAreConserved` and `DoubleTransferHasACause`; for any jobs, runners,
tokens and merchants, and finitely many entries (`NoneAssumption`,
`JobAssumption`, `MerchantAssumption`).

A step of the lock starts a job only when nobody executes it, and that is not
to be seen from the key alone. The inductive invariant of the lock is

    LockInv == LockTypeOK /\ KeyOfTheRunning /\ TokensDiffer

`KeyOfTheRunning` says that the key of a job holds the token of whoever
executes it, so that an absent key means that nobody does. To keep it, a
release must not delete the key of the next holder: a holder whose key has
expired may release late, and `TokensDiffer` says that its token is nobody
else's. Then `Win` maps to `Start`, `EndTask` and `Crash` map to `Stop` or to a
stutter, and the rest stutters. The proof rests on the guard of `Expire`, that
is, on the times to live being long enough.

The books rest on

    PayoutInv == TypeOK /\ LockInv /\ WalletConserved /\ BatchesRun
                   /\ ReadIsBooked /\ EntriesFit

`EntriesFit` speaks of an entry that no batch dropped and no two jobs shared: it
is in the hands of one batch at most, is pending while it is, and if it was
transferred and is not marked, the batch that holds it is about to mark it. That
two batches of one job do not hold it together is where the mutual exclusion of
the lock is used (`BatchesRun`: who has work in hand executes a task).

### DriverProofs

Of the pool: `DispatchTypeCorrect`, `CollectedStays`, `TimeoutSpares`, and
`MerchantPaidAtMostOnce`, which no run checks (the merchant of an order is paid
one pickup, however often the order changed hands); from `DriverAssumption`,
`LimitAssumption` and `QueueAssumption`.

    DispatchIInv == DispatchTypeOK /\ PlainWrites /\ CollectedIsHeld

The writers of `order.service.ts` write a status by id, so an order that was
collected may be shown as CONFIRMED again. `PlainWrites` says that none of them
writes `DRIVER_ASSIGNED`; `CollectedIsHeld` that an order whose merchant was
paid has a driver and is not `DRIVER_ASSIGNED`, so that neither `Claim`, which
wants no driver, nor a release, which wants that status, can take it.

Of the cash: `CashTypeCorrect`, `PocketIsExplained`, `HandoversPayDown`,
`FailureIsSettledOnce`: all properties of `DriverCash`, for any finite set of
orders, any administrators, kinds of delivery and amounts (`OrderAssumption`,
`DeliveryAssumption`, `AmountAssumption`).

    IInv == TypeOK /\ RecordsFit /\ PaidFit /\ Balanced

`RecordsFit` says what a record owes for its order's status: what is outstanding
and what was handed over are together what is due, and a failed delivery is
returned or lost as the order's recovery says. `PaidFit` is that a merchant is
paid once for an order, so that a handover meets a record once. `Balanced` is the
account of the pocket, over all orders at once; `PocketExplained` follows by
splitting that sum into what the driver owes, what TFTW owes and what waits
(`SumPadded`, `SumOfTwo`).

The step that matters is the commit of a handover, which allocates over the
records it has read. `AllocateFits` says what the allocation makes of any
records: each one written is `PaidDown` (its debt shrinks without changing its
sign, what leaves `outstanding` arrives in `handed`, its flag stays), and all
debts together shrink by what of the amount was used. That is about the records
as read; the others may have changed since, those to be written have not
(`HandoverConflict`), so the same difference applies to the records as they are
(`CommitIs`). `Allocate` recurses over the orders by the time their merchants
were paid; that the recursion has a value (`AccumulatorExists`) and that each
step keeps the account is shown by a least counterexample.

### StockProofs

`StockTypeCorrect`, `SlotIsRespected`, `CountersCover`, `OvercommitIsEdited`,
`CashBagIsSoldOnce`: all properties of `OfferStock` that hold, for any published
offers, orders and handlers (`OfferAssumption`, `LimitAssumption`,
`BoundAssumption`).

    IInv == TypeOK /\ HandlersFit /\ CreatesApart /\ PaymentsFit
              /\ SlotWithinMax /\ HistoryFits /\ CountersCount

`CountersCount` is the exact account behind the inequalities of
`CountersCoverOrders`: as long as no bag was taken out twice, `reservedQuantity`
is the number of bags held and `soldQuantity` the number of pickups. The proof
counts by the cardinality of those two sets; only finitely many orders exist at
a time, although `Order` need not be finite (`HistoryFits`). `HandlersFit` says
what a handler's first read has established (the order exists, is paid online,
the snapshot showed an offer that takes orders), `CreatesApart` that two
checkouts create two orders, and `PaymentsFit` what the payment of an order
paid in cash can be.

### PaymentProofs

`PaymentTypeCorrect`, `MoneyComesFirst`, `WalletBalance`, `PickupPaidByOne`,
`RefundBooked`: all safety properties of `OnlinePayment` that hold
(`ProcessAssumption`, `RefAssumption`, `ModeAssumption`, `BoundAssumption`).

    IInv == TypeOK /\ AttemptsFit /\ HandlersFit /\ RecordsFit /\ MoneyCameIn
              /\ SalesFit /\ RefundsFit /\ BalanceFits

`HandlersFit` says what a handler stopped at an await may rely on: an attempt it
works on was recorded, one it settles was captured in full, one it gives back
was captured. These are facts about the provider and the attempt that nobody
takes back, which is why they survive the interleaving; what may be taken back
(the status of the order, the active session) is not in it. `RecordsFit` keeps a
session in the making to one checkout. `SalesFit` ties the paid attempt of a
pickup to its SALE row, and `RefundsFit` the REFUND row to the request, so that
a refunded order cannot be settled again. `BalanceFits` is `WalletIsRows` over a
finite set of sales. What keeps it at a pickup is that a sale leaves `held` when
it becomes available, for good: an order that a late write made live again is
picked up a second time without moving anything.

### DonationProofs

`PoolTypeCorrect`, `LedgerIsCharity`, `RefundedPledgeIsRaced`,
`GoalIsSucceededOnce`, `PoolsAreConserved`: all properties of `Donations`, for
any finite sets of orders and workers and any amounts, targets and goals
(`AmountAssumption`, `FiniteAssumption`).

    IInv == Shape /\ RowsFit /\ Raced /\ Succession /\ Money

`Shape` holds the types, that at most one pool is open and that workers and
donations name pools that exist; `RowsFit` relates the DONATION rows of an order
to its status, its donation and whether its refund was handled; `Raced` knows
the orders refunded while a worker held them; `Succession` says that a funded
pool has exactly one of a next pool, a worker about to create it and a lost
overflow; `Money` that what the pools hold, what was lost and what the workers
carry is what was pledged and given. Three of those parts need each other:
that a claim moves an overflow from a pool into the hands of its worker needs
that the pool is open, and that it has not been handed over before.

### VotingProofs

`VotingTypeCorrect`, `BagsAreCountedOnce`, `VotesCarryTheirSnapshot`,
`WinnerFollowsTheVotes`, `OutcomeStandsAsAnnounced`: all properties of `Voting`,
of a whole season and from the opening of the ballot (each theorem has
`Spec \/ BallotSpec`), for any finite sets of users and orders and any prizes,
points and numbers of recipients (`SeasonAssumption`).

    IInv == Types /\ EditFits /\ SeasonFits /\ CountsFit /\ BagsFit /\ VotesFit
              /\ ClaimsFit /\ LateFits /\ TallyFits

`CountsFit` bounds the count of an order by the deliveries its event still has;
`BagsFit` says how far the event of an order and the seeding have come when it
is counted; `VotesFit` that the weight a request carries is that of the row it
has read, which is never rewritten; `ClaimsFit` that claimants whose account
is as it was at completion are among the first `recipients` of all such
accounts, which lose members afterwards and gain none;
`LateFits` that a vote inserted after the
ballot closed was in flight then, and `TallyFits` that what a tally found is the
winner of all votes but some of those. The lemmas beneath are about the
rules: a strict total order on a finite non-empty set has a first element
(`FirstExists`), the order of the prizes is one (`BeatsOrders`), so a winner
exists and does not depend on the order in which votes are read (`WinnerIsBest`,
`FoundStays`); no more users rank within `recipientCount` than that
(`WinnersAreFew`), and who does among many does among fewer (`TopOfFewer`), so
that a claimant stays among the first when other accounts leave the ranking.

### Sums

Money and votes are summed with `SumFunction` of the community modules, a
recursive function on the subsets of a finite set. `Sums` proves what a reader
expects of a sum: it exists, does not depend on the order of the elements,
changes by the difference when one summand changes (`SumUpdated`), grows by the
summand when an element is added (`SumAdded`, `SumExtended`), is a natural number
when all its summands are (`SumIsNat`), is zero when they are (`SumIsZero`),
splits into two when every summand does (`SumOfTwo`), and is not changed by
zeroes (`SumPadded`). The
induction theorems of the library take the formula to be proved as a parameter,
which the provers here cannot be given; instead a least counterexample is taken
in the well-founded order of the subsets of a finite set (`MinimalSubset`).

### Only model-checked

- Liveness: `FirstDriverIsRelieved`, `ReconciliationRescues`, `JobsKeepRunning`.
  They rest on fairness, whose ENABLED the provers do not treat.
- The two statements the `violation` runs refute.

## 5. What is not modelled, and the plan

Next, in this order:

1. an abstract `Payment` (an order is paid at most once, and every capture ends
   as the payment of an order or as a refund) that `OnlinePayment` refines
   where it does;
2. what an administrator does with a refund request, and the removal and
   toggling of offers.

Not modelled, and why:

- **Failed pickup lockout**: a counter and a time beside the order flow, which
  only the check of `confirmPickup` reads.
- **The rest of loyalty** (streaks, referrals, badges, the bag goal of the
  month, discount claims): they read the events the modelled parts read and
  write records of their own.
- **Subscriptions and inventory**: plans, periods and stores of their own; of
  subscriptions only the provider is shared.
- **Authentication and authorisation**: a matter of security, not of the
  order flow.
- **Merchant sales, statements, analytics and search**: they read the ledgers
  and write nothing.
- **Notifications, e-mail, websocket**: no state of the order flow depends on
  their delivery.
- **Establishments, organizations, users, waitlist, reviews, favourites**:
  record keeping with little control.
- **Clients and shared packages**: user interfaces and type declarations. Most
  of the lines of the repository are of this and the previous three kinds.
- Within the modelled parts: offers with several items per order (each item is
  treated alike by every handler), pricing beyond the commission, the HTTP
  layer.
