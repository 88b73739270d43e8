# Lingi7: a TLA+ verification of the escrow marketplace

Lingi7 is a Django/Celery marketplace in which a buyer's mobile-money payment is
held in escrow until the goods are delivered. This directory holds TLA+ modules
that model it, TLC configurations that check them, and theorems checked by TLAPS.
`PROJECT.json` maps every definition to the source lines it stands for. All paths
below are relative to `src/lingi7/apps/` unless they start with `config/` or
`assistant/` (that is `src/lingi7/config/` and `src/assistant/`).

Run, in this directory:

    tlc -config MCEscrow.cfg MCEscrow.tla
    tlapm EscrowProofs.tla

## 1. Inventory

### The parts

| Component | State it keeps | Operations | Modelled in |
|---|---|---|---|
| Escrow accounts and ledger (`escrow/services.py`, `models.py`, `state_machine.py`) | `EscrowAccount` (state, balance, version), append-only `LedgerEntry`, `EscrowHold`, `FraudGateLog` | create, hold, mark in transit / delivered, release, dispute, refund, partial refund, freeze | `EscrowStateMachine`, `Escrow`, `FundsCustody`, `EscrowProofs` |
| Escrow auto-confirmation (`escrow/tasks.py`) | one Redis lock per account, a run's snapshot | `auto_confirm_delivered` | `AutoConfirm`, `DeliveryProofs` |
| Escrow reconciliation (`escrow/tasks.py`) | none (reads) | `daily_reconciliation` | `Reconciliation` (partly), `EscrowProofs` |
| Escrow admin (`escrow/admin.py`) | none of its own | release, freeze, refund selected accounts | `Marketplace` |
| Orders (`orders/`) | `Order.status`, `OrderShipment`, `OrderDispute`, order lines | create, submit, confirm payment, acknowledge, ship, confirm delivery, complete, cancel, dispute, resolve | `Marketplace`, `Sale`, `MarketplaceProofs` (status and money), `Inventory` (lines and stock), `Accounts` and `Catalogue` (the gates) |
| Buyer disputes (`disputes/`) | `Dispute.status`, evidence, events | raise, assign, resolve for buyer / vendor, withdraw | `Marketplace` (without evidence and SLA alerts) |
| Collections, webhooks, hold task (`payments/`) | `PaymentAttempt`, `WebhookEvent`, a Redis lock per reference, the Celery queue | initiate a collection, process a webhook, poll, hold the funds | `Payments`, `PaymentsProofs` (without disbursements, circuit breaker, dead letters) |
| Inventory (`products/services.py`) | `InventoryRecord`: stock and reserved quantities | reserve, release | `Inventory`, `Stock`, `CountingProofs` |
| Products and stores (`products/`) | `Store.status`, `Product`: status, enrichment, AI content; the assistant's CSV index | register, approve, suspend a store; create, submit, review, edit, archive, delete a listing; enrich; index | `Catalogue`, `Vetting`, `CatalogueProofs` (without images, categories, reviews) |
| Shipments (`logistics/`) | `Shipment`, `TrackingEvent` | create, dispatch, transition, carrier webhook and poll, confirm delivery | `Shipments`, `DeliveryProofs` |
| Users (`users/`) | `User`: KYC status, card, freeze | register, submit documents, approve, reject, freeze, edit the profile; the order gate | `Accounts`, `Vetting`, `AccountsProofs` (without one-time codes, passwords, tokens) |
| Notifications (`notifications/`) | `NotificationLog`, the Celery queue and result | `send_sms_task`, `send_email_task`, `notify_user_task` | `Notifications`, `CountingProofs` (templates as present or absent; without the read API) |
| Shopping assistant (`assistant/`, `core/ai_views.py`, `cart/`) | the memory service's cart and conversation, a query's `State` | a query through the graph of agents; the posts of the web page's cart | `Assistant`, `AssistantProofs` |
| Fraud scoring (`fraud/`) | scores and rule hits | evaluate | no: its verdict is an input of `ReleaseFunds` |
| Admin audit, recommendations, enrichment service, web frontend, deployment | logs, rankings, texts | - | no, see "Not modelled" |

### How they interact

A view, an admin action or a Celery task calls a service class. `OrderService`
and `DisputeService` call `EscrowService`, which is the only writer of account,
ledger and hold rows. Each `EscrowService` method opens a transaction and locks
the account's row first. So do `UserService` (the user), the stock operations
(the `InventoryRecord`) and enrichment (the product). Everything else decides on
a copy that the request has read without a lock and writes later: `OrderService`
and `DisputeService` write a status, `LogisticsService` and the product
transitions some columns, and the profile, listing, store and (for an admin)
shipment serializers all columns of the copy.

A webhook or a poll confirms a `PaymentAttempt` under a Redis lock with a
30-second TTL and queues `trigger_escrow_hold_on_payment_success`, which calls
`OrderService.confirm_payment`, which calls `EscrowService.hold_funds`.
`create_order` asks the user copy of the request (may it transact?), the listings
(are they live?), and reserves stock. Approving or enriching a listing indexes it
for the assistant. The assistant's cart is another one than the web page's, which
posts to it what it adds.

### What is hard about it, and what makes each part correct

* **Escrow.** Long sequences of legal calls; rounding; a `filter().update()` that
  may match nothing; an exception that rolls back what it announces. Correct
  when money is conserved, the denormalised balance follows the ledger, the
  payout is on record, an order in flight is fully covered, and a settled account
  is final.
* **Auto-confirmation.** Overlapping runs, old snapshots, killed workers, an
  unconditional `cache.delete`. Correct when the lock excludes, a snapshot never
  overrides what came after it, and the lock of a killed worker is given back.
* **Orders and disputes.** Stale checks against the one lock that is taken, the
  account's. Correct when the status of order and dispute agrees with what
  happened to the money.
* **Payments.** Webhooks before, during and after the API call's transaction;
  repeats; polls that fail; expired locks; crashes; at-least-once tasks. Correct
  when the order's total is held once, nothing but a payment confirms an attempt,
  the initiating request never undoes a confirmation, and what was queued arrives.
* **Inventory.** Row locks taken in different orders, orders that fail half-way,
  stale cancellations. Correct when stock is never negative, a closed order
  keeps nothing reserved, and no request waits for ever.
* **Shipments.** Nothing is locked, an admin's edit writes back whole rows, and
  carriers report late, twice or never. Correct when the tracking log has no gap and nothing follows from a delivery
  that is not on it.
* **Users and catalogue.** Old rows written back over a review. Correct when
  what is verified, live, indexed or sold was reviewed, with its card or store.
* **Notifications.** Lost workers, lost answers, retries. Correct when the log is
  true and every dispatched message that has a template is sent or reported as
  failed.
* **Assistant.** Timeouts that leave the query running, bulk adds that are cut
  off, quantities that nobody checks, two tabs. Correct when the cart holds what
  was asked for, each entry once, and a refused exchange is not remembered.

## 2. Modules

An arrow `-->` says "is used by" (EXTENDS or INSTANCE), `=>` "implements the
abstract specification".

    EscrowStateMachine --> Escrow => FundsCustody
    Escrow             --> Reconciliation --> EscrowProofs, MCEscrow
    Escrow             --> AutoConfirm    --> DeliveryProofs, MCAutoConfirm
    Escrow             --> Marketplace    --> MarketplaceProofs, MCMarketplace
    Escrow             --> Payments       --> PaymentsProofs, MCPayments
    EscrowProofs       --> DeliveryProofs, MarketplaceProofs, PaymentsProofs

    Marketplace   => Sale
    Inventory     => Stock      --> CountingProofs, MCInventory
    Notifications               --> CountingProofs, MCNotifications
    Shipments                   --> DeliveryProofs, MCShipments
    Accounts      => Vetting    --> AccountsProofs, MCAccounts
    Catalogue     => Vetting    --> CatalogueProofs, MCCatalogue
    Assistant                   --> AssistantProofs, MCAssistant

* **EscrowStateMachine** is `escrow/state_machine.py`: the adjacency map and
  `Validate`.
* **Escrow**: one action per `EscrowService` method. A method is one transaction
  that begins with `select_for_update`, so it is one atomic action; a method that
  raises leaves nothing behind and is not an action. `release_funds` raising
  `FraudGateError` is kept (`ReleaseFlagged`), because what it reports and what
  it leaves in the database differ. Ledger rows are kept as the sums that are
  read off them (received, refunded, released, credits, newest `balance_after`).
  Amounts are integers in ngwee. `Save` has the limit of the version column.
* **FundsCustody** is the abstract promise: money in once, then to buyer, vendor
  or platform, then nothing. `Escrow` contains the refinement mapping.
* **AutoConfirm**: the steps of `auto_confirm_delivered` for each worker
  (`Start` takes the snapshot, `TakeLock`/`Skip`, `Confirm`, `Unlock`), next to
  any call of `EscrowService` (`Call`), the passing of seven days (`Age`), an
  exception that ends a run (`Abort`), a killed worker (`Kill`) and the TTL
  (`Expire`).
* **Marketplace**: a request is `Begin` (every check, on an unlocked copy)
  and a commit (one transaction) that may come after any other request's steps.
  `Abandon` is a transaction that raised, lost its connection or was chosen as a
  deadlock victim (`raise_dispute` locks account then order, others order then
  account). A commit that `EscrowService` refuses is simply not enabled, and the
  request can only be abandoned.
* **Sale** is the abstract promise about an order: new, on course, stopped,
  settled one way or the other. Goods are sent only while it is on course and not
  contested, only sent goods are contested, a stopped sale waits for somebody to
  settle it, a settled one stays. `Marketplace` contains the refinement mapping:
  the phase is read off account and ledger (`PhaseOf`), not off `Order.status`,
  which stale requests write over.
* **Payments**: `CheckCollection`, `CreateAttempt`, `CallProvider` and
  `SaveResult` are the four parts of `initiate_collection` between which others
  run. What `process_webhook` is told comes from a webhook (`Receive`: of a payment,
  of a refusal, or a status that is neither) or from `poll_pending_payment_status`
  (`Poll`, `PollAnswer`), whose client answers FAILED or TF whenever the status
  query itself goes wrong, so that a poll may tell of a failure nobody decided.
  `Accept` is the event's row and the duplicate check; then come `TakeLock`,
  `ReadAttempt`, `Apply`, `Dispatch`, `Unlock`. `Apply` writes what it was told over
  the row, decided on the copy that `ReadAttempt` made; a status that is neither
  success nor failure saves the copy's. The hold task reads the order
  (`StartTask`) and later commits (`HoldFunds`). Handlers die (`Crash`) or raise
  (`Fail`), locks expire (also under a live handler), tasks fail and come back.
  The provider, the buyer and the broker are outside the source and are modelled
  from how it uses them.
* **Reconciliation**: what the nightly formula makes of the rows.
* **Inventory**: a request reads its order (`BeginCreate`, `BeginCancel`,
  `BeginOperation`) and then takes one row lock per step, in the order of its
  lines or of the products' names (`Reserve`, `Release`), until it commits or is
  rolled back. `Deadlocked` is a set of requests each of which waits for another;
  the database rolls one of them back (`DeadlockVictim`).
* **Stock** is the abstract promise about the units: an order takes all it needs
  or nothing, once, and what is given back are all units of an order, while that
  much is held. `Inventory` contains the refinement mapping (`Pool`). That a
  second cancellation gives back units of others is in both, as in the code.
* **Shipments**: `Read` takes the copy of the shipment. `MarkDispatched`,
  `TransitionStatus`, `IngestTrackingEvent` and `ConfirmDelivery` validate on that
  copy and write their columns over whatever is there (`Write`). `AdminPatch` is
  `AdminShipmentViewSet.partial_update`, which writes all columns of the copy;
  `AdminForm` the form of `ShipmentAdmin`, which writes those it shows.
  `ConfirmDelivery` sends the release timer inside its transaction, and
  `LoseDelivery` is the transaction that is lost after that.
* **Accounts**: `UserService` methods are atomic, since they lock the user.
  `Authenticate` is the view's read of the user, on which permission classes, the
  order gate and the profile serializer go on; `EditProfile` writes all of it.
* **Vetting** is the abstract promise about reviews: only what was reviewed is
  offered, a request claims what is offered when it comes in, and only what was
  claimed is used, however late. `Accounts` implements it with users to clear
  (`Clearance`), `Catalogue` with listings (`Listing`).
* **Catalogue**: the same as `Accounts` for stores and listings (`StartStore`,
  `StartProduct` and the operation), the enrichment task with its retries, and the
  three steps of the index: is it visible, read the CSV, write the CSV.
* **Assistant**: the graph of agents as a `node` per query. A rail's verdict and
  a model's choice are free: `Lists` holds one entry with any whole quantity, or a
  bulk list, of which a zero counts as one and an item may occur several times. The
  entries are posted one after the other, and each answer is lost or not
  (`CartCall`). The memory service adds and removes whatever it is given, so an
  amount is any integer, or `NoRow`.
  `Fallback` is the gateway giving up while the chain goes on.
* **Notifications**: a worker takes a message and goes through the steps of its
  task, one database write or provider call at a time. An event type without a
  template for the channel is `NoTemplate`: no row, and the task goes on as if it
  had sent. `Retry` queues before
  `Ack`, `Crash` delivers the message again, `Kill` is the time limit.
* **EscrowProofs, MarketplaceProofs, PaymentsProofs, AccountsProofs,
  CatalogueProofs, AssistantProofs, DeliveryProofs** (of `Shipments` and
  `AutoConfirm`) and **CountingProofs** (of `Inventory` and `Notifications`):
  theorems, see section 4. Because the theorems of two modules stand in one, the
  initial predicate, next-state relation and specification of `Shipments` and
  `Notifications` have names of their own (`ShipmentSpec`, `LogSpec`, ...).

Definitions whose comment starts with "Variant" are plausible bugs. They are in no
specification; each is put in the place of the definition after it to confirm
that the properties would notice.

## 3. Runs

`CHECK_DEADLOCK FALSE` is set everywhere: a marketplace with a fixed set of
orders really comes to rest, when each account is settled (or has used up its
version numbers), each message is acknowledged and no request is left.

| Run | Instance | Shows |
|---|---|---|
| `escrow` (MCEscrow.cfg) | 2 accounts, amounts 0, 9, 10, 11 ngwee, 6 saves per account; 58 081 states | the safety properties of `Escrow`, the inductive invariant `IInv` (which contains that a refunded buyer got everything), `SettlementIsFinal`, and that `Escrow` implements `FundsCustody` |
| `fraud_freeze` (violation) | same | `FlaggedReleaseFreezes` fails, see section 5 |
| `auto_confirm` | 1 account, 2 workers, 2 kills or aborts; 3 318 states | `LockIsExclusive`, `OnlyUntouchedIsConfirmed`, `LockIsReleased` |
| `marketplace` | 1 order, 2 concurrent requests, 2 `OrderDispute` rows, total 10, partial refunds of 4 or 10; 144 436 states | `NoFulfilmentUnpaid`, `ClosedOrderMovedMoney`, `DisputeOutcomeMatchesMoney`, `DisputeStopsAutoConfirm`, and that `Marketplace` implements `Sale` |
| `payments` | 1 attempt, 2 handlers, 2 hold workers; 203 149 states | `HeldOnceForAPayment`, `SuccessHasPayment`, `SaveKeepsConfirmation`, `QueuedPaymentReachesOrder` |
| `several_attempts` (violation) | 2 attempts through Airtel, 1 handler, 2 hold workers | `SuccessWasPaid` fails, see section 5 |
| `inventory` | 3 orders over 2 products with 2 units each, 2 requests; 16 804 states | stock never negative, no unit lost and nothing left reserved (parts of `IInv`), that `Inventory` implements `Stock` (`OrdersMoveWhole`), `RequestsEnd` |
| `shipments` | 1 order, 2 requests; 1 041 188 states | `LogHasNoGap`, `DeliveryIsOnLog`, the inductive invariant |
| `accounts` | 2 users, 2 cards, 2 requests; 358 122 states | `VerifiedWasReviewed`, `OneAccountPerCard`, the inductive invariant (which contains that buyers were approved), and that `Accounts` implements `Vetting` (`OrdersFollowReview`) |
| `catalogue` | 1 store, 1 listing, 2 requests and the worker, 1 retry; 896 568 states | `OfferedWasReviewed`, `CompletedHasContent`, the inductive invariant, and that `Catalogue` implements `Vetting` (`SalesFollowReview`) |
| `assistant` | 2 queries, 1 item, quantities -2, 0 and 1, lists of up to 2 entries, 1 post of the page; 1 203 527 states | `CartHoldsWhatWasAdded`, `RefusedIsForgotten`, the inductive invariant |
| `notifications` | 2 tasks of each kind, which differ in the templates they have, one of which is dispatched; 2 workers, 1 retry, 1 lost worker; 309 805 states | `LogIsTrue`, `DispatchedIsResolved` |

The type invariant is checked as a part of `IInv`, the inductive invariant of the
module's proofs (section 4), in `escrow`, `inventory`, `shipments`, `accounts`,
`catalogue` and `assistant`. Those of `AutoConfirm`, `Marketplace` and `Payments`
are parts of theirs, and are theorems; the proof's invariants were checked once
with the runs' constants.

### Why the bounds are enough

* **Accounts, orders, shipments, listings.** No operation of `EscrowService` or
  `LogisticsService` touches two rows, and lock keys and payment attempts are per
  account. Two accounts in `escrow` confirm that operations on one leave the
  other alone; one in the other runs leaves room for more actors. For shipments
  and listings the theorems hold for any number. Two users are needed for a card
  that changes hands, and are enough: uniqueness is about pairs.
* **Amounts.** With a fee of 5 %, 10 ngwee give a fee of exactly half an ngwee,
  9 and 11 lie on either side, 0 is refused. Partial refunds of 4 and 10 leave a
  rest of, use up, or exceed a balance of 10.
* **MaxVersion** stands for the width of the version column (2^31 - 1). Six saves
  allow the longest path from PENDING through delivery, dispute, two partial
  refunds or a freeze, to settlement (HELD, IN_TRANSIT, DELIVERED, DISPUTED,
  PARTIALLY_REFUNDED, settled); `marketplace` allows eight. The theorems hold for
  every value. In `payments` two suffice: an account that was paid, or frozen
  before, takes part no more.
* **MaxFailures, MaxCrashes, MaxRetries** bound failures, so that the rest of the
  system gets on. They are two kills for the two workers of `auto_confirm`, one
  dead handler or worker, and one transient failure of a task (the code allows
  two or three retries and each is alike). **MaxDispatched** is 1 in `notifications`:
  the tasks share nothing but the workers, and one task runs twice at a time
  after its worker was lost. **MaxPosts** is 1 and **MaxCalls** 2 in `assistant`:
  one post meets the queries, two entries are the fewest of which one is done and
  one not, and name the one item twice. The quantity 1 is also what a zero counts
  as; -2 takes more away than any one entry gives.
* **Two of each actor** (handlers, hold workers, requests, queries): the races
  are about one actor acting on what another has changed since.
* **Attempts**: one in `payments`, which leaves room for two handlers and two
  workers; `HeldOnceForAPayment`, `SuccessHasPayment` and `SaveKeepsConfirmation`
  are theorems for any number of attempts and any share of Airtel among them.
  `several_attempts` has two, the fewest that can have one transaction id.
* **Stock.** Two orders take both products in opposite order, which is the
  deadlock; the third takes one, so that an order fails at its second line and a
  late cancellation finds units that are another's. `Submitted` keeps two of the
  orders in DRAFT, where they can be cancelled as well.
* **Fraud inputs.** In `escrow` both a rule flag and a score on either side of
  the threshold; in `Marketplace` and `Payments` neither, because no production
  caller of `release_funds` passes them.
* **Symmetry** of requests, users, cards and queries is used only in runs
  that check nothing but safety. The refinements checked among them say the same
  of every request, user and listing.

### Fairness

* `auto_confirm`: weak fairness of each worker's `Run` and of
  `Expire`. A worker that is not killed goes on; Celery's hard time limit (300 s,
  `config/settings/base.py`) is shorter than the lock's TTL (3600 s), so a lock
  never expires under a live run, and Redis drops expired keys. Nothing is assumed of `Start`: the schedule in
  `config/settings/base.py:272-282` has only the two payment tasks, so nothing in
  the repository starts a run, and that an aged account is ever confirmed cannot
  be claimed. Nothing is assumed of `Age`, of callers or of failures either.
* `payments`: weak fairness of each handler's and each hold worker's next step,
  none of arrivals, expiries, crashes, buyers or provider. Tasks are acknowledged
  late and rejected when the worker is lost (`CELERY_TASK_ACKS_LATE`,
  `CELERY_TASK_REJECT_ON_WORKER_LOST`), so a task stays in the queue until it
  returned or gave up. `QueuedPaymentReachesOrder` therefore starts at the queue:
  a process that dies between the commit and `.delay` has no such guarantee.
* `inventory`: strong fairness of each request's next step, since a row lock that
  others take again and again is not continuously free: the database hands it to
  whoever waits before the next comer. New requests are not fair.
* `notifications`: weak fairness of each worker's next step: workers take what is
  queued and get on with it. Nothing is assumed of providers, which may refuse
  for ever, nor of `Dispatch`, `Kill` or `Crash`.

The other specifications state only safety.

### Simplifications

* `process_webhook`'s `get` and `create` of the `WebhookEvent` are one step; the
  unique constraint lets one of two creators through and the other raises.
* `WebhookEvent` status INVALID is left out: signatures are checked by the view,
  and the amount check cannot fail, since an attempt is only created for the
  order's own `total_amount`.
* A webhook tells of a payment or a refusal only if there is one under its
  reference; a poll may tell of a failure at any time, but of a success only if
  there was a payment.
* `mark_error` after an exception is one step with the release of the lock.
* The `is_already_processed` cache check is left out: `mark_as_processed` has no
  caller.
* `PARTIAL_REFUND` with a fractional amount below one ngwee cannot be
  represented; the columns cannot hold it either.
* `Inventory` makes the writes of a transaction when it commits; nobody can see
  them before. The account's state is kept as far as it decides whether an order
  operation goes through.
* `Shipments` keeps the set of statuses that have an event, not their times; a
  carrier's event with the same status adds nothing to it. Refused carrier events
  are not recorded, nor are they in the code. A PATCH that hands the shipment to
  another order, and an admin who picks another status on the form (which records no
  event), are left out: see section 5. `update_carrier_tracking_number` has no
  caller.
* `Catalogue` has one store; the push to the retriever after the CSV is left out.
* In `Assistant` an entry whose name the catalogue does not have is left out of the
  list, and two names that resolve to one item are that item twice. The conversation is the set of exchanges it tells of; a summary
  keeps some of them.

## 4. Proofs

Eight modules hold 59 theorems about `Escrow` and `Reconciliation`,
`AutoConfirm`, `Marketplace`, `Payments`, `Accounts`, `Inventory`, `Shipments`,
`Catalogue`, `Assistant` and `Notifications`, each from an inductive invariant
that TLC checked first: in the module's run, and for `AutoConfirm`, `Marketplace`,
`Payments` and `Notifications` with the constants of their runs. So were the
invariants that are stated in the proof modules only (`OrderMatchesAccount`,
`NothingIsLost`, `NoStandstill`). Sets of accounts, orders, products, users,
listings, attempts, queries, tasks, requests, handlers, workers and amounts are
arbitrary, or finite where it says so. The proofs assume only the named `ASSUME`s
of the modules:

* `AmountsAssumption`, `FeePercentAssumption`, `MaxVersionAssumption` of `Escrow`,
  and the `ServiceAssumption`s by which `AutoConfirm`, `Marketplace` and
  `Payments` meet them;
* `TotalAssumption`: an order costs something;
* `AttemptsAssumption` and `WorkersAssumption` of `Payments`: attempts are
  numbered, the hold workers are finitely many, and "nobody" is no attempt;
* `MaxFailuresAssumption`, `KeysAssumption` (a free key names no worker, idle is
  no account), `AccountsAssumption` (the absent row is no row),
  `CatalogueAssumption`, `AssistantAssumption` (quantities are whole numbers of any
  sign, and the absent row is no amount),
  `InventoryAssumption` (quantities are natural numbers; orders and products are
  finitely many, since what is held is compared with a count),
  `NotificationsAssumption` (a task is of one kind, workers are finitely many,
  bounds are natural numbers), `IdleIsNoWork` (an idle worker has no task).

**EscrowProofs**, for every set of amounts, fee rate from 0 to 100 percent and
version limit:

* `TypeCorrect`, `MoneyIsConserved`, `LedgerAgrees`, `PayoutRecorded`,
  `FullyCovered`, `RefundsAreFull`, `FeeIsFair`: `Spec => [](...)` for each
  invariant of the run `escrow`;
* `SettlementFinal`: the action property that settled accounts do not change;
* `EscrowKeepsCustody`: `Escrow` implements `FundsCustody`;
* `ReportsHeldMoney`: the nightly formula reports exactly the open accounts that
  hold money. Debits equal credits is a part of `Books(a)`, so what is left of the
  formula is the balance.

None of the invariants is inductive alone. That a released account
has a hold row needs that money never arrives without one; that a refunded
account paid the vendor nothing needs that nothing is disbursed before RELEASED;
that flight is fully covered needs that no state which gives money out leads back
to HELD, IN_TRANSIT or DELIVERED. `Books(a)` collects these facts for one account
and `IInv == TypeOK /\ \A a : Books(a)` is inductive. `Sources` reads off the
adjacency map from where each state can be entered, `FeeBounds` bounds the rounded
fee. Because no operation touches two accounts (`OneAccountAtATime`), the step
needs `Books'` only for the account operated on; `BooksOfOthers` carries the
rest, and there is one lemma per kind of operation (`BooksHoldFunds`,
`BooksRelease`, `BooksRefund`, `BooksPartialRefund`, `BooksSetState`). For the
refinement, one lemma per abstract action (`CustodyDeposit`, `CustodyGiveBack`,
`CustodyBuyer`, `CustodyVendor`) and `CustodyStutter` for the moves that no money
goes with; `IInv` is needed there for "money arrives at most once" and "vendor and
platform had nothing before".

**DeliveryProofs**, about `AutoConfirm`: `LocksExclude`,
`OnlyUntouchedAreConfirmed`, `RunsFollowService`, `RunsKeepCustody`, `RunsAreTyped`,
all from `WorkersOwnTheirLocks`.
The key of a lock is deleted without a look at who set it. It excludes all the
same, because a worker that is between `cache.add` and `cache.delete` owns the key
of its account (`Owns`): only `Expire` frees another's key, and it waits for the
run to be gone. An old snapshot does no harm because nothing but HELD leads to
IN_TRANSIT, and no account comes back to HELD or before it (`Saved`): an account of
the snapshot is out of transit for good, or has not been touched since
(`Snapshot`). That a worker calls the service for an account that is there
(`Owns`) is also what makes each of its steps an operation of `EscrowService` or
none: `Spec => EP!Spec` with `EP` for `EscrowProofs`, from which custody and types
follow without another proof.

**MarketplaceProofs**: `FulfilledArePaid`, `ClosedMovedMoney`,
`OutcomesMatchMoney`, `DisputesStopAutoConfirm`, and two refinements. Requests
write the status of orders and disputes over each other, so of the statuses
alone nothing holds. What holds is read off the account, which is decided on under
its lock: `Sound(o)` ties each status that is claimed to money that moved. It is
kept because what a request saw stays true as far as that money goes
(`Carries(p)`: whoever acts on a paid order acts on money that was received,
whoever acts on a dispute on one that exists), and neither is ever taken back.

* `AccountsFollowService` composes the theorems: seen from the accounts, each
  step of orders, disputes, admins and tasks is one operation of
  `EscrowService` or none, that is `Spec => EP!Spec`, where `EP` is `EscrowProofs`
  with orders for accounts. So `EP!IInv` needs no second proof (`CallIsStep` and
  `BooksStep` of `EscrowProofs`), and `MarketplaceKeepsCustody` follows.
* `MarketplaceIsSale`: the composed system implements `Sale`. Most operations are
  seen through the one call they make of `EscrowService` (`CallIsSaleStep`);
  shipping (`ShipIsSaleStep`) and raising a dispute (`DisputeIsSaleStep`) move two
  variables of `Sale` at once, everything else none. `IInv` is needed for "goods
  that are in transit were sent" and "the vendor is paid from the course only once
  they were".

**PaymentsProofs**: `TotalIsHeldOnce`, `SuccessesHavePayment`,
`SavesKeepConfirmations`, `PaymentsKeepCustody`, `OrdersMatchAccounts`,
`TasksAreNotDropped`, for any number of attempts through either provider. None of it
needs the webhook lock, which is deleted without a look at its holder and expires:
the proofs do not mention it. Nor does any of it need that a failure was decided by
somebody. They rest on these facts:

* a payment, once made, stays made, so whoever was told of a success goes on having
  a payment under the reference (`HandlerSound`), and a copy that says SUCCESS has
  one too, however old it is when it is written back;
* a reference is stored together with the result of the call (`AttemptSound`), and
  a handler finds the row by its reference, so that after it nothing of
  `initiate_collection` can write over the status. That is all of
  `SavesKeepConfirmations`: a confirmation can be taken back, but only by a handler
  that was told of a failure or saves an older copy;
* a task that a worker runs is still in the queue, and nothing is queued without
  a payment (`TaskSound`). The workers on one attempt are counted, which is why
  they have to be finitely many;
* the account takes money out of PENDING only, and never comes back to it
  (`MoneySound`, with `EP!IInv` for the account).

All Airtel attempts of an account share one transaction id (section 5), so a success
has a payment under its reference, if perhaps another attempt's; the stronger
`SuccessWasPaid` is refuted by the run `several_attempts`.

`TasksAreNotDropped` is what can be proved of `QueuedPaymentReachesOrder`: the
broker forgets a hold task only when the order no longer waits for a payment or its
account was frozen. It needs `OrdersMatchAccounts`: an order that waits has an
account that is PENDING or FROZEN, so that a refusal by the service can only mean
that it is frozen. The task looks at the order without a lock, and an invariant of
the order alone would not do.

**AccountsProofs**: `VerifiedAreReviewed`, `CardsAreUnique`, `BuyersAreApproved`,
`OrdersAreVetted`. A profile edit writes back a row read long ago, so the properties
say nothing of the next state unless the row in the request's hands is known to be
good. `Sound(u, row)` says what a row must satisfy, `Carries(r)` that what a request
holds does; both speak of `approved`, which only grows, so what a request read stays
true (`CarriedStays`). One lemma covers the steps that write no row, one those that
write one (`RowsUnchanged`, `RowWritten`). `OrdersAreVetted` is the refinement: what
writes a row changes at most the offer (`OffersChange`), what begins or ends a request
the claims (`RequestBegins`, `RequestEnds`), and only an order that has a claim is
placed. The invariant is needed for "who is cleared was reviewed".

**DeliveryProofs**, about `Shipments`: `ShipmentsAreLogged`, `LogsHaveNoGap`,
`DeliveriesAreOnLog`. Status, delivery date and confirmation may all jump back to
what an older copy says, but the log only grows: the status of a copy, however old,
is still on the log when its request writes, and so is the delivery if the copy has
a date or a confirmer (`Copied`). So a new event always has a predecessor there
(`WriteKeepsIInv`), and an edit that writes a whole copy back brings nothing that is
not on the log. What an edit takes away is not promised: a delivery that is on the
log may have lost its date. A timer may stand for a delivery that was not committed,
but never for goods that were not out for delivery.

**CountingProofs**, about `Inventory`: `StockIsNeverNegative`,
`NothingStaysReserved`, `UnitsAreConserved`, all from `StockIsSound`
(`Spec => []IInv`). What an order reserved and a cancellation returns are checked
against the stock, not against each other, and the order is read without a lock;
two stale cancellations return one order's units twice. What holds needs no more
than the row locks: what a request found in the rows it has locked is there until it
commits (`Holds`), since no two requests have locked a row together (`Apart`). So a
release never takes more than is held, and `held` is at most what the live orders
are made of: `CreateKeeps` adds an order that was none before, `CancelKeeps` takes
out as much as the order can account for, and `OperationKeeps` at most turns a
cancelled order into a live one. The units are counted as a set (`Units`), one
element for each, so that the library's theorems on cardinality replace an induction
over a sum (`FewerUnits`, `MoreUnits`).

* `StockMovesWhole`: `Inventory` implements `Stock`. The locks are taken line by
  line, in orders that differ, and the commit relies on what each of them guards
  (`LinesLocked`); `StepMovesWhole` shows that every commit moves one whole order
  and nothing else moves a unit.
* `NobodyWaitsUnnoticed` is what can be proved of `RequestsEnd`: as long as there
  is a request, one of them is ready to go on or is in a deadlock that the database
  detects (`NoStandstill`). Who is not ready waits for a row that another has locked
  (`ReadyOrWaiting`), and if nobody is ready all requests together are a deadlock.
  Of the lines left one is always the next (`SomeLineIsNext`): every set of natural
  numbers has a least one, which is proved from the library's theorem that finite
  sets are well-founded under inclusion (`Smallest`).

**CatalogueProofs**: `OffersAreReviewed`, `CompletedEnrichmentsHaveContent`,
`SalesAreVetted`. The same argument a third time, for copies of stores, listings and
the index: `Kept(p, row)` for rows, `Vetted(S)` for sets of listings, `Carries(r)`
for what a request holds, all monotone in `reviewed` (`ReadStaysRight`).
`SalesAreVetted` is the refinement of `Vetting` with listings for users.

**AssistantProofs**: `AssistantIsSound`, `TypeCorrect`, `RefusedAreForgotten`. A query
carries the conversation from its start to its end and writes it back over what
others wrote since. An exchange gets out of its own turn only after both rails have
passed it, and then nothing of its turn changes their verdicts (`Vetted(t)`), so a
context may be of any age. What the cart adds up to is a sum over lists of calls,
which is computed by recursion over data, and is left to the run
(`CartHoldsWhatWasAdded`); proved of it is that the amounts stay whole numbers and
that no query is answered more calls than it has.

**CountingProofs**, about `Notifications`: `NotificationsAreSound`, `LogsAreTrue`,
`TasksAreNotLost`. That a task writes at most `MaxRetries + 1` rows for a channel, and
as many again for each worker lost, cannot be seen at one worker: a lost message may
run next to its own retry. So everything a task has under way is put into one account
(`ChannelSound`): a message in the queue is worth the attempts it has left
(`Attempts`), a busy worker those after its own and the row it has still to write
(`ToCome`), and with the rows that are written they stay within the budget. The
same for the accepted messages, which are covered by the rows that are PENDING
(`Open`, `Calling`, `Taken`), and for a send task, which is in one place at a
time but for the workers lost (`SendSound`). A success has a row only if the event has
a template for the channel (`HasTemplate`), and that is all that `LogIsTrue` says. A
step of a worker moves what it is worth between the entries of an account (`Balanced`, `WorkerKeeps`), and only a lost
worker adds to the budget. The totals are cardinalities of sets of pairs (`Total`), of
which a step changes one entry (`TotalMoves`). `TasksAreNotLost` is what can be
proved of `DispatchedIsResolved`: a task that was dispatched is in the queue, with a
worker that has not handed it back, or has its result (`NothingIsLost`). Retries are
queued before the message is acknowledged, so there is no step between the two in
which a crash could forget it (`StepLosesNothing`).

Only model-checked: `CartHoldsWhatWasAdded`, as said above, and liveness
(`LockIsReleased`, `QueuedPaymentReachesOrder`, `RequestsEnd`,
`DispatchedIsResolved`), which is outside what the prover handles. The safety halves
of the last three are theorems (`TasksAreNotDropped`,
`NobodyWaitsUnnoticed`, `TasksAreNotLost`): nothing is forgotten on the way; that
the way is walked to its end rests on fairness.
Every other property of a passing run is a theorem.

## 5. Findings

**A flagged release does not freeze** (`escrow/services.py:377`, run
`fraud_freeze`). `FraudGateError` is raised inside the transaction that freezes
the account and logs the verdict, so both are rolled back. The docstring says
that the account will be in FROZEN state.

**Two Airtel attempts have one transaction id** (`payments/services.py:313`, run
`several_attempts`). `initiate_collection` passes `idempotency_key[:20]`, which ends
inside the account's UUID and leaves the attempt's number off. The buyer pays the
first prompt late, the webhook finds the newest row with that id, and the second
attempt is recorded as SUCCESS. `providers/airtel.py:163` documents the argument as
"Unique transaction ID for idempotency".

The following were met while modelling. The models contain the behaviour; no run
is devoted to it.

Money:

* every funded account is listed as a discrepancy by the nightly reconciliation
  (`escrow/tasks.py:84`): both sides of each double entry are under one account, so
  debits minus credits is always 0, which `ReportsHeldMoney` proves. The task's
  docstring (`escrow/tasks.py:43-46`) takes that difference for the expected balance
  and flags discrepancies, and `test_reconciliation.py:42-45` and `61-74` expect PASS
  for accounts that hold money. No property of a run says what the report ought to:
  the rows do not have it;
* a payment's confirmation can be taken back: a status query that times out or fails
  is answered FAILED or TF (`providers/airtel.py:282-301`, `mtn_momo.py:392-411`) and
  handed to `process_webhook` as a failure (`payments/tasks.py:133-152`); if it was
  under way when the webhook of the payment came, it writes FAILED over SUCCESS
  (`payments/services.py:636`). The hold task is queued by then;
* such a poll, or a webhook with a status that is neither success nor failure, also
  consumes the event of its (provider, reference): the later webhook of the payment
  is a duplicate, and the payment is lost (`payments/services.py:536`);
* a staff cancellation refunds nothing (`orders/services.py:513`), though its
  docstring speaks of an auto-refund path;
* completing a disputed order disburses (`escrow/services.py:477`) while the
  buyer's dispute stays open;
* a webhook that overtakes the saving of the reference is consumed
  (`payments/services.py:643`): PROCESSED without effect, and its repeats are
  duplicates;
* resolving a buyer's dispute never updates the order, which stays DISPUTED
  (`disputes/services.py:437`);
* dead letters are created with `next_retry_at` NULL and are never selected for a
  retry (`payments/tasks.py:287`);
* `auto_confirm_escrow_release` names a field and a method that do not exist and
  always fails (`logistics/tasks.py:175`);
* nothing schedules `auto_confirm_delivered` or the reconciliation:
  `config/settings/base.py:272-282` lists only the two payment tasks, though the
  header of `escrow/tasks.py` says that they are registered.

Copies written back:

* a profile edit saves every column that authentication read, so that a freeze in
  between is undone (`users/views.py:191`, `serializers.py`); `VerifiedWasReviewed`
  and `OrdersFollowReview` speak of reviews and do not notice it;
* a delivered shipment is thrown back by a stale request, and a carrier's
  delivery starts no release timer (`logistics/services.py`);
* an admin's PATCH saves the whole copy it read (`logistics/views.py:254`), so that a
  delivery in between loses its status, its date and its confirmation; it may also
  hand the shipment to another order. The form of `ShipmentAdmin` brings an old
  status back, and may set any other without a tracking event;
* the release timer is sent inside the transaction of `confirm_delivery`
  (`logistics/services.py:432`), although the comment above it says that it
  is sent "AFTER the atomic block completes";
  it runs also for a delivery that was rolled back;
* two stale cancellations of one order release its stock twice, out of what other
  orders reserved (`orders/services.py:536`);
* a suspension of a store or an archiving is undone by a stale edit
  (`products/views.py:290`); the index is never pruned, and concurrent indexing
  loses rows (`products/assistant_index.py:98`).

Lost or stuck:

* enrichment's FAILED is rolled back by the error that reports it
  (`products/enrichment/service.py:128`);
* an event type without a template for the channel ends its task as SUCCESS, without
  a log row (`notifications/services.py:134` and `261`), as
  `test_send_sms_unknown_event_returns_none` expects;
* nothing checks the quantities that the assistant's model names
  (`assistant/chain_server/src/cart.py:715`, `memory_retriever/src/main.py:57`): a
  row may hold nothing or less, and a negative removal adds;
* `notify_user_task` never retries a channel that FAILED, though the header of
  `notifications/tasks.py` speaks of retries;
* `CartRemoveView` names a serializer that it does not import, `delete_image`
  a `models.F` that is not there;
* the gateway's fallback says the assistant is unavailable while the query goes
  on and adds the item;
* in the web client (`src/lingi7/frontend/src/api/client.ts:122`) a 401 without
  a refresh token leaves `isRefreshing` set, and every later 401 of the page waits
  for ever.

## 6. Not modelled, and why

* **Fraud scoring** (`fraud/`): pure numeric rules and an ML score. No production
  caller hands its result to `release_funds`; the model takes it as a free input.
* **Recommendations**: read-only ranking. **Admin audit**: an append-only log that
  no operation reads.
* **One-time codes, passwords, tokens** (`users/`): no state that the order gate
  or the money path reads.
* **Disbursements, circuit breaker, dead letters** (`payments/`): a disbursement
  has no caller that settles anything, the dead-letter loop selects nothing, and
  the breaker only decides whether an attempt fails before or after the call,
  which `Payments` leaves open anyway.
* **`src/enrichment`, `src/assistant/catalog_retriever`**: stateless services
  around language and image models; what the marketplace does with their answers
  is in `Catalogue` and `Assistant`.
* **The web frontend** but for its cart's posts, **seed commands, notebooks,
  deployment**: user interface and scripts.
* **`src/lingi7.worktrees/`**: an older copy of the same application.

The map covers about a tenth of the repository's lines. The Django application's
packages are under half of them; the frontend, the older copy, the notebooks and
the model services are the rest, and in the application serializers, admin
pages, seed data and views that only read have no behaviour to check.

## 7. Plan

Done: everything in section 2.

Next, in this order:

1. An abstract specification of a message for `Notifications` (asked for, taken by
   the provider, reported), which `LogsAreTrue` and `TasksAreNotLost` together
   come close to.
2. `Payments` with disbursements, once something settles them.
3. Weak fairness of `Catalogue`'s enrichment task, once a failed enrichment is
   kept: that every submitted listing ends COMPLETED or FAILED.
