# A formal model of the makexyz API

TLA+ modules of the parts of this API where money, parcels and promises are at
stake, model-checked with TLC on small instances; the checkout, the order's life,
payouts, labels, quotes, what the vendor earns, who may take an order, whose a
guest's work is and what reaches a vendor in a message are proved about with TLAPS,
for any number of requests, vendors, job runs, webhooks, files, messages, parts and
people.

The API is an AdonisJS application on PostgreSQL. Customers upload files, get
quotes from vendors, accept one and pay; a vendor accepts the order, prints,
buys a shipping label; when the parcel arrives the vendor is paid out. Requests
run concurrently (several processes, one database), every handler awaits between
its statements, and jobs run hourly (`start/scheduler.ts`). Stripe, PayPal and
EasyPost are called from the middle of handlers and call back by webhook.

## Inventory

| Component | State | Operations | What is hard |
|---|---|---|---|
| Checkout (`checkout_service.ts`, `checkout_sessions_controller.ts`, `jobs/expire_checkout_sessions.ts`, payment gateways) | `checkout_sessions`, `payments`, the provider's holds, `orders` (created here) | pay, resume after 3D Secure, capture at acceptance, expire | find-then-insert without locks, provider calls between statements, a hold that nobody records |
| Order acceptance (`order_acceptance_service.ts`) | `orders.status`, `vendor_id` | conditional claim, then capture | two vendors, a vendor against the expiry job, a capture that fails after the claim |
| Routing and production (`order_routing_service.ts`, `order_production_service.ts`, `jobs/escalate_order_routing.ts`) | `orders.routing_stage`, production status | route, escalate, start, complete | escalation against acceptance |
| Vendor payouts (`vendor_payout_service.ts`, `jobs/process_vendor_payouts.ts`, payout gateways) | `vendor_payouts`, transfers at Stripe and PayPal | schedule, hold, claim, send, recover, fail, release, cancel, retry, webhook | lost answers, overlapping runs, events of an earlier attempt, refunds and disputes at any time |
| Payout accounts (`vendor_payout_method_service.ts`) | `vendors.payout_*` | connect, switch rail, refresh, recover | a recovery racing a claim |
| Shipments (`shipment_service.ts`, label gateway) | `shipments`, `shipping_labels`, labels at EasyPost | claim with a lease, buy, release, void | a purchase whose answer is lost, a lease taken over from a slow request |
| Tracking (`shipment_tracking_service.ts`, `easypost_webhooks_controller.ts`) | `shipments.status`, `orders.status` | apply a tracker event | events out of order and about voided labels |
| Refunds, disputes, webhooks (`refund_service.ts`, `webhook_event_service.ts`) | `refunds`, disputes in `audit_events`, `webhook_events` | record refund, record dispute, apply each event once | duplicates, partial refunds |
| Quotes (`quote_generation_service.ts`, `quote_split_service.ts`, `auto_quote_service.ts`, `technology_lock_service.ts`) | `quotes` in lineages of revisions | price, regenerate, configure, requantify, split, reject, accept | handlers that read a quote while it was open and write after it was accepted; slicer callbacks in any order |
| Projects and files (`project_files_controller.ts`, `jobs/expire_abandoned_projects.ts`, `jobs/purge_expired_projects.ts`) | `projects.status`, `project_files` | upload, slicer progress and answer, switch technology, change material, expire, purge | an answer of a job for another technology, a purge against a customer who comes back |
| Payout amounts (`payout_calculation_service.ts`, rates in `admin_vendor_payouts_controller.ts`) | `vendor_payout_rates`, the snapshot on `vendor_payouts` | snapshot at acceptance, recompute on a correction, adjusted release | two corrections at once, a correction meeting acceptance, release or the job; rounding |
| Onboarding, invitations (`vendor_onboarding_service.ts`, `invitation_service.ts`) | `invitations`, `vendors.status`, capabilities, tax forms, agreement version | accept an invitation, submit, review, activate, suspend, reinstate | a vendor's edit between the administrator's checklist and the save |
| Customers, guest claims, addresses (`lead_customer_service.ts`, `customer_claim_service.ts`, `guest_claim_service.ts`, `address_service.ts`) | `customers`, the customer columns of projects, sessions, orders, addresses | attach a lead, sign up, claim by grant, claim by link, merge, save and delete an address | a merge deletes a row that requests in flight still hold |
| Messaging (`message_service.ts`, `conversation_service.ts`, `attachment_service.ts`) | `messages`, `conversations`, `message_attachments` | send, hold, scan, deliver, sweep, report, close, reopen | asynchronous analysis and scans against a moderator |
| Moderation (`message_analysis_service.ts`, `moderation_case_service.ts`, `messaging_risk_service.ts`, `moderation/combiner.ts`) | `moderation_cases`, the sender's trust tier | analyse in passes, open and resolve cases, restrict | passes and decisions that cross |
| Calculators (`fdm_pricing_calculator.ts`, tax) | none | prices | floating-point formulas |
| Manual projects; directory, search, geocoding; accounts; models and validators | copies of a thread's files, caches, none | queries, single writes | only clean, delivered attachments are copied (not checked) |

The components interact through rows of the database (the order row is written
by checkout, acceptance, expiry, tracking and refunds), through direct calls
(acceptance calls capture; a delivery calls the payout schedule; a full refund
cancels a payout) and through webhooks. What each must keep true:

- *Checkout and acceptance*: a quote is authorized once; an order a vendor can
  take has its money held; a taken order is never taken away; it is charged at
  most once and, if it can be, at least once; every hold ends captured or given
  back.
- *Payouts*: one order is paid to its vendor at most once, never before delivery
  or after it was written off, and what the row says agrees with the provider.
- *The order's life*: it moves forward only; a refund is recorded once, and a full
  one refunds the order and stops the payout.
- *Earnings*: a payout is within what the customer paid, shows what was sent, and
  follows a correction of the order's parts.
- *Quotes*: an accepted quote is never changed; revisions do not collide; a file
  that can be priced gets priced, whichever callback comes last.
- *Vetting*: whoever has an order passed every review for it.
- *Messaging*: what waits for a person is on a person's list, what was held does
  not stay held, no file goes out unseen.
- *Claims*: an account's work stays its own, and nothing is lost with a guest's row.
- *Shipments*: a label is bought once and a paid label is never lost; an order
  moves forward only, and a delivery reaches it whatever order the events take.

## Modules

| Module | What it is |
|---|---|
| `Sale` | the abstract specification of checkout: orders are placed, taken or withdrawn, and each taking owes one charge |
| `Checkout` | pay requests, acceptances and expiry runs of one quote, statement by statement |
| `MCCheckout` | its small sets and symmetry for TLC |
| `CheckoutProofs` | the inductive invariants of `Checkout`, of every behaviour and of it until it is disturbed, the proof that it implements `Sale`, and what follows |
| `VendorPayout`, `MCVendorPayout` | payouts, the job's runs, both rails, webhooks, administrators, the vendor's account |
| `VendorPayoutProofs` | the inductive invariants of its rows and of where the money is, and what follows |
| `Shipment`, `MCShipment` | label purchases and voids of one order, EasyPost, the carrier's scans and their webhooks |
| `ShipmentProofs` | its types, the inductive invariant of the labels, and what follows |
| `OrderLifecycle`, `MCOrderLifecycle` | one order from checkout to payout and refund: production, deliveries, payment webhooks and the payout job together |
| `OrderLifecycleProofs` | its inductive invariant, the theorems that follow and its refinement of `Sale` |
| `Quoting`, `MCQuoting` | one project: files, the slicer's answers, lineages of quotes, expiry and purge |
| `QuotingProofs` | its inductive invariant, the count of its jobs and handlers, and the theorems that follow |
| `Handlers` | the requests and job runs at work in `Vetting` and `Messaging`: their slots, what each holds in memory, the bounds on them |
| `Messaging`, `MCMessaging` | one inquiry: a message with a file through the rules, the queued analysis, the scan, moderators and the sweep |
| `Earnings`, `MCEarnings` | one order's payout in cents: snapshot, corrections, releases, sends |
| `EarningsProofs` | its inductive invariant and the theorems that follow |
| `Vetting`, `MCVetting` | a vendor from its invitation to its first order, with routing and escalation |
| `ReviewProofs` | the inductive invariants of `Vetting` and of `Messaging`, and the theorems that follow |
| `Claims`, `MCClaims` | guests, accounts and whose the projects, addresses, sessions and orders are |
| `ClaimsProofs` | its inductive invariant and the theorems that follow |

`OrderLifecycle` composes the others at a coarser grain: its checkout is what
`Sale` promises (`Checkout` is proved to implement it, and `OrderLifecycle` to
keep it), its delivery is one step of what `Shipment` does scan by scan, and its
`SettlePayout` one step of what `VendorPayout` does send by send. In exchange it
has what only the whole shows: a refund meeting a delivery, a claim and a
release. `Earnings`, `Vetting` and `Claims` each look at the same rows from one
side: what the payout is worth, who may take the order, and whose it is. They
repeat of the others only what moves them (`Earnings` has of the payout job one
run and one key, `Vetting` of the order its status and stage, `Claims` of the
checkout the rows it writes).

### How the modules correspond to the code

A step of a model is one database statement, one transaction or one call to a
provider. What a request keeps in local variables between two steps is its
*memory* (`pay`, `accept`, `expire`, `job`, `connect`, `buy`, `void`), with a
program counter that names the next statement. A row lock (`FOR UPDATE`) held
over several statements is not a variable: it follows from the counters
(`OrderLocked`, `PaymentLocked`, `Locked`), and a statement that needs the lock
waits. A transaction that rolls back ends its process with the rows as they
were, but what a provider did stays done.

Some guarantees hold until something happens that the code does not prevent. The
models take those steps too. A history variable, which no action reads, records
that one was taken, and the property says what holds until then: `disturbed`
(`Checkout`), `crossed` (`VendorPayout`), `again` (`Messaging`), `overtaken` and
`missed` (`Earnings`). `Quoting` needs none: its state shows that a split is
`Overtaken`. The divergences below tell what happens afterwards.

**Checkout.** Every query in the code is filtered by the quote, so the model is
about one quote. A session, payment, hold or order is named by the pay request
that creates it. `LookUpOrder` … `FailPayment` are the statements of `pay`,
`createCheckoutSession`, `authorizeCheckoutSession`, `finalizeAuthorization` and
`failAttempt`; `ClaimOrder` … `CommitCapture` those of `acceptOrder` and
`captureCheckoutSession`; `PickExpired` … `CommitExpiry` those of the job and
`expireCheckoutSession`. `.first()` without an order is any matching row.
`Mishaps` says what may go wrong: the card is declined, needs 3D Secure, the
provider throws, a process dies. `disturbed` records the first time that two pay
requests were running at once, a transaction waited for 3D Secure (`Disorder`), or a
process died (`Dies`).

**VendorPayout.** A payout is a record of the columns that steer it. `transfer`
is what each provider did under each attempt's idempotency key: the same key
never moves money twice at one provider, a new attempt has a new key, and the
other provider has never heard of it. `ReadClaim`/`CommitClaim`
are the two halves of `processPayout`'s transaction; `ListStuck`, `Load`,
`LookUp` those of `recoverProcessingPayout`; `Send` the provider call;
`RecordSent`/`RecordFailure` the conditional updates after it. `PaypalSettles`
lets PayPal settle an item by itself and `PayoutEvent` applies the webhook, in
any order. `Refresh`, `LoadVendor`, `SaveMethod` and `RequeueBlocked` are the
vendor's account. One of the `Mishaps` is not a failure: `"concern"` lets a refund
in full or a dispute arrive. With `"lateClaim"`, PayPal may not cancel an unclaimed
item when it is asked to (the code logs that and goes on); it is then `kept`, and the
vendor may claim it or PayPal give it back. A row whose attempts are used up
(`MaxAttempts`) is left as it is. `crossed` records the first of three things
(`Crosses`): two runs are at work on one payout; a payout that a run has listed as
stuck (`Listed`) changes before the run recovers it; or a payout fails because its
money is unclaimed, and that money stays out.

**Shipment.** `Claim` inserts or takes over the row under its lease; `LookUp`
asks EasyPost what a predecessor bought; `Create`, `SaveId`, `Buy`, `Finalize`
and `Release` buy and record. `Scan` is the carrier, `Tracker` the webhook, with
the transitions of `applyTrackerUpdate`. A void is checked, refunded and
committed in three steps.

**OrderLifecycle.** One order, its payment, its payout. `made` and `dispute` are
the provider's; `Sent` is what it has told of. A webhook request is one
transaction: `ReceiveEvent` looks the event up in `webhook_events` and the payment
by its transaction id, `CommitEvent` records the refund or dispute and marks the
event, `RollBackEvent` is a request that loses to the unique index or dies.
`Amount` is the difference between the providers: Stripe's event carries the sum
refunded so far, PayPal's the one refund. `ReadClaim` and `CommitClaim` are again
the two halves of `processPayout`'s transaction. Rows are as old as their commit;
the code compares `created_at` with `released_at`, see the hazards.

**Quoting.** Every handler is two actions, `...Read` and `...Save`: what it read
without a lock, and the one statement or transaction that writes. A save writes
the changed columns only, whatever the row has become. A slicing job is a number
of deliveries not yet answered (the queue delivers at least once); an answer does
not say which job it is of, so an old technology's answer can land on a switched
file, as in the code. `AutoQuote` runs inside the answering request and reads
files and quotes in one step. `Open`, `Root`, `Lineage` are the queries that find
a quote's siblings. A quote's `born` is the quote its lines were first written
for, since a split moves lines by their ids, wherever they are by then: two splits
of one quote at once take lines from each other's quotes. `Overtaken` says of a
split under way that the quote is out of review or that lines to be moved have
left it. Left out: prices, quantities, materials (but for their being changed),
storage; a worker's progress call ends before its own answer is sent.
`QuotingProofs` needs the handlers to be finitely many, which they are: they run
in a few processes.

**Messaging.** `SendRead`/`SendSave` are `sendMessage`, with the rules' verdict on
the text (any of `Texts`, each time it is judged) combined with what the files say
(`FileDecision`). `queue` holds the `AnalyzeMessage` jobs; `PassRead`/`PassSave`
one pass, `PassFails` the job's failure handler, `SweepHeld` the sweep's final
pass. `ScanRead`/`ScanSave` are the scan. `CompleteRead`/`CompleteSave` are
`completeUpload`: what a call found before it asks S3 for the object, and the save
and dispatch after; a second call may have done both in between, and writes over
whatever the file has become. `again` records the files that were completed twice.
Whether S3 has the object is left out: a call or a scan that does not find it ends
as one that dies does. The moderators are `ApproveRead`, `BlockRead`, `Resolve`
and `ClaimSave`; `RefreshRead`/`RefreshSave` are the recomputed risk profile,
which also stands for the refresh at the end of a block. `Crash` ends any handler,
and counts as a request (`MaxRequests`), as a failed job does.
`MessagingAssumption` says what the constants are: known operations and verdicts,
and a `None` that is no message and no reason. Its specification is
`MessagingSpec`, so that one module can prove about it and `Vetting`.

**Earnings.** The transaction of a correction is taken statement by statement
(`checked`, `saved`, `selected`, `computed`, then the commit), with the row locks
it holds: the part from its save on, the payout from its `FOR UPDATE` on.
Nobody sees an uncommitted material, and `AsSaved` is what the transaction itself
sees. Amounts are integer cents, percentages hundredths of a percent, and
`Share` is `Math.round` of the product. `ListStuck` and `Recover` are the job's list
of stuck payouts and the recovery of one, which loads it by its id later and sends it
without a look at its status. `missed` records that a correction was committed that
did not find the payout, `overtaken` that the job sent a payout, or tried to,
that was not processing any more.

**Vetting.** `run` holds what a handler read; `ReviewSave` and the other saves
write the columns that differ from it. `ReviewComplete` is the administrator's
checklist, `Covers` the query of routing and acceptance. `approved` is a history
variable. An order's own steps are not counted as requests (`BeginFree`), so that
the bound is spent on the vendor and the administrators.

**Claims.** Rows name their customer; a transaction is one step, because
`claimProject` holds the project's row and `mergeGuestCustomer` the guest's, and
an insert or update that refers to them waits for a foreign key's share lock.
`GiveUp` is every other end: a foreign key that fails, a deadlock, a crash.
`Deleting` and `Nulling` are the foreign keys' actions when the guest's row goes.

## What the runs check

| Run | Question | Result |
|---|---|---|
| `checkout_any` | three pay requests, two vendors and two job runs at once, every mishap | type, `ChargesBacked`, `LedgerHonest`, and the refinement `KeepsPromise` hold; `AuthorizedOnce`, `OpenOrderFunded`, `PaidAtFirst` hold until the checkout is disturbed |
| `checkout_serial` | pay requests one after the other, with declines and refused cancels and two overlapping job runs, under fairness | `OpenOrderResolves`, `HoldResolves` hold |
| `payout_rails` | both rails, a refund in full or a dispute, refused, unclaimed, late claimed and returned items, lost answers, a rail switch, events at any time, one job run | type holds; `PaidOnce`, `SendsOnlyClaimed` hold until `crossed` |
| `payout_stripe` | two payouts on the Stripe rail with crashes and restrictions of the account, under fairness | `ProcessingEnds` holds |
| `shipment_any` | three purchases, a void, crashes, lost answers, events in any order | type, `BoughtOnce`, `NoLabelLost`, `ForwardOnly`, `DeliveryReachesOrder` hold |
| `order_any` | one order, either provider, two vendors, two refunds, a dispute, two webhook requests at once, under fairness of the payout job | type, `RecordedOnce`, `StripeRefundReachesOrder`, `OneDirection`, `RefundStopsPayout`, and the refinement `SoldAsPromised` hold |
| `quoting_any` | two files answered, configured, requantified, split, accepted, bought, expired, purged by two handlers at once, two splits of one quote among them | type, `FrozenOnceAccepted` hold: only an overtaken split changes an accepted quote |
| `quoting_slicing` | callbacks in any order and twice, against switches of technology, material and quantities and prices by an administrator, under fairness of the queue | `SystemRevisionsDiffer`, `QuotedInFull` hold |
| `messaging_any` | one message with a file whose upload may be completed twice; passes, scans, moderators, reports, restrictions, closings, deaths, under fairness of the queue and the sweep | type, `ReviewHasCase`, `FilesScannedOrApproved`, `HeldEnds` hold |
| `earnings_any` | two corrections at once, an acceptance, a new rate, the job with recoveries of payouts failed and retried meanwhile, releases, retries and returns | type, `WithinTheOrder`, `SentAsRecorded`, `FollowsMaterial` hold |
| `claims_any` | two people sign up or open links while requests with the same grant give addresses, pay, are declined, die | type (with every reference), `WorkIsKept` hold |
| `vetting_any` | invitation to activation, the vendor's edits against reviews, suspensions, a new agreement, an order routed, escalated and accepted beside them | type, `TakerWasVetted` hold |

Every property of a passing run is also checked against a slip: an operator
marked `Slip:` in the module, defined just before the one it would replace, with
a guard dropped, a status mixed up or a case forgotten. With the slip in place
TLC finds the property violated. The specifications do not use the slips.

### Bounds

- `checkout_any`: three requests are one that pays, one that races it and one
  that retries; two vendors give a winner and a loser; two job runs overlap with
  them and with each other. The theorems below need no bound. `checkout_serial` has
  the same but for the requests, which follow one another, and for 3D Secure and
  crashes: without those its liveness can be asked for.
- `payout_rails`: one payout, two attempts, so that money of the first can be out
  when the second is sent, and one job run, since two only add that they may share
  the payout, after which nothing is claimed; the theorems need no bound.
  Restrictions of the Stripe account are in `payout_stripe` alone. `payout_stripe`: two
  payouts of two attempts, because they share the vendor's account and the job's
  attention, and one must not keep the other waiting.
- `shipment_any`: three purchases (one that fails, one that takes over, one after
  a void) and one void. Scans are a set, so events repeat and reorder freely.
- `order_any`: a price of two units is refunded whole or in two halves, which is
  what tells the providers' amounts apart; two webhook requests are enough for
  two deliveries of one event and for two events at once. Two vendors give the
  taking a choice.
- `quoting_any`: two files are the least that split; four quotes are a root, its
  configured revision and the quotes of two splits; two handlers at once and four
  requests between them, which is two splits, a configuration and an acceptance.
  `quoting_slicing`: two quotes and two requests, since the callbacks themselves are
  not counted. The operations are shared out by the question: what can meet an
  accepted quote in the one, what numbers revisions and quotes the files in the other.
- `messaging_any`: one message with one file; two handlers at once; four requests
  beside the queue's own jobs, two of which may be completions of the one upload. A
  text is allowed, flagged or escalated: blocked at once, it is never held. Staff's
  closing of a thread is taken as the vendor's declining it, which differs in the
  reason only. Every property is about one message, and messages
  share only the sender's tier and the thread, which requests already change.
- `earnings_any`: two parts of one and two cents, so that half a cent is rounded
  and the sum differs from the rounded whole; three materials in two
  technologies, one not rated at first; one new rate. The rush fee is zero, as it
  adds the same to every amount; the theorems allow any.
- `claims_any`: two people, two guests' rows, two projects, two orders, one session
  and one address; five requests, which is a sign-up with a claim on each side
  and a request of the guest's in the middle. The theorems need none of it.
- `vetting_any`: one vendor, because no step reads or writes another vendor's rows
  (two vendors that want one order are in `checkout_any`); two technologies, both
  required by the order, so that one can be reviewed without the other; two tax
  forms, two versions of the agreement, four requests, two at once.

Counters are bounded by `MaxAttempts` and by the sets of requests; a guard that
only enforces such a bound says so. `CHECK_DEADLOCK FALSE` is set because a sale,
a payout or a parcel does end. Symmetry is used only in runs of safety
properties.

### Fairness

- A request that has started runs to its end (weak fairness of each process's
  steps). Crashes are possible steps and never required ones.
- The jobs run every hour and visit everything that is due
  (`start/scheduler.ts`): strong fairness of picking a due session or a due or
  stuck payout, since another run may hold it for a while.
- A provider call repeated for ever is answered at some time: strong fairness of
  the answered call. Otherwise a provider that is down for good would refute
  every promise.
- Webhooks are redelivered until acknowledged: weak fairness of applying an
  event.
- `order_any` assumes the payout job alone: it visits a payout that is due or whose
  order is dead, and its transaction ends. Not that any webhook arrives.
- `quoting_slicing` and `messaging_any`: a handler that has begun goes on (in the
  second unless it dies), the queue's jobs are run, and the sweep comes round. Not
  that a scan is ever dispatched, nor that a moderator ever looks.
- Nothing is assumed of customers, vendors or administrators.

`OpenOrderResolves` and `HoldResolves` are checked without crashes, without 3D Secure
and for requests one after the other: after a
release that the provider made and the database rolled back, the job is refused
for ever and the order stays open (see the hazards). `HoldResolves` and
`PaidAtFirst` are about a first attempt that was not declined: after a decline,
the acceptance may read the failed session (see the divergences).

## What is proved

`CheckoutProofs` proves, from `CheckoutAssumption` alone
(finitely many pay requests; `None` is none of the identifiers), for every set of
requests, vendors, job runs and mishaps:

| Theorem | Statement |
|---|---|
| `TypeCorrect` | `Spec => []TypeOK` |
| `Invariance` | `Spec => []IInv` |
| `LedgerIsHonest` | `Spec => []LedgerHonest` |
| `CheckoutKeepsPromise` | `Spec => KeepsPromise` (the refinement of `Sale`) |
| `AcceptanceIsFinal` | `Spec => AcceptedIsFinal` (an accepted order keeps its status and its vendor) |
| `ChargesAreBacked` | `Spec => []ChargesBacked` |

`LedgerHonest` is not inductive: it holds because of what each process knows
when it writes. The strengthening `IInv` says it: a request's hold and order do
not exist before the step that makes them (`HoldFresh`, `OrderFresh`); an
acceptance under way owns its order, and when it is about to record a capture
the hold is captured (`AcceptOwns`); an expiry run's locked order stays open and
the hold it is about to record as released is released (`ExpireLocks`); no two
runs lock one order (`LocksExclusive`). The proof has a lemma per action, and a
lemma each for what a pay request writes and for a job step that only changes
the job's memory.

For the refinement, `Owed` is the set of orders whose acceptance has not yet
called the provider, `Charged` the holds captured. `AcceptOwns` is what makes it
work: an acceptance that gives up releases an order nobody else owes. A pay
request maps to `Place`, a claim to `Take`, a capture to `Charge`, a failed or
interrupted one to `Forgo`, an expiry to `Withdraw`, everything else to a stutter.
`AcceptanceIsFinal` and `ChargesAreBacked` follow from the mapped steps; the
second counts: a taking adds one order, a charge uses one up.

Three more properties hold of checkout until it is disturbed. The code cannot
promise more: it takes no lock between looking for a session and making one, and two
tabs are enough (see the divergences). No behaviour is left out: the theorems are of
`Spec`, with all mishaps and any number of requests, vendors and overlapping runs of
the expiry job, and `disturbed` tells from where on they claim nothing. Declines,
provider errors, failing cancel calls, rolled-back captures and expiries, retries and
any crossing of acceptances and expiry runs come under them:

| Theorem | Statement |
|---|---|
| `OrderlyInvariance` | `Spec => [](~disturbed => OrderlyInv)` |
| `AuthorizesOnce` | `Spec => []AuthorizedOnce` |
| `OpenOrdersFunded` | `Spec => []OpenOrderFunded` |
| `PaysAtFirst` | `Spec => []PaidAtFirst` |

`OrderlyInv` follows the attempts: a running request is alone, holds an active
session of its own and finds no order (`Trying`); the session, payment, hold and
order that are not failed are all of one request (`OnlyOne`); the money of an open
order is held, or an expiry run is about to commit its withdrawal, and an accepted
order is being captured, was captured, or an attempt before it had failed
(`Settled`); what an acceptance and an expiry run have in their hands is that
request's (`Accepting`, `Expiring`). It rests on `IInv`: `OpenOrdersFunded`, for
one, needs that an order an expiry run holds is locked. A step that disturbs, or
comes after, owes nothing, since `disturbed` never becomes false again. `AuthorizesOnce` counts:
two live holds would be of two orders.

`VendorPayoutProofs` proves, from `PayoutAssumption`:

| Theorem | Statement | Of |
|---|---|---|
| `RowInvariance` | `Spec => []RowInv` | any number of overlapping runs, any mishaps |
| `TypeCorrect` | `Spec => []TypeOK` | the same |
| `MoneyInvariance` | `Spec => [](RowInv /\ Orderly)` | the same, until `crossed` |
| `PaysOnce` | `Spec => []PaidOnce` | the same, until `crossed` |
| `SendsClaimed` | `Spec => SendsOnlyClaimed` | the same, until `crossed` |

`Orderly` is `MoneyInv`, and that no two runs share a payout, until `crossed`. Each of
the three things `Crosses` records is needed (the divergences have the traces), and
nothing else is asked for: overlapping runs on different payouts, crashes, lost
answers, refusals, restrictions, returns, late claims of money a payout still waits
for, rail switches, refunds and disputes are allowed, for any number of payouts, runs
and attempts. `PaidOnce` is not inductive: `MoneyKept` says where money can be, under
attempts up to the row's, under the row's own only at its provider and after the
claim, and back with the platform when the attempt was ended or superseded;
`EventsTrue` that an event still on its way is true of the transfer it is about, so
that a failure PayPal reports late ends no attempt whose money is out; `Sure` that
a run about to send holds the row's own attempt, or one whose money has moved
already, which its key will find again.

`ShipmentProofs` proves, from `ShipmentAssumption`, for any number of label
requests and voids:

| Theorem | Statement | Of |
|---|---|---|
| `TypeCorrect` | `Spec => []TypeOK` | any mishaps |
| `LabelInvariance` | `Spec => [](TypeInv /\ LabelInv)` | `Prompt` |
| `LabelsKept` | `Spec => []NoLabelLost` | `Prompt` |
| `BuysOnce` | `Spec => []BoughtOnce` | `Prompt` |
| `MovesForward` | `Spec => ForwardOnly` | `Prompt` |

`Prompt` says that no request outlives its two-minute lease; the code has a timeout
on neither the request nor the EasyPost call, though a comment takes it that an
older lease "belongs to a request that died" (`shipment_service.ts:41`), and with a
slow one two labels are bought (see the divergences). Crashes before and after each step, EasyPost's
errors and lost answers are allowed. `LabelInv` says that one request is at work
at a time (`OneAtWork`), on the one row that is active (`OneActive`), with its
lease; that before it forgets or replaces an EasyPost id, that shipment has no
label (`Sure`); that a request creates one EasyPost shipment (`Fresh`); and that a
void about to commit is of a label that was refunded or used (`Voiding`).

`ReviewProofs` proves of `Vetting`, from `VettingAssumption` and
`HandlersAssumption`, for any vendors, technologies, invitations and number of
handlers at once:

| Theorem | Statement |
|---|---|
| `VetInvariance` | `Spec => []VetInv` |
| `TypeCorrect` | `Spec => []TypeOK` |
| `TakersVetted` | `Spec => []TakerWasVetted` |

Handlers save what they decided over whatever the rows have become, so that a
status, a capability or a form may change back and forth under one another. What
carries the proof is what only grows (`Grows`): forms are added to and a verified
one stays so, approvals and rates stay in the history, an agreement is replaced by
a later one only. `HandlerSound` says what each handler has seen, in these terms,
before it saves; `RowsSound` that whoever is active, or suspended, had a verified
form, and that what is approved was approved by an administrator. With it, an
acceptance that has passed its query may count on the answer although the query's
rows change before it takes the order.

`ReviewProofs` proves of `Messaging`, from `MessagingAssumption`, for any
messages, files, verdicts and number of handlers at once:

| Theorem | Statement |
|---|---|
| `MessageInvariance` | `MessagingSpec => []MessageInv` |
| `MessageTypes` | `MessagingSpec => []MessagingTypeOK` |
| `ReviewsHaveCase` | `MessagingSpec => []ReviewHasCase` |
| `FilesGoOutClean` | `MessagingSpec => []FilesScannedOrApproved` |
| `DecisionsLast` | `MessagingSpec => [][Lasts]_messagingVars` |

Handlers write what they decided whatever the rows have become, so a delivered
message may be blocked and a blocked one delivered. What no step takes back is
`Lasts`, which the proof carries along and `DecisionsLast` states: a message that
was decided never waits again (`Settled`), one that was sent gains no files, a
case keeps its message, a file found clean stays clean unless it is in `again`. In
these terms `Seen` says what a handler may count on until it writes: a moderator
who closes a case knows its message is settled, so no waiting message loses its
case, and a case put back by a stale claim only adds one; a send or a pass that
delivers has found all its files clean, since `Decide` is at least a hold for any
other (`Judged`, by the ranks of the decisions), and they are all the files the
message will have. A file completed twice has two scans and may be put back to
unscanned, so all this is said of the files that are not in `again`; `ScannedOnce`
says that such a file is looked at by one scan at a time, while it is uploaded, so
that no late answer unsettles a file already judged. A save that completes a file
for the second time puts it into `again` in the same step.

`QuotingProofs` proves, from `QuotingAssumption` (finitely many handlers; bounds
that are natural numbers, of handlers at once above zero), for any files, handlers,
quotes and requests:

| Theorem | Statement |
|---|---|
| `QuoteInvariance` | `Spec => []QuoteInv` |
| `TypeCorrect` | `Spec => []TypeOK` |
| `RevisionsDiffer` | `Spec => []SystemRevisionsDiffer` |
| `AcceptedStaysFrozen` | `Spec => FrozenOnceAccepted` |

`SystemRevisionsDiffer` needs to be part of `WellKept`, with the rest of what
makes a new row safe to add: revisions are at most as many as the rows, one quote
has the highest (so that the next number is above all), and every revision points
to a root. `FrozenOnceAccepted` needs little of what the handlers remember: an
acceptance writes `accepted` whatever the quote has become, which changes nothing
of an accepted one; an expiry withdraws the quotes that are open when it writes; a
customer's revision and a callback only add a row; and a split that is not
overtaken writes to the quote it read, still held for review, which is not the
accepted one. What it needs of the rest is that a line a split is to move is on
one quote only: of the quotes whose lines were first written for the same one, no
two have a line of one file in common (`WellKept`), and those a split is to move
are on one of them (`Sound`), so that a split whose quote still has them takes
nothing from another. Two splits of one quote at once are among the steps, and the
one that is overtaken may change an accepted quote (see the divergences).

`TypeCorrect` bounds the jobs a file has. That is a count, `Counted`, which needs
the switches under way: every job beyond the first was asked for, by a switch or
by a redelivery, and a switch under way was asked for and has not added its own yet.

`OrderLifecycleProofs` proves, from `LifecycleAssumption` alone (`None` is no
vendor; the providers are Stripe and PayPal; a price and a number of refunds
above zero), for every number of vendors, webhook requests and refunds and any
price:

| Theorem | Statement |
|---|---|
| `LifecycleTypeCorrect` | `Spec => []TypeOK` |
| `LifecycleInvariance` | `Spec => []IInv` |
| `RefundsRecordedOnce` | `Spec => []RecordedOnce` |
| `StripeRefundsReachOrder` | `Spec => []StripeRefundReachesOrder` |
| `OrdersGoOneWay` | `Spec => OneDirection` |
| `LifeKeepsPromise` | `Spec => SoldAsPromised` (the refinement of `Sale`) |

The properties are not inductive: that a refund never touches an open order needs
`ChargeOfTaken` (only a taken order is charged, and only a charge refunded);
that a row is not written twice needs `MarkedWhenRecorded` (no row without its
event's mark); that a Stripe refund reaches the order needs `FullRefundSeen` (the
processed event that completed the amount has done it) and `AppliesSent` (a
request under way holds a sent event and found the payment). For the refinement,
everything after the capture is a stutter, since taken and refunded orders look
accepted to the sale.

`EarningsProofs` proves, from `EarningsAssumption` (totals and percentages are
natural numbers within their ranges), for any parts, materials, rates and number
of requests:

| Theorem | Statement |
|---|---|
| `Invariance` | `Spec => []IInv` |
| `TypeCorrect` | `Spec => []TypeOK` |
| `PaysWithinTheOrder` | `Spec => []WithinTheOrder` |
| `RecordsWhatWasSent` | `Spec => []SentAsRecorded` |
| `CorrectionsReachPayout` | `Spec => []FollowsMaterial` |

`FollowsMaterial` is not inductive: a correction writes what it computed some
statements ago. `LockHeld` says that who found the payout pending has it alone and
pending until the commit, `ComputedFresh` that what an acceptance or a correction
holds computed is what the parts will be when it commits, unless a correction was
missed, and `SendsClaimed` that a run about to send a payout still processing
holds the row's amount; of one that is not, `overtaken` is set as it sends.
`WithinTheOrder` rests on `ShareBounded`: a rounded share of an amount, at a
percentage between 0 and 100, is between 0 and the amount. The sum over the lines
stays opaque in the proofs: that it is monotone would be an induction, so the
bound is stated line by line.

`ClaimsProofs` proves, from `ClaimsAssumption`, for any people, guests' rows,
projects, sessions, orders, addresses and requests:

| Theorem | Statement |
|---|---|
| `Invariance` | `Spec => []IInv` |
| `TypeCorrect` | `Spec => []TypeOK` |
| `WorkStays` | `Spec => WorkIsKept` |

`IInv` is `Kinds` (the types), `References` (a row refers only to a customer or an
address there is), `OneGuest` (one guest row per mailbox) and `ClaimantReady` (who
is about to claim a project has its customers row). The heart is the merge: after
it nothing names the guest, so deleting the guest's row takes no session with it
and leaves no order without its customer.

Only model-checked: everything under fairness (`OpenOrderResolves`,
`HoldResolves`, `ProcessingEnds`, `DeliveryReachesOrder`, `RefundStopsPayout`,
`QuotedInFull`, `HeldEnds`), which is out of the prover's reach. Every other
property of the runs is proved.

## Divergences met while modelling

What the code does against what one may expect of it, or against a comment, and
what the properties above therefore do not claim. The models reach what is told here
unless the text says otherwise; TLC finds the traces when a property is asked for
without its exception (`disturbed`, `crossed`, `again`, `overtaken`, `Overtaken`).

- Two pay requests of one quote truly at once find no session, order or payment
  and authorize the card twice (`checkout_service.ts:69`); so does a retry after a
  crash between the authorization and its record (`:146`). `AuthorizedOnce` holds
  until two requests overlap, 3D Secure is waited for or a process dies.
- After a declined attempt and a paid one, the acceptance may read the failed
  session, whose payment does not exist; the order stays accepted and the hold is
  never captured (`checkout_service.ts:325`).
- Two overlapping runs of the payout job can have both attempts' money out: one
  recovers as stuck what the other is still sending (`vendor_payout_service.ts:396`).
  The recovery sends a payout whatever has become of it since it was listed, since
  "the idempotency key makes a duplicate impossible" (`:370-376`). It does under
  one attempt and at one provider, and TLC finds this: a
  PayPal payout is listed as stuck; PayPal's event fails it; an
  administrator retries it, which makes it pending under its second attempt; the
  recovery sends that attempt by PayPal, unclaimed; the vendor switches to Stripe;
  the payout is claimed and sent again by Stripe. One that the administrator
  cancels instead of retrying is sent all the same. `PaidOnce` and
  `SendsOnlyClaimed` hold until the payout so listed changes.
- When an unclaimed PayPal item cannot be cancelled the payout fails all the same; an
  administrator retries it, the vendor is paid by the new attempt and claims the old
  item in the 30 days PayPal keeps it (`vendor_payout_service.ts:624`).
- The same recovery meets a correction: the payout it sends has been failed and
  retried, so it is pending, and a staff correction that has it locked rewrites the
  amount that was sent (`vendor_payout_service.ts:375`,
  `payout_calculation_service.ts:135`). `SentAsRecorded` leaves such a payout out.
- Two calls that complete one upload both find it awaited, ask S3, write `uploaded`
  and queue a scan (`attachment_service.ts:122`, `:137`). The later write may put a
  file back to `uploaded` that was found clean and has gone out with its message, and
  the second scan may reject it there. `FilesScannedOrApproved` leaves files out whose
  upload was completed twice.
- A label purchase that takes longer than its lease is taken over, and both buy
  (`shipment_service.ts:209`). The module takes this with `"slow"` among its
  `Mishaps`, which the run leaves out and the theorems exclude (`Prompt`).
- A PayPal payment refunded in two parts is refunded in full and its order is not:
  each event carries one refund and is compared with the whole (`refund_service.ts:57`).
- Two administrators who split one quote at once: the split looks at the quote's
  status before it prices the groups and not again in its transaction
  (`quote_split_service.ts:51`, `:144`), so the later one writes over a quote the
  first one opened, even if the customer has accepted it since, and moves rows out
  of the quotes the first one made. `FrozenOnceAccepted` says that nothing but a
  split so overtaken does it.
- A pass of the analysis that began before a moderator blocked a message may
  deliver it afterwards (`message_service.ts:438`).
- A customer the vendor has barred can reopen an idle inquiry
  (`conversation_service.ts:331`).
- A correction of a part applies the rates of now, though rates are said to affect
  only orders accepted from then on (`admin_vendor_payouts_controller.ts:149`); a
  correction that commits between an acceptance's calculation and its insert is
  not in the snapshot (`order_acceptance_service.ts:103`); staff may change a part
  that is already in production, to another material.
- Saves of a vendor's status write over what another administrator decided since
  the read (`vendor_onboarding_service.ts:554`, `:584`); a capability that is no
  longer approved may keep its preferred flag (`:475`).
- A lead attached by a request that read the project unowned takes it from the
  account that claimed it meanwhile (`lead_customer_service.ts:48`); an order
  finalized with the guest read before a claim stays with the guest
  (`checkout_service.ts:243`); an address may be edited between a check that no
  order uses it and the save (`address_service.ts:114`).
- A profile image an administrator rejected while its check ran is approved by the
  check's later save; two profile photos approved at once each delete the other
  (`vendor_image_service.ts`). Neither is modelled.

## What is not modelled, and why

- Prices and tax: the calculators are floating-point formulas that steer nothing.
  Amounts are modelled where the code decides by them: refunds in units
  (`OrderLifecycle`), the payout in cents (`Earnings`).
- Preconditions that only refuse a request before it changes anything:
  authentication, validation, customs data.
- How a rule reaches its verdict on a text, the language model's shadow review,
  behaviour and abuse patterns, term and domain lists: they feed the verdict
  (any is allowed) or write tables nothing else reads.
- Notifications, digests, statistics; reads: directory, search, transformers.
- Manual projects: a vendor's project made from an inquiry copies the clean
  attachments of the thread's delivered messages (`manual_project_service.ts:89`),
  each once by a unique index. Nothing is ordered or paid from it yet, so it was
  left out to keep the messaging run within its time.
- Marketing consent, default flags of addresses, the vendor's public profile and
  its images, geocoding.
- Timestamps: due and stuck are nondeterministic, except where the order of
  times is guaranteed (a session is due days after its request ended).
- Vendors and customers beyond the one whose rows a property is about, where no
  step touches another's.

## Plan

Next, in this order:

1. An abstract payout that `VendorPayout` implements and `OrderLifecycle` and
   `Earnings` use.
2. `Quoting`: the prices' role in a revision.
3. The address book's default flags and edits in `Claims`; threads of an order in
   `Messaging`.
