# Verification of freedom-platform

TLA+ models, TLC runs and TLAPS proofs for the parts of freedom-platform in which
the order of events decides what is right: the hosted checkout (orders and
inventory), the card payments of an order, the e-mails about it with the due work
that drives them, and the guild events with their seats, waitlist and reminders.
Paths below are relative to `src/`.

Contents: 1 the system; 2 the modules; 3 the runs; 4 fairness; 5 the proofs;
6 divergences found; 7 what is not modelled; 8 the plan.

## 1. The system

freedom-platform is a community platform: guild members, their work, their
assets and their shops. It is one TypeScript code base that runs as a worker
with HTTP routes and one scheduled job, over one PostgreSQL database. Most
modules are commands of one actor on a few rows behind an authorization check.
The parts whose correctness depends on the order in which several actors act
are in `modules/agent-commerce` and in the events of `modules/community`.

| Component | State | Operations | Hard because |
|---|---|---|---|
| Checkout orders and inventory (`checkout/`) | stock and reserved of an item; order life; reservations, allocations, payment applications, movement journal | place, settle and sweep expired holds, apply payment, retry, cancel (three ways), release, hand over, restock | buyers, seller, provider events and the job interleave; commands are retried |
| Payment attempts (`payments/`) | attempts, inbox of events, links, exception cases, due rows with leases | link, page, notification, deferred replay, three-phase query, window end, repay, cancel | network waits between transactions, late and reordered events, quarantine, leases |
| Due work (`operations/due-work.ts`) | rows with due time and lease | claim, dispatch, give back, postpone | several runners, lapsed leases, crashes |
| Commerce e-mails (`operations/notifications/`) | outbox rows, their due rows, journal records | queue, deliver in short transactions, retry, sweep | calls to the journal and the mail service between transactions, lost answers |
| Effect journal, control events | objects outside the database | append, flush, restore | two stores without a common commit |
| Offline payments, refunds, invoices | offline records, refund records | confirm, record | retries; no stock of their own |
| Hosted v1 direct and shared orders | reservations of the same items | quote, order, cancel | share `reserved` with the checkout |
| Scoped commands, execution state, agent control | receipts, executions, device authorizations | run once, step, authorize | idempotency, expiry |
| Assets, media migration | rows and objects in two stores | upload, collect, migrate | two stores |
| Guild events (`community/events.ts`, `event-waitlist.ts`) | the event; registrations, holds, waitlist entries | register, withdraw, queue, offer, accept, decline, reschedule, cancel, review | seats contended by three kinds of claim; the clock moves while a transaction waits |
| Event reminders (`community/event-reminders.ts`) | reminder rows, attempts | choose, disable, reconcile, dispatch | passes overlap or die around an e-mail; the event moves |
| Tenants, modules, identity | owners, instances, members | transfer and recover, launch | recovery |
| Portal, GitHub bridges, content | pages and records | display, synchronise | remote services only |

`PROJECT.json` lists every component with its status. How the modelled ones
interact:

* placement creates the order, its reservations and its first attempt in one
  transaction; the attempt's two due rows drive everything scheduled later;
* a notification or a query of an attempt calls `applyConfirmedPayment` of the
  checkout under the attempt's id as payment reference;
* the end of the window calls `cancelUnpaidOrder`, which calls back
  `onPaymentOrdersCancelled` for the links and queries of the attempts;
* an unapplied paid event in the inbox keeps the sweep of the checkout away from
  the order's units (`noUnappliedPaidEvent`);
* a transaction that owes somebody an e-mail inserts an outbox row and its due row;
  the job and the end of a request claim due rows, of payments and of e-mails alike,
  under one lease and work through them one after another;
* a registration, a withdrawal, a new start or a cancellation of an event changes
  the reminders in the same transaction: a withdrawal stops one's own, a new start
  moves all of them, a cancellation stops them; the job first reconciles the
  waitlists and then dispatches the reminders.

What makes each correct: no unit is promised twice and the counters say what
the rows say; an order ends paid or cancelled, not both; a repeated command
moves nothing; no payment is dropped, forgotten, or contradicted by its own
history; a page never sends a buyer to a trade the journal does not know; every
scheduled row is visited until there is a result or a person is told; an e-mail
is sent after its record, under a lease, and never recorded as sent when it was
not; a seat is given once, the queue is served in its order, and a reminder goes
out once, for what is true at that moment. The hazards behind these are listed, at
their lines, under `hazards` of `PROJECT.json`.

## 2. The modules

| Module | Content |
|---|---|
| `OrderLedger` | abstract specification: what the checkout promises about one order |
| `OrderMoney`, `OrderMoneyProofs` | abstract specification: what becomes of the money sent for one order; what follows from it |
| `CheckoutOrders` | the transactions of `checkout/`, its properties, fairness, refinement of `OrderLedger` and `OrderMoney` |
| `CheckoutOrdersProofs` | theorems about `CheckoutOrders` |
| `MCCheckoutOrders` | instances of `CheckoutOrders` for TLC |
| `PaymentAttempts` | the card payment of one order, its properties and fairness, refinement of `OrderMoney` |
| `PaymentAttemptsProofs` | theorems about `PaymentAttempts` |
| `MCPaymentAttempts` | instances of `PaymentAttempts` for TLC |
| `EmailPromise` | abstract specification: what the outbox promises about one e-mail |
| `CommerceEmail`, `CommerceEmailProofs`, `MCCommerceEmail` | the e-mails of orders and the runner of due work, refinement of `EmailPromise`; theorems; instances |
| `EventParticipation`, `EventParticipationProofs`, `MCEventParticipation` | the seats and the waitlist of one event; theorems; instances |
| `EventReminders`, `EventRemindersProofs`, `MCEventReminders` | the reminders of one event and their dispatch; theorems; instances |

In the first two every transaction that writes takes the advisory lock of the
community first (`checkout/authority.ts`, `hosted/direct-authority.ts`,
`payments/window.ts` `lockMachinePaymentAttempt`), but for the one named next; a step
of a delivery locks the due row and then the e-mail; every command of an event locks
the event. So a transaction is one action, with all its effects. A call that waits for
something outside the database is several actions. A call that is refused, or replays
a command already recorded, changes nothing and is a stuttering step.

The exception is `receivePaymentNotification`: it inserts its event, which sets
`received_at` (`payments/events.ts:41`), and only then waits for the lock
(`payments/events.ts:67`). Until it commits, the transactions that hold the lock
meanwhile do not see the event. `PaymentAttempts` makes it two actions,
`InsertNotification` and `ReceiveNotification`, with any others between them, or
`LoseNotification` when the transaction fails; it is one action of `CheckoutOrders`,
which knows only events already retained. One interleaving is left out: a notification
received in quarantine takes no lock at all, and may commit between two reads of
another transaction; the model lets it be seen by all of them or by none.

Definitions marked *Fault* are mistakes the code could have made. No specification
uses them; replacing the definition after them by them breaks a property (the
`mutants` of `PROJECT.json`).

### CheckoutOrders

State: `stock`, `reserved` are `commerce_items`; `life`, `reason` are
`commerce_checkout_orders`; `hold` is the state of each reservation; `source`,
`shipped`, `freed` are the allocations (`source` names the payment application);
`appOrder`, `appOutcome` the payment applications by reference; `retained` the
unapplied paid events of the inbox; `commands` and `moves` the allocation
commands and the movement journal. `expired` and `unpayable` stand for time and
for the attempts: the orders whose `expires_at` has passed, and those
`paymentUnresolvedOrders` no longer reports.

| Action | Code |
|---|---|
| `Place` | `placeCheckoutOrder`, including the settlement of due holds of its items |
| `SettleDueHolds`, `SweepDueHolds` | `settleDueCheckoutHolds`, `sweepDueCheckoutHolds` |
| `ConvertPayment`, `AllocatePayment`, `UnallocatablePayment`, `RecordUnappliedPayment` | the outcomes of `applyHeldPayment` |
| `RetryAllocation` | `retryAllocation` |
| `CancelUnpaidOrder`, `CancelPaidOrder`, `ReleaseAllocation` | the functions of the same names |
| `RecordHandover`, `RestockReturn`, `EditStock` | `recordHandover`, `restockReturn`, `updateSupplyProduct` |
| `Expire`, `AttemptsEnd`, `Repay`, `RetainPaidEvent` | time, attempts and inbox as the checkout sees them |

Abstractions: terms, prices and contacts are the constant `Line`; a payment
amount either matches or not; the reference of a conversion movement, unique by
construction, is `None`; a payment reference has at most one unapplied paid
event; a sweep may choose any due order (the code: at most 200, in id order);
`closed` orders, which no code writes, are left out. `settleDueCheckoutHolds` selects due
orders, locks them and reads the condition again; the model has only the locked half,
so `PaidUnitsProtected` checks that condition and not that it is read again.

`OrderLedger` sees one order as a life, a paid flag, where its goods are and
whether some left. `KeepsLedger` says every order refines it. `OrderMoney` sees the order's
life and one outcome per payment reference; `KeepsMoney` says every order refines
it, and `PaymentAttempts` refines the same module: what the payments assume of the
checkout is what the checkout keeps.

### PaymentAttempts

One order, attempts `1..MaxAttempts` (5 in the code). State: `state` of each
attempt; the page (`preparing`, `journal`, `journaled`, `handed`); `link`, the
live tokens; the inbox (`queue`, its unapplied events in the order of `received_at`,
each *stored* once its transaction has committed or still *arriving*; `seen`, the
notifications stored; `earlier`, which was received before which; `answered`, whether a
result was queried since the pending confirmation; `mismatch`; and the history
`failedFirst`, whether a failure was stored when the payment was inserted); `app`, the
outcome of the payment application; `cases`; the due rows
(`row`, `windowRow`) with their lease (`leaseBy`, `leased`); `call`, the queries in
flight; `cleared`, what a repay command has learned; `charged`, what the
provider did.

| Action | Code |
|---|---|
| `MintLink` | `issueOrderHandoff` |
| `PreparePage`, `AppendJournal`, `MarkJournaled`, `HandOver`, `PageDies` | the four phases of `servePaymentHandoff` |
| `InsertNotification`, `ReceiveNotification`, `LoseNotification` | `receivePaymentNotification`: the insert; the rest under the lock, with `applyPaymentEvent`; its rollback |
| `ApplyDeferred` | `applyDeferredPaymentEvents` |
| `BeginQuery`, `SkipQuery`, `CannotQuery` | phase one of `queryAttempt`; the claim of due work is folded into it |
| `AnswerQuery`, `AbandonQuery` | the provider, the network, a request that dies |
| `FinishQuery`, `FinishWithoutEvent` | phase three, with `applyQueryResult` and `updateSchedule` |
| `EndWindow` | `endPaymentWindow` |
| `Repay` | the last transaction of `resume` |
| `PersonCancels` | `cancelUnpaidOrder` with `onPaymentOrdersCancelled` |
| `PaidCancelled` | `cancelPaidOrder`, `releaseAllocation` of the last unit: they do not tell the payments |
| `BrowserReturn` | `recordPaymentBrowserReturn` |
| clock actions | `expires_at`, `PAYMENT_WINDOW_MS`, `DAY`, the lease and link lifetimes |

Abstractions: time is the facts the code derives from it (`expired`, `stage`,
`paidAge`); back-off only decides when a query is due, so a query may run
whenever it is allowed; a notification of one outcome is stored once per attempt (the
code drops duplicates by their content, `notificationDedupe`, so a second failure of
one attempt with another date is a second event there, which after a payment is a
contradiction of its own, and is left out here); `unallocatable` is a confirmed outcome and stock
belongs to `CheckoutOrders`; a case is recorded as ever opened, because closing
it is a person's business; an attempt is charged at most once and has one trade
number, and `trade_no_mismatch` is answered only when the attempt has one;
`simulated` payments do not change an order.

### CommerceEmail

State: `mail` is `commerce_outbound_emails` (state, `journaled_at`, failures, the ticks
until it expires or may be deleted); `work` the row of kind `email` in
`commerce_due_work`; `run` the executions of `runDueCommerceWork`, with the rows they
have claimed, the step they are at and what is left of the lease they send under;
`journal` the records of `email_send`; `redacted` the buyers; `accepted`, a history of
what the mail service took.

| Action | Code |
|---|---|
| `Queue`, `Redact` | `queueCommerceEmail`; redaction of a buyer or contact |
| `Claim`, `Start`, `Stop`, `Release`, `End` | the claim, the loop, its early end, the give-back of `runDueCommerceWork` |
| `Fail`, `Throw` | the postponement after a handler threw; a transaction that throws, committed or not |
| `Abort`, `Crash` | the abort signal; the process ends |
| `Check`, `Journal`, `Unlogged`, `Mark`, `Prepare`, `Send` | the steps of `deliverCommerceEmail`, one transaction or outside call each |
| `RecordSent`, `RecordRefused`, `RecordUnsure` | what it records after the answer |
| `Sweep` | `sweepCommerceOutboundEmails`, skipping any rows that are locked |

Abstractions: the text of a lease is who was given it and in which transaction;
addresses, templates and the access link of a message are left out; a failed
journal append may or may not have stored its record, and an error of the mail
service may or may not follow an acceptance.

`EmailPromise` sees one e-mail as a state and two facts, that the journal has its
record and that the service took it. `KeepsPromise` says every e-mail refines it: first
the record, then the message; closed once, as sent only if it was taken; and nothing
late reopens what is closed. A second message after a lost answer is a stutter.

### EventParticipation

State: the row of the event; `book`, for everyone, the registration, the waitlist
entry and whether a reminder is enabled; `eligible`, whom the event is open to;
`registering`, the guests between the two transactions of a public registration.

| Action | Code |
|---|---|
| `Attend`, `Withdraw` | `setRsvp` of a member |
| `Register`, `Confirm`, `GiveUp` | `registerPublicEvent`: the hold, the confirmation with its e-mail, its failure |
| `Join`, `Leave`, `Decline`, `Accept` | the actions of `apply` for members and guests |
| `RegisterByLink`, `CancelByLink` | `register` and `cancel` of `mutateGuestEventParticipation` |
| `Remind` | `saveEventReminder`, `saveGuestEventReminder`, as far as a registration is concerned |
| `Edit`, `Review`, `CancelEvent`, `SetPolicy`, `Schedule` | `updateEvent`, `applyReview`, `cancelEvent`, `setEventWaitlistPolicy`, `updateEventSchedule` |
| `Sweep` | the reconciling part of `processEventWaitlist`, up to `MaxLate` late |
| `Requalify`, `Tick` | accounts, memberships and verifications; the clock |

`Reconcile` is `reconcileEventWaitlist`, which most commands call once or twice:
lapsed offers and holds end, entries that are accepted or no longer allowed leave the
queue, offers beyond the capacity are taken back newest first, free seats are offered
oldest first. The place in the queue is the set of those who joined before. The
order of the code is (`joined_at`, `entry_id`). `joined_at` is read from the clock after
the command has locked the event (`community/event-waitlist.ts:144` and `:159`, written at
`:113`), so it is the order of the commands; two joins within a millisecond, which
`entry_id` decides, and instances whose clocks disagree are left out. The
feature is taken as switched on (`FREEDOM_EVENT_PARTICIPATION_ENABLED`), and the
test accounts, whom the code hides from each other, as absent.

### EventReminders

State: the event's publication and start; `going`, who is seen as going; `prefs`, the
notices of members; `reminder` and `attempt`, the rows of the two tables; `pass`, the
candidates and the claim of every pass in progress; `handed` and `taken`, histories of
what was handed over and of what the sender said it took.

| Action | Code |
|---|---|
| `Save`, `Disable` | `save` with its two callers |
| `Withdraw`, `Reschedule`, `CancelEvent` | the callers of `cancelEventReminders` and `reconcileEventReminders` in the other two files |
| `Requalify`, `Prefer` | what `currentDispatchSource` and the preferences say |
| `Begin` | the candidates of a pass |
| `PassOver`, `Drop`, `PutOff`, `Post`, `Reserve`, `ReserveTooLate` | the outcomes of the first transaction of a candidate |
| `Fence`, `Forget`, `SendAccepted`, `SendFailed` | the outcomes of the second |
| `SendLost`, `Crash` | the pass dies, after a message was handed over or elsewhere |

`EventParticipation` knows that a reminder is enabled, `EventReminders` what becomes of
it; they share the three callers above. In `EventReminders` a person may stop to be
seen as going without a withdrawal, which covers every reason of
`currentDispatchSource`.

## 3. The runs

| Run | Instance | Shows |
|---|---|---|
| `CheckoutScarcity` | two orders of one checkout, two items, stock up to 1, two payments, one command, fair job | nobody is sold units of another, an order is allocated whole; the money of every order refines `OrderMoney`; a waiting paid event protects its units; expired units leave their reservation |
| `CheckoutFulfilment` | a two-unit and a one-unit order of one item, stock up to 2, one command, two handovers, one return | the inductive invariant; the journal explains every counter; references are spent once; `OrderLedger` is refined |
| `PaymentOutcomes` | one attempt, two overlapping queries, two unapplied events, notifications of a payment, a wrong amount and a failure, answers of a payment, a foreign trade number and no payment | journal before hand-over; money accounted for; nothing forgotten; no contradiction from a failure stored before its payment; only legal transitions; no paid order given up; a query that lost its lease leaves the row alone |
| `PaymentRetries` | two attempts, repay, paid notifications, unpaid answers | the inductive invariant over several attempts, which accounts for late and second payments and has links die with an unpaid order; a new attempt only while no payment is known; `OrderMoney` is refined |
| `PaymentProgress` | one attempt, one query, two unapplied events, fair clock and job, provider may be silent | an attempt handed over ends or reaches a person, a scheduled confirmation too; retained payments are applied |
| `EmailDelivery` | one e-mail, two executions, a claim lease of 3, a send lease of 2, two delays, one call per execution, fair clock and sweep | no queued e-mail without work; no send before its record; leases hold; `EmailPromise` is refined: sent means accepted, closed stays closed; every e-mail is closed and deleted |
| `EventSeats` | one member, two guests, capacities 1, 2 and no limit, a pass one tick late, fair clock and pass | the inductive invariant; the queue is served in order; nobody is stranded with an accepted entry or a reminder; occupancy grows within the capacity; a free seat is offered while somebody queues; lapsed offers end |
| `EventReminders` | a member with in-app notices, a guest with e-mail, two starts, two passes of one candidate, one death | the inductive invariant; nothing is handed over twice; what is handed over is current; nothing due waits for ever |
| `PaymentOvertaken`, `PaymentUnscheduled`, `PaymentUnsettled`, `EventOverbooked` | the divergences of section 6 | violated, as expected |

Why the bounds are enough. The transactions relate two orders only through one
item, one checkout or one handover, so two orders, and two items for the
all-or-nothing rules, meet every interaction; stock 1 makes them compete and
stock 2 allows partial releases, handovers and returns. Two payments meet
overpayment, one of them late. Attempts interact only through "some attempt is
paid" and "the newest attempt", so two suffice; two retained events of one
attempt are the smallest inbox with an order. The bounds are named: `MaxStock`,
`MaxAttempts`, `MaxQueue`, and the sizes of the sets of references. `MaxQueue`
bounds the unapplied events only, stored and arriving: an event beyond it is not
received. The notification of a pending confirmation occurs in `PaymentUnsettled`
only, the answer of a wrong amount in `PaymentProgress`, and `failed` and `unknown` in
neither: they multiply the states; the theorems cover every subset of them. The order
of an item's stock is arbitrary at `Init`, and `EditStock` changes it later.

E-mails meet only in the rows one execution has claimed, where a second row is a
wait; its lapse may come at any step anyway, so one e-mail and two executions
suffice, and the leases are longer than one tick so that each can lapse at
different steps. The queue of an event needs three people: two who wait and one
whose seat is given up; holds and windows of one tick and a pass one tick late
meet every order of deadlines. There is no symmetry in that run, for it checks
liveness too. Two reminders with a batch of one are the smallest
case in which one blocks the other; two starts allow a move forth and back; in-app
and e-mail take different transactions, so one person has each. Bounds of these
modules: `MaxCalls` is the code's own budget, `MaxLate` the lateness of a pass,
`Horizon` the last instant, `MaxCrashes` the deaths of passes, `Limit` the code's
batch of 50. In `CommerceEmail` and `EventParticipation` the clock needs no bound, for
instants are kept as what is left until them.

`CHECK_DEADLOCK FALSE` is set because an order may simply be finished: its
references are spent and its clock has run out, and an event that is over has no
reminders left to send. `EmailDelivery` never stops: its clock always ticks.

## 4. Fairness

`CheckoutOrders`: the scheduled job (`apps/platform-api/src/worker.ts`) runs the
deferred application of retained events and the sweep on every tick outside
quarantine, so each stays enabled until it happens: weak fairness of `ApplyRetained`
and `SweepDueHolds`. Buyers, sellers and the provider are under no obligation.

`PaymentAttempts`: the clock runs (`HoldExpires`, `WindowPasses`, `DayPasses`,
`PaidAges`, `LeaseLapses`); the job ends windows, applies retained events and visits
due rows until there is nothing left to ask (`SkipQuery` of an existing row). No
fairness is assumed of a notification that waits for its lock: it may stay there or
fail, and `ToldPaymentApplied` is about those stored. No
fairness is assumed of queries, answers, pages or people: `HandedEnds` and
`ScheduledPaymentEnds` hold with a provider that never answers.

`CommerceEmail`: the clock and the sweep, which the job calls on every run, whatever
the e-mail switch says, and which does nothing in quarantine
(`operations/notifications/delivery.ts:517`): a quarantine is assumed not to last for
ever, here as for the deferred events. The rows it skips are locked by short
transactions, so it
finds every row unlocked again and again: weak fairness of `Sweep({}, {})`. No
fairness of deliveries: `EmailsEnd` holds if all of them fail.

`EventParticipation`: the clock, and the pass of the job, every ten minutes, over at most
100 events in the order of their last reconciliation, so that it comes round to every
event with somebody waiting: weak fairness of `Tick` and of a punctual `Sweep(0)`. The
latter is written out with `PassDue`, which says when `Sweep(0)` is enabled; TLC would
otherwise compute that by enumerating its steps.
People and organizers need not act.

`EventReminders`: the clock; a pass begins while something is due, and one that has
begun goes on, unless it dies, which it does finitely often: weak fairness of `Tick`,
`Begin(r)` and `Work(r)`. Whether the sender accepts, fails or lies is free.

## 5. The proofs

### CheckoutOrdersProofs

`CheckoutOrdersProofs` holds for every finite set of orders, any sets of items
and references, every assignment of lines and every largest stock. Assumptions:
those named in `CheckoutOrders` (finitely many orders; every order has a line, of
at most the largest stock; `None` is not an order or a payment reference).

The invariant is `IInv`. `NoOversell` alone is not inductive: a release must not
drive `reserved` below what it gives back, which needs `Balance`; `Balance` over a
payment needs that the holds of an order move together and that units are never
held and allocated at once (`HeldUnitsUnpaid`); over a release or a handover it
needs the counters within their line (`CountersWithinLine`); cancellation and
refinement need that allocations name their order's confirmed payment
(`AllocationIsPaid`) and that a cancelled order keeps nothing. Sums are the
cardinality of a set of pairs (`Units`, `Total`), so that the arithmetic of
`reserved` follows from the library's facts about finite cardinalities; the
lemmas about `Total` come first, one lemma per action follows, then the theorems.

`JournalExplains` adds one invariant, that a line has finitely many movements
(`LinesFinite`). What the movements of a kind move of a line is again the cardinality
of a set of pairs, so that a new movement adds its quantity (`MovedAfter`) by counting,
without induction over the journal; a reference never used, and the counters within
their line, show that what is added is new. `MoneyKept` maps every outcome of a payment
to a step of `OrderMoney` or a stutter.

| Theorem | States |
|---|---|
| `Invariance` | `[]IInv` |
| `TypeCorrect`, `NeverOversold`, `AlwaysBalanced`, `HoldsTogether`, `ConfirmedOnce`, `AllocatedWhenPaid`, `CancelledHasNothing` | its parts |
| `LedgerKept`, `MoneyKept` | the refinement of `OrderLedger` and of `OrderMoney` by every order |
| `JournalExplains` | the journal explains every counter; its own invariant is above |
| `UpdatesNeverRefused` | what the lines of orders allow to release or to hand over, the item has: the conditions of the stock updates never fail |
| `CancellationFinal`, `PaidUnitsKept` | the action properties, from `IInv` |
| `ReferencesOnce` | references are spent once; rests on a second invariant, that movements of a release are of commands recorded |

### PaymentAttemptsProofs

It holds for any number of attempts and queries, any bound of the inbox, and any
subset of the outcomes the provider and the network may have. Assumptions: those
named in `PaymentAttempts`.

The invariant is again called `IInv`. Its parts support each other: an attempt not
handed over still has its window ahead (`WindowAhead`), so a hand-over never makes
a forgotten attempt; the provider is asked, and speaks, only of attempts handed
over (`OnlyHandedAsked`), so the schedule drops an attempt of unknown result only a
day after its window, and with a case (`NothingForgotten`); a retained wrong amount
is a mismatch from its receipt on (`MismatchKnown`), so its late application may
delete the row; attempts are made one after another (`MadeInOrder`), so a new one
never overwrites an old one. `NoPaidOrderGivenUp` needs that a notified payment has
marked its attempt or waits in the inbox (`NotifiedPaid`), and that an order still
open has no reason (`OpenHasNoReason`).

`NoFalseContradiction` is about a failure that was stored when the payment was inserted
(`failedFirst`). It needs `InboxSound`: a notification stands in the inbox once, and is
stored there exactly if it is in `seen`; and `FailureInFront`: such a failure stands in
front of the payment as long as both wait, and has left the inbox when the attempt is
marked. An answer of a query enters at the end, and an arriving event becomes stored in
its place, so the order of two entries never changes (`FrontKept`); an event is applied
from a place with nothing stored before it. A failure that was only *inserted* before
the payment is not covered, and section 6 shows that it cannot be.

`MoneyRefined` maps every step to `OrderMoney`: an event is applied once, under the
attempt's own reference (`AppliedMoney`), and a wrong amount may cancel the order in the
same step. `OneAttemptConfirms` is then not proved again: it is `OneConfirmation` of
`OrderMoneyProofs`, through the refinement.

The argument is by kinds of steps. Three handlers take an event; what they have in
common is `EventStep`. Every other step but `EndWindow` and `Repay` is `Quiet`: it
changes no state of an attempt and no event. `StepKinds` proves that there is no
further kind; each part of the invariant is then preserved by four cases.

| Theorem | States |
|---|---|
| `Invariance` | `[]IInv` |
| `TypeCorrect`, `JournalFirst`, `MoneyKept`, `NoneForgotten`, `LinksDie` | its parts |
| `NoContradictionInvented` | no contradiction from a failure stored before its payment, from `IInv` |
| `MoneyRefined`, `OneAttemptConfirms` | the refinement of `OrderMoney`; one attempt at most confirms the order |
| `AlwaysLegal` | the trigger refuses no step |
| `RetriesUnpaidOnly`, `PaidNeverGivenUp`, `LeasesKept` | the action properties, from `IInv` |

### OrderMoneyProofs

For any set of references: `OneConfirmation` (one payment at most confirms the order)
and `FirstOutcomeIsLast` (no outcome changes). Both hold of every system that refines
`OrderMoney`.

### CommerceEmailProofs

It holds for any e-mails, executions, leases, delays and budgets under the named
assumptions; that a closed row is retained at least as long as a send lease lasts
(`LifeAssumption`) is needed, or the sweep could delete a row under its sender. The
invariant adds to the properties that an execution past the loop has an e-mail
(`HasEmail`), that an e-mail marked `journaled`, or past that step, has its record
(`JournalKnows`), that the steps after an acceptance know it (`ServiceKnows`), and
what an execution that sends knows of its row: as long as its lease lasts the row
carries its token (`SenderKnows`). Every action of an execution is one of four kinds of
step with respect to those facts, proved one by one.

| Theorem | States |
|---|---|
| `TypeCorrect`, `NoneForgotten`, `JournaledFirst`, `LeaseHolds`, `SingleSender` | the five invariants of `EmailDelivery` |
| `SentIsTrue` | an e-mail recorded as sent was taken by the service |
| `PromiseKept` | the refinement of `EmailPromise` by every e-mail |

`PromiseKept` needs one more invariant, `HasRow`: an execution claims, and works at,
rows of e-mails that have been queued, however long ago it claimed them. A step moves
an e-mail by one of four moves (`Moved`); only `Journal` and `Send` touch the two facts.

### EventParticipationProofs

It holds for any finite sets of members and guests, and any capacities, starts,
holds, windows and lateness. The queue must be proved a strict linear order
(`InOrder`) of those who wait (`WaitingAhead`): only then do the newest `n` offers and
the oldest `n` entries exist and leave a state in which nobody queues in front of an
offer. The lemmas about `First`, `Newest` and cardinalities come first, then
`Reconcile` from any book in order, then each command as a change of the book between
two reconciliations. `GrowthBounded` compares the seats before and after: an offer
is made only into a free seat, a confirmation replaces a hold or an offer of the same
person, and a late clock counts more seats than there are, never fewer.
`OverbookedByReductionOnly` adds what `EventOverbooked` leaves open: a behaviour in
which no organizer lowers the capacity never seats, holds or offers more than there is.

| Theorem | States |
|---|---|
| `Invariance` | `[]IInv` |
| `FirstInFirstOffered`, `LeavesNothing` | its parts |
| `GrowthBounded` | the action property, from `IInv` |
| `OverbookedByReductionOnly` | no overbooking unless the capacity is lowered, from `GrowthBounded` |

### EventRemindersProofs

It holds for any people, passes, starts, leads, channels, batches, horizon and any
number of deaths. `HandedOnce` needs that what was not attempted was not handed over
(`UntriedUnsent`), that two passes never hold the same claim (`ClaimsDiffer`) and that
a claim is an attempt recorded as failed and not yet handed over (`ClaimsUnsent`): the
row of the attempt, inserted before the claim and never deleted, is what keeps every
later pass away. `RowsTell` says that an enabled row is for the start the event has
and carries the outcome of its attempt, from which `HandedIsCurrent` follows: a row
that survives its reconciliation was already right. Steps are calm, and change no
attempt (`CalmHolds`), or change one attempt that is nobody else's (`AttemptHolds`).

| Theorem | States |
|---|---|
| `Invariance` | `[]IInv` |
| `OnceHanded`, `AcceptedTaken` | its parts |
| `CurrentHanded` | the action property, from `IInv` |

### Model-checked only

Liveness under fairness is out of the prover's reach: `ExpiredHoldsEnd`, `HandedEnds`,
`ScheduledPaymentEnds`, `ToldPaymentApplied`, `EmailsEnd`, `SeatOffered`, `OffersEnd`,
`PendingEnds`; and the four properties of section 6, which TLC refutes. Every other
property of a run is a theorem.

## 6. Divergences between documents and code

* `PaymentUnscheduled`: a paid notification for an attempt that already failed or
  expired marks it `paid` but schedules no query, because `schedule()` tests the
  state read before the update (`payments/events.ts:91`). EC-SPEC-04 5.5 has the
  confirmation query follow every paid notification, and a case after an hour.
* `PaymentUnsettled`: an order all of whose attempts failed inside the window is
  never cancelled by the system (`payments/window.ts:83`); EC-SPEC-04 6.2 and
  EC-SPEC-03 3.3 have it cancelled. Its units are released by the sweep all the
  same, and a person can cancel it.
* `PaymentOvertaken`: a notification is dated by its insert, before it waits for the
  locks. A failure inserted first is invisible to the check of the payment inserted
  after it (`payments/events.ts:80`) until it commits; if the payment gets the lock
  first it is applied first, and the failure then opens `contradicting_event`
  (`payments/events.ts:125`). EC-SPEC-04 5.4 has the notifications of an attempt applied in
  the order of (`received_at`, `event_id`), to rule out this case. A failure already
  stored is never overtaken (`NoFalseContradiction`).
* `EventOverbooked`: when an organizer lowers the capacity, the reconciliation takes
  offers back until the occupancy fits, and counts one seat for each
  (`community/event-waitlist.ts:80`). The offer of a guest with a live reservation took
  no seat of its own, so taking it back frees none: another offer survives beyond
  the capacity, and once it is accepted more people are confirmed or hold a seat than
  there are. `docs/development/member-api.md` has excess offers return to the queue and
  an overlapping reservation counted once. The number of people going still cannot
  grow past the capacity later (`GrowsWithinCapacity`): the excess is there, as an
  offer, from the reduction on; and without a reduction there is none (the theorem
  `OverbookedByReductionOnly`).

In the first two cases a test of the repository fixes what the code does.

## 7. Not modelled

* Strings: signatures, forms, terms, e-mails, tracking numbers. They are pure
  functions; the models start from their verdicts.
* The e-mails of offers and notices of events, sent at most once by a claim and a
  second transaction as reminders are; bulletins, share codes, banners. That a
  reminder is sent before its event starts is not promised by the code: a batch, the
  ten minutes of the job or quiet hours may hold it back until it is closed.
* The clock within a transaction, but where a wait is modelled (`Sweep` late, the
  insertion of an attempt): elsewhere a transaction is one instant.
* Lock order. Transactions are atomic in the models; that they do not deadlock in
  the database is not shown.
* Budgets of the job (200 events, 200 sweeps, 50 calls, 99 orders per item): they
  delay work, and the models let it happen in any order.
* Service-activation attempts, unmatched events, v1 orders (but for the stock
  edit), offline records, refunds, and every component listed `not_modelled` in
  `PROJECT.json`, with its reason there.

## 8. Plan

Done: `CheckoutOrders`, `PaymentAttempts`, `CommerceEmail`, `EventParticipation` and
`EventReminders`, with their runs and proofs. What would add most, in order:

1. `LockOrder`: the lock sequences of the commerce transactions and their freedom
   from deadlock; settlements of bounded size.
2. `OfflinePayments` and `Refunds`: the other two sources and sinks of payment
   applications, composed with `CheckoutOrders`; `HostedOrders`: v1 reservations that
   share `reserved` with the checkout.
3. `EffectJournal`: flush of control events, restore and quarantine.
4. Outside commerce: asset uploads and media migration (two stores), scoped commands
   (run once), ownership recovery, device authorizations.

Proofs follow the runs: each module's invariant and, where there is an abstract
specification, its refinement.
