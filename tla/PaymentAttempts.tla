-------------------------- MODULE PaymentAttempts ---------------------------
(***************************************************************************)
(* The card payment of one hosted order                                    *)
(* (src/modules/agent-commerce/payments): its attempts, the link that hands *)
(* a buyer to the provider, the inbox of provider events, the three-phase  *)
(* query, the payment window and the due work that drives them.            *)
(*                                                                         *)
(* Every transaction on an attempt but one takes the lock of the order's    *)
(* community first, so it is one action.  A query is three actions, because *)
(* the provider is asked between two transactions; a page that hands over is *)
(* three too, because the journal is written between two transactions.      *)
(*                                                                         *)
(* The one is the notification: it is inserted, which gives it its place in *)
(* the receipt order, before it waits for the lock, and the transactions    *)
(* that hold the lock meanwhile do not see it (READ COMMITTED).  So it is   *)
(* two actions with those of others between them, and queue tells its        *)
(* entries that are stored (committed) from those that still arrive.  What a *)
(* retained notification, which waits for no lock, commits in the middle of *)
(* another transaction is taken as seen by all of its reads or by none.     *)
(*                                                                         *)
(* Time is what it makes true: the hold of the order has lapsed, the window *)
(* of an attempt or its day of retries is over.  A refusal that changes no  *)
(* table is a stuttering step.  Definitions marked Fault are mistakes the   *)
(* next definition could have made; the model does not use them.           *)
(***************************************************************************)
EXTENDS Integers, Sequences, FiniteSets

CONSTANTS
  MaxAttempts,    \* attempts of one order (5 in the code)
  MaxQueue,       \* unapplied events of one attempt that are told apart
  Queries,        \* queries that may be in flight at once
  Notifications,  \* outcomes of the notifications the provider sends
  Answers,        \* what the provider, or the network, answers to a query
  None            \* no attempt, no query

ASSUME BoundsAssumption == MaxAttempts \in Nat \ {0} /\ MaxQueue \in Nat
ASSUME ProviderAssumption ==
  /\ Notifications \subseteq {"paid", "wrong_amount", "failed", "pending", "simulated"}
  /\ Answers \subseteq {"paid", "amount_mismatch", "trade_no_mismatch", "unpaid",
                        "failed", "unknown", "error"}
ASSUME NoneAssumption == None \notin Queries /\ None \notin 1..MaxAttempts

Attempts == 1..MaxAttempts

VARIABLES
  life, reason,   \* of the order: lifecycle_state, cancel_reason
  expired,        \* its reservations have passed their expires_at
  state,          \* commerce_payment_attempts.state, "none" before the insert
  preparing,      \* attempts of which a payment page passed its first check
  journal,        \* attempts in the external effect journal
  journaled,      \* attempts with journaled_at
  handed,         \* attempts with handed_off_at
  link,           \* attempts with a live payment_handoff token
  charged,        \* attempts the provider charged
  app,            \* outcome of the payment application of the attempt
  queue,          \* its events in the inbox not yet applied, in receipt order
  seen,           \* its notifications stored in the inbox, applied or not
  earlier,        \* pairs of its notifications, the first received before the second
  answered,       \* attempts with a result queried since the pending confirmation
  mismatch,       \* attempts with a stored event that hasDefinitePaymentMismatch
  failedFirst,    \* history: a failure was stored when the payment was received
  cases,          \* exception cases opened, ever
  row, windowRow, \* attempts with payment_query, payment_window_end due work
  leaseBy,        \* the query whose token is in lease_until of the row
  leased,         \* attempts whose lease_until lies ahead
  call,           \* queries in flight
  cleared,        \* attempts a waiting repay command has seen unpaid
  stage,          \* of an attempt: "window", "after", "day" (24 h later)
  paidAge         \* since paid_at: "none", "new", "hour", "day"

orderVars == <<life, reason, expired>>
pageVars == <<preparing, journal, journaled, handed>>
inboxVars == <<queue, seen, earlier, answered, mismatch, failedFirst>>
dueVars == <<row, windowRow, leaseBy, leased>>
queryVars == <<call, cleared>>
clockVars == <<stage, paidAge>>
vars == <<orderVars, state, pageVars, link, charged, app, inboxVars, cases,
          dueVars, queryVars, clockVars>>

States == {"none", "issued", "superseded", "paid", "confirmed", "failed", "expired_unpaid"}
Final == {"confirmed", "failed", "expired_unpaid"}
Unpaid == {"issued", "superseded"}
Kinds == {"amount_mismatch", "paid_after_cancel", "overpaid", "contradicting_event",
          "payment_unconfirmed"}
Notice == [source : {"notification"}, outcome : Notifications]
Event == Notice \cup [source : {"query"}, outcome : Answers]
Entry == [event : Event, stored : {TRUE}] \cup [event : Notice, stored : {FALSE}]
Call == [to : Attempts, repay : BOOLEAN, answer : Answers \cup {"none"}]

TypeOK ==
  /\ life \in {"open", "cancelled"}
  /\ reason \in {"none", "person", "payment_not_completed", "paid_cancelled"}
  /\ expired \in BOOLEAN
  /\ state \in [Attempts -> States]
  /\ preparing \cup journal \cup journaled \cup handed \cup link \subseteq Attempts
  /\ charged \cup mismatch \cup answered \cup failedFirst \subseteq Attempts
  /\ row \cup windowRow \cup leased \cup cleared \subseteq Attempts
  /\ app \in [Attempts -> {"none", "confirmed", "overpaid", "after_cancel", "amount_mismatch"}]
  /\ queue \in [Attempts -> Seq(Entry)]
  /\ seen \in [Attempts -> SUBSET Notifications]
  /\ earlier \in [Attempts -> SUBSET (Notifications \X Notifications)]
  /\ cases \subseteq Attempts \X Kinds
  /\ leaseBy \in [Attempts -> Queries \cup {None}]
  /\ call \in [Queries -> Call \cup {None}]
  /\ stage \in [Attempts -> {"window", "after", "day"}]
  /\ paidAge \in [Attempts -> {"none", "new", "hour", "day"}]

\* Placement created the order with its first attempt and both due rows.
Init ==
  /\ life = "open" /\ reason = "none" /\ expired = FALSE
  /\ state = [a \in Attempts |-> IF a = 1 THEN "issued" ELSE "none"]
  /\ preparing = {} /\ journal = {} /\ journaled = {} /\ handed = {} /\ link = {}
  /\ charged = {}
  /\ app = [a \in Attempts |-> "none"]
  /\ queue = [a \in Attempts |-> <<>>]
  /\ seen = [a \in Attempts |-> {}]
  /\ earlier = [a \in Attempts |-> {}]
  /\ answered = {} /\ mismatch = {} /\ failedFirst = {} /\ cases = {}
  /\ row = {1} /\ windowRow = {1}
  /\ leaseBy = [a \in Attempts |-> None]
  /\ leased = {}
  /\ call = [q \in Queries |-> None]
  /\ cleared = {}
  /\ stage = [a \in Attempts |-> "window"]
  /\ paidAge = [a \in Attempts |-> "none"]

-----------------------------------------------------------------------------
(* What the transactions read.                                             *)

\* An event as an entry of the inbox, before and after its transaction commits.
Arriving(e) == [event |-> e, stored |-> FALSE]
Retained(e) == [event |-> e, stored |-> TRUE]

Note(n) == [source |-> "notification", outcome |-> n]
Answered(x) == [source |-> "query", outcome |-> x]

\* The places of inbox s that another transaction can see, and the events there.
Stored(s) == {k \in DOMAIN s : s[k].stored}
Unapplied(s) == {s[k].event : k \in Stored(s)}

\* Fault: an earlier event does not hold a later one back.
BehindNothing(s, k) == FALSE

\* An event stored at place k waits for the unapplied ones stored before it.
Behind(s, k) == \E j \in Stored(s) : j < k

\* Inbox s without its place k.
Without(s, k) == [i \in 1..(Len(s) - 1) |-> IF i < k THEN s[i] ELSE s[i + 1]]

Made == {a \in Attempts : state[a] # "none"}
Latest == CHOOSE a \in Made : \A b \in Made : b <= a

\* hasConfirmedPayment, of the applications ap.
Confirms(ap) == \E a \in Attempts : ap[a] = "confirmed"

\* The gate every page and link passes: the order is open and its reservations
\* are held and live.  A confirmed payment releases them (HoldsMoveTogether and
\* HeldUnitsUnpaid of CheckoutOrders).
Gate == life = "open" /\ ~expired /\ ~Confirms(app)

\* paymentQueryDueAt gives a date for an attempt in state st.
QueryDue(a, st, mm) ==
  /\ st \notin Final /\ a \notin mm
  /\ IF st = "paid" THEN paidAge[a] # "day"
     ELSE stage[a] = "window" \/ (a \in handed /\ stage[a] # "day")

\* Fault: an attempt of unknown result ends without a case.
PaidCasesOnly(a, st, mm) ==
  {c \in {<<a, "payment_unconfirmed">>} :
     a \notin mm /\ st = "paid" /\ paidAge[a] \in {"hour", "day"}}

\* The case paymentQueryDueAt opens on its way.
DueCases(a, st, mm) ==
  {c \in {<<a, "payment_unconfirmed">>} :
     /\ st \notin Final /\ a \notin mm
     /\ IF st = "paid" THEN paidAge[a] \in {"hour", "day"}
        ELSE a \in handed /\ stage[a] = "day"}

\* The due rows become R; a row that is deleted takes its lease with it.
DueRows(R) ==
  /\ row' = R
  /\ leaseBy' = [a \in Attempts |-> IF a \in R THEN leaseBy[a] ELSE None]
  /\ leased' = leased \cap R

-----------------------------------------------------------------------------
(* Time.                                                                   *)

\* Attempts are made while the holds live (30 minutes), and an hour passes
\* after each before its window is over.
HoldExpires ==
  /\ ~expired /\ expired' = TRUE
  /\ UNCHANGED <<life, reason, state, pageVars, link, charged, app, inboxVars,
                 cases, dueVars, queryVars, clockVars>>

WindowPasses(a) ==
  /\ expired /\ state[a] # "none" /\ stage[a] = "window"
  /\ \A b \in Made : b < a => stage[b] # "window"
  /\ stage' = [stage EXCEPT ![a] = "after"]
  /\ UNCHANGED <<orderVars, state, pageVars, link, charged, app, inboxVars,
                 cases, dueVars, queryVars, paidAge>>

\* The day after the window matters to an attempt of unknown result only.
DayPasses(a) ==
  /\ stage[a] = "after" /\ state[a] \in Unpaid
  /\ \A b \in Made : stage[b] # "window"
  /\ stage' = [stage EXCEPT ![a] = "day"]
  /\ UNCHANGED <<orderVars, state, pageVars, link, charged, app, inboxVars,
                 cases, dueVars, queryVars, paidAge>>

PaidAges(a) ==
  /\ state[a] = "paid" /\ stage[a] # "window"
  /\ \/ paidAge[a] = "new" /\ paidAge' = [paidAge EXCEPT ![a] = "hour"]
     \/ paidAge[a] = "hour" /\ paidAge' = [paidAge EXCEPT ![a] = "day"]
  /\ UNCHANGED <<orderVars, state, pageVars, link, charged, app, inboxVars,
                 cases, dueVars, queryVars, stage>>

LeaseLapses(a) ==
  /\ a \in leased /\ leased' = leased \ {a}
  /\ UNCHANGED <<orderVars, state, pageVars, link, charged, app, inboxVars,
                 cases, row, windowRow, leaseBy, queryVars, clockVars>>

\* A payment link lives fifteen minutes.
LinkLapses(a) ==
  /\ a \in link /\ link' = link \ {a}
  /\ UNCHANGED <<orderVars, state, pageVars, charged, app, inboxVars, cases,
                 dueVars, queryVars, clockVars>>

-----------------------------------------------------------------------------
(* The page that hands the buyer over to the provider.                     *)

\* A new link for the newest attempt, as long as nobody was handed over.
MintLink(a) ==
  /\ a = Latest /\ Gate /\ state[a] = "issued" /\ a \notin handed /\ a \notin link
  /\ link' = link \cup {a}
  /\ UNCHANGED <<orderVars, state, pageVars, charged, app, inboxVars, cases,
                 dueVars, queryVars, clockVars>>

PreparePage(a) ==
  /\ a \in link /\ Gate /\ state[a] = "issued" /\ a \notin handed
  /\ a \notin journaled /\ a \notin preparing
  /\ preparing' = preparing \cup {a}
  /\ UNCHANGED <<orderVars, state, journal, journaled, handed, link, charged, app,
                 inboxVars, cases, dueVars, queryVars, clockVars>>

\* The journal is outside the database; the page may die before or after.
AppendJournal(a) ==
  /\ a \in preparing /\ a \notin journal
  /\ journal' = journal \cup {a}
  /\ UNCHANGED <<orderVars, state, preparing, journaled, handed, link, charged,
                 app, inboxVars, cases, dueVars, queryVars, clockVars>>

PageDies(a) ==
  /\ a \in preparing /\ preparing' = preparing \ {a}
  /\ UNCHANGED <<orderVars, state, journal, journaled, handed, link, charged, app,
                 inboxVars, cases, dueVars, queryVars, clockVars>>

\* Fault: the attempt is marked before the journal has answered.
MarkAtOnce(a) ==
  /\ a \in preparing
  /\ journaled' = journaled \cup {a} /\ preparing' = preparing \ {a}
  /\ UNCHANGED <<orderVars, state, journal, handed, link, charged, app, inboxVars,
                 cases, dueVars, queryVars, clockVars>>

MarkJournaled(a) ==
  /\ a \in preparing /\ a \in journal
  /\ journaled' = journaled \cup {a} /\ preparing' = preparing \ {a}
  /\ UNCHANGED <<orderVars, state, journal, handed, link, charged, app, inboxVars,
                 cases, dueVars, queryVars, clockVars>>

\* The token is spent and the form goes out, after every check is made again.
HandOver(a) ==
  /\ a \in link /\ Gate /\ state[a] = "issued" /\ a \notin handed /\ a \in journaled
  /\ link' = link \ {a} /\ handed' = handed \cup {a}
  /\ UNCHANGED <<orderVars, state, preparing, journal, journaled, charged, app,
                 inboxVars, cases, dueVars, queryVars, clockVars>>

\* The provider charges the buyer's card, at whatever time.
Charge(a) ==
  /\ a \in handed /\ a \notin charged
  /\ charged' = charged \cup {a}
  /\ UNCHANGED <<orderVars, state, pageVars, link, app, inboxVars, cases, dueVars,
                 queryVars, clockVars>>

-----------------------------------------------------------------------------
(* What the application of an event changes.                               *)

\* Fault: a late failure takes a payment back.
FailsPaid(a, e) ==
  IF e = Answered("paid") THEN "confirmed"
  ELSE IF e = Note("paid") /\ state[a] # "confirmed" THEN "paid"
  ELSE IF e.outcome = "failed" THEN "failed"
  ELSE IF e = Answered("unpaid") /\ state[a] \in Unpaid /\ stage[a] # "window"
  THEN "expired_unpaid"
  ELSE state[a]

\* The state of a after event e: a notification marks it paid, only a query
\* confirms it, and unpaid ends it after its window.
StateAfter(a, e) ==
  IF e = Answered("paid") THEN "confirmed"
  ELSE IF e = Note("paid") /\ state[a] # "confirmed" THEN "paid"
  ELSE IF e.outcome = "failed" /\ state[a] \in Unpaid THEN "failed"
  ELSE IF e = Answered("unpaid") /\ state[a] \in Unpaid /\ stage[a] # "window"
  THEN "expired_unpaid"
  ELSE state[a]

\* Fault: nobody asks whether another attempt has paid.
AppUnchecked(a, e) ==
  IF app[a] # "none" THEN app[a]
  ELSE IF e.outcome \in {"wrong_amount", "amount_mismatch"} THEN "amount_mismatch"
  ELSE IF e.outcome # "paid" THEN "none"
  ELSE IF life = "cancelled" THEN "after_cancel"
  ELSE "confirmed"

\* applyConfirmedPayment under the attempt's own reference: its first outcome
\* is its last.
AppAfter(a, e) ==
  IF app[a] # "none" THEN app[a]
  ELSE IF e.outcome \in {"wrong_amount", "amount_mismatch"} THEN "amount_mismatch"
  ELSE IF e.outcome # "paid" THEN "none"
  ELSE IF life = "cancelled" THEN "after_cancel"
  ELSE IF Confirms(app) THEN "overpaid"
  ELSE "confirmed"

\* Fault: a late or a second payment opens no case.
MismatchCasesOnly(a, e) ==
  IF e.outcome \in {"wrong_amount", "amount_mismatch"} THEN {<<a, "amount_mismatch">>} ELSE {}

CasesAfter(a, e) ==
  {<<a, k>> : k \in {kind \in Kinds :
     \/ kind = "amount_mismatch" /\ e.outcome \in {"wrong_amount", "amount_mismatch"}
     \/ kind = "paid_after_cancel" /\ e.outcome = "paid" /\ AppAfter(a, e) = "after_cancel"
     \/ kind = "overpaid" /\ e.outcome = "paid" /\ AppAfter(a, e) = "overpaid"
     \/ kind = "contradicting_event" /\ e = Note("failed") /\ state[a] \in {"paid", "confirmed"}
     \/ kind = "contradicting_event" /\ e = Answered("trade_no_mismatch")
     \/ kind = "payment_unconfirmed" /\ state[a] = "paid"
          /\ e \in {Answered("unpaid"), Answered("failed")}}}

\* Fault: an unapplied event does not keep the order open.
SettlesOverEvents(st, ap, qu) ==
  /\ life = "open" /\ ~Confirms(ap)
  /\ \A a \in Made : st[a] \in {"failed", "expired_unpaid"}

\* settleOrderPayments cancels: nothing can pay the order any more and nothing
\* stored waits in the inbox.
Settles(st, ap, qu) ==
  /\ life = "open" /\ ~Confirms(ap)
  /\ \A a \in Made : st[a] \in {"failed", "expired_unpaid"} /\ Unapplied(qu[a]) = {}

\* The order ends and every link dies.
CancelOrder(why) ==
  /\ life' = "cancelled" /\ reason' = why /\ link' = {}
  /\ UNCHANGED expired

\* Event e of a is applied, with the inbox then qu.
Apply(a, e, qu) ==
  LET st == [state EXCEPT ![a] = StateAfter(a, e)]
      ap == [app EXCEPT ![a] = AppAfter(a, e)]
  IN  /\ state' = st /\ app' = ap /\ queue' = qu
      /\ paidAge' = IF st[a] = "paid" /\ state[a] # "paid"
                    THEN [paidAge EXCEPT ![a] = "new"] ELSE paidAge
      /\ IF stage[a] # "window" /\ Settles(st, ap, qu)
         THEN CancelOrder("payment_not_completed")
         ELSE UNCHANGED <<orderVars, link>>

\* The payment_query row after a notification: scheduled at once, by the state
\* the attempt had before the event, and deleted when the amount is wrong.
RowAfterNote(a, n) ==
  IF n = "wrong_amount" THEN row \ {a}
  ELSE IF n \in {"paid", "pending"} /\ state[a] \notin Final /\ a \notin mismatch
  THEN row \cup {a}
  ELSE row

-----------------------------------------------------------------------------
(* Notifications.                                                          *)

\* The notifications of a that were inserted, stored or still arriving.
Inserted(a) == seen[a] \cup {n \in Notifications :
                              \E k \in DOMAIN queue[a] : queue[a][k] = Arriving(Note(n))}

\* The pairs of notifications whose receipt is ever compared.
Compared == ({"pending"} \X {"paid", "wrong_amount", "failed"}) \cup {<<"failed", "paid">>}

\* The provider tells what it has done: the event is inserted, and nobody else
\* sees it yet.  One notification of each outcome is told apart; the code drops
\* the duplicates of each by their content (notificationDedupe).
InsertNotification(a, n) ==
  /\ a \in handed /\ n \notin Inserted(a)
  /\ n \in {"paid", "wrong_amount"} => a \in charged
  /\ Len(queue[a]) < MaxQueue
  /\ queue' = [queue EXCEPT ![a] = Append(@, Arriving(Note(n)))]
  /\ earlier' = [earlier EXCEPT ![a] = @ \cup ((Inserted(a) \X {n}) \cap Compared)]
  /\ answered' = IF n = "pending" THEN answered \ {a} ELSE answered
  /\ failedFirst' = IF n = "paid" /\ "failed" \in seen[a] THEN failedFirst \cup {a}
                    ELSE failedFirst
  /\ UNCHANGED <<orderVars, state, pageVars, link, charged, app, seen, mismatch,
                 cases, dueVars, queryVars, clockVars>>

\* The rest of the transaction, under the lock: the event is applied, unless it
\* arrives in quarantine or an event stored earlier waits; then it is retained.
ReceiveNotification(a, k, quarantine) ==
  LET n == queue[a][k].event.outcome
  IN  /\ k \in DOMAIN queue[a] \ Stored(queue[a])
      /\ seen' = [seen EXCEPT ![a] = @ \cup {n}]
      /\ mismatch' = IF n = "wrong_amount" THEN mismatch \cup {a} ELSE mismatch
      /\ IF quarantine \/ Behind(queue[a], k)
         THEN /\ queue' = [queue EXCEPT ![a] = [@ EXCEPT ![k] = Retained(Note(n))]]
              /\ UNCHANGED <<orderVars, state, link, app, cases, row, leaseBy, leased, paidAge>>
         ELSE /\ Apply(a, Note(n), [queue EXCEPT ![a] = Without(@, k)])
              /\ cases' = cases \cup CasesAfter(a, Note(n))
              /\ DueRows(RowAfterNote(a, n))
      /\ UNCHANGED <<pageVars, charged, earlier, answered, failedFirst, windowRow,
                     queryVars, stage>>

\* The transaction fails and its insert with it; the provider tells it again.
LoseNotification(a, k) ==
  LET n == queue[a][k].event.outcome
  IN  /\ k \in DOMAIN queue[a] \ Stored(queue[a])
      /\ queue' = [queue EXCEPT ![a] = Without(@, k)]
      /\ earlier' = [earlier EXCEPT ![a] = {p \in @ : n \notin {p[1], p[2]}}]
      /\ UNCHANGED <<orderVars, state, pageVars, link, charged, app, seen, answered,
                     mismatch, failedFirst, cases, dueVars, queryVars, clockVars>>

\* The buyer's browser comes back: a hint that only makes a query due now.
BrowserReturn(a) ==
  /\ a \in handed \ mismatch /\ a \notin row
  /\ row' = row \cup {a}
  /\ UNCHANGED <<orderVars, state, pageVars, link, charged, app, inboxVars, cases,
                 windowRow, leaseBy, leased, queryVars, clockVars>>

\* Fault: the deferred job passes over the events of a cancelled order.
OldestOfOpen(a) ==
  {k \in Stored(queue[a]) : life = "open" /\ ~Behind(queue[a], k)}

\* The event the deferred job takes from the inbox of an attempt, if there is one.
Oldest(a) == {k \in Stored(queue[a]) : ~Behind(queue[a], k)}

\* The deferred job applies the oldest retained event of an attempt.
ApplyDeferred(a) ==
  \E k \in Oldest(a) :
    LET e == queue[a][k].event
        st == StateAfter(a, e)
    IN  /\ Apply(a, e, [queue EXCEPT ![a] = Without(@, k)])
        /\ cases' = cases \cup CasesAfter(a, e)
        /\ DueRows(IF e.source = "notification" THEN RowAfterNote(a, e.outcome)
                   ELSE IF st \in Final \/ a \in mismatch THEN row \ {a} ELSE row)
        /\ UNCHANGED <<pageVars, charged, seen, earlier, answered, mismatch, failedFirst,
                       windowRow, queryVars, stage>>

-----------------------------------------------------------------------------
(* The three-phase query and its due work.                                 *)

\* unresolvedPendingConfirmationSQL: no result of a was received after its pending
\* confirmation.
Unresolved(a) ==
  /\ "pending" \in seen[a] /\ a \notin answered
  /\ \A n \in seen[a] : <<"pending", n>> \notin earlier[a]

\* inspectRepay: the newest attempt may be followed by another one.
Repayable(a) ==
  /\ a = Latest /\ a < MaxAttempts /\ Gate
  /\ \A b \in Attempts : state[b] \notin {"paid", "confirmed"} /\ app[b] = "none"
  /\ state[a] = "failed" \/ a \in handed
  /\ Unapplied(queue[a]) \cap {Note("paid"), Note("wrong_amount"), Answered("paid")} = {}
  /\ ~Unresolved(a)

\* Phase one leases the due row for a minute, for the scheduler, a person or a
\* repay command.  The first check of that command, a transaction earlier, may
\* no longer hold.
BeginQuery(q, a, repay) ==
  /\ call[q] = None /\ a \notin leased
  /\ QueryDue(a, state[a], mismatch) /\ a \in handed
  /\ repay => a = Latest /\ a < MaxAttempts
  /\ call' = [call EXCEPT ![q] = [to |-> a, repay |-> repay, answer |-> "none"]]
  /\ row' = row \cup {a}
  /\ leaseBy' = [leaseBy EXCEPT ![a] = q] /\ leased' = leased \cup {a}
  /\ cases' = cases \cup DueCases(a, state[a], mismatch)
  /\ UNCHANGED <<orderVars, state, pageVars, link, charged, app, inboxVars,
                 windowRow, cleared, clockVars>>

\* Phase one finds nothing to ask any more and deletes the row, if there is one.
SkipQuery(a) ==
  /\ a \in Made \ leased /\ ~QueryDue(a, state[a], mismatch)
  /\ DueRows(row \ {a})
  /\ cases' = cases \cup DueCases(a, state[a], mismatch)
  /\ UNCHANGED <<orderVars, state, pageVars, link, charged, app, inboxVars,
                 windowRow, queryVars, clockVars>>

\* Phase one may not ask (throttled, no credentials, an inactive tenant) and
\* leaves a row for later.
CannotQuery(a) ==
  /\ a \notin leased /\ QueryDue(a, state[a], mismatch) /\ a \in handed
  /\ row' = row \cup {a} /\ leaseBy' = [leaseBy EXCEPT ![a] = None]
  /\ cases' = cases \cup DueCases(a, state[a], mismatch)
  /\ UNCHANGED <<orderVars, state, pageVars, link, charged, app, inboxVars,
                 windowRow, leased, queryVars, clockVars>>

\* Between the phases the provider answers by what it knows then, or nobody
\* answers.  It names another trade number only once it has told one: the
\* number of an attempt is set by the event that marks it paid.
AnswerQuery(q, x) ==
  /\ call[q] # None /\ call[q].answer = "none"
  /\ x \in {"paid", "amount_mismatch", "trade_no_mismatch"} => call[q].to \in charged
  /\ x \in {"unpaid", "failed"} => call[q].to \notin charged
  /\ x = "trade_no_mismatch" => state[call[q].to] \in {"paid", "confirmed"}
  /\ call' = [call EXCEPT ![q].answer = x]
  /\ UNCHANGED <<orderVars, state, pageVars, link, charged, app, inboxVars, cases,
                 dueVars, cleared, clockVars>>

\* The request of the query dies; its lease is left to lapse.
AbandonQuery(q) ==
  /\ call[q] # None
  /\ call' = [call EXCEPT ![q] = None]
  /\ UNCHANGED <<orderVars, state, pageVars, link, charged, app, inboxVars, cases,
                 dueVars, cleared, clockVars>>

\* Fault: a row is done once its query has run.
OneQueryEach(a, st, mm) == DueRows(row \ {a})

\* updateSchedule for an attempt in state st: the row moves on without a lease,
\* or is deleted.
UpdateSchedule(a, st, mm) ==
  IF QueryDue(a, st, mm)
  THEN /\ leaseBy' = [leaseBy EXCEPT ![a] = None] /\ leased' = leased \ {a}
       /\ UNCHANGED row
  ELSE DueRows(row \ {a})

\* Fault: whoever finishes updates the schedule, whatever became of its lease.
AnyonesLease(q, a) == a \in row
OwnLease(q, a) == a \in row /\ leaseBy[a] = q

\* Phase three without an event: the network failed, nothing verified, or the
\* transaction did; a 403 of the provider moves the row on unconditionally.
FinishWithoutEvent(q) ==
  LET a == call[q].to
  IN  /\ call[q] # None /\ call[q].answer # "none"
      /\ call' = [call EXCEPT ![q] = None]
      /\ \/ /\ OwnLease(q, a) /\ UpdateSchedule(a, state[a], mismatch)
            /\ cases' = cases \cup DueCases(a, state[a], mismatch)
         \/ /\ OwnLease(q, a) /\ call[q].answer = "error"
            /\ leaseBy' = [leaseBy EXCEPT ![a] = None] /\ leased' = leased \ {a}
            /\ UNCHANGED <<row, cases>>
         \/ ~OwnLease(q, a) /\ UNCHANGED <<row, leaseBy, leased, cases>>
      /\ UNCHANGED <<orderVars, state, pageVars, link, charged, app, inboxVars,
                     windowRow, cleared, clockVars>>

\* Phase three writes the event and applies it unless another one waits; the
\* repay command learns that the attempt is unpaid.
FinishQuery(q) ==
  LET a == call[q].to
      x == call[q].answer
      e == Answered(x)
      now == Unapplied(queue[a]) = {}
      mm == IF x \in {"amount_mismatch", "trade_no_mismatch"} THEN mismatch \cup {a} ELSE mismatch
      st == IF now THEN StateAfter(a, e) ELSE state[a]
  IN  /\ call[q] # None /\ call[q].answer \notin {"none", "error"}
      /\ mismatch' = mm
      /\ answered' = IF x \in {"paid", "failed"} /\ "pending" \in Inserted(a)
                     THEN answered \cup {a} ELSE answered
      /\ IF now THEN Apply(a, e, queue)
         ELSE /\ Len(queue[a]) < MaxQueue
              /\ queue' = [queue EXCEPT ![a] = Append(@, Retained(e))]
              /\ UNCHANGED <<orderVars, state, link, app, paidAge>>
      /\ IF OwnLease(q, a) THEN UpdateSchedule(a, st, mm)
         ELSE UNCHANGED <<row, leaseBy, leased>>
      /\ cases' = cases \cup (IF now THEN CasesAfter(a, e) ELSE {})
                        \cup (IF OwnLease(q, a) THEN DueCases(a, st, mm) ELSE {})
      /\ call' = [call EXCEPT ![q] = None]
      /\ cleared' = IF call[q].repay /\ now /\ x \in {"unpaid", "failed"}
                    THEN cleared \cup {a} ELSE cleared
      /\ UNCHANGED <<pageVars, charged, seen, earlier, failedFirst, windowRow, stage>>

-----------------------------------------------------------------------------
(* The end of the window, the next attempt and the cancellation by a person. *)

\* endPaymentWindow: an attempt nobody was handed over to expires, any other of
\* unknown result is queried now.
EndWindow(a) ==
  /\ a \in windowRow /\ stage[a] # "window"
  /\ windowRow' = windowRow \ {a}
  /\ LET st == [state EXCEPT ![a] = "expired_unpaid"]
         open == state[a] \in Unpaid /\ a \notin mismatch
     IN  /\ IF open /\ a \notin handed THEN state' = st /\ DueRows(row \ {a})
            ELSE /\ row' = (IF open THEN row \cup {a} ELSE row)
                 /\ UNCHANGED <<state, leaseBy, leased>>
         /\ IF open /\ a \notin handed /\ Settles(st, app, queue)
            THEN CancelOrder("payment_not_completed")
            ELSE UNCHANGED <<orderVars, link>>
  /\ UNCHANGED <<pageVars, charged, app, inboxVars, cases, queryVars, clockVars>>

\* Fault: the new attempt is made on what the first transaction read.
RepayUnchecked(a) == a = Latest /\ a < MaxAttempts /\ Gate /\ a \in cleared

\* What the last transaction of resume finds: everything is checked again.
RepayChecked(a) == Repayable(a) /\ (state[a] = "failed" \/ a \in cleared)

Repay(a) ==
  /\ RepayChecked(a)
  /\ state' = [state EXCEPT ![a] = IF @ = "issued" THEN "superseded" ELSE @,
                            ![a + 1] = "issued"]
  /\ link' = link \cup {a + 1}
  /\ row' = row \cup {a + 1} /\ windowRow' = windowRow \cup {a + 1}
  /\ cleared' = cleared \ {a}
  /\ UNCHANGED <<orderVars, pageVars, charged, app, inboxVars, cases, leaseBy,
                 leased, call, clockVars>>

\* The buyer or the seller cancels: the provider is asked about every attempt
\* it may still charge.
PersonCancels ==
  /\ life = "open" /\ ~Confirms(app)
  /\ CancelOrder("person")
  /\ row' = row \cup {a \in handed \ mismatch : state[a] \in Unpaid}
  /\ UNCHANGED <<state, pageVars, charged, app, inboxVars, cases, windowRow,
                 leaseBy, leased, queryVars, clockVars>>

\* The checkout cancels the order after it was paid (cancelPaidOrder, or the
\* release of its last unit): it does not tell the payments.
PaidCancelled ==
  /\ life = "open" /\ Confirms(app)
  /\ life' = "cancelled" /\ reason' = "paid_cancelled"
  /\ UNCHANGED <<expired, state, pageVars, link, charged, app, inboxVars, cases,
                 dueVars, queryVars, clockVars>>

-----------------------------------------------------------------------------
Next ==
  \/ HoldExpires \/ PersonCancels \/ PaidCancelled
  \/ \E a \in Attempts :
       \/ WindowPasses(a) \/ DayPasses(a) \/ PaidAges(a) \/ LeaseLapses(a) \/ LinkLapses(a)
       \/ MintLink(a) \/ PreparePage(a) \/ AppendJournal(a) \/ PageDies(a)
       \/ MarkJournaled(a) \/ HandOver(a) \/ Charge(a) \/ BrowserReturn(a)
       \/ ApplyDeferred(a) \/ SkipQuery(a) \/ CannotQuery(a) \/ EndWindow(a) \/ Repay(a)
  \/ \E a \in Attempts, n \in Notifications : InsertNotification(a, n)
  \/ \E a \in Attempts, k \in 1..MaxQueue :
       \/ \E quarantine \in BOOLEAN : ReceiveNotification(a, k, quarantine)
       \/ LoseNotification(a, k)
  \/ \E q \in Queries, a \in Attempts, repay \in BOOLEAN : BeginQuery(q, a, repay)
  \/ \E q \in Queries : \/ \E x \in Answers : AnswerQuery(q, x)
                        \/ AbandonQuery(q) \/ FinishWithoutEvent(q) \/ FinishQuery(q)

Spec == Init /\ [][Next]_vars

-----------------------------------------------------------------------------
(* Safety.                                                                 *)

\* No buyer reaches the provider before the hand-over is in the external journal,
\* so a database restored from a backup can still find every trade it must ask
\* the provider about, whatever page died between the two writes (handoff.ts).
JournalBeforeHandoff == handed \subseteq journaled /\ journaled \subseteq journal

\* Money is never dropped: an attempt known to be paid has an application, and
\* one that did not confirm the order has a case for a person (events.ts,
\* queries.ts, whichever of the two saw the payment, in whatever order).
MoneyAccountedFor ==
  \A a \in Attempts :
    /\ state[a] \in {"paid", "confirmed"} => app[a] # "none"
    /\ app[a] = "after_cancel" => <<a, "paid_after_cancel">> \in cases
    /\ app[a] \in {"overpaid", "amount_mismatch"} => <<a, app[a]>> \in cases

\* An attempt that may still be charged is never forgotten: its window has yet
\* to end, a query is due, a mismatch or a case tells a person.  Cancelling the
\* order, ending the window and every outcome of a query keep it so.
NothingForgotten ==
  \A a \in handed :
    state[a] \in Unpaid =>
      \/ a \in windowRow \cup row \cup mismatch
      \/ <<a, "payment_unconfirmed">> \in cases

\* An order cancelled before it was paid leaves no live payment link, of any of
\* its attempts, and no later request makes one (onPaymentOrdersCancelled).
LinksDieWithOrder == life = "cancelled" /\ reason # "paid_cancelled" => link = {}

\* What the rest of the invariant rests on.  Attempts are made one after another,
\* the provider speaks only of attempts handed over, an attempt not handed over
\* has its window ahead, an open order has no reason, a wrong amount and a foreign
\* trade number are known as a mismatch from their receipt on, and a notified
\* payment has marked its attempt or waits in the inbox.
MadeInOrder == \E n \in Attempts : Made = 1..n
OnlyHandedAsked ==
  /\ handed \subseteq Made /\ mismatch \subseteq handed
  /\ \A a \in Attempts : queue[a] # <<>> => a \in handed
  /\ \A q \in Queries : call[q] # None => call[q].to \in handed
WindowAhead == \A a \in Made \ handed : state[a] \in Unpaid => a \in windowRow
OpenHasNoReason == life = "open" => reason = "none"
MismatchKnown ==
  \A a \in Attempts : \A e \in Unapplied(queue[a]) :
    e.outcome \in {"wrong_amount", "trade_no_mismatch"} => a \in mismatch
NotifiedPaid ==
  \A a \in Attempts :
    "paid" \in seen[a] =>
      state[a] \in {"paid", "confirmed"} \/ Note("paid") \in Unapplied(queue[a])

\* In inbox s each notification stands once, and those stored are the ones among S.
Sound(s, S) ==
  /\ \A k \in DOMAIN s :
       s[k].event.source = "notification" => (s[k].stored <=> s[k].event.outcome \in S)
  /\ \A j, k \in DOMAIN s :
       s[j].event.source = "notification" /\ s[j].event = s[k].event => j = k
InboxSound == \A a \in Attempts : Sound(queue[a], seen[a])

\* An attempt is marked paid, and contradicted, on a payment that was told; a
\* failure that was stored when the payment was received waits in front of it.
InFront(s, e, f) == \A j, k \in DOMAIN s : s[j].event = e /\ s[k].event = f => j < k
FailureInFront ==
  \A a \in Attempts :
    /\ state[a] = "paid" => "paid" \in seen[a]
    /\ <<a, "contradicting_event">> \in cases /\ a \notin mismatch /\ state[a] # "confirmed" =>
         "paid" \in seen[a]
    /\ a \in failedFirst =>
         /\ "failed" \in seen[a]
         /\ state[a] = "paid" => Note("failed") \notin Unapplied(queue[a])
         /\ InFront(queue[a], Note("failed"), Note("paid"))

\* A failure that was in the inbox when the payment was received never shows as a
\* contradiction, however long the two are retained (applyPaymentEvent applies in
\* receipt order what it can see).  Queries and mismatches contradict on their own.
NoFalseContradiction ==
  \A a \in failedFirst \ mismatch :
    state[a] # "confirmed" => <<a, "contradicting_event">> \notin cases

\* EC-SPEC-04 5.4: the notifications of an attempt are applied in the order of
\* (received_at, event_id), so that a late failure does not follow a payment that
\* was received after it and open a false contradicting_event.
AppliedInReceiptOrder ==
  \A a \in Attempts \ mismatch :
    <<"failed", "paid">> \in earlier[a] /\ state[a] # "confirmed" =>
      <<a, "contradicting_event">> \notin cases

\* The inductive invariant.
IInv ==
  /\ TypeOK
  /\ MadeInOrder
  /\ OnlyHandedAsked
  /\ WindowAhead
  /\ OpenHasNoReason
  /\ MismatchKnown
  /\ NotifiedPaid
  /\ InboxSound
  /\ FailureInFront
  /\ NoFalseContradiction
  /\ JournalBeforeHandoff
  /\ MoneyAccountedFor
  /\ NothingForgotten
  /\ LinksDieWithOrder

\* The transitions the trigger preserve_commerce_payment_attempt accepts; a paid
\* query takes two of them in one transaction.
Transition ==
  {<<"none", "issued">>, <<"issued", "superseded">>, <<"paid", "confirmed">>}
    \cup Unpaid \X {"paid", "confirmed", "failed", "expired_unpaid"}
    \cup {"failed", "expired_unpaid"} \X {"paid", "confirmed"}

\* No order of notifications, answers, windows and retries makes the code ask for
\* a transition the trigger refuses: the refused transaction would be retried for
\* ever and would hold back every later event of the attempt.
LegalTransitions ==
  [][\A a \in Attempts : state'[a] # state[a] => <<state[a], state'[a]>> \in Transition]_vars

\* The system gives an order up only when no payment of it was ever stored in the
\* inbox: a retained payment always wins over the end of the window
\* (settleOrderPayments), and one that still arrives comes after the cancellation.
NoPaidOrderGivenUp ==
  [][reason' = "payment_not_completed" /\ life = "open" =>
       \A a \in Attempts : /\ "paid" \notin seen'[a]
                           /\ \A e \in Unapplied(queue'[a]) : e.outcome # "paid"]_vars

\* A running query keeps its lease until it ends, its lease lapses or its row
\* goes: a query whose own lease was lost never frees the row of another one
\* (the token compared in phase three).
LeaseKept ==
  [][\A a \in Attempts : \A q \in Queries :
       a \in leased /\ leaseBy[a] = q /\ call'[q] = call[q] /\ a \in leased' \cup row' =>
         leaseBy'[a] = q]_vars

\* A buyer is offered another attempt only while no payment of the order is known
\* and the newest attempt has no payment waiting in the inbox: the last
\* transaction of resume reads again what the provider said meanwhile.
RetryOnlyUnpaid ==
  [][\A a \in Attempts : state[a] = "none" /\ state'[a] # "none" =>
       /\ life = "open"
       /\ \A b \in Made : app[b] = "none" /\ state[b] \notin {"paid", "confirmed"}
       /\ \A e \in Unapplied(queue[a - 1]) : e.outcome # "paid"]_vars

-----------------------------------------------------------------------------
(* Liveness.  The clock runs; the scheduled job, which runs every minute,    *)
(* ends windows, visits due queries and applies the retained events.         *)

Fairness ==
  /\ WF_vars(HoldExpires)
  /\ \A a \in Attempts :
       /\ WF_vars(WindowPasses(a)) /\ WF_vars(DayPasses(a)) /\ WF_vars(PaidAges(a))
       /\ WF_vars(LeaseLapses(a)) /\ WF_vars(EndWindow(a))
       /\ WF_vars(a \in row /\ SkipQuery(a))
       /\ WF_vars(ApplyDeferred(a))

FairSpec == Spec /\ Fairness

\* Whatever the network and the provider do, an attempt handed over ends with a
\* result, a mismatch or a case within the day after its window.
HandedEnds ==
  \A a \in Attempts :
    a \in handed ~> \/ state[a] \notin Unpaid \/ a \in mismatch
                    \/ <<a, "payment_unconfirmed">> \in cases

\* A payment whose confirmation is scheduled is confirmed, or a person is told
\* that it could not be (paymentQueryDueAt).
ScheduledPaymentEnds ==
  \A a \in Attempts :
    state[a] = "paid" /\ a \in row ~> \/ state[a] = "confirmed" \/ a \in mismatch
                                     \/ <<a, "payment_unconfirmed">> \in cases

\* A payment the provider told of is applied, even one received in quarantine and
\* behind other events (applyDeferredPaymentEvents).
ToldPaymentApplied ==
  \A a \in Attempts : "paid" \in seen[a] ~> app[a] # "none"

\* EC-SPEC-04 5.5: the confirmation of a payment is scheduled with its
\* notification, and after an hour without it a person is told.
PaymentEnds ==
  \A a \in Attempts :
    state[a] = "paid" ~> \/ state[a] = "confirmed" \/ a \in mismatch
                         \/ <<a, "payment_unconfirmed">> \in cases

\* EC-SPEC-04 6.2, EC-SPEC-03 3.3: an open order without a payment all of whose
\* attempts failed or expired is cancelled when the payment window is over.
UnpaidOrderEnds ==
  (\A a \in Made : /\ state[a] \in {"failed", "expired_unpaid"}
                   /\ stage[a] # "window" /\ Unapplied(queue[a]) = {})
    ~> \/ life = "cancelled" \/ Confirms(app)
       \/ \E a \in Made : state[a] \notin {"failed", "expired_unpaid"}

-----------------------------------------------------------------------------
(* The money of the order, as the payments see it, is what OrderMoney says:  *)
(* the same promise CheckoutOrders keeps for each of its orders.             *)

Money == INSTANCE OrderMoney WITH Refs <- Attempts, phase <- life, money <- app

\* Whatever events, windows, retries and cancellations come between, one attempt
\* at most confirms the order, while it is open, and the outcome of a payment is
\* never changed (applyConfirmedPayment under the attempt's own reference).
KeepsMoney == Money!Spec

=============================================================================
