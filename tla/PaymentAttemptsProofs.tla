----------------------- MODULE PaymentAttemptsProofs -----------------------
(***************************************************************************)
(* Proofs about PaymentAttempts for any number of attempts, any queries,    *)
(* any bound of the inbox and any outcomes of the provider.                 *)
(*                                                                         *)
(* Three handlers take an event: the notification, the deferred job and     *)
(* phase three of a query.  What they have in common is EventStep; every    *)
(* other step but EndWindow and Repay is Quiet, the insert and the loss of  *)
(* a notification nobody else has seen among them.  StepKinds says that     *)
(* there is no further kind of step, and most parts of the invariant need   *)
(* no more than that.                                                      *)
(***************************************************************************)
EXTENDS PaymentAttempts, SequenceTheorems, TLAPS

-----------------------------------------------------------------------------
(* What an event changes, whichever handler takes it.                       *)

\* The due work contradicts nobody.
ContradictionsKept ==
  \A b \in Attempts : <<b, "contradicting_event">> \in cases' => <<b, "contradicting_event">> \in cases

\* Event e of a waits in the inbox, where others see it.
Waits(a, e) ==
  /\ Unapplied(queue'[a]) = Unapplied(queue[a]) \cup {e}
  /\ ContradictionsKept
  /\ UNCHANGED <<orderVars, state, link, app, paidAge>>

\* Event e of a is applied, and the inbox is then qu.
Applied(a, e, qu) ==
  /\ Apply(a, e, qu)
  /\ CasesAfter(a, e) \subseteq cases'
  /\ \A b \in Attempts : <<b, "contradicting_event">> \in cases' =>
       <<b, "contradicting_event">> \in cases \cup CasesAfter(a, e)

\* Event e of a is applied, and of those that waited no other has gone.
Taken(a, e) ==
  /\ \E qu : Applied(a, e, qu)
  /\ Unapplied(queue'[a]) \subseteq Unapplied(queue[a])
  /\ Unapplied(queue[a]) \ {e} \subseteq Unapplied(queue'[a])

\* A due row goes only with an attempt that needs none.
RowsKept ==
  \A b \in row \cap handed :
    \/ b \in row' \cup mismatch' \/ state'[b] \notin Unpaid
    \/ <<b, "payment_unconfirmed">> \in cases'

\* The order ends at most once, for the reason why or as paid; no link outlives an
\* unpaid one.
OrderMoves(why) ==
  \/ UNCHANGED <<life, reason>> /\ (life = "open" \/ link' \subseteq link)
  \/ life = "open" /\ life' = "cancelled" /\ reason' = why /\ link' = {}
  \/ life = "open" /\ life' = "cancelled" /\ reason' = "paid_cancelled"

\* Only attempts handed over are asked about.
CallsKept == \A q \in Queries : call'[q] # None => call'[q].to \in handed

EventStep(a, e) ==
  /\ a \in handed /\ e \in Event
  /\ Waits(a, e) \/ Taken(a, e)
  /\ \A b \in Attempts \ {a} : queue'[b] = queue[b]
  /\ \A b \in Attempts : "paid" \in seen'[b] => "paid" \in seen[b] \/ (b = a /\ e = Note("paid"))
  /\ cases \subseteq cases' /\ mismatch \subseteq mismatch' /\ mismatch' \subseteq mismatch \cup {a}
  /\ e.outcome \in {"wrong_amount", "trade_no_mismatch"} => a \in mismatch'
  /\ RowsKept /\ CallsKept
  /\ UNCHANGED <<pageVars, windowRow>>

\* No inbox shows or hides an event, and only attempts handed over have one.
InboxesShowNothing ==
  \A b \in Attempts : /\ Unapplied(queue'[b]) = Unapplied(queue[b])
                      /\ queue'[b] # <<>> => b \in handed

Quiet ==
  /\ cases \subseteq cases' /\ ContradictionsKept
  /\ handed \subseteq handed'
  /\ handed' \subseteq handed \cup {a \in journaled : state[a] = "issued"}
  /\ journaled \subseteq journaled' /\ journaled' \subseteq journaled \cup journal
  /\ journal \subseteq journal'
  /\ OrderMoves("person") /\ RowsKept /\ CallsKept
  /\ InboxesShowNothing
  /\ UNCHANGED <<state, app, seen, mismatch, windowRow>>

LEMMA EventTypes ==
  /\ \A n \in Notifications : Note(n) \in Event
  /\ \A x \in Answers : Answered(x) \in Event
  BY DEF Note, Answered, Event, Notice

\* What still arrives is a notification.
LEMMA ArrivingIsNotification ==
  ASSUME TypeOK, NEW a \in Attempts, NEW k \in DOMAIN queue[a] \ Stored(queue[a])
  PROVE  /\ queue[a][k].event.outcome \in Notifications
         /\ queue[a][k].event = Note(queue[a][k].event.outcome)
<1>1. queue[a] \in Seq(Entry) /\ k \in DOMAIN queue[a] /\ ~queue[a][k].stored
  BY DEF TypeOK, Stored
<1>2. queue[a][k] \in Entry
  BY <1>1
<1>3. queue[a][k].event \in Notice
  BY <1>1, <1>2 DEF Entry
<1> QED
  BY <1>3 DEF Notice, Note

LEMMA EntryTypes ==
  /\ \A n \in Notifications : Arriving(Note(n)) \in Entry /\ ~Arriving(Note(n)).stored
  /\ \A e \in Event : Retained(e) \in Entry /\ Retained(e).stored /\ Retained(e).event = e
  /\ \A x \in Entry : x.event \in Event /\ x.stored \in BOOLEAN
  BY DEF Arriving, Retained, Entry, Event, Notice, Note

\* Where place i of an inbox without its place k was before.
Place(i, k) == IF i < k THEN i ELSE i + 1

\* An inbox without a place keeps the others, in their order.
LEMMA WithoutPlace ==
  ASSUME NEW S, NEW s \in Seq(S), NEW k \in DOMAIN s
  PROVE  /\ Without(s, k) \in Seq(S) /\ DOMAIN Without(s, k) = 1..(Len(s) - 1)
         /\ \A i \in DOMAIN Without(s, k) :
              Place(i, k) \in DOMAIN s /\ Place(i, k) # k /\ Without(s, k)[i] = s[Place(i, k)]
         /\ \A i, j \in DOMAIN Without(s, k) : i < j <=> Place(i, k) < Place(j, k)
         /\ \A i, j \in DOMAIN Without(s, k) : Place(i, k) = Place(j, k) => i = j
         /\ \A j \in DOMAIN s : j # k => \E i \in DOMAIN Without(s, k) : Place(i, k) = j
<1> DEFINE W == Without(s, k)
<1>1. Len(s) \in Nat /\ DOMAIN s = 1..Len(s) /\ k \in 1..Len(s)
  OBVIOUS
<1>2. W = [i \in 1..(Len(s) - 1) |-> IF i < k THEN s[i] ELSE s[i + 1]]
  BY DEF Without
<1>3. DOMAIN W = 1..(Len(s) - 1)
  BY <1>2
<1>4. \A i \in 1..(Len(s) - 1) : W[i] = IF i < k THEN s[i] ELSE s[i + 1]
  BY <1>2
<1>5. \A i \in DOMAIN W : Place(i, k) \in 1..Len(s) /\ Place(i, k) # k /\ W[i] = s[Place(i, k)]
  BY <1>1, <1>3, <1>4 DEF Place
<1>6. \A i \in 1..(Len(s) - 1) : W[i] \in S
  BY <1>1, <1>3, <1>5
<1>7. W \in Seq(S)
  <2>1. W \in [1..(Len(s) - 1) -> S] /\ Len(s) - 1 \in Nat
    BY <1>1, <1>2, <1>6
  <2> QED
    BY <2>1
<1>8. /\ \A i, j \in DOMAIN W : i < j <=> Place(i, k) < Place(j, k)
      /\ \A i, j \in DOMAIN W : Place(i, k) = Place(j, k) => i = j
  BY <1>1, <1>3 DEF Place
<1>9. ASSUME NEW j \in 1..Len(s), j # k
      PROVE  \E i \in 1..(Len(s) - 1) : Place(i, k) = j
  <2>1. CASE j < k
    BY <1>1, <1>9, <2>1 DEF Place
  <2>2. CASE j > k
    <3>1. j - 1 \in 1..(Len(s) - 1) /\ Place(j - 1, k) = j
      BY <1>1, <2>2 DEF Place
    <3> QED
      BY <3>1
  <2> QED
    BY <1>1, <1>9, <2>1, <2>2
<1>10. \A j \in DOMAIN s : j # k => \E i \in DOMAIN W : Place(i, k) = j
  BY <1>1, <1>3, <1>9
<1>11. \A i \in DOMAIN W : /\ Place(i, k) \in DOMAIN s /\ Place(i, k) # k
                          /\ W[i] = s[Place(i, k)]
  BY <1>1, <1>5
<1> QED
  BY <1>3, <1>7, <1>8, <1>10, <1>11, Zenon

\* What others see of an inbox when a place of it goes.
LEMMA UnappliedWithout ==
  ASSUME NEW s \in Seq(Entry), NEW k \in DOMAIN s
  PROVE  /\ Unapplied(Without(s, k)) \subseteq Unapplied(s)
         /\ Unapplied(s) \ {s[k].event} \subseteq Unapplied(Without(s, k))
         /\ ~s[k].stored => Unapplied(Without(s, k)) = Unapplied(s)
<1> DEFINE W == Without(s, k)
<1>1. ASSUME NEW e \in Unapplied(W)
      PROVE  e \in Unapplied(s)
  <2>1. PICK i \in DOMAIN W : W[i].stored /\ W[i].event = e
    BY DEF Unapplied, Stored
  <2>2. Place(i, k) \in DOMAIN s /\ W[i] = s[Place(i, k)]
    BY WithoutPlace
  <2> QED
    BY <2>1, <2>2 DEF Unapplied, Stored
<1>2. ASSUME NEW j \in DOMAIN s, s[j].stored, j # k
      PROVE  s[j].event \in Unapplied(W)
  <2>1. PICK i \in DOMAIN W : Place(i, k) = j
    BY <1>2, WithoutPlace
  <2>2. W[i] = s[j]
    BY <2>1, WithoutPlace
  <2> QED
    BY <1>2, <2>2 DEF Unapplied, Stored
<1>3. ASSUME NEW e \in Unapplied(s), e # s[k].event \/ ~s[k].stored
      PROVE  e \in Unapplied(W)
  <2>1. PICK j \in DOMAIN s : s[j].stored /\ s[j].event = e
    BY DEF Unapplied, Stored
  <2> QED
    BY <1>2, <1>3, <2>1
<1> QED
  BY <1>1, <1>3

LEMMA UnappliedAppend ==
  ASSUME NEW s \in Seq(Entry), NEW x \in Entry
  PROVE  /\ x.stored => Unapplied(Append(s, x)) = Unapplied(s) \cup {x.event}
         /\ ~x.stored => Unapplied(Append(s, x)) = Unapplied(s)
<1>1. /\ DOMAIN Append(s, x) = DOMAIN s \cup {Len(s) + 1}
      /\ Append(s, x)[Len(s) + 1] = x /\ \A k \in DOMAIN s : Append(s, x)[k] = s[k]
  OBVIOUS
<1> QED
  BY <1>1 DEF Unapplied, Stored

LEMMA UnappliedRetained ==
  ASSUME NEW s \in Seq(Entry), NEW k \in DOMAIN s \ Stored(s), NEW x \in Entry, x.stored
  PROVE  /\ [s EXCEPT ![k] = x] \in Seq(Entry)
         /\ Unapplied([s EXCEPT ![k] = x]) = Unapplied(s) \cup {x.event}
<1>1. /\ [s EXCEPT ![k] = x] \in Seq(Entry) /\ DOMAIN [s EXCEPT ![k] = x] = DOMAIN s
      /\ [s EXCEPT ![k] = x][k] = x
      /\ \A j \in DOMAIN s : j # k => [s EXCEPT ![k] = x][j] = s[j]
  OBVIOUS
<1> QED
  BY <1>1 DEF Unapplied, Stored

\* An event of a known attempt moves it along a transition of the trigger, marks
\* it paid when it says so, and leaves a paid attempt paid.
LEMMA StateAfterEvent ==
  ASSUME NEW a \in Attempts, NEW e \in Event, state[a] \in States \ {"none"}
  PROVE  /\ StateAfter(a, e) \in States \ {"none"}
         /\ StateAfter(a, e) # state[a] => <<state[a], StateAfter(a, e)>> \in Transition
         /\ StateAfter(a, e) \in Unpaid => StateAfter(a, e) = state[a]
         /\ e.outcome = "paid" => StateAfter(a, e) \in {"paid", "confirmed"}
         /\ StateAfter(a, e) \in {"paid", "confirmed"} =>
              e.outcome = "paid" \/ state[a] \in {"paid", "confirmed"}
         /\ state[a] \in {"paid", "confirmed"} => StateAfter(a, e) \in {"paid", "confirmed"}
<1>1. CASE e.outcome = "paid"
  <2>1. e \in {Note("paid"), Answered("paid")}
    BY <1>1 DEF Event, Notice, Note, Answered
  <2>2. StateAfter(a, e) \in {"paid", "confirmed"} /\ (state[a] = "confirmed" => StateAfter(a, e) = "confirmed")
    BY <2>1 DEF StateAfter, Note, Answered
  <2> QED
    BY <1>1, <2>2 DEF States, Unpaid, Transition
<1>2. CASE e.outcome # "paid"
  <2>1. e # Note("paid") /\ e # Answered("paid")
    BY <1>2 DEF Note, Answered
  <2>2. \/ StateAfter(a, e) = state[a]
        \/ state[a] \in Unpaid /\ StateAfter(a, e) \in {"failed", "expired_unpaid"}
    BY <2>1 DEF StateAfter
  <2> QED
    BY <1>2, <2>2 DEF States, Unpaid, Transition
<1> QED
  BY <1>1, <1>2

\* The first outcome of an application is its last, and every other outcome but a
\* confirmation comes with its case.
LEMMA AppAfterEvent ==
  ASSUME NEW a \in Attempts, NEW e \in Event, TypeOK
  PROVE  /\ AppAfter(a, e) \in {"none", "confirmed", "overpaid", "after_cancel", "amount_mismatch"}
         /\ app[a] # "none" => AppAfter(a, e) = app[a]
         /\ e.outcome = "paid" => AppAfter(a, e) # "none"
         /\ app[a] = "none" /\ AppAfter(a, e) = "after_cancel" =>
              <<a, "paid_after_cancel">> \in CasesAfter(a, e)
         /\ app[a] = "none" /\ AppAfter(a, e) \in {"overpaid", "amount_mismatch"} =>
              <<a, AppAfter(a, e)>> \in CasesAfter(a, e)
  BY DEF AppAfter, CasesAfter, Kinds, TypeOK

LEMMA CasesTyped ==
  ASSUME NEW a \in Attempts, NEW e \in Event, NEW st, NEW mm
  PROVE  /\ CasesAfter(a, e) \subseteq Attempts \X Kinds
         /\ DueCases(a, st, mm) \subseteq Attempts \X Kinds
  BY DEF CasesAfter, DueCases, Kinds

LEMMA DueCasesContradictNobody ==
  ASSUME NEW a, NEW st, NEW mm, cases' \subseteq cases \cup DueCases(a, st, mm)
  PROVE  ContradictionsKept
  BY DEF DueCases, ContradictionsKept

\* An applied event changes its own attempt, and ends the order only when no
\* attempt of it may still be paid.
LEMMA ApplyEffect ==
  ASSUME TypeOK, NEW a \in Attempts, NEW e \in Event, NEW qu, Apply(a, e, qu)
  PROVE  /\ state' = [state EXCEPT ![a] = StateAfter(a, e)]
         /\ app' = [app EXCEPT ![a] = AppAfter(a, e)]
         /\ queue' = qu
         /\ paidAge' \in [Attempts -> {"none", "new", "hour", "day"}]
         /\ expired' = expired
         /\ \/ UNCHANGED <<life, reason, link>>
            \/ /\ life = "open" /\ life' = "cancelled"
               /\ reason' = "payment_not_completed" /\ link' = {}
               /\ \A b \in Made : /\ state'[b] \in {"failed", "expired_unpaid"}
                                  /\ Unapplied(queue'[b]) = {}
               /\ \A b \in Attempts : app'[b] # "confirmed"
<1>1. /\ state' = [state EXCEPT ![a] = StateAfter(a, e)]
      /\ app' = [app EXCEPT ![a] = AppAfter(a, e)]
      /\ queue' = qu
  BY Zenon DEF Apply
<1>2. paidAge' = [paidAge EXCEPT ![a] = "new"] \/ paidAge' = paidAge
  BY Zenon DEF Apply
<1>3. paidAge' \in [Attempts -> {"none", "new", "hour", "day"}]
  BY <1>2 DEF TypeOK
<1>4. CASE stage[a] # "window" /\ Settles([state EXCEPT ![a] = StateAfter(a, e)],
                                        [app EXCEPT ![a] = AppAfter(a, e)], qu)
  <2>1. CancelOrder("payment_not_completed")
    BY <1>4, Zenon DEF Apply
  <2> QED
    BY <1>1, <1>3, <1>4, <2>1 DEF CancelOrder, Settles, Confirms
<1>5. CASE ~(stage[a] # "window" /\ Settles([state EXCEPT ![a] = StateAfter(a, e)],
                                          [app EXCEPT ![a] = AppAfter(a, e)], qu))
  <2>1. UNCHANGED <<orderVars, link>>
    BY <1>5, Zenon DEF Apply
  <2> QED
    BY <1>1, <1>3, <2>1 DEF orderVars
<1> QED
  BY <1>4, <1>5

-----------------------------------------------------------------------------
(* The kinds of steps.                                                      *)

\* An attempt handed over whose result is unknown leaves the schedule with a case.
LEMMA NotDueHasCase ==
  ASSUME TypeOK, NEW a \in handed, NEW st \in Unpaid, NEW mm, a \notin mm, ~QueryDue(a, st, mm)
  PROVE  <<a, "payment_unconfirmed">> \in DueCases(a, st, mm)
<1>1. st \notin Final /\ st # "paid" /\ a \in Attempts
  BY DEF Unpaid, Final, TypeOK
<1>2. stage[a] = "day"
  BY <1>1 DEF QueryDue, TypeOK
<1> QED
  BY <1>1, <1>2 DEF DueCases

\* The row of an attempt that needs no further query is deleted.
LEMMA ScheduleEffect ==
  ASSUME NEW a, NEW st, NEW mm, UpdateSchedule(a, st, mm)
  PROVE  row' = row \/ (row' = row \ {a} /\ ~QueryDue(a, st, mm))
<1>1. CASE QueryDue(a, st, mm)
  BY <1>1 DEF UpdateSchedule
<1>2. CASE ~QueryDue(a, st, mm)
  BY <1>2 DEF UpdateSchedule, DueRows
<1> QED
  BY <1>1, <1>2

\* The event of a notification whose transaction goes on.
LEMMA NotificationIsEvent ==
  ASSUME TypeOK, OnlyHandedAsked, NEW a \in Attempts, NEW k, NEW quarantine \in BOOLEAN,
         ReceiveNotification(a, k, quarantine)
  PROVE  EventStep(a, queue[a][k].event)
<1> DEFINE e == queue[a][k].event
           n == e.outcome
<1>1. /\ k \in DOMAIN queue[a] \ Stored(queue[a]) /\ queue[a] \in Seq(Entry)
      /\ n \in Notifications /\ e = Note(n) /\ e \in Event
  <2>1. k \in DOMAIN queue[a] \ Stored(queue[a])
    BY DEF ReceiveNotification
  <2> QED
    BY <2>1, ArrivingIsNotification, EventTypes DEF TypeOK
<1>2. a \in handed /\ ~queue[a][k].stored
  BY <1>1 DEF OnlyHandedAsked, Stored
<1>3. /\ Waits(a, e) \/ Taken(a, e)
      /\ \A b \in Attempts \ {a} : queue'[b] = queue[b]
  <2>1. CASE quarantine \/ Behind(queue[a], k)
    <3>1. /\ queue' = [queue EXCEPT ![a] = [@ EXCEPT ![k] = Retained(Note(n))]]
          /\ UNCHANGED <<orderVars, state, link, app, cases, paidAge>>
      BY <2>1 DEF ReceiveNotification
    <3>2. /\ queue'[a] = [queue[a] EXCEPT ![k] = Retained(e)]
          /\ \A b \in Attempts \ {a} : queue'[b] = queue[b]
      BY <1>1, <3>1 DEF TypeOK
    <3>3. Unapplied(queue'[a]) = Unapplied(queue[a]) \cup {e}
      BY <1>1, <3>2, EntryTypes, UnappliedRetained
    <3> QED
      BY <3>1, <3>2, <3>3 DEF Waits, ContradictionsKept
  <2>2. CASE ~(quarantine \/ Behind(queue[a], k))
    <3> DEFINE qu == [queue EXCEPT ![a] = Without(@, k)]
    <3>1. Apply(a, Note(n), qu) /\ cases' = cases \cup CasesAfter(a, Note(n))
      BY <2>2 DEF ReceiveNotification
    <3>2. Applied(a, e, qu)
      BY <1>1, <3>1 DEF Applied
    <3>3. queue' = qu
      BY <3>1, Zenon DEF Apply
    <3>4. /\ queue'[a] = Without(queue[a], k)
          /\ \A b \in Attempts \ {a} : queue'[b] = queue[b]
      BY <3>3 DEF TypeOK
    <3>5. Unapplied(queue'[a]) = Unapplied(queue[a])
      BY <1>1, <1>2, <3>4, UnappliedWithout
    <3> QED
      BY <3>2, <3>4, <3>5 DEF Taken
  <2> QED
    BY <2>1, <2>2
<1>4. cases \subseteq cases'
  BY DEF ReceiveNotification
<1>5. /\ mismatch \subseteq mismatch' /\ mismatch' \subseteq mismatch \cup {a}
      /\ e.outcome \in {"wrong_amount", "trade_no_mismatch"} => a \in mismatch'
  BY <1>1, ProviderAssumption DEF ReceiveNotification
<1>6. \A b \in Attempts : "paid" \in seen'[b] => "paid" \in seen[b] \/ (b = a /\ e = Note("paid"))
  <2>1. seen' = [seen EXCEPT ![a] = @ \cup {n}]
    BY DEF ReceiveNotification
  <2> QED
    BY <1>1, <2>1 DEF TypeOK
<1>7. UNCHANGED <<pageVars, windowRow>>
  BY DEF ReceiveNotification
<1>8. RowsKept
  <2>1. row' = row \/ row' = RowAfterNote(a, n)
    BY DEF ReceiveNotification, DueRows
  <2>2. row \ {a} \subseteq row' /\ (a \in row' \/ a \in mismatch' \/ a \notin row)
    BY <1>5, <2>1 DEF RowAfterNote
  <2> QED
    BY <2>2 DEF RowsKept
<1>9. CallsKept
  BY DEF ReceiveNotification, queryVars, CallsKept, OnlyHandedAsked
<1> QED
  BY <1>1, <1>2, <1>3, <1>4, <1>5, <1>6, <1>7, <1>8, <1>9 DEF EventStep

\* What the deferred job does with the event at place k.
Defers(a, k) ==
  LET e == queue[a][k].event
  IN  /\ k \in DOMAIN queue[a] /\ queue[a][k].stored /\ ~Behind(queue[a], k)
      /\ Apply(a, e, [queue EXCEPT ![a] = Without(@, k)])
      /\ cases' = cases \cup CasesAfter(a, e)
      /\ DueRows(IF e.source = "notification" THEN RowAfterNote(a, e.outcome)
                 ELSE IF StateAfter(a, e) \in Final \/ a \in mismatch THEN row \ {a} ELSE row)
      /\ UNCHANGED <<pageVars, charged, seen, earlier, answered, mismatch, failedFirst,
                     windowRow, queryVars, stage>>

LEMMA DeferredPlace ==
  ASSUME NEW a \in Attempts, ApplyDeferred(a)
  PROVE  \E k \in DOMAIN queue[a] : Defers(a, k)
<1>1. PICK k \in Oldest(a) :
        LET e == queue[a][k].event
            st == StateAfter(a, e)
        IN  /\ Apply(a, e, [queue EXCEPT ![a] = Without(@, k)])
            /\ cases' = cases \cup CasesAfter(a, e)
            /\ DueRows(IF e.source = "notification" THEN RowAfterNote(a, e.outcome)
                       ELSE IF st \in Final \/ a \in mismatch THEN row \ {a} ELSE row)
            /\ UNCHANGED <<pageVars, charged, seen, earlier, answered, mismatch, failedFirst,
                           windowRow, queryVars, stage>>
  BY Zenon DEF ApplyDeferred
<1>2. k \in DOMAIN queue[a] /\ queue[a][k].stored /\ ~Behind(queue[a], k)
  BY DEF Oldest, Stored
<1> QED
  BY <1>1, <1>2, Zenon DEF Defers

LEMMA DeferredIsEvent ==
  ASSUME TypeOK, OnlyHandedAsked, MismatchKnown, NEW a \in Attempts,
         NEW k \in DOMAIN queue[a], Defers(a, k)
  PROVE  EventStep(a, queue[a][k].event)
<1> DEFINE e == queue[a][k].event
           qu == [queue EXCEPT ![a] = Without(@, k)]
<1>1. /\ queue[a] \in Seq(Entry) /\ queue[a][k] \in Entry /\ e \in Event
      /\ e \in Unapplied(queue[a])
  <2>1. queue[a] \in Seq(Entry) /\ queue[a][k].stored
    BY DEF TypeOK, Defers
  <2>2. queue[a][k] \in Entry
    BY <2>1
  <2> QED
    BY <2>1, <2>2, EntryTypes DEF Unapplied, Stored
<1>2. a \in handed
  BY <1>1 DEF OnlyHandedAsked
<1>3. Applied(a, e, qu)
  BY DEF Defers, Applied
<1>4. /\ queue'[a] = Without(queue[a], k)
      /\ \A b \in Attempts \ {a} : queue'[b] = queue[b]
  <2>1. queue' = qu
    BY <1>3, Zenon DEF Applied, Apply
  <2> QED
    BY <2>1 DEF TypeOK
<1>5. Taken(a, e)
  BY <1>1, <1>3, <1>4, UnappliedWithout DEF Taken
<1>6. e.outcome \in {"wrong_amount", "trade_no_mismatch"} => a \in mismatch
  BY <1>1 DEF MismatchKnown
<1>7. cases \subseteq cases' /\ UNCHANGED <<mismatch, seen, pageVars, windowRow>>
  BY DEF Defers
<1>8. RowsKept
  <2>1. row' = IF e.source = "notification" THEN RowAfterNote(a, e.outcome)
               ELSE IF StateAfter(a, e) \in Final \/ a \in mismatch THEN row \ {a} ELSE row
    BY DEF Defers, DueRows
  <2>2. state'[a] = StateAfter(a, e)
    BY <1>1, <1>3, ApplyEffect DEF Applied, TypeOK
  <2>3. \/ a \in row' \/ a \in mismatch' \/ a \notin row \/ state'[a] \in Final
    BY <1>6, <1>7, <2>1, <2>2 DEF RowAfterNote
  <2>4. row \ {a} \subseteq row'
    BY <2>1 DEF RowAfterNote
  <2> QED
    BY <2>3, <2>4 DEF RowsKept, Unpaid, Final
<1>9. CallsKept
  BY DEF Defers, queryVars, CallsKept, OnlyHandedAsked
<1> QED
  BY <1>1, <1>2, <1>4, <1>5, <1>6, <1>7, <1>8, <1>9 DEF EventStep

LEMMA AnswerIsEvent ==
  ASSUME TypeOK, OnlyHandedAsked, NEW q \in Queries, FinishQuery(q)
  PROVE  EventStep(call[q].to, Answered(call[q].answer))
<1> DEFINE a == call[q].to
           x == call[q].answer
<1>1. /\ call[q] # None /\ call[q] \in Call \cup {None}
      /\ x \notin {"none", "error"}
  BY DEF FinishQuery, TypeOK
<1>2. a \in Attempts /\ x \in Answers
  BY <1>1 DEF Call
<1>3. a \in handed /\ Answered(x) \in Event /\ Answered(x).outcome = x
  BY <1>1, <1>2, EventTypes DEF OnlyHandedAsked, Answered
<1>4. /\ Waits(a, Answered(x)) \/ Taken(a, Answered(x))
      /\ \A b \in Attempts \ {a} : queue'[b] = queue[b]
  <2>1. CASE Unapplied(queue[a]) = {}
    <3>1. Applied(a, Answered(x), queue)
      BY <2>1 DEF FinishQuery, Applied, DueCases
    <3>2. queue' = queue
      BY <3>1, Zenon DEF Applied, Apply
    <3> QED
      BY <3>1, <3>2 DEF Taken
  <2>2. CASE Unapplied(queue[a]) # {}
    <3>1. ContradictionsKept
      BY <2>2 DEF FinishQuery, ContradictionsKept, DueCases
    <3>2. /\ queue' = [queue EXCEPT ![a] = Append(@, Retained(Answered(x)))]
          /\ UNCHANGED <<orderVars, state, link, app, paidAge>>
      BY <2>2 DEF FinishQuery
    <3>3. /\ queue'[a] = Append(queue[a], Retained(Answered(x))) /\ queue[a] \in Seq(Entry)
          /\ \A b \in Attempts \ {a} : queue'[b] = queue[b]
      BY <1>2, <3>2 DEF TypeOK
    <3>4. Unapplied(queue'[a]) = Unapplied(queue[a]) \cup {Answered(x)}
      BY <1>3, <3>3, EntryTypes, UnappliedAppend
    <3> QED
      BY <3>1, <3>2, <3>3, <3>4 DEF Waits
  <2> QED
    BY <2>1, <2>2
<1>5. cases \subseteq cases'
  BY DEF FinishQuery
<1>6. mismatch \subseteq mismatch' /\ mismatch' \subseteq mismatch \cup {a}
  BY DEF FinishQuery
<1>7. x # "wrong_amount" /\ (x = "trade_no_mismatch" => a \in mismatch')
  BY <1>2, ProviderAssumption DEF FinishQuery
<1>8. UNCHANGED <<seen, pageVars, windowRow>>
  BY DEF FinishQuery
<1>9. RowsKept
  <2>1. CASE OwnLease(q, a)
    <3>1. UpdateSchedule(a, state'[a], mismatch') /\ DueCases(a, state'[a], mismatch') \subseteq cases'
      <4>1. CASE Unapplied(queue[a]) = {}
        <5>1. state'[a] = StateAfter(a, Answered(x))
          BY <1>2, <1>3, <4>1, ApplyEffect DEF FinishQuery, TypeOK
        <5> QED
          BY <2>1, <4>1, <5>1 DEF FinishQuery
      <4>2. CASE Unapplied(queue[a]) # {}
        BY <2>1, <4>2 DEF FinishQuery
      <4> QED
        BY <4>1, <4>2
    <3>2. row' = row \/ (row' = row \ {a} /\ ~QueryDue(a, state'[a], mismatch'))
      BY <3>1, ScheduleEffect
    <3> QED
      BY <1>3, <3>1, <3>2, NotDueHasCase DEF RowsKept
  <2>2. CASE ~OwnLease(q, a)
    BY <2>2 DEF FinishQuery, RowsKept
  <2> QED
    BY <2>1, <2>2
<1>10. CallsKept
  <2>1. call' = [call EXCEPT ![q] = None]
    BY DEF FinishQuery
  <2> QED
    BY <2>1 DEF CallsKept, OnlyHandedAsked, TypeOK
<1> QED
  BY <1>3, <1>4, <1>5, <1>6, <1>7, <1>8, <1>9, <1>10 DEF EventStep

\* A step that leaves the due work and the queries alone keeps them.
LEMMA RowsAndCallsStay ==
  ASSUME OnlyHandedAsked, row \subseteq row', UNCHANGED call
  PROVE  RowsKept /\ CallsKept
  BY DEF RowsKept, CallsKept, OnlyHandedAsked

LEMMA InboxesStay ==
  ASSUME OnlyHandedAsked, UNCHANGED queue
  PROVE  InboxesShowNothing
  BY DEF InboxesShowNothing, OnlyHandedAsked

LEMMA ClockIsQuiet ==
  ASSUME TypeOK, OnlyHandedAsked, NEW a \in Attempts,
         \/ HoldExpires \/ WindowPasses(a) \/ DayPasses(a) \/ PaidAges(a)
         \/ LeaseLapses(a) \/ LinkLapses(a)
  PROVE  Quiet
<1>1. /\ UNCHANGED <<state, app, queue, seen, mismatch, windowRow, cases, row, call, pageVars>>
      /\ UNCHANGED <<life, reason>> /\ link' \subseteq link
  BY DEF HoldExpires, WindowPasses, DayPasses, PaidAges, LeaseLapses, LinkLapses,
         pageVars, inboxVars, dueVars, queryVars, clockVars, orderVars
<1>2. RowsKept /\ CallsKept
  BY <1>1, RowsAndCallsStay
<1> QED
  BY <1>1, <1>2, InboxesStay DEF Quiet, OrderMoves, pageVars, ContradictionsKept

LEMMA PageIsQuiet ==
  ASSUME TypeOK, OnlyHandedAsked, NEW a \in Attempts,
         \/ MintLink(a) \/ PreparePage(a) \/ AppendJournal(a) \/ PageDies(a)
         \/ MarkJournaled(a) \/ HandOver(a) \/ Charge(a) \/ BrowserReturn(a)
  PROVE  Quiet
<1>1. /\ UNCHANGED <<state, app, queue, seen, mismatch, windowRow, cases, call, life, reason>>
      /\ row \subseteq row'
  BY DEF MintLink, PreparePage, AppendJournal, PageDies, MarkJournaled, HandOver, Charge,
         BrowserReturn, inboxVars, dueVars, queryVars, clockVars, orderVars
<1>2. RowsKept /\ CallsKept
  BY <1>1, RowsAndCallsStay
<1>3. OrderMoves("person")
  BY <1>1 DEF MintLink, PreparePage, AppendJournal, PageDies, MarkJournaled, HandOver, Charge,
              BrowserReturn, OrderMoves, Gate
<1>4. /\ handed \subseteq handed'
      /\ handed' \subseteq handed \cup {b \in journaled : state[b] = "issued"}
      /\ journaled \subseteq journaled' /\ journaled' \subseteq journaled \cup journal
      /\ journal \subseteq journal'
  BY DEF MintLink, PreparePage, AppendJournal, PageDies, MarkJournaled, HandOver, Charge,
         BrowserReturn, pageVars
<1> QED
  BY <1>1, <1>2, <1>3, <1>4, InboxesStay DEF Quiet, ContradictionsKept

LEMMA QueryIsQuiet ==
  ASSUME TypeOK, OnlyHandedAsked, NEW q \in Queries, NEW a \in Attempts,
         \/ \E repay \in BOOLEAN : BeginQuery(q, a, repay)
         \/ \E x \in Answers : AnswerQuery(q, x)
         \/ AbandonQuery(q) \/ FinishWithoutEvent(q)
  PROVE  Quiet
<1>1. UNCHANGED <<state, app, queue, seen, mismatch, windowRow, pageVars, orderVars, link>>
  BY DEF BeginQuery, AnswerQuery, AbandonQuery, FinishWithoutEvent, inboxVars, dueVars
<1>2. cases \subseteq cases' /\ ContradictionsKept
  BY DEF BeginQuery, AnswerQuery, AbandonQuery, FinishWithoutEvent, ContradictionsKept, DueCases
<1>3. CallsKept
  <2>1. CASE \E repay \in BOOLEAN : BeginQuery(q, a, repay)
    BY <2>1 DEF BeginQuery, CallsKept, OnlyHandedAsked, TypeOK
  <2>2. CASE \E x \in Answers : AnswerQuery(q, x)
    <3>1. PICK x \in Answers : AnswerQuery(q, x)
      BY <2>2
    <3>2. call[q] # None /\ call[q].to \in handed /\ call[q] \in Call
      BY <3>1 DEF AnswerQuery, OnlyHandedAsked, TypeOK
    <3>3. call' = [call EXCEPT ![q] = [call[q] EXCEPT !.answer = x]]
      BY <3>1 DEF AnswerQuery, TypeOK
    <3>4. [call[q] EXCEPT !.answer = x].to = call[q].to
      BY <3>2 DEF Call
    <3>5. \A p \in Queries \ {q} : call'[p] = call[p]
      BY <3>3 DEF TypeOK
    <3>6. call'[q].to \in handed
      BY <3>2, <3>3, <3>4 DEF TypeOK
    <3> QED
      BY <3>5, <3>6 DEF CallsKept, OnlyHandedAsked
  <2>3. CASE AbandonQuery(q) \/ FinishWithoutEvent(q)
    BY <2>3 DEF AbandonQuery, FinishWithoutEvent, CallsKept, OnlyHandedAsked, TypeOK
  <2> QED
    BY <2>1, <2>2, <2>3
<1>4. RowsKept
  <2>1. CASE FinishWithoutEvent(q)
    <3> DEFINE b == call[q].to
    <3>1. \/ row' = row
          \/ /\ row' = row \ {b} /\ ~QueryDue(b, state[b], mismatch)
             /\ DueCases(b, state[b], mismatch) \subseteq cases'
      BY <2>1, ScheduleEffect DEF FinishWithoutEvent
    <3> QED
      BY <1>1, <3>1, NotDueHasCase DEF RowsKept
  <2>2. CASE ~FinishWithoutEvent(q)
    <3>1. row \subseteq row'
      BY <2>2 DEF BeginQuery, AnswerQuery, AbandonQuery, dueVars
    <3> QED
      BY <3>1 DEF RowsKept
  <2> QED
    BY <2>1, <2>2
<1> QED
  BY <1>1, <1>2, <1>3, <1>4, InboxesStay DEF Quiet, OrderMoves, pageVars, orderVars

LEMMA CancellationIsQuiet ==
  ASSUME OnlyHandedAsked, PersonCancels \/ PaidCancelled
  PROVE  Quiet
<1>1. /\ UNCHANGED <<state, app, queue, seen, mismatch, windowRow, cases, call, pageVars>>
      /\ row \subseteq row'
  BY DEF PersonCancels, PaidCancelled, inboxVars, dueVars, queryVars
<1>2. OrderMoves("person")
  BY DEF PersonCancels, PaidCancelled, CancelOrder, OrderMoves
<1> QED
  BY <1>1, <1>2, RowsAndCallsStay, InboxesStay DEF Quiet, pageVars, ContradictionsKept

\* Nobody else sees a notification come, or go again when its transaction fails.
LEMMA ArrivalIsQuiet ==
  ASSUME TypeOK, OnlyHandedAsked, NEW a \in Attempts,
         \/ \E n \in Notifications : InsertNotification(a, n)
         \/ \E k \in 1..MaxQueue : LoseNotification(a, k)
  PROVE  Quiet
<1>1. UNCHANGED <<state, app, seen, mismatch, windowRow, cases, call, row, pageVars, orderVars, link>>
  BY DEF InsertNotification, LoseNotification, dueVars, queryVars
<1>2. /\ a \in handed /\ Unapplied(queue'[a]) = Unapplied(queue[a])
      /\ \A b \in Attempts \ {a} : queue'[b] = queue[b]
  <2>1. CASE \E n \in Notifications : InsertNotification(a, n)
    <3>1. PICK n \in Notifications : InsertNotification(a, n)
      BY <2>1
    <3>2. a \in handed /\ queue' = [queue EXCEPT ![a] = Append(@, Arriving(Note(n)))]
      BY <3>1 DEF InsertNotification
    <3>3. /\ queue'[a] = Append(queue[a], Arriving(Note(n))) /\ queue[a] \in Seq(Entry)
          /\ \A b \in Attempts \ {a} : queue'[b] = queue[b]
      BY <3>2 DEF TypeOK
    <3> QED
      BY <3>2, <3>3, EntryTypes, UnappliedAppend
  <2>2. CASE \E k \in 1..MaxQueue : LoseNotification(a, k)
    <3>1. PICK k \in 1..MaxQueue : LoseNotification(a, k)
      BY <2>2
    <3>2. /\ k \in DOMAIN queue[a] \ Stored(queue[a]) /\ queue[a] \in Seq(Entry)
          /\ queue' = [queue EXCEPT ![a] = Without(@, k)]
      BY <3>1 DEF LoseNotification, TypeOK
    <3>3. /\ a \in handed /\ ~queue[a][k].stored
          /\ queue'[a] = Without(queue[a], k)
          /\ \A b \in Attempts \ {a} : queue'[b] = queue[b]
      BY <3>2 DEF TypeOK, OnlyHandedAsked, Stored
    <3> QED
      BY <3>2, <3>3, UnappliedWithout
  <2> QED
    BY <2>1, <2>2
<1>3. InboxesShowNothing
  BY <1>2 DEF InboxesShowNothing, OnlyHandedAsked
<1> QED
  BY <1>1, <1>3, RowsAndCallsStay DEF Quiet, OrderMoves, pageVars, orderVars, ContradictionsKept

\* Every step is one of four kinds.
LEMMA StepKinds ==
  ASSUME TypeOK, OnlyHandedAsked, MismatchKnown, [Next]_vars
  PROVE  \/ Quiet
         \/ \E a \in Attempts, e \in Event : EventStep(a, e)
         \/ \E a \in Attempts : EndWindow(a)
         \/ \E a \in Attempts : Repay(a)
<1>1. CASE HoldExpires
  BY <1>1, ClockIsQuiet, BoundsAssumption DEF Attempts
<1>2. CASE PersonCancels \/ PaidCancelled
  BY <1>2, CancellationIsQuiet
<1>3. ASSUME NEW a \in Attempts,
             \/ WindowPasses(a) \/ DayPasses(a) \/ PaidAges(a)
             \/ LeaseLapses(a) \/ LinkLapses(a)
      PROVE  Quiet
  BY <1>3, ClockIsQuiet
<1>4. ASSUME NEW a \in Attempts,
             \/ MintLink(a) \/ PreparePage(a) \/ AppendJournal(a) \/ PageDies(a)
             \/ MarkJournaled(a) \/ HandOver(a) \/ Charge(a) \/ BrowserReturn(a)
      PROVE  Quiet
  BY <1>4, PageIsQuiet
<1>5. ASSUME NEW a \in Attempts, SkipQuery(a) \/ CannotQuery(a)
      PROVE  Quiet
  <2>1. CASE SkipQuery(a)
    <3>1. /\ row' = row \ {a} /\ ~QueryDue(a, state[a], mismatch)
          /\ DueCases(a, state[a], mismatch) \subseteq cases'
      BY <2>1 DEF SkipQuery, DueRows
    <3>2. UNCHANGED <<orderVars, state, app, queue, seen, mismatch, windowRow, pageVars, link, call>>
      BY <2>1 DEF SkipQuery, inboxVars, queryVars
    <3>3. RowsKept
      BY <3>1, <3>2, NotDueHasCase DEF RowsKept
    <3>4. CallsKept /\ cases \subseteq cases' /\ ContradictionsKept
      BY <2>1, <3>2, DueCasesContradictNobody DEF SkipQuery, CallsKept, OnlyHandedAsked
    <3> QED
      BY <3>2, <3>3, <3>4, InboxesStay DEF Quiet, OrderMoves, pageVars, orderVars
  <2>2. CASE CannotQuery(a)
    <3>1. /\ UNCHANGED <<orderVars, state, app, queue, seen, mismatch, windowRow, pageVars, link, call>>
          /\ row \subseteq row' /\ cases \subseteq cases' /\ ContradictionsKept
      BY <2>2, DueCasesContradictNobody DEF CannotQuery, inboxVars, queryVars
    <3> QED
      BY <3>1, RowsAndCallsStay, InboxesStay DEF Quiet, OrderMoves, pageVars, orderVars
  <2> QED
    BY <1>5, <2>1, <2>2
<1>6. ASSUME NEW q \in Queries, NEW a \in Attempts, NEW repay \in BOOLEAN,
             BeginQuery(q, a, repay)
      PROVE  Quiet
  BY <1>6, QueryIsQuiet
<1>7. ASSUME NEW q \in Queries,
             (\E x \in Answers : AnswerQuery(q, x)) \/ AbandonQuery(q) \/ FinishWithoutEvent(q)
      PROVE  Quiet
  BY <1>7, QueryIsQuiet, BoundsAssumption DEF Attempts
<1>8. ASSUME NEW a \in Attempts, NEW k, NEW quarantine \in BOOLEAN,
             ReceiveNotification(a, k, quarantine)
      PROVE  \E e \in Event : EventStep(a, e)
  <2>1. EventStep(a, queue[a][k].event)
    BY <1>8, NotificationIsEvent
  <2> QED
    BY <2>1 DEF EventStep
<1>9. ASSUME NEW a \in Attempts, ApplyDeferred(a)
      PROVE  \E e \in Event : EventStep(a, e)
  <2>1. PICK k \in DOMAIN queue[a] : EventStep(a, queue[a][k].event)
    BY <1>9, DeferredPlace, DeferredIsEvent
  <2> QED
    BY <2>1 DEF EventStep
<1>10. ASSUME NEW q \in Queries, FinishQuery(q)
       PROVE  \E a \in Attempts, e \in Event : EventStep(a, e)
  <2>1. EventStep(call[q].to, Answered(call[q].answer))
    BY <1>10, AnswerIsEvent
  <2>2. call[q].to \in Attempts /\ Answered(call[q].answer) \in Event
    BY <2>1 DEF EventStep, TypeOK
  <2> QED
    BY <2>1, <2>2
<1>11. ASSUME NEW a \in Attempts,
              \/ \E n \in Notifications : InsertNotification(a, n)
              \/ \E k \in 1..MaxQueue : LoseNotification(a, k)
       PROVE  Quiet
  BY <1>11, ArrivalIsQuiet
<1>12. CASE UNCHANGED vars
  <2>1. UNCHANGED <<orderVars, state, app, queue, seen, mismatch, windowRow, pageVars, link, call, row, cases>>
    BY <1>12 DEF vars, inboxVars, dueVars, queryVars
  <2> QED
    BY <2>1, RowsAndCallsStay, InboxesStay DEF Quiet, OrderMoves, pageVars, orderVars, ContradictionsKept
<1> QED
  BY <1>1, <1>2, <1>3, <1>4, <1>5, <1>6, <1>7, <1>8, <1>9, <1>10, <1>11, <1>12 DEF Next

-----------------------------------------------------------------------------
(* The attempts and what an event makes of them.                            *)

\* An attempt once made stays made and goes from state to state as the trigger
\* allows; of the attempts, an event changes its own alone.
LEMMA EventState ==
  ASSUME TypeOK, OnlyHandedAsked, NEW a \in Attempts, NEW e \in Event, EventStep(a, e)
  PROVE  /\ a \in handed /\ a \in Made /\ state[a] \in States \ {"none"}
         /\ state' \in [Attempts -> States] /\ Made' = Made
         /\ \A b \in Attempts \ {a} : state'[b] = state[b]
         /\ \A b \in Attempts : state'[b] \in Unpaid => state'[b] = state[b]
         /\ \A b \in Attempts : state'[b] # state[b] => <<state[b], state'[b]>> \in Transition
         /\ \A b \in Attempts : state[b] \in {"paid", "confirmed"} => state'[b] \in {"paid", "confirmed"}
<1>1. a \in handed /\ a \in Made /\ state[a] \in States \ {"none"}
  BY DEF EventStep, OnlyHandedAsked, Made, TypeOK
<1>2. state' = state \/ state' = [state EXCEPT ![a] = StateAfter(a, e)]
  BY ApplyEffect DEF EventStep, Waits, Taken, Applied
<1>3. CASE state' = state
  BY <1>1, <1>3 DEF Made, TypeOK
<1>4. CASE state' = [state EXCEPT ![a] = StateAfter(a, e)]
  <2>1. /\ \A b \in Attempts \ {a} : state'[b] = state[b]
        /\ state'[a] = StateAfter(a, e)
    BY <1>4 DEF TypeOK
  <2>2. /\ state'[a] \in States \ {"none"}
        /\ state'[a] \in Unpaid => state'[a] = state[a]
        /\ state'[a] # state[a] => <<state[a], state'[a]>> \in Transition
        /\ state[a] \in {"paid", "confirmed"} => state'[a] \in {"paid", "confirmed"}
    BY <1>1, <2>1, StateAfterEvent
  <2>3. state' \in [Attempts -> States]
    BY <1>4, <2>1, <2>2 DEF TypeOK
  <2>4. Made' = Made
    BY <1>1, <2>1, <2>2 DEF Made
  <2> QED
    BY <1>1, <2>1, <2>2, <2>3, <2>4
<1> QED
  BY <1>2, <1>3, <1>4

\* The window expires an attempt nobody was handed over to, and no other.
LEMMA EndWindowState ==
  ASSUME TypeOK, NEW a \in Attempts, EndWindow(a)
  PROVE  /\ \/ state' = state
            \/ /\ state[a] \in Unpaid /\ a \notin mismatch /\ a \notin handed
               /\ state' = [state EXCEPT ![a] = "expired_unpaid"]
         /\ state' \in [Attempts -> States] /\ Made' = Made
         /\ \A b \in Attempts : state'[b] # state[b] =>
              state[b] \in Unpaid /\ state'[b] = "expired_unpaid"
<1>1. \/ state' = state
      \/ /\ state[a] \in Unpaid /\ a \notin mismatch /\ a \notin handed
         /\ state' = [state EXCEPT ![a] = "expired_unpaid"]
  BY DEF EndWindow
<1>2. CASE state' = state
  BY <1>2 DEF TypeOK, Made
<1>3. CASE state[a] \in Unpaid /\ state' = [state EXCEPT ![a] = "expired_unpaid"]
  <2>1. state \in [Attempts -> States] /\ state' \in [Attempts -> States]
    BY <1>3 DEF TypeOK, States
  <2>2. state[a] # "none" /\ state'[a] # "none" /\ \A b \in Attempts \ {a} : state'[b] = state[b]
    BY <1>3, <2>1 DEF Unpaid
  <2>3. Made' = Made
    BY <2>2 DEF Made
  <2>4. state'[a] = "expired_unpaid"
    BY <1>3, <2>1
  <2> QED
    BY <1>1, <1>3, <2>1, <2>2, <2>3, <2>4
<1> QED
  BY <1>1, <1>2, <1>3

LEMMA LatestMade ==
  ASSUME MadeInOrder
  PROVE  Latest \in Attempts /\ Made = 1..Latest
<1>1. PICK n \in Attempts : Made = 1..n
  BY DEF MadeInOrder
<1>2. n \in Made /\ \A b \in Made : b <= n
  BY <1>1 DEF Attempts
<1>3. Latest \in Made /\ \A b \in Made : b <= Latest
  BY <1>2 DEF Latest
<1>4. Latest = n
  BY <1>1, <1>2, <1>3 DEF Attempts
<1> QED
  BY <1>1, <1>4

\* Another attempt is made after the newest one, which stays as it was or is
\* superseded.
LEMMA RepayState ==
  ASSUME TypeOK, MadeInOrder, NEW a \in Attempts, Repay(a)
  PROVE  /\ a = Latest /\ a + 1 \in Attempts /\ a + 1 # a
         /\ state[a] # "none" /\ state[a + 1] = "none" /\ state'[a + 1] = "issued"
         /\ state'[a] = IF state[a] = "issued" THEN "superseded" ELSE state[a]
         /\ \A b \in Attempts \ {a, a + 1} : state'[b] = state[b]
         /\ state' \in [Attempts -> States]
<1>1. /\ a = Latest /\ a < MaxAttempts
      /\ state' = [state EXCEPT ![a] = IF @ = "issued" THEN "superseded" ELSE @,
                                ![a + 1] = "issued"]
  BY DEF Repay, RepayChecked, Repayable
<1>2. a + 1 \in Attempts /\ a + 1 # a /\ Made = 1..a /\ a \in Made /\ a + 1 \notin Made
  BY <1>1, LatestMade, BoundsAssumption DEF Attempts
<1>3. state[a] # "none" /\ state[a + 1] = "none"
  BY <1>2 DEF Made
<1> QED
  BY <1>1, <1>2, <1>3 DEF TypeOK, States

LEMMA MadeInOrderStep ==
  ASSUME TypeOK, OnlyHandedAsked, MismatchKnown, MadeInOrder, [Next]_vars
  PROVE  MadeInOrder'
<1>1. CASE Quiet
  BY <1>1 DEF Quiet, MadeInOrder, Made
<1>2. ASSUME NEW a \in Attempts, NEW e \in Event, EventStep(a, e)
      PROVE  MadeInOrder'
  BY <1>2, EventState DEF MadeInOrder
<1>3. ASSUME NEW a \in Attempts, EndWindow(a)
      PROVE  MadeInOrder'
  BY <1>3, EndWindowState DEF MadeInOrder
<1>4. ASSUME NEW a \in Attempts, Repay(a)
      PROVE  MadeInOrder'
  <2>1. Made' = 1..(a + 1) /\ a + 1 \in Attempts
    <3>1. Made = 1..a /\ a + 1 \in Attempts
      BY <1>4, RepayState, LatestMade
    <3>2. Made' = Made \cup {a + 1}
      BY <1>4, RepayState DEF Made
    <3> QED
      BY <3>1, <3>2 DEF Attempts
  <2> QED
    BY <2>1 DEF MadeInOrder
<1> QED
  BY <1>1, <1>2, <1>3, <1>4, StepKinds

-----------------------------------------------------------------------------
(* The parts of the invariant, one step each.                               *)

\* What others see of an inbox after an event of its attempt.
LEMMA EventQueue ==
  ASSUME TypeOK, NEW a \in Attempts, NEW e \in Event, EventStep(a, e)
  PROVE  /\ \A b \in Attempts \ {a} : queue'[b] = queue[b]
         /\ Unapplied(queue'[a]) \subseteq Unapplied(queue[a]) \cup {e}
         /\ \/ e \in Unapplied(queue'[a]) /\ state' = state
            \/ state'[a] = StateAfter(a, e)
         /\ Unapplied(queue[a]) \ {e} \subseteq Unapplied(queue'[a])
<1>1. CASE Waits(a, e)
  BY <1>1 DEF Waits, EventStep
<1>2. CASE Taken(a, e)
  <2>1. state' = [state EXCEPT ![a] = StateAfter(a, e)]
    BY <1>2, ApplyEffect DEF Taken, Applied
  <2> QED
    BY <1>2, <2>1 DEF Taken, TypeOK, EventStep
<1> QED
  BY <1>1, <1>2 DEF EventStep

LEMMA OnlyHandedAskedStep ==
  ASSUME TypeOK, OnlyHandedAsked, MismatchKnown, MadeInOrder, [Next]_vars
  PROVE  OnlyHandedAsked'
<1>1. CASE Quiet
  <2>1. handed' \subseteq Made'
    BY <1>1 DEF Quiet, OnlyHandedAsked, Made, TypeOK
  <2> QED
    BY <1>1, <2>1 DEF Quiet, OnlyHandedAsked, CallsKept, InboxesShowNothing
<1>2. ASSUME NEW a \in Attempts, NEW e \in Event, EventStep(a, e)
      PROVE  OnlyHandedAsked'
  <2>1. handed' = handed /\ a \in handed /\ mismatch' \subseteq mismatch \cup {a} /\ CallsKept
    BY <1>2 DEF EventStep, pageVars
  <2>2. Made' = Made
    BY <1>2, EventState
  <2>3. \A b \in Attempts \ {a} : queue'[b] = queue[b]
    BY <1>2, EventQueue
  <2> QED
    BY <2>1, <2>2, <2>3 DEF OnlyHandedAsked, CallsKept
<1>3. ASSUME NEW a \in Attempts, EndWindow(a)
      PROVE  OnlyHandedAsked'
  <2>1. UNCHANGED <<handed, mismatch, queue, call>>
    BY <1>3 DEF EndWindow, pageVars, inboxVars, queryVars
  <2>2. Made' = Made
    BY <1>3, EndWindowState
  <2> QED
    BY <2>1, <2>2 DEF OnlyHandedAsked
<1>4. ASSUME NEW a \in Attempts, Repay(a)
      PROVE  OnlyHandedAsked'
  <2>1. UNCHANGED <<handed, mismatch, queue, call>>
    BY <1>4 DEF Repay, pageVars, inboxVars
  <2>2. Made \subseteq Made'
    BY <1>4, RepayState DEF Made
  <2> QED
    BY <2>1, <2>2 DEF OnlyHandedAsked
<1> QED
  BY <1>1, <1>2, <1>3, <1>4, StepKinds

LEMMA WindowAheadStep ==
  ASSUME TypeOK, OnlyHandedAsked, MismatchKnown, MadeInOrder, WindowAhead, [Next]_vars
  PROVE  WindowAhead'
<1>1. CASE Quiet
  BY <1>1 DEF Quiet, WindowAhead, Made
<1>2. ASSUME NEW a \in Attempts, NEW e \in Event, EventStep(a, e)
      PROVE  WindowAhead'
  <2>1. UNCHANGED <<handed, windowRow>>
    BY <1>2 DEF EventStep, pageVars
  <2>2. Made' = Made /\ \A b \in Attempts : state'[b] \in Unpaid => state'[b] = state[b]
    BY <1>2, EventState
  <2> QED
    BY <2>1, <2>2 DEF WindowAhead, Made
<1>3. ASSUME NEW a \in Attempts, EndWindow(a)
      PROVE  WindowAhead'
  <2>1. handed' = handed /\ windowRow' = windowRow \ {a}
    BY <1>3 DEF EndWindow, pageVars
  <2>2. Made' = Made /\ \A b \in Attempts : state'[b] \in Unpaid => state'[b] = state[b]
    BY <1>3, EndWindowState DEF Unpaid
  <2>3. a \in handed \/ state'[a] \notin Unpaid
    <3>1. CASE state[a] \in Unpaid /\ a \notin mismatch /\ a \notin handed
      BY <1>3, <3>1 DEF EndWindow, TypeOK, Unpaid
    <3>2. CASE state[a] \notin Unpaid
      BY <2>2, <3>2
    <3>3. CASE a \in mismatch
      BY <3>3 DEF OnlyHandedAsked
    <3> QED
      BY <3>1, <3>2, <3>3
  <2> QED
    BY <2>1, <2>2, <2>3 DEF WindowAhead, Made
<1>4. ASSUME NEW a \in Attempts, Repay(a)
      PROVE  WindowAhead'
  <2>1. handed' = handed /\ windowRow' = windowRow \cup {a + 1}
    BY <1>4 DEF Repay, pageVars
  <2>2. /\ state[a] # "none" /\ \A b \in Attempts \ {a, a + 1} : state'[b] = state[b]
        /\ state'[a] \in Unpaid => state[a] \in Unpaid
    BY <1>4, RepayState DEF Unpaid
  <2> QED
    BY <2>1, <2>2 DEF WindowAhead, Made
<1> QED
  BY <1>1, <1>2, <1>3, <1>4, StepKinds

LEMMA MismatchKnownStep ==
  ASSUME TypeOK, OnlyHandedAsked, MismatchKnown, [Next]_vars
  PROVE  MismatchKnown'
<1>1. CASE Quiet
  BY <1>1 DEF Quiet, MismatchKnown, InboxesShowNothing
<1>2. ASSUME NEW a \in Attempts, NEW e \in Event, EventStep(a, e)
      PROVE  MismatchKnown'
  <2>1. mismatch \subseteq mismatch' /\ (e.outcome \in {"wrong_amount", "trade_no_mismatch"} => a \in mismatch')
    BY <1>2 DEF EventStep
  <2>2. /\ \A b \in Attempts \ {a} : queue'[b] = queue[b]
        /\ Unapplied(queue'[a]) \subseteq Unapplied(queue[a]) \cup {e}
    BY <1>2, EventQueue
  <2> QED
    BY <2>1, <2>2 DEF MismatchKnown
<1>3. ASSUME NEW a \in Attempts, EndWindow(a) \/ Repay(a)
      PROVE  MismatchKnown'
  BY <1>3 DEF EndWindow, Repay, inboxVars, MismatchKnown
<1> QED
  BY <1>1, <1>2, <1>3, StepKinds

LEMMA NotifiedPaidStep ==
  ASSUME TypeOK, OnlyHandedAsked, MismatchKnown, MadeInOrder, NotifiedPaid, [Next]_vars
  PROVE  NotifiedPaid'
<1>1. CASE Quiet
  BY <1>1 DEF Quiet, NotifiedPaid, InboxesShowNothing
<1>2. ASSUME NEW a \in Attempts, NEW e \in Event, EventStep(a, e), NEW b \in Attempts,
             "paid" \in seen'[b]
      PROVE  state'[b] \in {"paid", "confirmed"} \/ Note("paid") \in Unapplied(queue'[b])
  <2>1. "paid" \in seen[b] \/ (b = a /\ e = Note("paid"))
    BY <1>2 DEF EventStep
  <2>2. \/ state[b] \in {"paid", "confirmed"} \/ Note("paid") \in Unapplied(queue[b])
        \/ b = a /\ e = Note("paid")
    BY <2>1 DEF NotifiedPaid
  <2>3. CASE state[b] \in {"paid", "confirmed"}
    BY <1>2, <2>3, EventState
  <2>4. CASE Note("paid") \in Unapplied(queue[b]) /\ ~(b = a /\ e = Note("paid"))
    BY <1>2, <2>4, EventQueue
  <2>5. CASE b = a /\ e = Note("paid")
    <3>1. state[a] \in States \ {"none"} /\ e.outcome = "paid"
      BY <1>2, <2>5, EventState DEF Note
    <3>2. StateAfter(a, e) \in {"paid", "confirmed"}
      BY <3>1, StateAfterEvent
    <3> QED
      BY <1>2, <2>5, <3>2, EventQueue
  <2> QED
    BY <2>2, <2>3, <2>4, <2>5
<1>3. ASSUME NEW a \in Attempts, EndWindow(a)
      PROVE  NotifiedPaid'
  <2>1. UNCHANGED <<seen, queue>>
    BY <1>3 DEF EndWindow, inboxVars
  <2>2. \A b \in Attempts : state[b] \in {"paid", "confirmed"} => state'[b] = state[b]
    BY <1>3, EndWindowState DEF Unpaid
  <2> QED
    BY <2>1, <2>2 DEF NotifiedPaid
<1>4. ASSUME NEW a \in Attempts, Repay(a)
      PROVE  NotifiedPaid'
  <2>1. UNCHANGED <<seen, queue>>
    BY <1>4 DEF Repay, inboxVars
  <2>2. \A b \in Attempts : state[b] \in {"paid", "confirmed"} => state'[b] = state[b]
    BY <1>4, RepayState
  <2> QED
    BY <2>1, <2>2 DEF NotifiedPaid
<1>5. (\E a \in Attempts, e \in Event : EventStep(a, e)) => NotifiedPaid'
  BY <1>2 DEF NotifiedPaid
<1> QED
  BY <1>1, <1>3, <1>4, <1>5, StepKinds

\* The system ends the order only when no attempt may still be paid.
LEMMA OrderStep ==
  ASSUME TypeOK, OnlyHandedAsked, MismatchKnown, MadeInOrder, [Next]_vars
  PROVE  \/ OrderMoves("person")
         \/ /\ OrderMoves("payment_not_completed")
            /\ life' # life => \A b \in Made' : /\ state'[b] \in {"failed", "expired_unpaid"}
                                               /\ Unapplied(queue'[b]) = {}
<1>1. CASE Quiet
  BY <1>1 DEF Quiet
<1>2. ASSUME NEW a \in Attempts, NEW e \in Event, EventStep(a, e)
      PROVE  /\ OrderMoves("payment_not_completed")
             /\ life' # life => \A b \in Made' : /\ state'[b] \in {"failed", "expired_unpaid"}
                                                /\ Unapplied(queue'[b]) = {}
  <2>1. CASE Waits(a, e)
    BY <2>1 DEF Waits, OrderMoves, orderVars
  <2>2. ASSUME NEW qu, Applied(a, e, qu)
        PROVE  \/ UNCHANGED <<life, reason, link>>
               \/ /\ life = "open" /\ life' = "cancelled"
                  /\ reason' = "payment_not_completed" /\ link' = {}
                  /\ \A b \in Made : /\ state'[b] \in {"failed", "expired_unpaid"}
                                     /\ Unapplied(queue'[b]) = {}
    BY <2>2, ApplyEffect DEF Applied
  <2>3. Made' = Made
    BY <1>2, EventState
  <2> QED
    BY <1>2, <2>1, <2>2, <2>3 DEF EventStep, Taken, OrderMoves
<1>3. ASSUME NEW a \in Attempts, EndWindow(a)
      PROVE  /\ OrderMoves("payment_not_completed")
             /\ life' # life => \A b \in Made' : /\ state'[b] \in {"failed", "expired_unpaid"}
                                                /\ Unapplied(queue'[b]) = {}
  <2> DEFINE open == state[a] \in Unpaid /\ a \notin mismatch
             st == [state EXCEPT ![a] = "expired_unpaid"]
  <2>1. CASE open /\ a \notin handed /\ Settles(st, app, queue)
    <3>1. CancelOrder("payment_not_completed") /\ state' = st /\ queue' = queue
      BY <1>3, <2>1 DEF EndWindow, inboxVars
    <3>2. life = "open" /\ \A b \in Made : st[b] \in {"failed", "expired_unpaid"} /\ Unapplied(queue[b]) = {}
      BY <2>1 DEF Settles
    <3>3. Made' = Made
      BY <1>3, EndWindowState
    <3> QED
      BY <3>1, <3>2, <3>3 DEF CancelOrder, OrderMoves
  <2>2. CASE ~(open /\ a \notin handed /\ Settles(st, app, queue))
    BY <1>3, <2>2 DEF EndWindow, OrderMoves, orderVars
  <2> QED
    BY <2>1, <2>2
<1>4. ASSUME NEW a \in Attempts, Repay(a)
      PROVE  OrderMoves("person")
  BY <1>4 DEF Repay, RepayChecked, Repayable, Gate, orderVars, OrderMoves
<1> QED
  BY <1>1, <1>2, <1>3, <1>4, StepKinds

LEMMA LinksDieWithOrderStep ==
  ASSUME TypeOK, OnlyHandedAsked, MismatchKnown, MadeInOrder, OpenHasNoReason,
         LinksDieWithOrder, [Next]_vars
  PROVE  OpenHasNoReason' /\ LinksDieWithOrder'
<1>1. OrderMoves("person") \/ OrderMoves("payment_not_completed")
  BY OrderStep
<1> QED
  BY <1>1 DEF OrderMoves, OpenHasNoReason, LinksDieWithOrder

LEMMA JournalStep ==
  ASSUME TypeOK, OnlyHandedAsked, MismatchKnown, JournalBeforeHandoff, [Next]_vars
  PROVE  JournalBeforeHandoff'
<1>1. CASE Quiet
  BY <1>1 DEF Quiet, JournalBeforeHandoff
<1>2. ASSUME NEW a \in Attempts, EndWindow(a) \/ Repay(a) \/ \E e \in Event : EventStep(a, e)
      PROVE  JournalBeforeHandoff'
  BY <1>2 DEF EndWindow, Repay, EventStep, pageVars, JournalBeforeHandoff
<1> QED
  BY <1>1, <1>2, StepKinds

LEMMA MoneyAccountedForStep ==
  ASSUME TypeOK, OnlyHandedAsked, MismatchKnown, MadeInOrder, MoneyAccountedFor, [Next]_vars
  PROVE  MoneyAccountedFor'
<1>1. CASE Quiet
  BY <1>1 DEF Quiet, MoneyAccountedFor
<1>2. ASSUME NEW a \in Attempts, NEW e \in Event, EventStep(a, e)
      PROVE  MoneyAccountedFor'
  <2>1. cases \subseteq cases'
    BY <1>2 DEF EventStep
  <2>2. CASE Waits(a, e)
    BY <2>1, <2>2 DEF Waits, MoneyAccountedFor
  <2>3. ASSUME NEW qu, Applied(a, e, qu)
        PROVE  MoneyAccountedFor'
    <3>1. /\ state' = [state EXCEPT ![a] = StateAfter(a, e)]
          /\ app' = [app EXCEPT ![a] = AppAfter(a, e)]
          /\ CasesAfter(a, e) \subseteq cases'
      BY <2>3, ApplyEffect DEF Applied
    <3>2. /\ state'[a] = StateAfter(a, e) /\ app'[a] = AppAfter(a, e)
          /\ \A b \in Attempts \ {a} : state'[b] = state[b] /\ app'[b] = app[b]
      BY <3>1 DEF TypeOK
    <3>3. state'[a] \in {"paid", "confirmed"} => app'[a] # "none"
      <4>1. state[a] \in States \ {"none"}
        BY <1>2, EventState
      <4>2. StateAfter(a, e) \in {"paid", "confirmed"} =>
              e.outcome = "paid" \/ state[a] \in {"paid", "confirmed"}
        BY <4>1, StateAfterEvent
      <4>3. /\ e.outcome = "paid" => AppAfter(a, e) # "none"
            /\ app[a] # "none" => AppAfter(a, e) = app[a]
        BY AppAfterEvent
      <4> QED
        BY <3>2, <4>2, <4>3 DEF MoneyAccountedFor
    <3>4. /\ app'[a] = "after_cancel" => <<a, "paid_after_cancel">> \in cases'
          /\ app'[a] \in {"overpaid", "amount_mismatch"} => <<a, app'[a]>> \in cases'
      <4>1. CASE app[a] = "none"
        BY <3>1, <3>2, <4>1, AppAfterEvent
      <4>2. CASE app[a] # "none"
        BY <2>1, <3>2, <4>2, AppAfterEvent DEF MoneyAccountedFor
      <4> QED
        BY <4>1, <4>2
    <3> QED
      BY <2>1, <3>2, <3>3, <3>4 DEF MoneyAccountedFor
  <2> QED
    BY <1>2, <2>2, <2>3 DEF EventStep, Taken
<1>3. ASSUME NEW a \in Attempts, EndWindow(a)
      PROVE  MoneyAccountedFor'
  <2>1. UNCHANGED <<app, cases>>
    BY <1>3 DEF EndWindow
  <2>2. \A b \in Attempts : state'[b] \in {"paid", "confirmed"} => state'[b] = state[b]
    BY <1>3, EndWindowState
  <2> QED
    BY <2>1, <2>2 DEF MoneyAccountedFor
<1>4. ASSUME NEW a \in Attempts, Repay(a)
      PROVE  MoneyAccountedFor'
  <2>1. UNCHANGED <<app, cases>>
    BY <1>4 DEF Repay
  <2>2. \A b \in Attempts : state'[b] \in {"paid", "confirmed"} => state'[b] = state[b]
    BY <1>4, RepayState
  <2> QED
    BY <2>1, <2>2 DEF MoneyAccountedFor
<1> QED
  BY <1>1, <1>2, <1>3, <1>4, StepKinds

LEMMA NothingForgottenStep ==
  ASSUME TypeOK, OnlyHandedAsked, MismatchKnown, MadeInOrder, WindowAhead, NothingForgotten,
         [Next]_vars
  PROVE  NothingForgotten'
<1>1. CASE Quiet
  <2>1. ASSUME NEW b \in handed', state'[b] \in Unpaid
        PROVE  \/ b \in windowRow' \cup row' \cup mismatch'
               \/ <<b, "payment_unconfirmed">> \in cases'
    <3>1. b \in Attempts /\ state[b] \in Unpaid /\ state[b] # "none"
      BY <1>1, <2>1 DEF Quiet, TypeOK, JournalBeforeHandoff, Unpaid
    <3>2. CASE b \in handed
      BY <1>1, <2>1, <3>1, <3>2 DEF Quiet, NothingForgotten, RowsKept
    <3>3. CASE b \notin handed
      BY <1>1, <3>1, <3>3 DEF Quiet, WindowAhead, Made
    <3> QED
      BY <3>2, <3>3
  <2> QED
    BY <2>1 DEF NothingForgotten
<1>2. ASSUME NEW a \in Attempts, NEW e \in Event, EventStep(a, e)
      PROVE  NothingForgotten'
  <2>1. /\ UNCHANGED <<handed, windowRow>> /\ RowsKept
        /\ cases \subseteq cases' /\ mismatch \subseteq mismatch'
    BY <1>2 DEF EventStep, pageVars
  <2>2. \A b \in handed : state'[b] \in Unpaid => state'[b] = state[b]
    BY <1>2, EventState DEF TypeOK
  <2> QED
    BY <2>1, <2>2 DEF NothingForgotten, RowsKept
<1>3. ASSUME NEW a \in Attempts, EndWindow(a)
      PROVE  NothingForgotten'
  <2>1. /\ UNCHANGED <<handed, mismatch, cases>> /\ windowRow' = windowRow \ {a}
    BY <1>3 DEF EndWindow, pageVars, inboxVars
  <2>2. row \ {a} \subseteq row'
    BY <1>3 DEF EndWindow, DueRows
  <2>3. \A b \in handed : state'[b] \in Unpaid => state[b] \in Unpaid
    BY <1>3, EndWindowState DEF TypeOK, Unpaid
  <2>4. a \in handed /\ state'[a] \in Unpaid => a \in row' \cup mismatch
    BY <1>3, <2>3 DEF EndWindow
  <2> QED
    BY <2>1, <2>2, <2>3, <2>4 DEF NothingForgotten
<1>4. ASSUME NEW a \in Attempts, Repay(a)
      PROVE  NothingForgotten'
  <2>1. /\ UNCHANGED <<handed, mismatch, cases>> /\ windowRow \subseteq windowRow' /\ row \subseteq row'
    BY <1>4 DEF Repay, pageVars, inboxVars
  <2>2. a + 1 \notin handed
    BY <1>4, RepayState DEF OnlyHandedAsked, Made
  <2>3. \A b \in handed : state'[b] \in Unpaid => state[b] \in Unpaid
    BY <1>4, <2>2, RepayState DEF TypeOK, Unpaid
  <2> QED
    BY <2>1, <2>3 DEF NothingForgotten
<1> QED
  BY <1>1, <1>2, <1>3, <1>4, StepKinds

-----------------------------------------------------------------------------
(* The order of the inbox.                                                  *)

\* A notification is told by its outcome, and no answer is one.
LEMMA NoticeByOutcome ==
  /\ \A x \in Entry : x.event.source = "notification" => x.event = Note(x.event.outcome)
  /\ \A n : Note(n).source = "notification" /\ Note(n).outcome = n
  /\ \A y : Answered(y).source = "query"
  BY DEF Entry, Event, Notice, Note, Answered

\* A place that goes leaves the inbox sound, and one whose notification is applied
\* meanwhile does.
LEMMA SoundWithout ==
  ASSUME NEW s \in Seq(Entry), NEW k \in DOMAIN s, NEW S, Sound(s, S)
  PROVE  /\ Sound(Without(s, k), S)
         /\ s[k].event.source = "notification" =>
              Sound(Without(s, k), S \cup {s[k].event.outcome})
<1> DEFINE W == Without(s, k)
<1>1. ASSUME NEW i \in DOMAIN W, W[i].event.source = "notification"
      PROVE  /\ W[i].stored <=> W[i].event.outcome \in S
             /\ s[k].event.source = "notification" => W[i].event.outcome # s[k].event.outcome
             /\ \A j \in DOMAIN W : W[i].event = W[j].event => i = j
  <2>1. Place(i, k) \in DOMAIN s /\ Place(i, k) # k /\ W[i] = s[Place(i, k)]
    BY WithoutPlace
  <2>2. W[i].stored <=> W[i].event.outcome \in S
    BY <1>1, <2>1 DEF Sound
  <2>3. s[Place(i, k)].event # s[k].event
    BY <1>1, <2>1 DEF Sound
  <2>4. s[Place(i, k)] \in Entry /\ s[k] \in Entry
    BY <2>1
  <2>5. s[k].event.source = "notification" => W[i].event.outcome # s[k].event.outcome
    BY <1>1, <2>1, <2>3, <2>4, NoticeByOutcome
  <2>6. ASSUME NEW j \in DOMAIN W, W[i].event = W[j].event
        PROVE  i = j
    <3>1. Place(j, k) \in DOMAIN s /\ W[j] = s[Place(j, k)]
      BY WithoutPlace
    <3>2. Place(i, k) = Place(j, k)
      BY <1>1, <2>1, <2>6, <3>1 DEF Sound
    <3> QED
      BY <3>2, WithoutPlace
  <2> QED
    BY <2>2, <2>5, <2>6
<1> QED
  BY <1>1 DEF Sound

\* A notification that was not inserted yet arrives.
LEMMA SoundArriving ==
  ASSUME NEW s \in Seq(Entry), NEW S, NEW n \in Notifications \ S, Sound(s, S),
         \A k \in DOMAIN s : s[k] # Arriving(Note(n))
  PROVE  /\ Sound(Append(s, Arriving(Note(n))), S)
         /\ \A k \in DOMAIN s : s[k].event # Note(n)
<1> DEFINE x == Arriving(Note(n))
           s2 == Append(s, x)
<1>1. /\ DOMAIN s2 = DOMAIN s \cup {Len(s) + 1} /\ s2[Len(s) + 1] = x
      /\ \A k \in DOMAIN s : s2[k] = s[k]
  OBVIOUS
<1>2. x.event = Note(n) /\ ~x.stored
  BY DEF Arriving
<1>3. ASSUME NEW k \in DOMAIN s
      PROVE  s[k].event # Note(n)
  <2>1. SUFFICES ASSUME s[k].event = Note(n)
                 PROVE  FALSE
    OBVIOUS
  <2>2. s[k] \in Entry
    OBVIOUS
  <2>3. s[k].stored
    BY <2>1, <2>2 DEF Entry, Arriving
  <2>4. n \in S
    BY <2>1, <2>3, NoticeByOutcome DEF Sound
  <2> QED
    BY <2>4
<1>4. \A k \in DOMAIN s2 :
        s2[k].event.source = "notification" => (s2[k].stored <=> s2[k].event.outcome \in S)
  BY <1>1, <1>2, NoticeByOutcome DEF Sound
<1>5. \A j, k \in DOMAIN s2 :
        s2[j].event.source = "notification" /\ s2[j].event = s2[k].event => j = k
  BY <1>1, <1>2, <1>3 DEF Sound
<1> QED
  BY <1>3, <1>4, <1>5 DEF Sound

\* The answer of a query is retained.
LEMMA SoundAnswered ==
  ASSUME NEW s \in Seq(Entry), NEW S, NEW y \in Answers, Sound(s, S)
  PROVE  Sound(Append(s, Retained(Answered(y))), S)
<1> DEFINE x == Retained(Answered(y))
           s2 == Append(s, x)
<1>1. /\ DOMAIN s2 = DOMAIN s \cup {Len(s) + 1} /\ s2[Len(s) + 1] = x
      /\ \A k \in DOMAIN s : s2[k] = s[k]
  OBVIOUS
<1>2. x.event.source = "query"
  BY NoticeByOutcome DEF Retained
<1>3. \A k \in DOMAIN s2 :
        s2[k].event.source = "notification" => (s2[k].stored <=> s2[k].event.outcome \in S)
  BY <1>1, <1>2 DEF Sound
<1>4. \A j, k \in DOMAIN s2 :
        s2[j].event.source = "notification" /\ s2[j].event = s2[k].event => j = k
  BY <1>1, <1>2 DEF Sound
<1> QED
  BY <1>3, <1>4 DEF Sound

\* A notification is retained.
LEMMA SoundRetained ==
  ASSUME NEW s \in Seq(Entry), NEW S, NEW k \in DOMAIN s, Sound(s, S),
         NEW n, s[k].event = Note(n)
  PROVE  Sound([s EXCEPT ![k] = Retained(Note(n))], S \cup {n})
<1> DEFINE s2 == [s EXCEPT ![k] = Retained(Note(n))]
<1>1. /\ DOMAIN s2 = DOMAIN s /\ s2[k] = Retained(Note(n))
      /\ \A j \in DOMAIN s : j # k => s2[j] = s[j]
  OBVIOUS
<1>2. s2[k].event = Note(n) /\ s2[k].stored
  BY <1>1 DEF Retained
<1>3. \A j \in DOMAIN s : s2[j].event = s[j].event
  BY <1>1, <1>2
<1>4. \A j, i \in DOMAIN s2 :
        s2[j].event.source = "notification" /\ s2[j].event = s2[i].event => j = i
  BY <1>1, <1>3 DEF Sound
<1>5. ASSUME NEW j \in DOMAIN s2, s2[j].event.source = "notification"
      PROVE  s2[j].stored <=> s2[j].event.outcome \in S \cup {n}
  <2>1. CASE j = k
    BY <1>2, <2>1, NoticeByOutcome
  <2>2. CASE j # k
    <3>1. s2[j] = s[j] /\ s[j] \in Entry /\ s[j].event # Note(n)
      BY <1>1, <1>5, <2>2 DEF Sound
    <3>2. s[j].event.outcome # n
      BY <1>5, <3>1, NoticeByOutcome
    <3> QED
      BY <1>1, <1>5, <3>1, <3>2 DEF Sound
  <2> QED
    BY <2>1, <2>2
<1> QED
  BY <1>4, <1>5 DEF Sound

\* A step that does not touch the inbox, marks nobody paid and contradicts nobody.
InboxIdle ==
  /\ UNCHANGED <<queue, seen, failedFirst>> /\ mismatch \subseteq mismatch'
  /\ ContradictionsKept
  /\ \A b \in Attempts : /\ state'[b] = "paid" => state[b] = "paid"
                         /\ state[b] = "confirmed" => state'[b] = "confirmed"

LEMMA QuietIsIdle ==
  ASSUME Quiet, UNCHANGED <<queue, failedFirst>>
  PROVE  InboxIdle
  BY DEF Quiet, InboxIdle

\* Every step is one of six to the inbox.
LEMMA InboxKinds ==
  ASSUME TypeOK, OnlyHandedAsked, MadeInOrder, [Next]_vars
  PROVE  \/ InboxIdle
         \/ \E a \in Attempts, n \in Notifications : InsertNotification(a, n)
         \/ \E a \in Attempts : \E k \in DOMAIN queue[a] : LoseNotification(a, k)
         \/ \E a \in Attempts : \E k \in DOMAIN queue[a] :
              \E quarantine \in BOOLEAN : ReceiveNotification(a, k, quarantine)
         \/ \E a \in Attempts : \E k \in DOMAIN queue[a] : Defers(a, k)
         \/ \E q \in Queries : FinishQuery(q)
<1>1. CASE HoldExpires
  <2>1. UNCHANGED <<queue, failedFirst>>
    BY <1>1 DEF HoldExpires, inboxVars
  <2> QED
    BY <1>1, <2>1, ClockIsQuiet, QuietIsIdle, BoundsAssumption DEF Attempts
<1>2. CASE PersonCancels \/ PaidCancelled
  <2>1. UNCHANGED <<queue, failedFirst>>
    BY <1>2 DEF PersonCancels, PaidCancelled, inboxVars
  <2> QED
    BY <1>2, <2>1, CancellationIsQuiet, QuietIsIdle
<1>3. ASSUME NEW a \in Attempts,
             \/ WindowPasses(a) \/ DayPasses(a) \/ PaidAges(a)
             \/ LeaseLapses(a) \/ LinkLapses(a)
      PROVE  InboxIdle
  <2>1. UNCHANGED <<queue, failedFirst>>
    BY <1>3 DEF WindowPasses, DayPasses, PaidAges, LeaseLapses, LinkLapses, inboxVars
  <2> QED
    BY <1>3, <2>1, ClockIsQuiet, QuietIsIdle
<1>4. ASSUME NEW a \in Attempts,
             \/ MintLink(a) \/ PreparePage(a) \/ AppendJournal(a) \/ PageDies(a)
             \/ MarkJournaled(a) \/ HandOver(a) \/ Charge(a) \/ BrowserReturn(a)
      PROVE  InboxIdle
  <2>1. UNCHANGED <<queue, failedFirst>>
    BY <1>4 DEF MintLink, PreparePage, AppendJournal, PageDies, MarkJournaled, HandOver,
                Charge, BrowserReturn, inboxVars
  <2> QED
    BY <1>4, <2>1, PageIsQuiet, QuietIsIdle
<1>5. ASSUME NEW a \in Attempts, SkipQuery(a) \/ CannotQuery(a)
      PROVE  InboxIdle
  <2>1. UNCHANGED <<state, inboxVars>>
    BY <1>5 DEF SkipQuery, CannotQuery
  <2>2. ContradictionsKept
    BY <1>5, DueCasesContradictNobody DEF SkipQuery, CannotQuery
  <2> QED
    BY <2>1, <2>2 DEF InboxIdle, inboxVars
<1>6. ASSUME NEW q \in Queries,
             \/ \E a \in Attempts, repay \in BOOLEAN : BeginQuery(q, a, repay)
             \/ \E x \in Answers : AnswerQuery(q, x)
             \/ AbandonQuery(q) \/ FinishWithoutEvent(q)
      PROVE  InboxIdle
  <2>1. UNCHANGED <<queue, failedFirst>>
    BY <1>6 DEF BeginQuery, AnswerQuery, AbandonQuery, FinishWithoutEvent, inboxVars
  <2> QED
    BY <1>6, <2>1, QueryIsQuiet, QuietIsIdle, BoundsAssumption DEF Attempts
<1>7. ASSUME NEW a \in Attempts, EndWindow(a)
      PROVE  InboxIdle
  <2>1. UNCHANGED inboxVars /\ UNCHANGED cases
    BY <1>7 DEF EndWindow
  <2>2. \A b \in Attempts : /\ state'[b] = "paid" => state[b] = "paid"
                            /\ state[b] = "confirmed" => state'[b] = "confirmed"
    BY <1>7, EndWindowState DEF Unpaid
  <2> QED
    BY <2>1, <2>2 DEF InboxIdle, inboxVars, ContradictionsKept
<1>8. ASSUME NEW a \in Attempts, Repay(a)
      PROVE  InboxIdle
  <2>1. UNCHANGED inboxVars /\ UNCHANGED cases
    BY <1>8 DEF Repay
  <2>2. \A b \in Attempts : /\ state'[b] = "paid" => state[b] = "paid"
                            /\ state[b] = "confirmed" => state'[b] = "confirmed"
    BY <1>8, RepayState DEF Unpaid
  <2> QED
    BY <2>1, <2>2 DEF InboxIdle, inboxVars, ContradictionsKept
<1>9. ASSUME NEW a \in Attempts, NEW k \in 1..MaxQueue, LoseNotification(a, k)
      PROVE  k \in DOMAIN queue[a]
  BY <1>9 DEF LoseNotification
<1>10. ASSUME NEW a \in Attempts, NEW k \in 1..MaxQueue, NEW quarantine \in BOOLEAN,
              ReceiveNotification(a, k, quarantine)
       PROVE  k \in DOMAIN queue[a]
  BY <1>10 DEF ReceiveNotification
<1>11. ASSUME NEW a \in Attempts, ApplyDeferred(a)
       PROVE  \E k \in DOMAIN queue[a] : Defers(a, k)
  BY <1>11, DeferredPlace
<1>12. CASE UNCHANGED vars
  BY <1>12 DEF vars, InboxIdle, inboxVars, ContradictionsKept
<1> QED
  BY <1>1, <1>2, <1>3, <1>4, <1>5, <1>6, <1>7, <1>8, <1>9, <1>10, <1>11, <1>12 DEF Next

LEMMA InboxSoundStep ==
  ASSUME TypeOK, OnlyHandedAsked, MadeInOrder, InboxSound, [Next]_vars
  PROVE  InboxSound'
<1>0. \A b \in Attempts : queue[b] \in Seq(Entry) /\ Sound(queue[b], seen[b])
  BY DEF InboxSound, TypeOK
<1>1. CASE InboxIdle
  BY <1>0, <1>1 DEF InboxIdle, InboxSound
<1>2. ASSUME NEW a \in Attempts, NEW n \in Notifications, InsertNotification(a, n)
      PROVE  InboxSound'
  <2>1. /\ queue' = [queue EXCEPT ![a] = Append(queue[a], Arriving(Note(n)))] /\ seen' = seen
        /\ n \notin seen[a] /\ \A k \in DOMAIN queue[a] : queue[a][k] # Arriving(Note(n))
    BY <1>2 DEF InsertNotification, Inserted, TypeOK
  <2>2. Sound(Append(queue[a], Arriving(Note(n))), seen[a])
    BY <1>0, <2>1, SoundArriving
  <2>3. \A b \in Attempts : queue'[b] = IF b = a THEN Append(queue[a], Arriving(Note(n))) ELSE queue[b]
    BY <2>1 DEF TypeOK
  <2> QED
    BY <1>0, <2>1, <2>2, <2>3 DEF InboxSound
<1>3. ASSUME NEW a \in Attempts, NEW k \in DOMAIN queue[a],
             LoseNotification(a, k) \/ Defers(a, k)
      PROVE  InboxSound'
  <2>1. queue' = [queue EXCEPT ![a] = Without(queue[a], k)] /\ seen' = seen
    BY <1>3, Zenon DEF LoseNotification, Defers, Apply, TypeOK
  <2>2. Sound(Without(queue[a], k), seen[a])
    BY <1>0, SoundWithout
  <2>3. \A b \in Attempts : queue'[b] = IF b = a THEN Without(queue[a], k) ELSE queue[b]
    BY <2>1 DEF TypeOK
  <2> QED
    BY <1>0, <2>1, <2>2, <2>3 DEF InboxSound
<1>4. ASSUME NEW a \in Attempts, NEW k \in DOMAIN queue[a], NEW quarantine \in BOOLEAN,
             ReceiveNotification(a, k, quarantine)
      PROVE  InboxSound'
  <2> DEFINE n == queue[a][k].event.outcome
  <2>1. k \in DOMAIN queue[a] \ Stored(queue[a]) /\ seen' = [seen EXCEPT ![a] = @ \cup {n}]
    BY <1>4 DEF ReceiveNotification
  <2>2. queue[a][k].event = Note(n)
    BY <2>1, ArrivingIsNotification
  <2>3. \/ queue' = [queue EXCEPT ![a] = [queue[a] EXCEPT ![k] = Retained(Note(n))]]
        \/ queue' = [queue EXCEPT ![a] = Without(queue[a], k)]
    BY <1>4 DEF ReceiveNotification, Apply, TypeOK
  <2>4. /\ Sound([queue[a] EXCEPT ![k] = Retained(Note(n))], seen[a] \cup {n})
        /\ Sound(Without(queue[a], k), seen[a] \cup {n})
    BY <1>0, <2>2, SoundRetained, SoundWithout, NoticeByOutcome
  <2>5. Sound(queue'[a], seen'[a])
    BY <2>1, <2>3, <2>4 DEF TypeOK
  <2>6. \A b \in Attempts \ {a} : queue'[b] = queue[b] /\ seen'[b] = seen[b]
    BY <2>1, <2>3 DEF TypeOK
  <2> QED
    BY <1>0, <2>5, <2>6 DEF InboxSound
<1>5. ASSUME NEW q \in Queries, FinishQuery(q)
      PROVE  InboxSound'
  <2> DEFINE a == call[q].to
             y == call[q].answer
  <2>1. a \in Attempts /\ y \in Answers /\ seen' = seen
    BY <1>5 DEF FinishQuery, TypeOK, Call
  <2>2. queue' = queue \/ queue' = [queue EXCEPT ![a] = Append(queue[a], Retained(Answered(y)))]
    BY <1>5, <2>1 DEF FinishQuery, Apply, TypeOK
  <2>3. Sound(Append(queue[a], Retained(Answered(y))), seen[a])
    BY <1>0, <2>1, SoundAnswered
  <2>4. \A b \in Attempts : \/ queue'[b] = queue[b]
                            \/ b = a /\ queue'[b] = Append(queue[a], Retained(Answered(y)))
    BY <2>1, <2>2 DEF TypeOK
  <2> QED
    BY <1>0, <2>1, <2>3, <2>4 DEF InboxSound
<1> QED
  BY <1>1, <1>2, <1>3, <1>4, <1>5, InboxKinds

\* What FailureInFront and NoFalseContradiction say of attempt b.
Contradicted(b) ==
  <<b, "contradicting_event">> \in cases /\ b \notin mismatch /\ state[b] # "confirmed"

FrontOf(b) ==
  /\ state[b] = "paid" \/ Contradicted(b) => "paid" \in seen[b]
  /\ b \in failedFirst =>
       /\ ~Contradicted(b) /\ "failed" \in seen[b]
       /\ state[b] = "paid" => Note("failed") \notin Unapplied(queue[b])
       /\ InFront(queue[b], Note("failed"), Note("paid"))

LEMMA FrontParts ==
  ASSUME FailureInFront, NoFalseContradiction, NEW b \in Attempts
  PROVE  FrontOf(b)
  BY DEF FailureInFront, NoFalseContradiction, FrontOf, Contradicted

LEMMA FrontPartsAfter ==
  ASSUME TypeOK', \A b \in Attempts : FrontOf(b)'
  PROVE  FailureInFront' /\ NoFalseContradiction'
<1>1. failedFirst' \subseteq Attempts
  BY DEF TypeOK
<1> QED
  BY <1>1 DEF FailureInFront, NoFalseContradiction, FrontOf, Contradicted

\* An attempt a step neither tells of, nor marks, nor contradicts.
LEMMA FrontKept ==
  ASSUME NEW b \in Attempts, FrontOf(b), queue'[b] = queue[b], seen'[b] = seen[b],
         b \in failedFirst' => b \in failedFirst, mismatch \subseteq mismatch',
         state'[b] = "paid" => state[b] = "paid",
         state[b] = "confirmed" => state'[b] = "confirmed",
         <<b, "contradicting_event">> \in cases' => <<b, "contradicting_event">> \in cases
  PROVE  FrontOf(b)'
<1>1. Contradicted(b)' => Contradicted(b)
  BY DEF Contradicted
<1> QED
  BY <1>1 DEF FrontOf

\* An inbox without a place keeps its order.
LEMMA InFrontWithout ==
  ASSUME NEW s \in Seq(Entry), NEW k \in DOMAIN s, NEW e, NEW f, InFront(s, e, f)
  PROVE  InFront(Without(s, k), e, f)
<1> DEFINE W == Without(s, k)
<1>1. ASSUME NEW i \in DOMAIN W, NEW j \in DOMAIN W, W[i].event = e, W[j].event = f
      PROVE  i < j
  <2>1. /\ Place(i, k) \in DOMAIN s /\ W[i] = s[Place(i, k)]
        /\ Place(j, k) \in DOMAIN s /\ W[j] = s[Place(j, k)]
    BY WithoutPlace
  <2>2. Place(i, k) < Place(j, k)
    BY <1>1, <2>1 DEF InFront
  <2> QED
    BY <2>2, WithoutPlace
<1> QED
  BY <1>1 DEF InFront

LEMMA InFrontAppend ==
  ASSUME NEW s \in Seq(Entry), NEW x \in Entry, NEW e, NEW f, InFront(s, e, f), x.event # e
  PROVE  InFront(Append(s, x), e, f)
<1> DEFINE s2 == Append(s, x)
<1>1. /\ DOMAIN s2 = 1..(Len(s) + 1) /\ s2[Len(s) + 1] = x /\ Len(s) \in Nat
      /\ \A k \in 1..Len(s) : s2[k] = s[k]
  OBVIOUS
<1>2. ASSUME NEW j \in DOMAIN s2, NEW k \in DOMAIN s2, s2[j].event = e, s2[k].event = f
      PROVE  j < k
  <2>1. j \in 1..Len(s) /\ s[j].event = e
    BY <1>1, <1>2
  <2>2. CASE k = Len(s) + 1
    BY <1>1, <2>1, <2>2
  <2>3. CASE k \in 1..Len(s)
    BY <1>1, <1>2, <2>1, <2>3 DEF InFront
  <2> QED
    BY <1>1, <2>2, <2>3
<1> QED
  BY <1>2 DEF InFront

\* What the application of an event can do to its attempt.
LEMMA StateAfterPaid ==
  ASSUME NEW a \in Attempts, NEW e
  PROVE  /\ StateAfter(a, e) = "paid" => state[a] = "paid" \/ e = Note("paid")
         /\ state[a] = "confirmed" => StateAfter(a, e) = "confirmed"
         /\ <<a, "contradicting_event">> \in CasesAfter(a, e) =>
              \/ e = Note("failed") /\ state[a] \in {"paid", "confirmed"}
              \/ e = Answered("trade_no_mismatch")
<1>1. /\ StateAfter(a, e) = "paid" => state[a] = "paid" \/ e = Note("paid")
      /\ state[a] = "confirmed" => StateAfter(a, e) = "confirmed"
  BY DEF StateAfter, Unpaid
<1>2. <<a, "contradicting_event">> \in CasesAfter(a, e) =>
        \/ e = Note("failed") /\ state[a] \in {"paid", "confirmed"}
        \/ e = Answered("trade_no_mismatch")
  BY DEF CasesAfter
<1> QED
  BY <1>1, <1>2

\* The event at a place nothing waits in front of is applied: a payment finds no
\* failure that was stored before it, and such a failure finds no payment.
LEMMA FrontApplied ==
  ASSUME TypeOK, InboxSound, NEW a \in Attempts, FrontOf(a),
         NEW k \in DOMAIN queue[a], ~Behind(queue[a], k),
         NEW e, e = queue[a][k].event,
         queue'[a] = Without(queue[a], k), state'[a] = StateAfter(a, e),
         seen[a] \subseteq seen'[a], e = Note("paid") => "paid" \in seen'[a],
         failedFirst' = failedFirst, mismatch \subseteq mismatch',
         e = Answered("trade_no_mismatch") => a \in mismatch',
         cases' = cases \cup CasesAfter(a, e)
  PROVE  FrontOf(a)'
<1>1. queue[a] \in Seq(Entry) /\ Sound(queue[a], seen[a])
  BY DEF InboxSound, TypeOK
<1>2. /\ state'[a] = "paid" => state[a] = "paid" \/ e = Note("paid")
      /\ state[a] = "confirmed" => state'[a] = "confirmed"
      /\ Contradicted(a)' =>
           Contradicted(a) \/ (e = Note("failed") /\ state[a] = "paid")
  BY StateAfterPaid DEF Contradicted
<1>3. state'[a] = "paid" \/ Contradicted(a)' => "paid" \in seen'[a]
  BY <1>2 DEF FrontOf
<1>4. ASSUME a \in failedFirst
      PROVE  /\ ~Contradicted(a)' /\ "failed" \in seen'[a]
             /\ state'[a] = "paid" => Note("failed") \notin Unapplied(queue'[a])
             /\ InFront(queue'[a], Note("failed"), Note("paid"))
  <2>1. /\ ~Contradicted(a) /\ "failed" \in seen[a]
        /\ state[a] = "paid" => Note("failed") \notin Unapplied(queue[a])
        /\ InFront(queue[a], Note("failed"), Note("paid"))
    BY <1>4 DEF FrontOf
  <2>2. ~(e = Note("failed") /\ state[a] = "paid")
    <3>1. SUFFICES ASSUME e = Note("failed"), state[a] = "paid"
                   PROVE  FALSE
      OBVIOUS
    <3>2. ~queue[a][k].stored
      BY <2>1, <3>1 DEF Unapplied, Stored
    <3>3. /\ queue[a][k].event.source = "notification"
          /\ queue[a][k].event.outcome = "failed"
      BY <3>1, NoticeByOutcome
    <3>4. "failed" \notin seen[a]
      BY <1>1, <3>2, <3>3 DEF Sound
    <3> QED
      BY <2>1, <3>4
  <2>3. ASSUME state'[a] = "paid"
        PROVE  Note("failed") \notin Unapplied(queue'[a])
    <3>1. SUFFICES ASSUME Note("failed") \in Unapplied(queue'[a])
                   PROVE  FALSE
      OBVIOUS
    <3>2. PICK i \in DOMAIN Without(queue[a], k) :
            /\ Without(queue[a], k)[i].stored
            /\ Without(queue[a], k)[i].event = Note("failed")
      BY <3>1 DEF Unapplied, Stored
    <3> DEFINE j == Place(i, k)
    <3>3. j \in DOMAIN queue[a] /\ queue[a][j].stored /\ queue[a][j].event = Note("failed")
      BY <1>1, <3>2, WithoutPlace
    <3>4. Note("failed") \in Unapplied(queue[a])
      BY <3>3 DEF Unapplied, Stored
    <3>5. e = Note("paid")
      BY <1>2, <2>1, <2>3, <3>4
    <3>6. j < k
      BY <2>1, <3>3, <3>5 DEF InFront
    <3> QED
      BY <3>3, <3>6 DEF Behind, Stored
  <2>4. InFront(queue'[a], Note("failed"), Note("paid"))
    BY <1>1, <2>1, InFrontWithout
  <2> QED
    BY <1>2, <2>1, <2>2, <2>3, <2>4
<1> QED
  BY <1>3, <1>4 DEF FrontOf

LEMMA FrontInserted ==
  ASSUME TypeOK, InboxSound, NEW a \in Attempts, FrontOf(a), NEW n \in Notifications,
         InsertNotification(a, n)
  PROVE  FrontOf(a)'
<1> DEFINE x == Arriving(Note(n))
<1>1. queue[a] \in Seq(Entry) /\ Sound(queue[a], seen[a]) /\ x \in Entry /\ x.event = Note(n)
  BY EntryTypes DEF InboxSound, TypeOK, Arriving
<1>2. /\ queue'[a] = Append(queue[a], x) /\ n \notin seen[a]
      /\ \A k \in DOMAIN queue[a] : queue[a][k] # x
      /\ UNCHANGED <<seen, mismatch, state, cases>>
      /\ a \in failedFirst' => a \in failedFirst \/ (n = "paid" /\ "failed" \in seen[a])
  BY DEF InsertNotification, Inserted, TypeOK
<1>3. \A k \in DOMAIN queue[a] : queue[a][k].event # Note(n)
  BY <1>1, <1>2, SoundArriving
<1>4. Unapplied(queue'[a]) = Unapplied(queue[a])
  BY <1>1, <1>2, EntryTypes, UnappliedAppend
<1>5. Contradicted(a)' <=> Contradicted(a)
  BY <1>2 DEF Contradicted
<1>6. ASSUME a \in failedFirst'
      PROVE  /\ ~Contradicted(a) /\ "failed" \in seen[a]
             /\ state[a] = "paid" => Note("failed") \notin Unapplied(queue[a])
             /\ InFront(queue[a], Note("failed"), Note("paid"))
  <2>1. CASE a \in failedFirst
    BY <2>1 DEF FrontOf
  <2>2. CASE n = "paid" /\ "failed" \in seen[a]
    <3>1. state[a] # "paid" /\ ~Contradicted(a)
      BY <1>2, <2>2 DEF FrontOf
    <3>2. InFront(queue[a], Note("failed"), Note("paid"))
      BY <1>3, <2>2 DEF InFront
    <3> QED
      BY <2>2, <3>1, <3>2
  <2> QED
    BY <1>2, <1>6, <2>1, <2>2
<1>7. a \in failedFirst' => InFront(queue'[a], Note("failed"), Note("paid"))
  <2>1. a \in failedFirst' => n # "failed"
    BY <1>2, <1>6
  <2>2. n # "failed" => Note(n) # Note("failed")
    BY DEF Note
  <2> QED
    BY <1>1, <1>2, <1>6, <2>1, <2>2, InFrontAppend
<1> QED
  BY <1>2, <1>4, <1>5, <1>6, <1>7 DEF FrontOf

LEMMA FrontLost ==
  ASSUME TypeOK, NEW a \in Attempts, FrontOf(a), NEW k \in DOMAIN queue[a],
         LoseNotification(a, k)
  PROVE  FrontOf(a)'
<1>1. queue[a] \in Seq(Entry) /\ ~queue[a][k].stored /\ queue'[a] = Without(queue[a], k)
  BY DEF LoseNotification, TypeOK, Stored
<1>2. UNCHANGED <<seen, mismatch, failedFirst, state, cases>>
  BY DEF LoseNotification
<1>3. Unapplied(queue'[a]) = Unapplied(queue[a])
  BY <1>1, UnappliedWithout
<1>4. InFront(queue[a], Note("failed"), Note("paid")) =>
        InFront(queue'[a], Note("failed"), Note("paid"))
  BY <1>1, InFrontWithout
<1> QED
  BY <1>2, <1>3, <1>4 DEF FrontOf, Contradicted

LEMMA FrontReceived ==
  ASSUME TypeOK, OnlyHandedAsked, InboxSound, NEW a \in Attempts, FrontOf(a),
         NEW k \in DOMAIN queue[a], NEW quarantine \in BOOLEAN,
         ReceiveNotification(a, k, quarantine)
  PROVE  FrontOf(a)'
<1> DEFINE n == queue[a][k].event.outcome
<1>1. /\ k \in DOMAIN queue[a] \ Stored(queue[a]) /\ queue[a] \in Seq(Entry)
      /\ Sound(queue[a], seen[a])
      /\ seen'[a] = seen[a] \cup {n} /\ mismatch \subseteq mismatch' /\ failedFirst' = failedFirst
  BY DEF ReceiveNotification, InboxSound, TypeOK
<1>2. queue[a][k].event = Note(n) /\ n \in Notifications /\ Note(n) \in Event
  BY <1>1, ArrivingIsNotification, EventTypes
<1>3. n \notin seen[a]
  BY <1>1, <1>2, NoticeByOutcome DEF Sound, Stored
<1>4. CASE quarantine \/ Behind(queue[a], k)
  <2> DEFINE s2 == [queue[a] EXCEPT ![k] = Retained(Note(n))]
  <2>1. queue'[a] = s2 /\ UNCHANGED <<state, cases>>
    BY <1>4 DEF ReceiveNotification, TypeOK
  <2>2. Unapplied(s2) = Unapplied(queue[a]) \cup {Note(n)}
    BY <1>1, <1>2, EntryTypes, UnappliedRetained
  <2>3. InFront(queue[a], Note("failed"), Note("paid")) =>
          InFront(s2, Note("failed"), Note("paid"))
    <3>1. DOMAIN s2 = DOMAIN queue[a] /\ \A j \in DOMAIN s2 : s2[j].event = queue[a][j].event
      BY <1>1, <1>2 DEF Retained
    <3> QED
      BY <3>1 DEF InFront
  <2>4. a \in failedFirst => Note(n) # Note("failed")
    BY <1>3 DEF FrontOf, Note
  <2>5. Contradicted(a)' => Contradicted(a)
    BY <1>1, <2>1 DEF Contradicted
  <2> QED
    BY <1>1, <2>1, <2>2, <2>3, <2>4, <2>5 DEF FrontOf
<1>5. CASE ~(quarantine \/ Behind(queue[a], k))
  <2>1. /\ Apply(a, Note(n), [queue EXCEPT ![a] = Without(@, k)])
        /\ cases' = cases \cup CasesAfter(a, Note(n))
    BY <1>5 DEF ReceiveNotification
  <2>2. /\ queue' = [queue EXCEPT ![a] = Without(@, k)]
        /\ state' = [state EXCEPT ![a] = StateAfter(a, Note(n))]
    BY <2>1, Zenon DEF Apply
  <2>3. queue'[a] = Without(queue[a], k) /\ state'[a] = StateAfter(a, Note(n))
    BY <2>2 DEF TypeOK
  <2>4. Note(n) # Answered("trade_no_mismatch") /\ (Note(n) = Note("paid") => "paid" \in seen'[a])
    BY <1>1 DEF Note, Answered
  <2> QED
    BY <1>1, <1>2, <1>5, <2>1, <2>3, <2>4, FrontApplied
<1> QED
  BY <1>4, <1>5

LEMMA FrontDeferred ==
  ASSUME TypeOK, MismatchKnown, InboxSound, NEW a \in Attempts, FrontOf(a),
         NEW k \in DOMAIN queue[a], Defers(a, k)
  PROVE  FrontOf(a)'
<1> DEFINE e == queue[a][k].event
<1>1. /\ queue[a][k].stored /\ ~Behind(queue[a], k)
      /\ Apply(a, e, [queue EXCEPT ![a] = Without(@, k)])
      /\ cases' = cases \cup CasesAfter(a, e)
      /\ UNCHANGED <<seen, mismatch, failedFirst>>
  BY Zenon DEF Defers
<1>2. /\ queue' = [queue EXCEPT ![a] = Without(@, k)]
      /\ state' = [state EXCEPT ![a] = StateAfter(a, e)]
  BY <1>1, Zenon DEF Apply
<1>3. queue'[a] = Without(queue[a], k) /\ state'[a] = StateAfter(a, e)
  BY <1>2 DEF TypeOK
<1>4. e \in Unapplied(queue[a]) /\ Sound(queue[a], seen[a])
  BY <1>1 DEF Unapplied, Stored, InboxSound
<1>5. e = Answered("trade_no_mismatch") => a \in mismatch
  BY <1>4 DEF MismatchKnown, Answered
<1>6. e = Note("paid") => "paid" \in seen[a]
  BY <1>1, <1>4, NoticeByOutcome DEF Sound
<1> QED
  BY <1>1, <1>3, <1>5, <1>6, FrontApplied

LEMMA FrontAnswered ==
  ASSUME TypeOK, OnlyHandedAsked, NEW q \in Queries, FinishQuery(q), NEW a \in Attempts,
         a = call[q].to, FrontOf(a)
  PROVE  FrontOf(a)'
<1> DEFINE y == call[q].answer
           e == Answered(y)
<1>1. y \in Answers /\ queue[a] \in Seq(Entry) /\ e # Note("paid") /\ e # Note("failed")
  BY DEF FinishQuery, TypeOK, Call, Note, Answered
<1>2. /\ UNCHANGED <<seen, failedFirst>> /\ mismatch \subseteq mismatch'
      /\ y = "trade_no_mismatch" => a \in mismatch'
  BY DEF FinishQuery
<1>3. Retained(e) \in Entry /\ Retained(e).stored /\ Retained(e).event = e
  BY <1>1, EventTypes, EntryTypes
<1>4. CASE Unapplied(queue[a]) = {}
  <2>1. Apply(a, e, queue)
    BY <1>4 DEF FinishQuery
  <2>2. queue' = queue /\ state' = [state EXCEPT ![a] = StateAfter(a, e)]
    BY <2>1, Zenon DEF Apply
  <2>3. state'[a] = StateAfter(a, e)
    BY <2>2 DEF TypeOK
  <2>4. /\ state'[a] = "paid" => state[a] = "paid"
        /\ state[a] = "confirmed" => state'[a] = "confirmed"
    BY <1>1, <2>3, StateAfterPaid
  <2>5. <<a, "contradicting_event">> \in cases' =>
          <<a, "contradicting_event">> \in cases \cup CasesAfter(a, e)
    BY <1>4 DEF FinishQuery, DueCases
  <2>6. <<a, "contradicting_event">> \in CasesAfter(a, e) => a \in mismatch'
    BY <1>1, <1>2, StateAfterPaid DEF Answered
  <2>7. Contradicted(a)' => Contradicted(a)
    BY <1>2, <2>4, <2>5, <2>6 DEF Contradicted
  <2> QED
    BY <1>2, <2>2, <2>4, <2>7 DEF FrontOf
<1>5. CASE Unapplied(queue[a]) # {}
  <2>1. queue'[a] = Append(queue[a], Retained(e)) /\ state' = state
    BY <1>5 DEF FinishQuery, TypeOK
  <2>2. Unapplied(queue'[a]) = Unapplied(queue[a]) \cup {e}
    BY <1>1, <1>3, <2>1, UnappliedAppend
  <2>3. InFront(queue[a], Note("failed"), Note("paid")) =>
          InFront(queue'[a], Note("failed"), Note("paid"))
    BY <1>1, <1>3, <2>1, InFrontAppend
  <2>4. <<a, "contradicting_event">> \in cases' => <<a, "contradicting_event">> \in cases
    BY <1>5 DEF FinishQuery, DueCases
  <2>5. Contradicted(a)' => Contradicted(a)
    BY <1>2, <2>1, <2>4 DEF Contradicted
  <2> QED
    BY <1>1, <1>2, <2>1, <2>2, <2>3, <2>5 DEF FrontOf
<1> QED
  BY <1>4, <1>5

\* What a step on the inbox of one attempt leaves of another one.
LEMMA OthersUntouched ==
  ASSUME TypeOK, OnlyHandedAsked, MismatchKnown, NEW a \in Attempts,
         \/ \E n \in Notifications : InsertNotification(a, n)
         \/ \E k \in DOMAIN queue[a] : LoseNotification(a, k)
         \/ \E k \in DOMAIN queue[a] : \E quarantine \in BOOLEAN :
              ReceiveNotification(a, k, quarantine)
         \/ \E k \in DOMAIN queue[a] : Defers(a, k)
         \/ \E q \in Queries : FinishQuery(q) /\ a = call[q].to,
         NEW b \in Attempts \ {a}, FrontOf(b)
  PROVE  FrontOf(b)'
<1>1. CASE \E n \in Notifications : InsertNotification(a, n)
  <2>1. /\ queue'[b] = queue[b] /\ UNCHANGED <<seen, mismatch, state, cases>>
        /\ b \in failedFirst' => b \in failedFirst
    BY <1>1 DEF InsertNotification, TypeOK
  <2> QED
    BY <2>1, FrontKept
<1>2. CASE \E k \in DOMAIN queue[a] : LoseNotification(a, k)
  <2>1. queue'[b] = queue[b] /\ UNCHANGED <<seen, mismatch, failedFirst, state, cases>>
    BY <1>2 DEF LoseNotification, TypeOK
  <2> QED
    BY <2>1, FrontKept
<1>3. ASSUME NEW e \in Event, EventStep(a, e), seen'[b] = seen[b], failedFirst' = failedFirst
      PROVE  FrontOf(b)'
  <2>1. queue'[b] = queue[b] /\ state'[b] = state[b] /\ mismatch \subseteq mismatch'
    BY <1>3, EventState DEF EventStep
  <2>2. <<b, "contradicting_event">> \in cases' => <<b, "contradicting_event">> \in cases
    BY <1>3 DEF EventStep, Waits, Taken, Applied, ContradictionsKept, CasesAfter
  <2> QED
    BY <1>3, <2>1, <2>2, FrontKept
<1>4. ASSUME NEW k \in DOMAIN queue[a], NEW quarantine \in BOOLEAN,
             ReceiveNotification(a, k, quarantine)
      PROVE  FrontOf(b)'
  <2>1. EventStep(a, queue[a][k].event)
    BY <1>4, NotificationIsEvent
  <2>2. seen'[b] = seen[b] /\ failedFirst' = failedFirst
    BY <1>4 DEF ReceiveNotification, TypeOK
  <2> QED
    BY <1>3, <2>1, <2>2 DEF EventStep
<1>5. ASSUME NEW k \in DOMAIN queue[a], Defers(a, k)
      PROVE  FrontOf(b)'
  <2>1. EventStep(a, queue[a][k].event)
    BY <1>5, DeferredIsEvent
  <2>2. UNCHANGED <<seen, failedFirst>>
    BY <1>5, Zenon DEF Defers
  <2> QED
    BY <1>3, <2>1, <2>2 DEF EventStep
<1>6. ASSUME NEW q \in Queries, FinishQuery(q), a = call[q].to
      PROVE  FrontOf(b)'
  <2>1. EventStep(a, Answered(call[q].answer))
    BY <1>6, AnswerIsEvent
  <2>2. UNCHANGED <<seen, failedFirst>>
    BY <1>6 DEF FinishQuery
  <2> QED
    BY <1>3, <2>1, <2>2 DEF EventStep
<1> QED
  BY <1>1, <1>2, <1>4, <1>5, <1>6

\* The failures that were stored before the payment stay in front of it.
LEMMA FrontStep ==
  ASSUME TypeOK, TypeOK', OnlyHandedAsked, MadeInOrder, MismatchKnown, InboxSound,
         FailureInFront, NoFalseContradiction, [Next]_vars
  PROVE  FailureInFront' /\ NoFalseContradiction'
<1>1. \A b \in Attempts : FrontOf(b)
  BY FrontParts
<1>2. SUFFICES ASSUME NEW b \in Attempts
               PROVE  FrontOf(b)'
  BY FrontPartsAfter
<1>3. CASE InboxIdle
  BY <1>1, <1>3, FrontKept DEF InboxIdle, ContradictionsKept
<1>4. ASSUME NEW a \in Attempts, NEW n \in Notifications, InsertNotification(a, n)
      PROVE  FrontOf(b)'
  BY <1>1, <1>4, FrontInserted, OthersUntouched
<1>5. ASSUME NEW a \in Attempts, NEW k \in DOMAIN queue[a], LoseNotification(a, k)
      PROVE  FrontOf(b)'
  BY <1>1, <1>5, FrontLost, OthersUntouched
<1>6. ASSUME NEW a \in Attempts, NEW k \in DOMAIN queue[a], NEW quarantine \in BOOLEAN,
             ReceiveNotification(a, k, quarantine)
      PROVE  FrontOf(b)'
  BY <1>1, <1>6, FrontReceived, OthersUntouched
<1>7. ASSUME NEW a \in Attempts, NEW k \in DOMAIN queue[a], Defers(a, k)
      PROVE  FrontOf(b)'
  BY <1>1, <1>7, FrontDeferred, OthersUntouched
<1>8. ASSUME NEW q \in Queries, FinishQuery(q)
      PROVE  FrontOf(b)'
  <2>1. call[q].to \in Attempts
    BY <1>8 DEF FinishQuery, TypeOK, Call
  <2>2. CASE b = call[q].to
    BY <1>1, <1>8, <2>2, FrontAnswered
  <2>3. CASE b # call[q].to
    BY <1>1, <1>8, <2>1, <2>3, OthersUntouched
  <2> QED
    BY <2>2, <2>3
<1> QED
  BY <1>3, <1>4, <1>5, <1>6, <1>7, <1>8, InboxKinds

-----------------------------------------------------------------------------
(* Types.                                                                   *)

\* The types of what an event changes, and of what the due work does.
EventVarsOK ==
  /\ life \in {"open", "cancelled"}
  /\ reason \in {"none", "person", "payment_not_completed", "paid_cancelled"}
  /\ expired \in BOOLEAN
  /\ state \in [Attempts -> States]
  /\ link \subseteq Attempts
  /\ app \in [Attempts -> {"none", "confirmed", "overpaid", "after_cancel", "amount_mismatch"}]
  /\ queue \in [Attempts -> Seq(Entry)]
  /\ paidAge \in [Attempts -> {"none", "new", "hour", "day"}]

DueVarsOK ==
  /\ row \subseteq Attempts /\ leased \subseteq Attempts
  /\ leaseBy \in [Attempts -> Queries \cup {None}]

RestOK ==
  /\ preparing \cup journal \cup journaled \cup handed \subseteq Attempts
  /\ charged \cup mismatch \cup answered \cup failedFirst \subseteq Attempts
  /\ windowRow \cup cleared \subseteq Attempts
  /\ seen \in [Attempts -> SUBSET Notifications]
  /\ earlier \in [Attempts -> SUBSET (Notifications \X Notifications)]
  /\ cases \subseteq Attempts \X Kinds
  /\ call \in [Queries -> Call \cup {None}]
  /\ stage \in [Attempts -> {"window", "after", "day"}]

LEMMA TypeParts == TypeOK <=> EventVarsOK /\ DueVarsOK /\ RestOK
  BY DEF TypeOK, EventVarsOK, DueVarsOK, RestOK

LEMMA TypePartsAfter ==
  ASSUME EventVarsOK', DueVarsOK', RestOK'
  PROVE  TypeOK'
  BY DEF TypeOK, EventVarsOK, DueVarsOK, RestOK

LEMMA AppliedTypes ==
  ASSUME TypeOK, OnlyHandedAsked, NEW a \in Attempts, NEW e \in Event,
         NEW qu \in [Attempts -> Seq(Entry)], a \in handed, Apply(a, e, qu)
  PROVE  EventVarsOK'
<1>1. state[a] \in States \ {"none"}
  BY DEF TypeOK, OnlyHandedAsked, Made
<1>2. /\ state' \in [Attempts -> States]
      /\ app' \in [Attempts -> {"none", "confirmed", "overpaid", "after_cancel", "amount_mismatch"}]
  <2>1. StateAfter(a, e) \in States
    BY <1>1, StateAfterEvent
  <2>2. AppAfter(a, e) \in {"none", "confirmed", "overpaid", "after_cancel", "amount_mismatch"}
    BY AppAfterEvent
  <2>3. /\ state' = [state EXCEPT ![a] = StateAfter(a, e)]
        /\ app' = [app EXCEPT ![a] = AppAfter(a, e)]
    BY ApplyEffect
  <2> QED
    BY <2>1, <2>2, <2>3 DEF TypeOK
<1>3. /\ queue' \in [Attempts -> Seq(Entry)] /\ expired' \in BOOLEAN
      /\ paidAge' \in [Attempts -> {"none", "new", "hour", "day"}]
  BY ApplyEffect DEF TypeOK
<1>4. /\ life' \in {"open", "cancelled"}
      /\ reason' \in {"none", "person", "payment_not_completed", "paid_cancelled"}
      /\ link' \subseteq Attempts
  BY ApplyEffect DEF TypeOK
<1> QED
  BY <1>2, <1>3, <1>4 DEF EventVarsOK

LEMMA DueRowsTypes ==
  ASSUME TypeOK, NEW R \in SUBSET Attempts, DueRows(R)
  PROVE  DueVarsOK'
  BY DEF DueRows, DueVarsOK, TypeOK

LEMMA ScheduleTypes ==
  ASSUME TypeOK, NEW a \in Attempts, NEW st, NEW mm, UpdateSchedule(a, st, mm)
  PROVE  DueVarsOK'
<1>1. CASE QueryDue(a, st, mm)
  BY <1>1 DEF UpdateSchedule, DueVarsOK, TypeOK
<1>2. CASE ~QueryDue(a, st, mm)
  <2>1. DueRows(row \ {a}) /\ row \ {a} \in SUBSET Attempts
    BY <1>2 DEF UpdateSchedule, TypeOK
  <2> QED
    BY <2>1, DueRowsTypes
<1> QED
  BY <1>1, <1>2

LEMMA ClockTypes ==
  ASSUME TypeOK, NEW a \in Attempts,
         \/ HoldExpires \/ WindowPasses(a) \/ DayPasses(a) \/ PaidAges(a)
         \/ LeaseLapses(a) \/ LinkLapses(a)
  PROVE  TypeOK'
<1> USE DEF TypeOK, pageVars, inboxVars, dueVars, queryVars, clockVars, orderVars
<1>1. CASE HoldExpires
  BY <1>1 DEF HoldExpires
<1>2. CASE WindowPasses(a)
  BY <1>2 DEF WindowPasses
<1>3. CASE DayPasses(a)
  BY <1>3 DEF DayPasses
<1>4. CASE PaidAges(a)
  BY <1>4 DEF PaidAges
<1>5. CASE LeaseLapses(a) \/ LinkLapses(a)
  BY <1>5 DEF LeaseLapses, LinkLapses
<1> QED
  BY <1>1, <1>2, <1>3, <1>4, <1>5

LEMMA PageTypes ==
  ASSUME TypeOK, NEW a \in Attempts,
         \/ MintLink(a) \/ PreparePage(a) \/ AppendJournal(a) \/ PageDies(a)
         \/ MarkJournaled(a) \/ HandOver(a) \/ Charge(a) \/ BrowserReturn(a)
  PROVE  TypeOK'
<1> USE DEF TypeOK, pageVars, inboxVars, dueVars, queryVars, clockVars, orderVars
<1>1. CASE MintLink(a) \/ PreparePage(a) \/ AppendJournal(a) \/ PageDies(a)
  BY <1>1 DEF MintLink, PreparePage, AppendJournal, PageDies
<1>2. CASE MarkJournaled(a) \/ HandOver(a) \/ Charge(a) \/ BrowserReturn(a)
  BY <1>2 DEF MarkJournaled, HandOver, Charge, BrowserReturn
<1> QED
  BY <1>1, <1>2

LEMMA QueryTypes ==
  ASSUME TypeOK, NEW a \in Attempts, SkipQuery(a) \/ CannotQuery(a)
  PROVE  TypeOK'
<1>1. cases' \subseteq Attempts \X Kinds
  BY CasesTyped DEF SkipQuery, CannotQuery, DueCases, Kinds, TypeOK
<1>2. EventVarsOK' /\ RestOK'
  BY <1>1 DEF SkipQuery, CannotQuery, EventVarsOK, RestOK, TypeOK,
              pageVars, inboxVars, queryVars, clockVars, orderVars
<1>3. CASE SkipQuery(a)
  <2>1. DueRows(row \ {a}) /\ row \ {a} \in SUBSET Attempts
    BY <1>3 DEF SkipQuery, TypeOK
  <2> QED
    BY <1>2, <2>1, DueRowsTypes, TypePartsAfter
<1>4. CASE CannotQuery(a)
  <2>1. DueVarsOK'
    BY <1>4 DEF CannotQuery, DueVarsOK, TypeOK
  <2> QED
    BY <1>2, <2>1, TypePartsAfter
<1> QED
  BY <1>3, <1>4

LEMMA CallTypes ==
  ASSUME TypeOK, OnlyHandedAsked, NEW q \in Queries,
         \/ \E a \in Attempts, repay \in BOOLEAN : BeginQuery(q, a, repay)
         \/ \E x \in Answers : AnswerQuery(q, x)
         \/ AbandonQuery(q) \/ FinishWithoutEvent(q)
  PROVE  TypeOK'
<1>1. CASE \E a \in Attempts, repay \in BOOLEAN : BeginQuery(q, a, repay)
  <2>1. PICK a \in Attempts, repay \in BOOLEAN : BeginQuery(q, a, repay)
    BY <1>1
  <2>2. [to |-> a, repay |-> repay, answer |-> "none"] \in Call
    BY DEF Call
  <2>3. cases' \subseteq Attempts \X Kinds /\ call' \in [Queries -> Call \cup {None}]
    BY <2>1, <2>2 DEF BeginQuery, DueCases, Kinds, TypeOK
  <2>4. EventVarsOK' /\ RestOK' /\ DueVarsOK'
    BY <2>1, <2>3 DEF BeginQuery, EventVarsOK, RestOK, DueVarsOK, TypeOK,
                      pageVars, inboxVars, clockVars, orderVars
  <2> QED
    BY <2>4, TypePartsAfter
<1>2. CASE \E x \in Answers : AnswerQuery(q, x)
  <2>1. PICK x \in Answers : AnswerQuery(q, x)
    BY <1>2
  <2>2. call[q] \in Call
    BY <2>1 DEF AnswerQuery, TypeOK
  <2>3. [call[q] EXCEPT !.answer = x] \in Call
    BY <2>2 DEF Call
  <2>4. call' = [call EXCEPT ![q] = [call[q] EXCEPT !.answer = x]]
    BY <2>1 DEF AnswerQuery, TypeOK
  <2>5. call' \in [Queries -> Call \cup {None}]
    BY <2>3, <2>4 DEF TypeOK
  <2>6. EventVarsOK' /\ RestOK' /\ DueVarsOK'
    BY <2>1, <2>5 DEF AnswerQuery, EventVarsOK, RestOK, DueVarsOK, TypeOK,
                      pageVars, inboxVars, dueVars, clockVars, orderVars
  <2> QED
    BY <2>6, TypePartsAfter
<1>3. CASE AbandonQuery(q)
  BY <1>3 DEF AbandonQuery, TypeOK, pageVars, inboxVars, dueVars, clockVars, orderVars
<1>4. CASE FinishWithoutEvent(q)
  <2> DEFINE a == call[q].to
  <2>1. call[q] # None /\ a \in Attempts
    BY <1>4 DEF FinishWithoutEvent, OnlyHandedAsked, TypeOK
  <2>2. cases' \subseteq Attempts \X Kinds
    BY <1>4, <2>1 DEF FinishWithoutEvent, DueCases, Kinds, TypeOK
  <2>3. EventVarsOK' /\ RestOK'
    BY <1>4, <2>2 DEF FinishWithoutEvent, EventVarsOK, RestOK, TypeOK,
                      pageVars, inboxVars, clockVars, orderVars
  <2>4. DueVarsOK'
    <3>1. CASE UpdateSchedule(a, state[a], mismatch)
      BY <2>1, <3>1, ScheduleTypes
    <3>2. CASE ~UpdateSchedule(a, state[a], mismatch)
      BY <1>4, <2>1, <3>2 DEF FinishWithoutEvent, DueVarsOK, TypeOK
    <3> QED
      BY <3>1, <3>2
  <2> QED
    BY <2>3, <2>4, TypePartsAfter
<1> QED
  BY <1>1, <1>2, <1>3, <1>4

LEMMA ArrivalTypes ==
  ASSUME TypeOK, NEW a \in Attempts,
         \/ \E n \in Notifications : InsertNotification(a, n)
         \/ \E k \in 1..MaxQueue : LoseNotification(a, k)
  PROVE  TypeOK'
<1>1. /\ queue' \in [Attempts -> Seq(Entry)]
      /\ earlier' \in [Attempts -> SUBSET (Notifications \X Notifications)]
      /\ answered' \cup failedFirst' \subseteq Attempts
  <2>1. CASE \E n \in Notifications : InsertNotification(a, n)
    <3>1. PICK n \in Notifications : InsertNotification(a, n)
      BY <2>1
    <3>2. /\ queue' = [queue EXCEPT ![a] = Append(queue[a], Arriving(Note(n)))]
          /\ Append(queue[a], Arriving(Note(n))) \in Seq(Entry)
      BY <3>1, EntryTypes DEF InsertNotification, TypeOK
    <3>3. Inserted(a) \subseteq Notifications
      BY DEF Inserted, TypeOK
    <3>4. /\ earlier' = [earlier EXCEPT ![a] = earlier[a] \cup ((Inserted(a) \X {n}) \cap Compared)]
          /\ earlier[a] \cup ((Inserted(a) \X {n}) \cap Compared) \subseteq Notifications \X Notifications
      BY <3>1, <3>3 DEF InsertNotification, TypeOK
    <3>5. answered' \cup failedFirst' \subseteq Attempts
      BY <3>1 DEF InsertNotification, TypeOK
    <3> QED
      BY <3>2, <3>4, <3>5 DEF TypeOK
  <2>2. CASE \E k \in 1..MaxQueue : LoseNotification(a, k)
    <3>1. PICK k \in 1..MaxQueue : LoseNotification(a, k)
      BY <2>2
    <3>2. queue' = [queue EXCEPT ![a] = Without(queue[a], k)] /\ k \in DOMAIN queue[a]
      BY <3>1 DEF LoseNotification, TypeOK
    <3>3. Without(queue[a], k) \in Seq(Entry)
      BY <3>2, WithoutPlace DEF TypeOK
    <3> DEFINE kept == {p \in earlier[a] : queue[a][k].event.outcome \notin {p[1], p[2]}}
    <3>4. earlier' = [earlier EXCEPT ![a] = kept] /\ UNCHANGED <<answered, failedFirst>>
      BY <3>1 DEF LoseNotification, TypeOK
    <3>5. kept \subseteq Notifications \X Notifications
      BY DEF TypeOK
    <3> HIDE DEF kept
    <3> QED
      BY <3>2, <3>3, <3>4, <3>5 DEF TypeOK
  <2> QED
    BY <2>1, <2>2
<1>2. UNCHANGED <<orderVars, state, pageVars, link, charged, app, seen, mismatch, cases,
                  dueVars, queryVars, clockVars>>
  BY DEF InsertNotification, LoseNotification
<1> QED
  BY <1>1, <1>2 DEF TypeOK, orderVars, pageVars, dueVars, queryVars, clockVars

LEMMA NotificationTypes ==
  ASSUME TypeOK, OnlyHandedAsked, NEW a \in Attempts, NEW k, NEW quarantine \in BOOLEAN,
         ReceiveNotification(a, k, quarantine)
  PROVE  TypeOK'
<1> DEFINE n == queue[a][k].event.outcome
<1>1. /\ k \in DOMAIN queue[a] \ Stored(queue[a]) /\ queue[a] \in Seq(Entry)
      /\ n \in Notifications /\ Note(n) \in Event
  <2>1. k \in DOMAIN queue[a] \ Stored(queue[a])
    BY DEF ReceiveNotification
  <2> QED
    BY <2>1, ArrivingIsNotification, EventTypes DEF TypeOK
<1>2. a \in handed
  BY <1>1 DEF OnlyHandedAsked
<1>3. EventVarsOK' /\ DueVarsOK'
  <2>1. CASE quarantine \/ Behind(queue[a], k)
    <3>1. /\ queue' = [queue EXCEPT ![a] = [queue[a] EXCEPT ![k] = Retained(Note(n))]]
          /\ UNCHANGED <<orderVars, state, link, app, row, leaseBy, leased, paidAge>>
      BY <2>1 DEF ReceiveNotification, TypeOK
    <3>2. [queue[a] EXCEPT ![k] = Retained(Note(n))] \in Seq(Entry)
      BY <1>1, EntryTypes, UnappliedRetained
    <3>3. queue' \in [Attempts -> Seq(Entry)]
      BY <3>1, <3>2 DEF TypeOK
    <3> QED
      BY <3>1, <3>3 DEF EventVarsOK, DueVarsOK, TypeOK, orderVars
  <2>2. CASE ~(quarantine \/ Behind(queue[a], k))
    <3> DEFINE qu == [queue EXCEPT ![a] = Without(@, k)]
    <3>1. Apply(a, Note(n), qu) /\ DueRows(RowAfterNote(a, n))
      BY <2>2 DEF ReceiveNotification
    <3>2. qu \in [Attempts -> Seq(Entry)]
      BY <1>1, WithoutPlace DEF TypeOK
    <3>3. RowAfterNote(a, n) \in SUBSET Attempts
      BY DEF RowAfterNote, TypeOK
    <3> QED
      BY <1>1, <1>2, <3>1, <3>2, <3>3, AppliedTypes, DueRowsTypes
  <2> QED
    BY <2>1, <2>2
<1>4. cases' \subseteq Attempts \X Kinds
  <2>1. cases' = cases \/ cases' = cases \cup CasesAfter(a, Note(n))
    BY DEF ReceiveNotification
  <2>2. cases \subseteq Attempts \X Kinds
    BY DEF TypeOK
  <2> QED
    BY <1>1, <2>1, <2>2, CasesTyped
<1>5. seen' \in [Attempts -> SUBSET Notifications]
  <2>1. seen' = [seen EXCEPT ![a] = @ \cup {n}]
    BY DEF ReceiveNotification
  <2> QED
    BY <1>1, <2>1 DEF TypeOK
<1>6. RestOK'
  BY <1>4, <1>5 DEF ReceiveNotification, RestOK, TypeOK, pageVars, queryVars
<1> QED
  BY <1>3, <1>6, TypePartsAfter

LEMMA DeferredTypes ==
  ASSUME TypeOK, OnlyHandedAsked, NEW a \in Attempts, ApplyDeferred(a)
  PROVE  TypeOK'
<1>0. PICK k \in DOMAIN queue[a] : Defers(a, k)
  BY DeferredPlace
<1> DEFINE e == queue[a][k].event
           qu == [queue EXCEPT ![a] = Without(@, k)]
<1>1. queue[a] \in Seq(Entry) /\ e \in Event
  <2>1. queue[a] \in Seq(Entry) /\ queue[a][k] \in Entry
    BY DEF TypeOK
  <2> QED
    BY <2>1, EntryTypes
<1>2. a \in handed /\ qu \in [Attempts -> Seq(Entry)]
  BY <1>1, WithoutPlace DEF OnlyHandedAsked, TypeOK
<1>3. Apply(a, e, qu)
  BY <1>0, Zenon DEF Defers
<1>4. EventVarsOK'
  BY <1>1, <1>2, <1>3, AppliedTypes
<1>5. DueVarsOK'
  <2> DEFINE R == IF e.source = "notification" THEN RowAfterNote(a, e.outcome)
                  ELSE IF StateAfter(a, e) \in Final \/ a \in mismatch THEN row \ {a} ELSE row
  <2>1. DueRows(R)
    BY <1>0, Zenon DEF Defers
  <2>2. R \in SUBSET Attempts
    BY DEF RowAfterNote, TypeOK
  <2> QED
    BY <2>1, <2>2, DueRowsTypes
<1>6. cases' \subseteq Attempts \X Kinds
  <2>1. cases' = cases \cup CasesAfter(a, e)
    BY <1>0, Zenon DEF Defers
  <2>2. cases \subseteq Attempts \X Kinds
    BY DEF TypeOK
  <2> QED
    BY <1>1, <2>1, <2>2, CasesTyped
<1>7. UNCHANGED <<pageVars, charged, seen, earlier, answered, mismatch, failedFirst,
                  windowRow, queryVars, stage>>
  BY <1>0, Zenon DEF Defers
<1>8. RestOK'
  BY <1>6, <1>7 DEF RestOK, TypeOK, pageVars, queryVars
<1> QED
  BY <1>4, <1>5, <1>8, TypePartsAfter

LEMMA AnswerTypes ==
  ASSUME TypeOK, OnlyHandedAsked, NEW q \in Queries, FinishQuery(q)
  PROVE  TypeOK'
<1> DEFINE a == call[q].to
           e == Answered(call[q].answer)
<1>1. a \in handed /\ a \in Attempts /\ e \in Event
  <2>1. EventStep(a, e)
    BY AnswerIsEvent
  <2> QED
    BY <2>1 DEF EventStep, TypeOK
<1>2. EventVarsOK'
  <2>1. CASE Unapplied(queue[a]) = {}
    <3>1. Apply(a, e, queue) /\ queue \in [Attempts -> Seq(Entry)]
      BY <2>1 DEF FinishQuery, TypeOK
    <3> QED
      BY <1>1, <3>1, AppliedTypes
  <2>2. CASE Unapplied(queue[a]) # {}
    <3>1. queue' = [queue EXCEPT ![a] = Append(queue[a], Retained(e))] /\ queue[a] \in Seq(Entry)
      BY <1>1, <2>2 DEF FinishQuery, TypeOK
    <3>2. queue' \in [Attempts -> Seq(Entry)]
      BY <1>1, <3>1, EntryTypes DEF TypeOK
    <3> QED
      BY <2>2, <3>2 DEF FinishQuery, EventVarsOK, TypeOK, orderVars
  <2> QED
    BY <2>1, <2>2
<1>3. DueVarsOK'
  <2>1. CASE \E st, mm : UpdateSchedule(a, st, mm)
    BY <1>1, <2>1, ScheduleTypes
  <2>2. CASE UNCHANGED <<row, leaseBy, leased>>
    BY <2>2 DEF DueVarsOK, TypeOK
  <2>3. (\E st, mm : UpdateSchedule(a, st, mm)) \/ UNCHANGED <<row, leaseBy, leased>>
    BY DEF FinishQuery
  <2> QED
    BY <2>1, <2>2, <2>3
<1>4. cases' \subseteq Attempts \X Kinds
  <2>1. \E st, mm : cases' \subseteq cases \cup CasesAfter(a, e) \cup DueCases(a, st, mm)
    BY DEF FinishQuery
  <2>2. cases \subseteq Attempts \X Kinds
    BY DEF TypeOK
  <2> QED
    BY <1>1, <2>1, <2>2, CasesTyped
<1>5. call' \in [Queries -> Call \cup {None}]
  BY DEF FinishQuery, TypeOK
<1>6. RestOK'
  BY <1>1, <1>4, <1>5 DEF FinishQuery, RestOK, TypeOK, pageVars
<1> QED
  BY <1>2, <1>3, <1>6, TypePartsAfter

LEMMA EndWindowTypes ==
  ASSUME TypeOK, NEW a \in Attempts, EndWindow(a)
  PROVE  TypeOK'
<1>1. /\ UNCHANGED <<app, queue, paidAge>>
      /\ UNCHANGED <<seen, earlier, answered, mismatch, failedFirst, charged, cases, call,
                     cleared, stage, pageVars>>
      /\ windowRow' = windowRow \ {a}
  BY DEF EndWindow, inboxVars, queryVars, clockVars
<1>2. state' \in [Attempts -> States]
  BY EndWindowState
<1>3. CancelOrder("payment_not_completed") \/ UNCHANGED <<orderVars, link>>
  BY DEF EndWindow
<1>4. EventVarsOK'
  BY <1>1, <1>2, <1>3 DEF CancelOrder, EventVarsOK, TypeOK, orderVars
<1>5. DueVarsOK'
  <2>1. \/ DueRows(row \ {a})
        \/ (row' = row \/ row' = row \cup {a}) /\ UNCHANGED <<leaseBy, leased>>
    BY DEF EndWindow
  <2>2. row \ {a} \in SUBSET Attempts
    BY DEF TypeOK
  <2> QED
    BY <2>1, <2>2, DueRowsTypes DEF DueVarsOK, TypeOK
<1>6. RestOK'
  BY <1>1 DEF RestOK, TypeOK, pageVars
<1> QED
  BY <1>4, <1>5, <1>6, TypePartsAfter

LEMMA RepayTypes ==
  ASSUME TypeOK, MadeInOrder, NEW a \in Attempts, Repay(a)
  PROVE  TypeOK'
<1>1. a + 1 \in Attempts /\ state' \in [Attempts -> States]
  BY RepayState
<1>2. EventVarsOK' /\ DueVarsOK' /\ RestOK'
  BY <1>1 DEF Repay, EventVarsOK, DueVarsOK, RestOK, TypeOK, pageVars, inboxVars, clockVars, orderVars
<1> QED
  BY <1>2, TypePartsAfter

LEMMA CancellationTypes ==
  ASSUME TypeOK, OnlyHandedAsked, PersonCancels \/ PaidCancelled
  PROVE  TypeOK'
<1>1. EventVarsOK' /\ DueVarsOK' /\ RestOK'
  BY DEF PersonCancels, PaidCancelled, CancelOrder, EventVarsOK, DueVarsOK, RestOK, TypeOK,
         pageVars, inboxVars, dueVars, queryVars, clockVars
<1> QED
  BY <1>1, TypePartsAfter

LEMMA TypeOKStep ==
  ASSUME TypeOK, OnlyHandedAsked, MadeInOrder, [Next]_vars
  PROVE  TypeOK'
<1>1. CASE HoldExpires
  BY <1>1, ClockTypes, BoundsAssumption DEF Attempts
<1>2. CASE PersonCancels \/ PaidCancelled
  BY <1>2, CancellationTypes
<1>3. ASSUME NEW a \in Attempts,
             \/ WindowPasses(a) \/ DayPasses(a) \/ PaidAges(a)
             \/ LeaseLapses(a) \/ LinkLapses(a)
      PROVE  TypeOK'
  BY <1>3, ClockTypes
<1>4. ASSUME NEW a \in Attempts,
             \/ MintLink(a) \/ PreparePage(a) \/ AppendJournal(a) \/ PageDies(a)
             \/ MarkJournaled(a) \/ HandOver(a) \/ Charge(a) \/ BrowserReturn(a)
      PROVE  TypeOK'
  BY <1>4, PageTypes
<1>5. ASSUME NEW a \in Attempts, SkipQuery(a) \/ CannotQuery(a)
      PROVE  TypeOK'
  BY <1>5, QueryTypes
<1>6. ASSUME NEW q \in Queries,
             \/ \E a \in Attempts, repay \in BOOLEAN : BeginQuery(q, a, repay)
             \/ \E x \in Answers : AnswerQuery(q, x)
             \/ AbandonQuery(q) \/ FinishWithoutEvent(q)
      PROVE  TypeOK'
  BY <1>6, CallTypes
<1>7. ASSUME NEW a \in Attempts, NEW k, NEW quarantine \in BOOLEAN,
             ReceiveNotification(a, k, quarantine)
      PROVE  TypeOK'
  BY <1>7, NotificationTypes
<1>8. ASSUME NEW a \in Attempts, ApplyDeferred(a)
      PROVE  TypeOK'
  BY <1>8, DeferredTypes
<1>9. ASSUME NEW q \in Queries, FinishQuery(q)
      PROVE  TypeOK'
  BY <1>9, AnswerTypes
<1>10. ASSUME NEW a \in Attempts, EndWindow(a)
       PROVE  TypeOK'
  BY <1>10, EndWindowTypes
<1>11. ASSUME NEW a \in Attempts, Repay(a)
       PROVE  TypeOK'
  BY <1>11, RepayTypes
<1>12. ASSUME NEW a \in Attempts,
              \/ \E n \in Notifications : InsertNotification(a, n)
              \/ \E k \in 1..MaxQueue : LoseNotification(a, k)
       PROVE  TypeOK'
  BY <1>12, ArrivalTypes
<1>13. CASE UNCHANGED vars
  BY <1>13 DEF vars, TypeOK, pageVars, inboxVars, dueVars, queryVars, clockVars, orderVars
<1> QED
  BY <1>1, <1>2, <1>3, <1>4, <1>5, <1>6, <1>7, <1>8, <1>9, <1>10, <1>11, <1>12, <1>13 DEF Next

-----------------------------------------------------------------------------
(* The inductive invariant.                                                 *)

LEMMA InitIInv ==
  ASSUME Init
  PROVE  IInv
<1>1. 1 \in Attempts /\ Made = {1}
  BY BoundsAssumption DEF Init, Made, Attempts
<1>2. TypeOK
  <2>1. /\ queue \in [Attempts -> Seq(Entry)] /\ seen \in [Attempts -> SUBSET Notifications]
        /\ earlier \in [Attempts -> SUBSET (Notifications \X Notifications)]
    BY DEF Init
  <2> QED
    BY <1>1, <2>1 DEF Init, TypeOK, States
<1>3. MadeInOrder
  BY <1>1 DEF MadeInOrder
<1>4. OnlyHandedAsked /\ WindowAhead /\ OpenHasNoReason
  BY <1>1 DEF Init, OnlyHandedAsked, WindowAhead, OpenHasNoReason
<1>5. MismatchKnown /\ NotifiedPaid
  BY DEF Init, MismatchKnown, NotifiedPaid, Unapplied, Stored
<1>6. JournalBeforeHandoff /\ NothingForgotten /\ LinksDieWithOrder
  BY DEF Init, JournalBeforeHandoff, NothingForgotten, LinksDieWithOrder
<1>7. MoneyAccountedFor /\ NoFalseContradiction
  BY DEF Init, MoneyAccountedFor, NoFalseContradiction
<1>8. InboxSound /\ FailureInFront
  BY <1>1 DEF Init, InboxSound, Sound, FailureInFront
<1> QED
  BY <1>2, <1>3, <1>4, <1>5, <1>6, <1>7, <1>8 DEF IInv

LEMMA StepIInv ==
  ASSUME IInv, [Next]_vars
  PROVE  IInv'
<1>1. /\ TypeOK /\ MadeInOrder /\ OnlyHandedAsked /\ WindowAhead /\ OpenHasNoReason
      /\ MismatchKnown /\ NotifiedPaid /\ InboxSound /\ FailureInFront /\ NoFalseContradiction
      /\ JournalBeforeHandoff /\ MoneyAccountedFor /\ NothingForgotten /\ LinksDieWithOrder
  BY DEF IInv
<1>2. TypeOK' /\ MadeInOrder' /\ OnlyHandedAsked'
  BY <1>1, TypeOKStep, MadeInOrderStep, OnlyHandedAskedStep
<1>3. WindowAhead' /\ MismatchKnown' /\ NotifiedPaid'
  BY <1>1, WindowAheadStep, MismatchKnownStep, NotifiedPaidStep
<1>4. OpenHasNoReason' /\ LinksDieWithOrder' /\ JournalBeforeHandoff'
  BY <1>1, LinksDieWithOrderStep, JournalStep
<1>5. MoneyAccountedFor' /\ NothingForgotten'
  BY <1>1, MoneyAccountedForStep, NothingForgottenStep
<1>6. InboxSound' /\ FailureInFront' /\ NoFalseContradiction'
  BY <1>1, <1>2, InboxSoundStep, FrontStep
<1> QED
  BY <1>2, <1>3, <1>4, <1>5, <1>6 DEF IInv

\* Every reachable state of any instance satisfies the inductive invariant: the
\* properties below and what they rest on (payments/).
THEOREM Invariance == Spec => []IInv
<1>1. Init => IInv
  BY InitIInv
<1>2. IInv /\ [Next]_vars => IInv'
  BY StepIInv
<1> QED
  BY <1>1, <1>2, PTL DEF Spec

\* The tables of an order's attempts keep their types.
THEOREM TypeCorrect == Spec => []TypeOK
<1>1. IInv => TypeOK
  BY DEF IInv
<1> QED
  BY <1>1, Invariance, PTL

\* A hand-over is in the external journal before the buyer reaches the provider,
\* for any number of pages and attempts (handoff.ts).
THEOREM JournalFirst == Spec => []JournalBeforeHandoff
<1>1. IInv => JournalBeforeHandoff
  BY DEF IInv
<1> QED
  BY <1>1, Invariance, PTL

\* Every payment known is applied to the order or has a case, in any order of
\* notifications, queries, retries and cancellations (events.ts, queries.ts).
THEOREM MoneyKept == Spec => []MoneyAccountedFor
<1>1. IInv => MoneyAccountedFor
  BY DEF IInv
<1> QED
  BY <1>1, Invariance, PTL

\* An attempt that may still be charged has a due row, its window ahead, a
\* mismatch or a case (window.ts, queries.ts).
THEOREM NoneForgotten == Spec => []NothingForgotten
<1>1. IInv => NothingForgotten
  BY DEF IInv
<1> QED
  BY <1>1, Invariance, PTL

\* A failure that was in the inbox when the payment was received is never held
\* against it, however long the two are retained (events.ts, applyPaymentEvent).  One
\* that still arrived then may be: AppliedInReceiptOrder.
THEOREM NoContradictionInvented == Spec => []NoFalseContradiction
<1>1. IInv => NoFalseContradiction
  BY DEF IInv
<1> QED
  BY <1>1, Invariance, PTL

\* No payment link outlives an order cancelled before it was paid (attempts.ts).
THEOREM LinksDie == Spec => []LinksDieWithOrder
<1>1. IInv => LinksDieWithOrder
  BY DEF IInv
<1> QED
  BY <1>1, Invariance, PTL

-----------------------------------------------------------------------------
(* What a step may never do.                                                *)

LEMMA LegalStep ==
  ASSUME IInv, [Next]_vars, NEW b \in Attempts, state'[b] # state[b]
  PROVE  <<state[b], state'[b]>> \in Transition
<1>1. TypeOK /\ OnlyHandedAsked /\ MismatchKnown /\ MadeInOrder
  BY DEF IInv
<1>2. CASE Quiet
  BY <1>2 DEF Quiet
<1>3. ASSUME NEW a \in Attempts, NEW e \in Event, EventStep(a, e)
      PROVE  <<state[b], state'[b]>> \in Transition
  BY <1>1, <1>3, EventState
<1>4. ASSUME NEW a \in Attempts, EndWindow(a)
      PROVE  <<state[b], state'[b]>> \in Transition
  BY <1>1, <1>4, EndWindowState DEF Transition
<1>5. ASSUME NEW a \in Attempts, Repay(a)
      PROVE  <<state[b], state'[b]>> \in Transition
  <2>1. CASE b = a
    BY <1>1, <1>5, <2>1, RepayState DEF Transition
  <2>2. CASE b = a + 1
    BY <1>1, <1>5, <2>2, RepayState DEF Transition
  <2>3. CASE b # a /\ b # a + 1
    BY <1>1, <1>5, <2>3, RepayState
  <2> QED
    BY <2>1, <2>2, <2>3
<1> QED
  BY <1>1, <1>2, <1>3, <1>4, <1>5, StepKinds

\* No sequence of events, windows and retries asks for a transition the trigger
\* refuses (preserve_commerce_payment_attempt).
THEOREM AlwaysLegal == Spec => LegalTransitions
<1>1. IInv /\ [Next]_vars =>
        [\A a \in Attempts : state'[a] # state[a] => <<state[a], state'[a]>> \in Transition]_vars
  BY LegalStep
<1> QED
  BY <1>1, Invariance, PTL DEF Spec, LegalTransitions

LEMMA RetryStep ==
  ASSUME IInv, [Next]_vars, NEW b \in Attempts, state[b] = "none", state'[b] # "none"
  PROVE  /\ life = "open"
         /\ \A c \in Made : app[c] = "none" /\ state[c] \notin {"paid", "confirmed"}
         /\ \A e \in Unapplied(queue[b - 1]) : e.outcome # "paid"
<1>1. TypeOK /\ OnlyHandedAsked /\ MismatchKnown /\ MadeInOrder
  BY DEF IInv
<1>2. b \notin Made /\ b \in Made'
  BY DEF Made
<1>3. ~Quiet
  BY <1>2 DEF Quiet
<1>4. \A a \in Attempts : (\A e \in Event : ~EventStep(a, e)) /\ ~EndWindow(a)
  BY <1>1, <1>2, EventState, EndWindowState
<1>5. PICK a \in Attempts : Repay(a)
  BY <1>1, <1>3, <1>4, StepKinds
<1>6. b = a + 1 /\ b - 1 = a
  <2>1. b = a + 1
    BY <1>1, <1>5, RepayState
  <2> QED
    BY <2>1 DEF Attempts
<1>7. /\ Gate
      /\ \A c \in Attempts : state[c] \notin {"paid", "confirmed"} /\ app[c] = "none"
      /\ Unapplied(queue[a]) \cap {Note("paid"), Note("wrong_amount"), Answered("paid")} = {}
  BY <1>5 DEF Repay, RepayChecked, Repayable
<1>8. ASSUME NEW e \in Unapplied(queue[a])
      PROVE  e.outcome # "paid"
  <2>1. PICK k \in DOMAIN queue[a] : queue[a][k].event = e
    BY DEF Unapplied, Stored
  <2>2. queue[a][k] \in Entry
    BY <1>1 DEF TypeOK
  <2>3. e \in Event
    BY <2>1, <2>2, EntryTypes
  <2>4. e.outcome = "paid" => e \in {Note("paid"), Answered("paid")}
    BY <2>3 DEF Event, Notice, Note, Answered
  <2> QED
    BY <1>7, <2>4
<1> QED
  BY <1>6, <1>7, <1>8 DEF Gate, Made

\* Another attempt is made only while no payment of the order is known and none
\* of the newest attempt waits in the inbox (attempts.ts, resume).
THEOREM RetriesUnpaidOnly == Spec => RetryOnlyUnpaid
<1>1. IInv /\ [Next]_vars =>
        [\A a \in Attempts : state[a] = "none" /\ state'[a] # "none" =>
           /\ life = "open"
           /\ \A b \in Made : app[b] = "none" /\ state[b] \notin {"paid", "confirmed"}
           /\ \A e \in Unapplied(queue[a - 1]) : e.outcome # "paid"]_vars
  BY RetryStep
<1> QED
  BY <1>1, Invariance, PTL DEF Spec, RetryOnlyUnpaid

LEMMA GivenUpStep ==
  ASSUME IInv, IInv', [Next]_vars, life = "open", reason' = "payment_not_completed",
         NEW b \in Attempts
  PROVE  /\ "paid" \notin seen'[b]
         /\ \A e \in Unapplied(queue'[b]) : e.outcome # "paid"
<1>1. TypeOK /\ OnlyHandedAsked /\ MismatchKnown /\ MadeInOrder /\ reason = "none"
  BY DEF IInv, OpenHasNoReason
<1>2. OnlyHandedAsked' /\ NotifiedPaid'
  BY DEF IInv
<1>3. /\ life' # life
      /\ \A c \in Made' : /\ state'[c] \in {"failed", "expired_unpaid"}
                          /\ Unapplied(queue'[c]) = {}
  BY <1>1, OrderStep DEF OrderMoves
<1>4. Unapplied(queue'[b]) = {}
  <2>1. b \notin Made' => queue'[b] = <<>>
    BY <1>2 DEF OnlyHandedAsked
  <2>2. b \notin Made' => Unapplied(queue'[b]) = {}
    BY <2>1 DEF Unapplied, Stored
  <2> QED
    BY <1>3, <2>2
<1>5. state'[b] \notin {"paid", "confirmed"}
  BY <1>3 DEF Made
<1> QED
  BY <1>2, <1>4, <1>5 DEF NotifiedPaid

\* The system gives no order up of which a payment is known or waits in the inbox
\* (settleOrderPayments, endPaymentWindow).
THEOREM PaidNeverGivenUp == Spec => NoPaidOrderGivenUp
<1>1. IInv /\ IInv' /\ [Next]_vars =>
        [reason' = "payment_not_completed" /\ life = "open" =>
           \A a \in Attempts : /\ "paid" \notin seen'[a]
                               /\ \A e \in Unapplied(queue'[a]) : e.outcome # "paid"]_vars
  BY GivenUpStep
<1> QED
  BY <1>1, Invariance, PTL DEF Spec, NoPaidOrderGivenUp

\* A row that stays keeps its lease when others are deleted.
LEMMA DueRowsLease ==
  ASSUME NEW R, DueRows(R), NEW a \in Attempts, a \in leased' \cup row'
  PROVE  leaseBy'[a] = leaseBy[a]
  BY DEF DueRows

LEMMA ScheduleLease ==
  ASSUME TypeOK, NEW b \in Attempts, NEW st, NEW mm, UpdateSchedule(b, st, mm),
         NEW a \in Attempts, a # b, a \in leased' \cup row'
  PROVE  leaseBy'[a] = leaseBy[a]
<1>1. CASE QueryDue(b, st, mm)
  BY <1>1 DEF UpdateSchedule, TypeOK
<1>2. CASE ~QueryDue(b, st, mm)
  BY <1>2, DueRowsLease DEF UpdateSchedule
<1> QED
  BY <1>1, <1>2

LEMMA LeaseStep ==
  ASSUME IInv, [Next]_vars, NEW a \in Attempts, NEW q \in Queries,
         a \in leased, leaseBy[a] = q, call'[q] = call[q], a \in leased' \cup row'
  PROVE  leaseBy'[a] = q
<1>1. TypeOK /\ OnlyHandedAsked
  BY DEF IInv
<1>2. CASE \/ HoldExpires \/ PersonCancels \/ PaidCancelled \/ UNCHANGED vars
  BY <1>2 DEF HoldExpires, PersonCancels, PaidCancelled, vars, dueVars
<1>3. ASSUME NEW b \in Attempts,
             \/ WindowPasses(b) \/ DayPasses(b) \/ PaidAges(b) \/ LeaseLapses(b) \/ LinkLapses(b)
      PROVE  leaseBy'[a] = q
  BY <1>3 DEF WindowPasses, DayPasses, PaidAges, LeaseLapses, LinkLapses, dueVars
<1>4. ASSUME NEW b \in Attempts,
             \/ MintLink(b) \/ PreparePage(b) \/ AppendJournal(b) \/ PageDies(b)
             \/ MarkJournaled(b) \/ HandOver(b) \/ Charge(b) \/ BrowserReturn(b) \/ Repay(b)
      PROVE  leaseBy'[a] = q
  BY <1>4 DEF MintLink, PreparePage, AppendJournal, PageDies, MarkJournaled, HandOver, Charge,
              BrowserReturn, Repay, dueVars
<1>5. ASSUME NEW b \in Attempts, SkipQuery(b) \/ EndWindow(b) \/ ApplyDeferred(b)
      PROVE  leaseBy'[a] = q
  <2>1. (\E R : DueRows(R)) \/ leaseBy' = leaseBy
    BY <1>5 DEF SkipQuery, EndWindow, ApplyDeferred
  <2> QED
    BY <2>1, DueRowsLease
<1>6. ASSUME NEW b \in Attempts, CannotQuery(b)
      PROVE  leaseBy'[a] = q
  BY <1>1, <1>6 DEF CannotQuery, TypeOK
<1>7. ASSUME NEW b \in Attempts, NEW k, NEW quarantine \in BOOLEAN,
             ReceiveNotification(b, k, quarantine)
      PROVE  leaseBy'[a] = q
  <2>1. (\E R : DueRows(R)) \/ leaseBy' = leaseBy
    BY <1>7 DEF ReceiveNotification
  <2> QED
    BY <2>1, DueRowsLease
<1>8. ASSUME NEW p \in Queries, NEW b \in Attempts, NEW repay \in BOOLEAN, BeginQuery(p, b, repay)
      PROVE  leaseBy'[a] = q
  BY <1>1, <1>8 DEF BeginQuery, TypeOK
<1>9. ASSUME NEW p \in Queries, (\E x \in Answers : AnswerQuery(p, x)) \/ AbandonQuery(p)
      PROVE  leaseBy'[a] = q
  BY <1>9 DEF AnswerQuery, AbandonQuery, dueVars
<1>10. ASSUME NEW p \in Queries, FinishWithoutEvent(p) \/ FinishQuery(p)
       PROVE  leaseBy'[a] = q
  <2> DEFINE b == call[p].to
  <2>1. call[p] # None /\ call' = [call EXCEPT ![p] = None]
    BY <1>10 DEF FinishWithoutEvent, FinishQuery
  <2>2. q # p /\ b \in Attempts
    BY <1>1, <2>1 DEF TypeOK, OnlyHandedAsked
  <2>3. CASE OwnLease(p, b)
    <3>1. a # b
      BY <2>2, <2>3 DEF OwnLease
    <3>2. (\E st, mm : UpdateSchedule(b, st, mm)) \/ leaseBy' = [leaseBy EXCEPT ![b] = None]
      BY <1>10, <2>3 DEF FinishWithoutEvent, FinishQuery
    <3>3. CASE \E st, mm : UpdateSchedule(b, st, mm)
      BY <1>1, <2>2, <3>1, <3>3, ScheduleLease
    <3>4. CASE leaseBy' = [leaseBy EXCEPT ![b] = None]
      BY <1>1, <3>1, <3>4 DEF TypeOK
    <3> QED
      BY <3>2, <3>3, <3>4
  <2>4. CASE ~OwnLease(p, b)
    BY <1>10, <2>4 DEF FinishWithoutEvent, FinishQuery
  <2> QED
    BY <2>3, <2>4
<1>11. ASSUME NEW b \in Attempts,
              \/ \E n \in Notifications : InsertNotification(b, n)
              \/ \E k \in 1..MaxQueue : LoseNotification(b, k)
       PROVE  leaseBy'[a] = q
  BY <1>11 DEF InsertNotification, LoseNotification, dueVars
<1> QED
  BY <1>2, <1>3, <1>4, <1>5, <1>6, <1>7, <1>8, <1>9, <1>10, <1>11 DEF Next

\* No query frees the row of another one, however many overlap (queries.ts).
THEOREM LeasesKept == Spec => LeaseKept
<1>1. IInv /\ [Next]_vars =>
        [\A a \in Attempts : \A q \in Queries :
           a \in leased /\ leaseBy[a] = q /\ call'[q] = call[q] /\ a \in leased' \cup row' =>
             leaseBy'[a] = q]_vars
  BY LeaseStep
<1> QED
  BY <1>1, Invariance, PTL DEF Spec, LeaseKept

-----------------------------------------------------------------------------
(* The payments implement OrderMoney.                                       *)

\* An applied event records one outcome, the first of its attempt, and ends the
\* order at most with a wrong amount.
LEMMA AppliedMoney ==
  ASSUME IInv, NEW a \in Attempts, NEW e \in Event, EventStep(a, e),
         NEW qu, Applied(a, e, qu), app' # app
  PROVE  Money!Next
<1>1. TypeOK /\ OnlyHandedAsked
  BY DEF IInv
<1>2. /\ app' = [app EXCEPT ![a] = AppAfter(a, e)]
      /\ state' = [state EXCEPT ![a] = StateAfter(a, e)]
      /\ \/ life' = life
         \/ /\ life = "open" /\ life' = "cancelled"
            /\ \A b \in Made : state'[b] \in {"failed", "expired_unpaid"}
            /\ \A b \in Attempts : app'[b] # "confirmed"
  BY <1>1, ApplyEffect DEF Applied
<1>3. app[a] = "none" /\ AppAfter(a, e) # "none"
  BY <1>1, <1>2 DEF AppAfter, TypeOK
<1>4. a \in Made /\ state[a] \in States \ {"none"} /\ state'[a] = StateAfter(a, e)
  BY <1>1, <1>2, EventState DEF TypeOK
<1>5. CASE e.outcome \in {"wrong_amount", "amount_mismatch"}
  <2>1. AppAfter(a, e) = "amount_mismatch"
    BY <1>3, <1>5 DEF AppAfter
  <2>2. life' # life => life = "open" /\ life' = "cancelled" /\ ~Confirms(app)
    BY <1>1, <1>2, <1>3 DEF Confirms, TypeOK
  <2>3. Money!Record(a, "amount_mismatch")
    BY <1>2, <1>3, <2>1 DEF Money!Record
  <2>4. life # "absent"
    BY <1>1 DEF TypeOK
  <2>5. Money!PayWrongAmount(a)
    BY <2>2, <2>3, <2>4 DEF Money!PayWrongAmount, Money!Paid, Confirms
  <2> QED
    BY <2>5 DEF Money!Next
<1>6. CASE e.outcome = "paid"
  <2>1. life' = life
    <3>1. StateAfter(a, e) \in {"paid", "confirmed"}
      BY <1>4, <1>6, StateAfterEvent
    <3> QED
      BY <1>2, <1>4, <3>1
  <2>2. Money!Record(a, AppAfter(a, e))
    BY <1>2, <1>3 DEF Money!Record
  <2>3. CASE life = "cancelled"
    <3>1. AppAfter(a, e) = "after_cancel"
      BY <1>3, <1>6, <2>3 DEF AppAfter
    <3> QED
      BY <2>1, <2>2, <2>3, <3>1 DEF Money!PayLate, Money!Next
  <2>4. CASE life = "open" /\ Confirms(app)
    <3>1. AppAfter(a, e) = "overpaid"
      BY <1>3, <1>6, <2>4 DEF AppAfter
    <3> QED
      BY <2>1, <2>2, <2>4, <3>1 DEF Money!Overpay, Money!Next, Money!Paid, Confirms
  <2>5. CASE life = "open" /\ ~Confirms(app)
    <3>1. AppAfter(a, e) = "confirmed"
      BY <1>3, <1>6, <2>5 DEF AppAfter
    <3> QED
      BY <2>1, <2>2, <2>5, <3>1 DEF Money!Confirm, Money!Next, Money!Paid, Confirms
  <2> QED
    BY <1>1, <2>3, <2>4, <2>5 DEF TypeOK
<1> QED
  BY <1>3, <1>5, <1>6 DEF AppAfter

LEMMA MoneyStep ==
  ASSUME IInv, [Next]_vars
  PROVE  [Money!Next]_(Money!vars)
<1>1. TypeOK /\ OnlyHandedAsked /\ MismatchKnown /\ MadeInOrder
  BY DEF IInv
<1>2. CASE app' = app
  <2>1. life' = life \/ (life = "open" /\ life' = "cancelled")
    BY <1>1, OrderStep DEF OrderMoves
  <2> QED
    BY <1>2, <2>1 DEF Money!Next, Money!Cancel, Money!vars
<1>3. CASE app' # app
  <2>1. ~Quiet /\ \A a \in Attempts : ~EndWindow(a) /\ ~Repay(a)
    BY <1>3 DEF Quiet, EndWindow, Repay
  <2>2. PICK a \in Attempts, e \in Event : EventStep(a, e)
    BY <1>1, <2>1, StepKinds
  <2>3. \E qu : Applied(a, e, qu)
    BY <1>3, <2>2 DEF EventStep, Taken, Waits
  <2> QED
    BY <1>3, <2>2, <2>3, AppliedMoney
<1> QED
  BY <1>2, <1>3

\* The payments of an order, through all their notifications, queries, windows and
\* retries, make of its money only what OrderMoney allows.
THEOREM MoneyRefined == Spec => KeepsMoney
<1>1. Init => Money!Init
  BY DEF Init, Money!Init
<1>2. IInv /\ [Next]_vars => [Money!Next]_(Money!vars)
  BY MoneyStep
<1> QED
  BY <1>1, <1>2, Invariance, PTL DEF Spec, KeepsMoney, Money!Spec

MoneyFacts == INSTANCE OrderMoneyProofs WITH Refs <- Attempts, phase <- life, money <- app

\* One attempt at most confirms the order: the second charge of a buyer who was
\* handed over twice is overpaid, cancelled late or a mismatch.
THEOREM OneAttemptConfirms == Spec => []MoneyFacts!OneConfirms
<1>1. Money!Init => MoneyFacts!Init
  BY DEF Money!Init, MoneyFacts!Init
<1>2. [Money!Next]_(Money!vars) => [MoneyFacts!Next]_(MoneyFacts!vars)
  BY DEF Money!Next, Money!vars, Money!Place, Money!Cancel, Money!Confirm, Money!Overpay,
         Money!PayLate, Money!PayWrongAmount, Money!Record, Money!Paid,
         MoneyFacts!Next, MoneyFacts!vars, MoneyFacts!Place, MoneyFacts!Cancel,
         MoneyFacts!Confirm, MoneyFacts!Overpay, MoneyFacts!PayLate,
         MoneyFacts!PayWrongAmount, MoneyFacts!Record, MoneyFacts!Paid
<1> QED
  BY <1>1, <1>2, MoneyRefined, MoneyFacts!OneConfirmation, PTL
     DEF KeepsMoney, Money!Spec, MoneyFacts!Spec

=============================================================================
