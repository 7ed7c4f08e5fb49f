------------------------- MODULE EventParticipation -------------------------
(***************************************************************************)
(* The seats of one guild event (src/modules/community/events.ts and        *)
(* event-waitlist.ts): registrations of members and of public guests, the   *)
(* waitlist with its offers, and what the organizer may change.             *)
(*                                                                         *)
(* Every command locks the row of the event first, so a transaction is one  *)
(* action; the public registration takes two, with an e-mail in the second. *)
(* A command whose condition fails rolls back and is no step.  The clock    *)
(* moves between transactions; the scheduled pass reads it before it waits  *)
(* for the lock and may be up to MaxLate behind.  The code serves the queue  *)
(* by joined_at, which it reads from the clock after the lock, so the order *)
(* of joining is that of the locks: entries of one millisecond, and the     *)
(* clocks of servers that disagree, are left out.                           *)
(*                                                                         *)
(* Instants are kept as the ticks that remain until them, down to -MaxLate. *)
(* A registration that was cancelled and one that was never made are both   *)
(* "none", and so is an entry that was declined, left, expired or cancelled *)
(* or never made: the commands do not ask which.  An event without a limit  *)
(* has a capacity of twice the people.  \E b \in {e} names a value that is    *)
(* used more than once.                                                     *)
(*                                                                         *)
(* A definition marked Fault is never used by the model: it is a mistake    *)
(* the next definition could have made, kept to show that a property        *)
(* notices it.                                                             *)
(***************************************************************************)
EXTENDS Integers, FiniteSets

CONSTANTS
  Members,     \* members of the community who may take part
  Guests,      \* public guests, known by their e-mail address
  Capacities,  \* the limits an organizer may set
  Starts,      \* how far ahead an event may be set to start
  Hold,        \* the life of a public registration waiting for its e-mail
  Window,      \* the time to answer an offer
  MaxLate      \* how late the scheduled pass may be

People == Members \cup Guests

ASSUME PeopleAssumption == IsFiniteSet(People) /\ Members \cap Guests = {}
ASSUME EventAssumption == Capacities \subseteq Nat \ {0} /\ Starts \subseteq Nat \ {0}
ASSUME TimeAssumption == Hold \in Nat \ {0} /\ Window \in Nat \ {0} /\ MaxLate \in Nat

VARIABLES
  event,        \* the row of community_events
  book,         \* of everyone: the registration, the waitlist entry, the reminder
  eligible,     \* whom the event is open to at the moment
  registering   \* guests between the two transactions of a registration

vars == <<event, book, eligible, registering>>

Event == [state    : {"pending", "published", "rejected", "cancelled"},
          capacity : Capacities,
          waitlist : BOOLEAN,           \* waitlist_enabled
          startIn  : Int]
Waiting == {"queued", "invited"}
Row == [rsvp   : {"none", "pending", "going"},
        hold   : Int,                   \* until a pending registration lapses
        status : Waiting \cup {"none", "accepted"},
        left   : Int,                   \* until the offer expires
        ahead  : SUBSET People,         \* who joined the queue before
        remind : BOOLEAN]               \* an enabled reminder

TypeOK ==
  /\ event \in Event
  /\ book \in [People -> Row]
  /\ eligible \subseteq People
  /\ registering \subseteq Guests

Nothing == [rsvp |-> "none", hold |-> 0, status |-> "none", left |-> 0,
            ahead |-> {}, remind |-> FALSE]
Init ==
  /\ event \in [state : {"pending"}, capacity : Capacities,
                waitlist : {FALSE}, startIn : Starts]
  /\ book = [p \in People |-> Nothing]
  /\ eligible = People
  /\ registering = {}

-----------------------------------------------------------------------------
(* Seats.                                                                   *)

Pending(r, late) == r.rsvp = "pending" /\ r.hold + late > 0
Offered(r, late) == r.status = "invited" /\ r.left + late > 0

\* Somebody with a registration and an offer takes one seat.
Takes(r, late) == r.rsvp = "going" \/ Pending(r, late) \/ Offered(r, late)
Seats(b, late) == Cardinality({p \in People : Takes(b[p], late)})

\* What a smaller capacity may not cut off.
Confirmed(b) ==
  Cardinality({p \in People : b[p].rsvp = "going" \/ Pending(b[p], 0)})

With(b, s) == {p \in People : b[p].status = s}
First(b, S, n) == {p \in S : Cardinality(S \cap b[p].ahead) < n}
Newest(b, S, n) == {p \in S : Cardinality({q \in S : p \in b[q].ahead}) < n}

Lesser(m, n) == IF m < n THEN m ELSE n

-----------------------------------------------------------------------------
(* The reconciliation of the waitlist, a part of most transactions.         *)

EndEntry(r) == [r EXCEPT !.status = "none", !.left = 0, !.ahead = {}]
Accepted(r) == [r EXCEPT !.status = "accepted", !.left = 0, !.ahead = {}]
Cancelled(r) == [r EXCEPT !.rsvp = "none", !.hold = 0]
Open(ev, late) == ev.state = "published" /\ ev.startIn + late > 0

Expired(r, late) ==
  IF r.status = "invited" /\ r.left + late <= 0 THEN EndEntry(r) ELSE r
Lapsed(r, late) ==
  IF r.rsvp = "pending" /\ r.hold + late <= 0 THEN Cancelled(r) ELSE r

\* An entry that waits may wait on, is taken as accepted, or is over.
Sorted(r, on, admitted) ==
  CASE r.status \notin Waiting -> r
    [] r.status \in Waiting /\ on /\ r.rsvp = "going" -> Accepted(r)
    [] r.status \in Waiting /\ on /\ r.rsvp # "going" /\ admitted -> r
    [] OTHER -> EndEntry(r)
Tidy(b, on, late) ==
  [p \in People |-> Sorted(Lapsed(Expired(b[p], late), late), on, p \in eligible)]

Invited(r, left) == [r EXCEPT !.status = "invited", !.left = left]
Requeued(r) == [r EXCEPT !.status = "queued", !.left = 0]
Deadline(ev, late) == Lesser(Window - late, ev.startIn)
Offer(ev, b, S, late) ==
  [p \in People |->
     IF p \in S THEN Invited(b[p], Deadline(ev, late)) ELSE b[p]]
TakeBack(b, S) == [p \in People |-> IF p \in S THEN Requeued(b[p]) ELSE b[p]]

\* Offers beyond the capacity are taken back, the newest first; seats that
\* are free are offered, the oldest entry first.
\* Fault: the newest entries get the free seats.
OfferedNewestFirst(ev, b, late) ==
  LET n == ev.capacity - Seats(b, late)
  IN  IF n < 0 THEN TakeBack(b, Newest(b, With(b, "invited"), -n))
               ELSE Offer(ev, b, Newest(b, With(b, "queued"), n), late)
Reoffered(ev, b, late) ==
  LET n == ev.capacity - Seats(b, late)
  IN  IF n < 0 THEN TakeBack(b, Newest(b, With(b, "invited"), -n))
               ELSE Offer(ev, b, First(b, With(b, "queued"), n), late)

\* Everyone's place is kept among those who still wait.
Behind(r, S) == [r EXCEPT !.ahead = @ \cap S]
InLine(b) ==
  LET waiting == {q \in People : b[q].status \in Waiting}
  IN  [p \in People |-> Behind(b[p], waiting)]

Reconcile(ev, b, late) ==
  LET on == Open(ev, late) /\ ev.waitlist
      c == Tidy(b, on, late)
  IN  InLine(IF on THEN Reoffered(ev, c, late) ELSE c)
Now(ev, b) == Reconcile(ev, b, 0)

-----------------------------------------------------------------------------
(* Registrations.                                                           *)

\* Fault: the old place in the queue is kept.
RejoinedInPlace(b, p) ==
  [q \in People |->
     IF q = p THEN Requeued(b[p])
     ELSE IF b[q].status \in Waiting THEN [b[q] EXCEPT !.ahead = @ \cup {p}]
     ELSE b[q]]
Last(r, S) == [r EXCEPT !.status = "queued", !.left = 0, !.ahead = S]
Rejoined(b, p) ==
  [b EXCEPT ![p] = Last(@, {q \in People \ {p} : b[q].status \in Waiting})]

\* A seat taken for good; an entry in the waitlist is thereby accepted.
Attending(r) ==
  LET s == [r EXCEPT !.rsvp = "going", !.hold = 0]
  IN  IF r.status \in Waiting THEN Accepted(s) ELSE s
Going(b, p) == [b EXCEPT ![p] = Attending(@)]

\* Fault: an accepted entry is not ended.
GoneAccepted(r) ==
  [(IF r.status \in Waiting THEN EndEntry(r) ELSE r) EXCEPT !.remind = FALSE]
Gone(r) ==
  [(IF r.status \in Waiting \cup {"accepted"} THEN EndEntry(r) ELSE r)
     EXCEPT !.remind = FALSE]
Leaves(b, p) == [b EXCEPT ![p] = Gone(@)]

Held(r) == [r EXCEPT !.rsvp = "pending", !.hold = Hold]
Holds(b, p) == [b EXCEPT ![p] = Held(@)]
Cancels(b, p) == [b EXCEPT ![p] = Cancelled(@)]

Seated(n) == n < event.capacity

\* A member takes a seat, at the price of the offer he may hold.
Attend(p) ==
  /\ Open(event, 0)
  /\ p \in eligible
  /\ \E b \in {Now(event, book)} :
       LET own == IF Offered(b[p], 0) THEN 1 ELSE 0
       IN  /\ b[p].rsvp # "going" => Seated(Seats(b, 0) - own)
           /\ book' = Now(event, Going(b, p))
  /\ UNCHANGED <<event, eligible, registering>>

Withdraw(p) ==
  /\ \E b \in {Now(event, book)} : book' = Now(event, Leaves(Cancels(b, p), p))
  /\ UNCHANGED <<event, eligible, registering>>

\* A guest's request holds a seat and goes on to its e-mail.
Register(p) ==
  /\ Open(event, 0)
  /\ \E b \in {Now(event, book)} :
       /\ b[p].rsvp = "none" => Seated(Seats(b, 0))
       /\ book' = IF b[p].rsvp = "none" THEN Holds(b, p) ELSE b
  /\ registering' = registering \cup {p}
  /\ UNCHANGED <<event, eligible>>

\* The e-mail is sent under the lock and the seat confirmed with it.
\* Fault: a seat that nobody holds any more is confirmed.
ConfirmLapsed(p) ==
  /\ p \in registering
  /\ Open(event, 0)
  /\ book' = Now(event, Going(book, p))
  /\ registering' \in {registering, registering \ {p}}
  /\ UNCHANGED <<event, eligible>>
Confirm(p) ==
  /\ p \in registering
  /\ Open(event, 0)
  /\ book[p].rsvp = "going" \/ Pending(book[p], 0)
  /\ book' = Now(event, Going(book, p))
  /\ registering' \in {registering, registering \ {p}}
  /\ UNCHANGED <<event, eligible>>

\* The e-mail is refused, the seat is lost, or the request dies.
GiveUp(p) ==
  /\ p \in registering
  /\ registering' = registering \ {p}
  /\ UNCHANGED <<event, book, eligible>>

-----------------------------------------------------------------------------
(* The waitlist.                                                            *)

Join(p) ==
  /\ Open(event, 0)
  /\ event.waitlist
  /\ p \in eligible
  /\ \E b \in {Now(event, book)} :
       /\ b[p].rsvp # "going"
       /\ book' = Now(event, IF b[p].status \in Waiting \cup {"accepted"} THEN b
                             ELSE Rejoined(b, p))
  /\ UNCHANGED <<event, eligible, registering>>

Leave(p) ==
  /\ book' = Now(event, Leaves(book, p))
  /\ UNCHANGED <<event, eligible, registering>>

Decline(p) ==
  /\ Open(event, 0)
  /\ book' = Now(event, IF book[p].status = "invited" THEN Leaves(book, p) ELSE book)
  /\ UNCHANGED <<event, eligible, registering>>

\* A new acceptance of a guest changes the identity of his registration.
Superseded(p) == registering' = registering \ {p}

Accept(p) ==
  /\ Open(event, 0)
  /\ p \in eligible
  /\ \E b \in {Now(event, book)} :
       /\ Offered(b[p], 0)
       /\ book' = Now(event, Going(b, p))
  /\ Superseded(p)
  /\ UNCHANGED <<event, eligible>>

\* A guest registers through his private link: a seat he has been offered or
\* holds already is his.
RegisterByLink(p) ==
  /\ Open(event, 0)
  /\ p \in eligible
  /\ \E b \in {Now(event, book)} :
       LET own == IF Pending(b[p], 0) THEN 1 ELSE 0
       IN  /\ b[p].rsvp # "going"
           /\ b[p].status = "invited" \/ Seated(Seats(b, 0) - own)
           /\ book' = Now(event, Going(b, p))
  /\ Superseded(p)
  /\ UNCHANGED <<event, eligible>>

CancelByLink(p) ==
  /\ book' = Now(event, Leaves(Cancels(book, p), p))
  /\ UNCHANGED <<event, eligible, registering>>

Reminding(r, on) == [r EXCEPT !.remind = on]
Remind(p, on) ==
  /\ on => book[p].rsvp = "going" /\ Open(event, 0)
  /\ book' = [book EXCEPT ![p] = Reminding(@, on)]
  /\ UNCHANGED <<event, eligible, registering>>

-----------------------------------------------------------------------------
(* The organizer, the reviewers, the scheduled pass and the clock.          *)

Edit(cap, start) ==
  /\ event.state = "pending" /\ event.startIn > 0
  /\ event' = [event EXCEPT !.capacity = cap, !.startIn = start]
  /\ UNCHANGED <<book, eligible, registering>>

Review(decision) ==
  /\ event.state = "pending" /\ event.startIn > 0
  /\ event' = [event EXCEPT !.state = decision]
  /\ UNCHANGED <<book, eligible, registering>>

Unreminded(b) == [p \in People |-> Reminding(b[p], FALSE)]
CancelEvent ==
  /\ event.state \in {"pending", "published"}
  /\ event' = [event EXCEPT !.state = "cancelled"]
  /\ book' = Unreminded(Now(event', book))
  /\ UNCHANGED <<eligible, registering>>

SetPolicy(on) ==
  /\ Open(event, 0)
  /\ event' = [event EXCEPT !.waitlist = on]
  /\ book' = Now(event', book)
  /\ UNCHANGED <<eligible, registering>>

\* Offers end with the start at the latest, also with an earlier one.
Shortened(b, start) ==
  [p \in People |->
     IF b[p].status = "invited" THEN Invited(b[p], Lesser(b[p].left, start))
     ELSE b[p]]
Schedule(cap, start) ==
  /\ Open(event, 0)
  /\ <<cap, start>> # <<event.capacity, event.startIn>>
  /\ cap >= Confirmed(book)
  /\ event' = [event EXCEPT !.capacity = cap, !.startIn = start]
  /\ book' = Now(event', Shortened(book, start))
  /\ UNCHANGED <<eligible, registering>>

\* Fault: only an event with an offer to expire is visited.
VisitOffers == \E p \in People : book[p].status = "invited"
\* Fault: only an event with somebody in its queue is visited.
VisitQueues == \E p \in People : book[p].status = "queued"

\* The pass visits the events with somebody waiting.
Visited == \E p \in People : book[p].status \in Waiting
Sweep(late) ==
  /\ Visited
  /\ book' = Reconcile(event, book, late)
  /\ UNCHANGED <<event, eligible, registering>>

\* Accounts, guild memberships, share codes and verifications come and go.
Requalify(p) ==
  /\ eligible' = IF p \in eligible THEN eligible \ {p} ELSE eligible \cup {p}
  /\ UNCHANGED <<event, book, registering>>

Sooner(n) == IF n > -MaxLate THEN n - 1 ELSE n
Older(r) ==
  [r EXCEPT !.hold = IF r.rsvp = "pending" THEN Sooner(@) ELSE @,
            !.left = IF r.status = "invited" THEN Sooner(@) ELSE @]
Tick ==
  /\ event' = [event EXCEPT !.startIn = Sooner(@)]
  /\ book' = [p \in People |-> Older(book[p])]
  /\ UNCHANGED <<eligible, registering>>

-----------------------------------------------------------------------------
MemberActs(p) == Attend(p) \/ Withdraw(p)
GuestActs(p) == \/ Register(p) \/ Confirm(p) \/ GiveUp(p)
                \/ RegisterByLink(p) \/ CancelByLink(p)
PersonActs(p) == \/ Join(p) \/ Leave(p) \/ Decline(p) \/ Accept(p)
                 \/ \E on \in BOOLEAN : Remind(p, on)
OrganizerActs ==
  \/ CancelEvent
  \/ \E on \in BOOLEAN : SetPolicy(on)
  \/ \E cap \in Capacities, start \in Starts : Edit(cap, start) \/ Schedule(cap, start)
  \/ \E decision \in {"published", "rejected"} : Review(decision)
SystemActs == Tick \/ \E late \in 0..MaxLate : Sweep(late)

Next ==
  \/ SystemActs
  \/ OrganizerActs
  \/ \E p \in Members : MemberActs(p)
  \/ \E p \in Guests : GuestActs(p)
  \/ \E p \in People : PersonActs(p) \/ Requalify(p)

Spec == Init /\ [][Next]_vars

\* A punctual pass would change something: ENABLED <<Sweep(0)>>_vars written out.
PassDue == Visited /\ Now(event, book) # book

\* The clock moves, and the job that runs every ten minutes comes back to
\* every event with somebody waiting: its passes take the events in turn, which
\* is WF_vars(Sweep(0)).
FairSpec == Spec /\ WF_vars(Tick) /\ ([]<>~PassDue \/ []<><<Sweep(0)>>_vars)

-----------------------------------------------------------------------------
(* Properties.                                                              *)

\* The queue is a strict order of those who wait.
InOrder(b) ==
  /\ \A p \in People : p \notin b[p].ahead
  /\ \A p \in People : b[p].status \notin Waiting => b[p].ahead = {}
  /\ \A p, q \in People : q \in b[p].ahead => b[q].ahead \subseteq b[p].ahead
  /\ \A p, q \in People :
       b[p].status \in Waiting /\ b[q].status \in Waiting
       => p = q \/ p \in b[q].ahead \/ q \in b[p].ahead
WaitingAhead(b) ==
  \A p \in People : \A q \in b[p].ahead : b[q].status \in Waiting

\* The queue is served in its order: nobody waits for an offer behind
\* whose back somebody who joined later holds one.
InvitedAreFirst ==
  \A p, q \in People :
    (/\ p \in book[q].ahead
     /\ book[p].status = "queued")
    => book[q].status # "invited"

\* An accepted entry belongs to somebody who goes; left behind by a
\* withdrawal it would keep its owner out of the queue for good.
AcceptedMeansGoing ==
  \A p \in People : book[p].status = "accepted" => book[p].rsvp = "going"

\* A reminder is enabled only for somebody who goes to a published event,
\* whichever way he, or the event, was cancelled.
ReminderMeansGoing ==
  \A p \in People :
    book[p].remind => book[p].rsvp = "going" /\ event.state = "published"

\* Whoever stops going leaves neither an accepted entry nor a reminder behind,
\* through whichever commands he came and went.
NothingLeftBehind == AcceptedMeansGoing /\ ReminderMeansGoing

\* The inductive invariant: the types, the order of the queue, and the
\* three properties above.
IInv ==
  /\ TypeOK
  /\ InOrder(book) /\ WaitingAhead(book)
  /\ InvitedAreFirst /\ AcceptedMeansGoing /\ ReminderMeansGoing

\* No registration, offer, acceptance or late pass of the clock makes the
\* occupancy grow beyond the capacity.
GrowsWithinCapacity ==
  [][Seats(book', 0) > Seats(book, 0) => Seats(book', 0) <= event'.capacity]_vars

\* A free seat does not stay free while somebody queues for it.
SeatIsFree == Seats(book, 0) < event.capacity
SomebodyQueues == \E p \in People : book[p].status = "queued"
SeatOffered == SeatIsFree /\ SomebodyQueues ~> ~SeatIsFree \/ ~SomebodyQueues

\* An offer whose time is over does not stay with somebody who is silent.
Overdue == {p \in People : book[p].status = "invited" /\ book[p].left <= 0}
OffersEnd == Overdue # {} ~> Overdue = {}

\* As the member API documents, the capacity is never below the confirmed
\* and the pending registrations.
NeverOverbooked ==
  event.state = "published" => Confirmed(book) <= event.capacity

=============================================================================
