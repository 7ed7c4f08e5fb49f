--------------------------- MODULE EventReminders ---------------------------
(***************************************************************************)
(* The reminders of one guild event (src/modules/community/                 *)
(* event-reminders.ts): what people choose, what a new start or a           *)
(* cancellation does to it, and the dispatch by passes of the scheduled     *)
(* job, which may overlap and may die at any step.                          *)
(*                                                                         *)
(* A pass reads a batch of candidates, then takes each through one or two   *)
(* transactions under the lock of the event: the first leaves a notice in   *)
(* the application or reserves an attempt, the second sends the e-mail.     *)
(* The identity of an attempt is its reminder, start, lead and channel.     *)
(*                                                                         *)
(* The version of the event is left out: with an unchanged start its        *)
(* reconciliation writes what is there already.  A reminder never chosen    *)
(* and one that is disabled are both Off: the code does not read what a     *)
(* disabled one said.  EventParticipation has who goes and why; here  *)
(* one may also stop to be seen as going, by the loss of an account, of a   *)
(* membership or of a verified address, without a withdrawal.  A            *)
(* transaction reads the clock more than once: it is one instant here, but  *)
(* for the insertion of an attempt, which may wait for another pass.        *)
(*                                                                         *)
(* A definition marked Fault is never used by the model: it is a mistake    *)
(* the next definition could have made, kept to show that a property        *)
(* notices it.                                                             *)
(***************************************************************************)
EXTENDS Integers, FiniteSets

CONSTANTS
  Members,     \* members of the community
  Guests,      \* public guests
  Runners,     \* passes of the job that may overlap
  Starts,      \* instants the event may be set to start at
  Leads,       \* how long before the start one may be reminded
  Channels,    \* the channels a person may choose from
  Limit,       \* the candidates of a pass
  Horizon,     \* Bound: the clock stops here
  MaxCrashes   \* Bound: of the deaths of a pass

People == Members \cup Guests

ASSUME PeopleAssumption == IsFiniteSet(People) /\ Members \cap Guests = {}
ASSUME ChannelAssumption ==
  /\ Channels \in [People -> SUBSET {"in_app", "email"}]
  /\ \A p \in Guests : Channels[p] \subseteq {"email"}
ASSUME TimeAssumption ==
  /\ Starts \subseteq Nat \ {0} /\ Leads \subseteq Nat \ {0}
  /\ Limit \in Nat \ {0} /\ Horizon \in Nat /\ MaxCrashes \in Nat

VARIABLES
  event,      \* published or not, and its start
  now,
  going,      \* who is seen as going, with an address if he needs one
  prefs,      \* of members: notices of events on, off, or in quiet hours
  reminder,   \* the rows of community_event_reminders
  attempt,    \* the rows of community_event_reminder_attempts
  pass,       \* of every runner: the candidates left and the attempt claimed
  handed,     \* History: how often an attempt reached the sender or the inbox
  taken,      \* History: the e-mails the sender said it took
  crashes

choices == <<event, going, prefs>>
outside == <<handed, taken>>
vars == <<event, now, going, prefs, reminder, attempt, pass, handed, taken, crashes>>

Keys == [start : Starts, lead : Leads, channel : {"in_app", "email"}]
Outcomes == {"failed", "provider_accepted", "recorded"}
Off == [status |-> "cancelled"]
Row == [status : Outcomes \cup {"pending"}, key : Keys] \cup {Off}
NoClaim == [owner |-> "nobody"]
Claims == [owner : People, key : Keys]

TypeOK ==
  /\ event \in [published : BOOLEAN, start : Starts]
  /\ now \in Nat
  /\ going \subseteq People
  /\ prefs \in [Members -> {"on", "off", "quiet"}]
  /\ reminder \in [People -> Row]
  /\ attempt \in [People -> [Keys -> Outcomes \cup {"none"}]]
  /\ pass \in [Runners -> [todo : SUBSET People, claim : Claims \cup {NoClaim}]]
  /\ handed \in [People -> [Keys -> Nat]]
  /\ taken \subseteq People \X Keys
  /\ crashes \in Nat

Resting == [todo |-> {}, claim |-> NoClaim]
Init ==
  /\ event \in [published : {TRUE}, start : Starts]
  /\ now = 0
  /\ going = {}
  /\ prefs = [p \in Members |-> "on"]
  /\ reminder = [p \in People |-> Off]
  /\ attempt = [p \in People |-> [k \in Keys |-> "none"]]
  /\ pass = [r \in Runners |-> Resting]
  /\ handed = [p \in People |-> [k \in Keys |-> 0]]
  /\ taken = {}
  /\ crashes = 0

-----------------------------------------------------------------------------
(* Rows.                                                                    *)

Open(ev) == ev.published /\ now < ev.start

\* A reminder that was attempted already starts with the outcome.
Told(p, k) == IF attempt[p][k] = "none" THEN "pending" ELSE attempt[p][k]

Set(p, k) == [status |-> Told(p, k), key |-> k]
Moved(p, s) ==
  IF reminder[p] = Off THEN Off ELSE Set(p, [reminder[p].key EXCEPT !.start = s])

AllStopped == [p \in People |-> Off]
Reconciled(ev) ==
  IF Open(ev) THEN [p \in People |-> Moved(p, ev.start)] ELSE AllStopped

DueAt(r) == r.key.start - r.key.lead
Waits(r) == r.status = "pending"
Due == {p \in People : Waits(reminder[p]) /\ DueAt(reminder[p]) <= now}

-----------------------------------------------------------------------------
(* People, the organizer and the clock.                                     *)

Save(p, lead, channel) ==
  /\ Open(event)
  /\ p \in going
  /\ channel \in Channels[p]
  /\ reminder' = [reminder EXCEPT
       ![p] = Set(p, [start |-> event.start, lead |-> lead, channel |-> channel])]
  /\ UNCHANGED <<choices, outside, now, attempt, pass, crashes>>

Disable(p) ==
  /\ reminder' = [reminder EXCEPT ![p] = Off]
  /\ UNCHANGED <<choices, outside, now, attempt, pass, crashes>>

Withdraw(p) ==
  /\ going' = going \ {p}
  /\ reminder' = [reminder EXCEPT ![p] = Off]
  /\ UNCHANGED <<event, prefs, outside, now, attempt, pass, crashes>>

\* He takes part, or is no longer, or again, seen as taking part.
Requalify(p) ==
  /\ going' = IF p \in going THEN going \ {p} ELSE going \cup {p}
  /\ UNCHANGED <<event, prefs, outside, now, reminder, attempt, pass, crashes>>

Prefer(p, mode) ==
  /\ prefs' = [prefs EXCEPT ![p] = mode]
  /\ UNCHANGED <<event, going, outside, now, reminder, attempt, pass, crashes>>

Reschedule(s) ==
  /\ Open(event)
  /\ now < s
  /\ event' = [event EXCEPT !.start = s]
  /\ reminder' = Reconciled(event')
  /\ UNCHANGED <<going, prefs, outside, now, attempt, pass, crashes>>

CancelEvent ==
  /\ event.published
  /\ event' = [event EXCEPT !.published = FALSE]
  /\ reminder' = AllStopped
  /\ UNCHANGED <<going, prefs, outside, now, attempt, pass, crashes>>

Tick ==
  /\ now < Horizon
  /\ now' = now + 1
  /\ UNCHANGED <<choices, outside, reminder, attempt, pass, crashes>>

-----------------------------------------------------------------------------
(* A pass.                                                                  *)

Begin(r) ==
  /\ pass[r] = Resting
  /\ \E S \in SUBSET Due :
       /\ S # {}
       /\ Cardinality(S) = Limit \/ (S = Due /\ Cardinality(S) <= Limit)
       /\ \A p \in S, q \in Due \ S : DueAt(reminder[p]) <= DueAt(reminder[q])
       /\ pass' = [pass EXCEPT ![r].todo = S]
  /\ UNCHANGED <<choices, outside, now, reminder, attempt, crashes>>

\* The first transaction of a candidate, with the reminders reconciled.
TakesUp(r, p) == pass' = [pass EXCEPT ![r].todo = @ \ {p}]
Ready(p, rows) == Waits(reminder[p]) /\ Waits(rows[p]) /\ DueAt(rows[p]) <= now
InApp(p, rows) == rows[p].key.channel = "in_app"
Silenced(p, rows) == p \notin going \/ (InApp(p, rows) /\ prefs[p] = "off")
Quiet(p, rows) == InApp(p, rows) /\ prefs[p] = "quiet"
Known(p, rows) == attempt[p][rows[p].key] # "none"

\* Fault: somebody in quiet hours is put off before the event is looked at.
PassOverQuietFirst(r, p) ==
  /\ pass[r].claim = NoClaim /\ p \in pass[r].todo
  /\ \E rows \in {Reconciled(event)} :
       IF Waits(reminder[p]) /\ Quiet(p, reminder) THEN reminder' = reminder
       ELSE /\ ~Ready(p, rows)
            /\ reminder' = IF Waits(reminder[p]) THEN rows ELSE reminder
  /\ TakesUp(r, p)
  /\ UNCHANGED <<choices, outside, now, attempt, crashes>>
\* Disabled, answered or put off meanwhile, or the event is over.
PassOver(r, p) ==
  /\ pass[r].claim = NoClaim /\ p \in pass[r].todo
  /\ ~Ready(p, Reconciled(event))
  /\ reminder' = IF Waits(reminder[p]) THEN Reconciled(event) ELSE reminder
  /\ TakesUp(r, p)
  /\ UNCHANGED <<choices, outside, now, attempt, crashes>>

Drop(r, p) ==
  /\ pass[r].claim = NoClaim /\ p \in pass[r].todo
  /\ \E rows \in {Reconciled(event)} :
       /\ Ready(p, rows)
       /\ Silenced(p, rows)
       /\ reminder' = [rows EXCEPT ![p] = Off]
  /\ TakesUp(r, p)
  /\ UNCHANGED <<choices, outside, now, attempt, crashes>>

\* It waits for the end of the quiet hours, or was attempted before.
PutOff(r, p) ==
  /\ pass[r].claim = NoClaim /\ p \in pass[r].todo
  /\ \E rows \in {Reconciled(event)} :
       /\ Ready(p, rows) /\ ~Silenced(p, rows)
       /\ Quiet(p, rows) \/ Known(p, rows)
       /\ reminder' = [rows EXCEPT ![p].status = Told(p, rows[p].key)]
  /\ TakesUp(r, p)
  /\ UNCHANGED <<choices, outside, now, attempt, crashes>>

Dispatched(p, rows) ==
  /\ Ready(p, rows) /\ ~Silenced(p, rows) /\ ~Quiet(p, rows) /\ ~Known(p, rows)

Post(r, p) ==
  /\ pass[r].claim = NoClaim /\ p \in pass[r].todo
  /\ \E rows \in {Reconciled(event)} :
       /\ Dispatched(p, rows) /\ InApp(p, rows)
       /\ reminder' = [rows EXCEPT ![p].status = "recorded"]
       /\ attempt' = [attempt EXCEPT ![p][rows[p].key] = "recorded"]
       /\ handed' = [handed EXCEPT ![p][rows[p].key] = @ + 1]
  /\ TakesUp(r, p)
  /\ UNCHANGED <<choices, taken, now, crashes>>

\* Fault: the attempt is left to the row of the reminder.
ReserveInRow(r, p) ==
  /\ pass[r].claim = NoClaim /\ p \in pass[r].todo
  /\ \E rows \in {Reconciled(event)} :
       /\ Dispatched(p, rows) /\ ~InApp(p, rows)
       /\ reminder' = [rows EXCEPT ![p].status = "failed"]
       /\ pass' = [pass EXCEPT ![r] = [todo  |-> @.todo \ {p},
                                       claim |-> [owner |-> p, key |-> rows[p].key]]]
  /\ UNCHANGED <<choices, outside, now, attempt, crashes>>
\* Fault: the attempt is reserved as a success, to be corrected later.
ReserveAsAccepted(r, p) ==
  /\ pass[r].claim = NoClaim /\ p \in pass[r].todo
  /\ \E rows \in {Reconciled(event)} :
       /\ Dispatched(p, rows) /\ ~InApp(p, rows)
       /\ reminder' = [rows EXCEPT ![p].status = "provider_accepted"]
       /\ attempt' = [attempt EXCEPT ![p][rows[p].key] = "provider_accepted"]
       /\ pass' = [pass EXCEPT ![r] = [todo  |-> @.todo \ {p},
                                       claim |-> [owner |-> p, key |-> rows[p].key]]]
  /\ UNCHANGED <<choices, outside, now, crashes>>
Reserve(r, p) ==
  /\ pass[r].claim = NoClaim /\ p \in pass[r].todo
  /\ \E rows \in {Reconciled(event)} :
       /\ Dispatched(p, rows) /\ ~InApp(p, rows)
       /\ reminder' = [rows EXCEPT ![p].status = "failed"]
       /\ attempt' = [attempt EXCEPT ![p][rows[p].key] = "failed"]
       /\ pass' = [pass EXCEPT ![r] = [todo  |-> @.todo \ {p},
                                       claim |-> [owner |-> p, key |-> rows[p].key]]]
  /\ UNCHANGED <<choices, outside, now, crashes>>

\* The insertion of the attempt waits until the event has started.
ReserveTooLate(r, p) ==
  /\ pass[r].claim = NoClaim /\ p \in pass[r].todo
  /\ \E rows \in {Reconciled(event)} :
       /\ Dispatched(p, rows)
       /\ attempt' = [attempt EXCEPT ![p][rows[p].key] = "failed"]
  /\ reminder' = AllStopped
  /\ now' = event.start
  /\ TakesUp(r, p)
  /\ UNCHANGED <<choices, outside, crashes>>

\* The second transaction.
Claimed(r) == pass[r].claim # NoClaim
Release(r) == pass' = [pass EXCEPT ![r].claim = NoClaim]
Current(c, rows) == rows[c.owner] # Off /\ rows[c.owner].key = c.key

\* The reminder was disabled or changed, the event moved or is over.
Fence(r) ==
  /\ Claimed(r)
  /\ ~Current(pass[r].claim, Reconciled(event))
  /\ reminder' = Reconciled(event)
  /\ Release(r)
  /\ UNCHANGED <<choices, outside, now, attempt, crashes>>

Forget(r) ==
  /\ Claimed(r)
  /\ \E c \in {pass[r].claim}, rows \in {Reconciled(event)} :
       /\ Current(c, rows)
       /\ c.owner \notin going
       /\ reminder' = [rows EXCEPT ![c.owner] = Off]
  /\ Release(r)
  /\ UNCHANGED <<choices, outside, now, attempt, crashes>>

\* Fault: the claim is sent as it was made.
SendClaimed(c, rows) == c.owner \in going /\ Open(event)
Sendable(c, rows) == Current(c, rows) /\ c.owner \in going

\* The sender took the message and said so.
SendAccepted(r) ==
  /\ Claimed(r)
  /\ \E c \in {pass[r].claim}, rows \in {Reconciled(event)} :
       /\ Sendable(c, rows)
       /\ reminder' = [rows EXCEPT ![c.owner].status = "provider_accepted"]
       /\ attempt' = [attempt EXCEPT ![c.owner][c.key] = "provider_accepted"]
       /\ handed' = [handed EXCEPT ![c.owner][c.key] = @ + 1]
       /\ taken' = taken \cup {<<c.owner, c.key>>}
  /\ Release(r)
  /\ UNCHANGED <<choices, now, crashes>>

\* An error comes back, whatever the sender has done.
SendFailed(r) ==
  /\ Claimed(r)
  /\ \E c \in {pass[r].claim}, rows \in {Reconciled(event)} :
       /\ Sendable(c, rows)
       /\ reminder' = [rows EXCEPT ![c.owner].status = "failed"]
       /\ attempt' = [attempt EXCEPT ![c.owner][c.key] = "failed"]
       /\ handed' = [handed EXCEPT ![c.owner][c.key] = @ + 1]
  /\ Release(r)
  /\ UNCHANGED <<choices, taken, now, crashes>>

\* The pass dies, or its transaction fails, after the message was handed over.
SendLost(r) ==
  /\ crashes < MaxCrashes
  /\ Claimed(r)
  /\ \E c \in {pass[r].claim} :
       /\ Sendable(c, Reconciled(event))
       /\ handed' = [handed EXCEPT ![c.owner][c.key] = @ + 1]
  /\ pass' = [pass EXCEPT ![r] = Resting]
  /\ crashes' = crashes + 1
  /\ UNCHANGED <<choices, taken, now, reminder, attempt>>

Crash(r) ==
  /\ crashes < MaxCrashes
  /\ pass[r] # Resting
  /\ pass' = [pass EXCEPT ![r] = Resting]
  /\ crashes' = crashes + 1
  /\ UNCHANGED <<choices, outside, now, reminder, attempt>>

-----------------------------------------------------------------------------
Consider(r, p) ==
  \/ PassOver(r, p) \/ Drop(r, p) \/ PutOff(r, p)
  \/ Post(r, p) \/ Reserve(r, p) \/ ReserveTooLate(r, p)
Finish(r) == Fence(r) \/ Forget(r) \/ SendAccepted(r) \/ SendFailed(r)
Work(r) == (\E p \in People : Consider(r, p)) \/ Finish(r)

PersonActs(p) ==
  \/ Disable(p) \/ Withdraw(p) \/ Requalify(p)
  \/ \E lead \in Leads, channel \in {"in_app", "email"} : Save(p, lead, channel)
Next ==
  \/ Tick \/ CancelEvent
  \/ \E s \in Starts : Reschedule(s)
  \/ \E p \in People : PersonActs(p)
  \/ \E p \in Members, mode \in {"on", "off", "quiet"} : Prefer(p, mode)
  \/ \E r \in Runners : Begin(r) \/ Work(r) \/ SendLost(r) \/ Crash(r)

Spec == Init /\ [][Next]_vars

\* The clock moves and the job comes back; a pass that does not die goes on.
FairSpec ==
  Spec /\ WF_vars(Tick)
       /\ \A r \in Runners : WF_vars(Begin(r)) /\ WF_vars(Work(r))

-----------------------------------------------------------------------------
(* Properties.                                                              *)

\* No reminder of one start, lead and channel is handed over twice: not by
\* two passes, not after a crash or an error, not after it was disabled and
\* chosen again, nor after the event was moved and moved back.
HandedOnce == \A p \in People, k \in Keys : handed[p][k] <= 1

\* An attempt that says provider_accepted tells of an e-mail the sender said
\* it took, and the row of a reminder tells what its attempt says.
AcceptedMeansTaken ==
  \A p \in People, k \in Keys :
    attempt[p][k] = "provider_accepted" => <<p, k>> \in taken
RowsTell ==
  \A p \in People :
    reminder[p] # Off =>
      /\ reminder[p].status = Told(p, reminder[p].key)
      /\ event.published /\ reminder[p].key.start = event.start

\* What nobody attempted was not handed over; an attempt that a pass has
\* claimed is the business of that pass alone, and still to be sent.
UntriedUnsent ==
  \A p \in People, k \in Keys : attempt[p][k] = "none" => handed[p][k] = 0
ClaimsDiffer ==
  \A r, s \in Runners : Claimed(r) /\ pass[r].claim = pass[s].claim => r = s
ClaimsUnsent ==
  \A r \in Runners : Claimed(r) =>
    LET c == pass[r].claim
    IN  attempt[c.owner][c.key] = "failed" /\ handed[c.owner][c.key] = 0

\* The inductive invariant: HandedOnce with what it rests on, and that what
\* a reminder says is true.
IInv ==
  /\ TypeOK
  /\ HandedOnce /\ UntriedUnsent /\ ClaimsDiffer /\ ClaimsUnsent
  /\ RowsTell /\ AcceptedMeansTaken

\* What is handed over is what its owner has chosen at that moment, for the
\* start the event has now, and he goes to it: a withdrawal, another choice
\* or another start between the two transactions stops the old message.
HandedIsCurrent ==
  [][\A p \in People, k \in Keys :
       handed'[p][k] > handed[p][k]
       => /\ p \in going /\ Open(event)
          /\ reminder[p] # Off /\ reminder[p].key = k
          /\ k.start = event.start]_vars

\* No reminder that is due waits for ever, with a limited batch, people in
\* quiet hours at its head and passes that die.
PendingEnds == Due # {} ~> Due = {}

=============================================================================
