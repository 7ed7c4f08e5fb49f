------------------------ MODULE EventRemindersProofs ------------------------
(***************************************************************************)
(* What EventReminders guarantees for any people, passes, starts, leads,    *)
(* channels, batches and deaths of passes.                                  *)
(***************************************************************************)
EXTENDS EventReminders, TLAPS

Events == [published : BOOLEAN, start : Starts]
Passes == [todo : SUBSET People, claim : Claims \cup {NoClaim}]
Prefs == [Members -> {"on", "off", "quiet"}]

\* The rows say what the attempts say, for the event as it is.
Tells(rows, ev) ==
  /\ rows \in [People -> Row]
  /\ \A p \in People :
       rows[p] # Off =>
         /\ rows[p].status = Told(p, rows[p].key)
         /\ ev.published /\ rows[p].key.start = ev.start

-----------------------------------------------------------------------------
(* Rows.                                                                    *)

LEMMA RowFacts ==
  /\ Off \in Row /\ Off.status = "cancelled"
  /\ \A r \in Row : r = Off \/ (r.key \in Keys /\ r.status \in Outcomes \cup {"pending"})
  BY DEF Row, Off, Outcomes

LEMMA StatusRow ==
  ASSUME NEW r \in Row, r # Off, NEW o \in Outcomes \cup {"pending"}
  PROVE  LET s == [r EXCEPT !.status = o]
         IN  s \in Row /\ s.key = r.key /\ s.status = o
  <1>1. r \in [status : Outcomes \cup {"pending"}, key : Keys] BY DEF Row
  <1> QED BY <1>1 DEF Row

LEMMA MadeRow ==
  ASSUME NEW o \in Outcomes \cup {"pending"}, NEW k \in Keys,
         NEW s, s = [status |-> o, key |-> k]
  PROVE  s \in Row /\ s.key = k /\ s.status = o
  BY DEF Row

LEMMA ToldType ==
  ASSUME TypeOK, NEW p \in People, NEW k \in Keys
  PROVE  Told(p, k) \in Outcomes \cup {"pending"}
  BY DEF TypeOK, Told

LEMMA SetRow ==
  ASSUME TypeOK, NEW p \in People, NEW k \in Keys
  PROVE  Set(p, k) \in Row /\ Set(p, k).key = k /\ Set(p, k).status = Told(p, k)
  <1> DEFINE o == Told(p, k)
             s == Set(p, k)
  <1>1. o \in Outcomes \cup {"pending"} BY ToldType
  <1>2. s = [status |-> o, key |-> k] BY DEF Set
  <1> HIDE DEF o, s
  <1>3. s \in Row /\ s.key = k /\ s.status = o BY <1>1, <1>2, MadeRow
  <1> QED BY <1>3 DEF o, s

\* A reconciliation moves what is enabled to the start of an event that is
\* open, and stops everything otherwise.
LEMMA ReconciledRows ==
  ASSUME TypeOK, NEW ev \in Events, NEW rows, rows = Reconciled(ev)
  PROVE  /\ Tells(rows, ev)
         /\ \A p \in People :
              rows[p] # Off =>
                /\ Open(ev) /\ reminder[p] # Off
                /\ rows[p].key = [reminder[p].key EXCEPT !.start = ev.start]
  <1>1. CASE Open(ev)
    <2>1. rows = [p \in People |-> Moved(p, ev.start)] BY <1>1 DEF Reconciled
    <2>2. ASSUME NEW p \in People
          PROVE  /\ rows[p] \in Row
                 /\ rows[p] # Off =>
                      /\ reminder[p] # Off
                      /\ rows[p].key = [reminder[p].key EXCEPT !.start = ev.start]
                      /\ rows[p].key.start = ev.start
                      /\ rows[p].status = Told(p, rows[p].key)
      <3>1. rows[p] = Moved(p, ev.start) BY <2>1
      <3>2. CASE reminder[p] = Off BY <3>1, <3>2, RowFacts DEF Moved
      <3>3. CASE reminder[p] # Off
        <4> DEFINE k == [reminder[p].key EXCEPT !.start = ev.start]
        <4>1. reminder[p].key \in Keys BY <3>3, RowFacts DEF TypeOK
        <4>2. k \in Keys /\ k.start = ev.start BY <4>1 DEF Keys, Events
        <4>3. rows[p] = Set(p, k) BY <3>1, <3>3 DEF Moved
        <4> HIDE DEF k
        <4>4. rows[p] \in Row /\ rows[p].key = k /\ rows[p].status = Told(p, k)
          BY <4>2, <4>3, SetRow
        <4>5. /\ rows[p].key = [reminder[p].key EXCEPT !.start = ev.start]
              /\ rows[p].key.start = ev.start
          BY <4>2, <4>4 DEF k
        <4> QED BY <3>3, <4>4, <4>5
      <3> QED BY <3>2, <3>3
    <2>3. rows \in [People -> Row]
      <3>1. rows = [p \in People |-> rows[p]] BY <2>1
      <3> QED BY <2>2, <3>1
    <2> QED BY <1>1, <2>2, <2>3 DEF Tells, Open
  <1>2. CASE ~Open(ev)
    <2>1. rows = [p \in People |-> Off] BY <1>2 DEF Reconciled, AllStopped
    <2> QED BY <2>1, RowFacts DEF Tells
  <1> QED BY <1>1, <1>2

LEMMA StoppedRows ==
  ASSUME NEW ev
  PROVE  Tells(AllStopped, ev)
  BY RowFacts DEF Tells, AllStopped

LEMMA StopOne ==
  ASSUME NEW rows, NEW ev, Tells(rows, ev), NEW p \in People
  PROVE  Tells([rows EXCEPT ![p] = Off], ev)
  BY RowFacts DEF Tells

\* A candidate that is ready is enabled.
LEMMA ReadyRow ==
  ASSUME NEW rows, NEW ev, Tells(rows, ev), NEW p \in People, Ready(p, rows)
  PROVE  rows[p] # Off /\ rows[p] \in Row /\ rows[p].key \in Keys
  BY RowFacts DEF Tells, Ready, Waits

LEMMA HasRows ==
  ASSUME IInv
  PROVE  /\ event \in Events /\ Tells(reminder, event)
         /\ Tells(Reconciled(event), event)
  <1>1. event \in Events /\ Tells(reminder, event)
    BY DEF IInv, TypeOK, RowsTell, Tells, Events
  <1> DEFINE rows == Reconciled(event)
  <1>2. TypeOK /\ rows = Reconciled(event) BY DEF IInv
  <1> HIDE DEF rows
  <1>3. Tells(rows, event) BY <1>1, <1>2, ReconciledRows
  <1> QED BY <1>1, <1>2, <1>3

-----------------------------------------------------------------------------
(* Steps that attempt nothing.                                              *)

Calm ==
  /\ event' \in Events /\ now' \in Nat /\ going' \subseteq People /\ prefs' \in Prefs
  /\ Tells(reminder', event')
  /\ attempt' = attempt /\ handed' = handed /\ taken' = taken
  /\ crashes' \in Nat
  /\ pass' \in [Runners -> Passes]
  /\ \A r \in Runners : pass'[r].claim \in {pass[r].claim, NoClaim}

LEMMA CalmHolds ==
  ASSUME IInv, Calm
  PROVE  IInv'
  <1>1. TypeOK' BY DEF IInv, TypeOK, Calm, Events, Passes, Prefs, Tells
  <1>2. HandedOnce' /\ UntriedUnsent' /\ AcceptedMeansTaken'
    BY DEF IInv, HandedOnce, UntriedUnsent, AcceptedMeansTaken, Calm
  <1>3. ClaimsDiffer' BY DEF IInv, ClaimsDiffer, Calm, Claimed
  <1>4. ClaimsUnsent' BY DEF IInv, ClaimsUnsent, Calm, Claimed
  <1>5. RowsTell' BY DEF RowsTell, Calm, Tells, Told
  <1> QED BY <1>1, <1>2, <1>3, <1>4, <1>5 DEF IInv

LEMMA PassTypes ==
  ASSUME IInv, NEW r \in Runners
  PROVE  /\ pass \in [Runners -> Passes] /\ pass[r] \in Passes
         /\ pass[r].todo \subseteq People /\ pass[r].claim \in Claims \cup {NoClaim}
  <1>1. pass \in [Runners -> Passes] BY DEF IInv, TypeOK, Passes
  <1> QED BY <1>1 DEF Passes

\* What a pass does to itself: it takes a candidate up, releases its claim,
\* begins or rests.
LEMMA PassMoves ==
  ASSUME IInv, NEW r \in Runners
  PROVE  /\ \A p \in People : TakesUp(r, p) =>
              /\ pass' \in [Runners -> Passes]
              /\ \A s \in Runners : pass'[s].claim = pass[s].claim
         /\ Release(r) =>
              /\ pass' \in [Runners -> Passes]
              /\ pass'[r].claim = NoClaim
              /\ \A s \in Runners \ {r} : pass'[s].claim = pass[s].claim
         /\ pass' = [pass EXCEPT ![r] = Resting] =>
              /\ pass' \in [Runners -> Passes]
              /\ pass'[r].claim = NoClaim
              /\ \A s \in Runners \ {r} : pass'[s].claim = pass[s].claim
         /\ \A S \in SUBSET People : pass' = [pass EXCEPT ![r].todo = S] =>
              /\ pass' \in [Runners -> Passes]
              /\ \A s \in Runners : pass'[s].claim = pass[s].claim
  <1>1. pass \in [Runners -> Passes] /\ pass[r] \in Passes BY PassTypes
  <1>2. \A S \in SUBSET People :
          LET q == [pass[r] EXCEPT !.todo = S]
          IN  q \in Passes /\ q.claim = pass[r].claim
    BY <1>1 DEF Passes
  <1>3. LET q == [pass[r] EXCEPT !.claim = NoClaim]
        IN  q \in Passes /\ q.claim = NoClaim
    BY <1>1 DEF Passes
  <1>4. Resting \in Passes /\ Resting.claim = NoClaim BY DEF Passes, Resting
  <1>5. \A S \in SUBSET People : pass' = [pass EXCEPT ![r].todo = S] =>
              /\ pass' \in [Runners -> Passes]
              /\ \A s \in Runners : pass'[s].claim = pass[s].claim
    <2> SUFFICES ASSUME NEW S \in SUBSET People, pass' = [pass EXCEPT ![r].todo = S]
                 PROVE  /\ pass' \in [Runners -> Passes]
                        /\ \A s \in Runners : pass'[s].claim = pass[s].claim
      OBVIOUS
    <2> DEFINE q == [pass[r] EXCEPT !.todo = S]
    <2>1. q \in Passes /\ q.claim = pass[r].claim BY <1>2
    <2>2. pass' = [pass EXCEPT ![r] = q] BY <1>1
    <2> HIDE DEF q
    <2> QED BY <1>1, <2>1, <2>2
  <1>6. \A p \in People : TakesUp(r, p) =>
              /\ pass' \in [Runners -> Passes]
              /\ \A s \in Runners : pass'[s].claim = pass[s].claim
    <2> SUFFICES ASSUME NEW p \in People, TakesUp(r, p)
                 PROVE  /\ pass' \in [Runners -> Passes]
                        /\ \A s \in Runners : pass'[s].claim = pass[s].claim
      OBVIOUS
    <2> DEFINE S == pass[r].todo \ {p}
    <2>1. S \in SUBSET People BY PassTypes
    <2>2. pass' = [pass EXCEPT ![r].todo = S] BY <1>1 DEF TakesUp
    <2> HIDE DEF S
    <2> QED BY <1>5, <2>1, <2>2
  <1>7. Release(r) =>
              /\ pass' \in [Runners -> Passes]
              /\ pass'[r].claim = NoClaim
              /\ \A s \in Runners \ {r} : pass'[s].claim = pass[s].claim
    <2> SUFFICES ASSUME Release(r)
                 PROVE  /\ pass' \in [Runners -> Passes]
                        /\ pass'[r].claim = NoClaim
                        /\ \A s \in Runners \ {r} : pass'[s].claim = pass[s].claim
      OBVIOUS
    <2> DEFINE q == [pass[r] EXCEPT !.claim = NoClaim]
    <2>1. q \in Passes /\ q.claim = NoClaim BY <1>3
    <2>2. pass' = [pass EXCEPT ![r] = q] BY <1>1 DEF Release
    <2> HIDE DEF q
    <2> QED BY <1>1, <2>1, <2>2
  <1>8. pass' = [pass EXCEPT ![r] = Resting] =>
              /\ pass' \in [Runners -> Passes]
              /\ pass'[r].claim = NoClaim
              /\ \A s \in Runners \ {r} : pass'[s].claim = pass[s].claim
    BY <1>1, <1>4
  <1> QED BY <1>5, <1>6, <1>7, <1>8

\* The rest of the types.
LEMMA OtherTypes ==
  ASSUME IInv
  PROVE  /\ event \in Events /\ now \in Nat /\ going \subseteq People
         /\ prefs \in Prefs /\ crashes \in Nat /\ pass \in [Runners -> Passes]
  BY DEF IInv, TypeOK, Events, Prefs, Passes

LEMMA PersonStep ==
  ASSUME IInv, NEW p \in People, PersonActs(p)
  PROVE  Calm
  <1>1. /\ event \in Events /\ now \in Nat /\ going \subseteq People
        /\ prefs \in Prefs /\ crashes \in Nat /\ pass \in [Runners -> Passes]
        /\ Tells(reminder, event) /\ TypeOK
    BY OtherTypes, HasRows DEF IInv
  <1>2. ASSUME NEW lead \in Leads, NEW channel \in {"in_app", "email"},
               Save(p, lead, channel)
        PROVE  Calm
    <2> DEFINE k == [start |-> event.start, lead |-> lead, channel |-> channel]
               s == Set(p, k)
    <2>1. k \in Keys /\ k.start = event.start BY <1>1 DEF Keys, Events
    <2>2. /\ reminder' = [reminder EXCEPT ![p] = s] /\ event.published
          /\ event' = event /\ now' = now /\ going' = going /\ prefs' = prefs
          /\ attempt' = attempt /\ handed' = handed /\ taken' = taken
          /\ crashes' = crashes /\ pass' = pass
      BY <1>2 DEF Save, choices, outside, Open
    <2> HIDE DEF k
    <2>3. s \in Row /\ s.key = k /\ s.status = Told(p, k) BY <1>1, <2>1, SetRow
    <2> HIDE DEF s
    <2>4. Tells(reminder', event) BY <1>1, <2>1, <2>2, <2>3 DEF Tells
    <2> QED BY <1>1, <2>2, <2>4 DEF Calm
  <1>3. ASSUME Disable(p) \/ Withdraw(p) \/ Requalify(p)
        PROVE  Calm
    <2>1. /\ reminder' = [reminder EXCEPT ![p] = Off] \/ reminder' = reminder
          /\ event' = event /\ now' = now /\ prefs' = prefs
          /\ attempt' = attempt /\ handed' = handed /\ taken' = taken
          /\ crashes' = crashes /\ pass' = pass
      BY <1>3 DEF Disable, Withdraw, Requalify, choices, outside
    <2>2. going' \subseteq People
      BY <1>1, <1>3 DEF Disable, Withdraw, Requalify, choices
    <2>3. Tells(reminder', event)
      <3>1. CASE reminder' = reminder BY <1>1, <3>1 DEF Tells
      <3>2. CASE reminder' = [reminder EXCEPT ![p] = Off] BY <1>1, <3>2, StopOne
      <3> QED BY <2>1, <3>1, <3>2
    <2> QED BY <1>1, <2>1, <2>2, <2>3 DEF Calm
  <1> QED BY <1>2, <1>3 DEF PersonActs

LEMMA PreferStep ==
  ASSUME IInv, NEW p \in Members, NEW mode \in {"on", "off", "quiet"}, Prefer(p, mode)
  PROVE  Calm
  <1>1. /\ event \in Events /\ now \in Nat /\ going \subseteq People
        /\ prefs \in Prefs /\ crashes \in Nat /\ pass \in [Runners -> Passes]
        /\ Tells(reminder, event)
    BY OtherTypes, HasRows
  <1>2. /\ reminder' = reminder
        /\ event' = event /\ now' = now /\ going' = going
        /\ attempt' = attempt /\ handed' = handed /\ taken' = taken
        /\ crashes' = crashes /\ pass' = pass /\ prefs' = [prefs EXCEPT ![p] = mode]
    BY DEF Prefer, outside
  <1>3. prefs' \in Prefs BY <1>1, <1>2 DEF Prefs
  <1> QED BY <1>1, <1>2, <1>3 DEF Calm

LEMMA EventStep ==
  ASSUME IInv, Tick \/ CancelEvent \/ \E s \in Starts : Reschedule(s)
  PROVE  Calm
  <1>1. /\ event \in Events /\ now \in Nat /\ going \subseteq People
        /\ prefs \in Prefs /\ crashes \in Nat /\ pass \in [Runners -> Passes]
        /\ Tells(reminder, event) /\ TypeOK
    BY OtherTypes, HasRows DEF IInv
  <1>2. /\ going' = going /\ prefs' = prefs
        /\ attempt' = attempt /\ handed' = handed /\ taken' = taken
        /\ crashes' = crashes /\ pass' = pass
    BY DEF Tick, CancelEvent, Reschedule, choices, outside
  <1>3. CASE Tick
    <2>1. event' = event /\ reminder' = reminder /\ now' \in Nat
      BY <1>1, <1>3 DEF Tick, choices
    <2> QED BY <1>1, <1>2, <2>1 DEF Calm
  <1>4. CASE CancelEvent
    <2>1. /\ event' = [event EXCEPT !.published = FALSE] /\ now' = now
          /\ reminder' = AllStopped
      BY <1>4 DEF CancelEvent, outside
    <2>2. event' \in Events BY <1>1, <2>1 DEF Events
    <2>3. Tells(reminder', event') BY <2>1, StoppedRows
    <2> QED BY <1>1, <1>2, <2>1, <2>2, <2>3 DEF Calm
  <1>5. ASSUME NEW s \in Starts, Reschedule(s)
        PROVE  Calm
    <2>1. /\ event' = [event EXCEPT !.start = s] /\ now' = now
          /\ reminder' = Reconciled(event')
      BY <1>5 DEF Reschedule
    <2>2. event' \in Events BY <1>1, <2>1 DEF Events
    <2>3. Tells(reminder', event') BY <1>1, <2>1, <2>2, ReconciledRows
    <2> QED BY <1>1, <1>2, <2>1, <2>2, <2>3 DEF Calm
  <1> QED BY <1>3, <1>4, <1>5

\* Every other step of a pass that attempts nothing.
LEMMA PassStep ==
  ASSUME IInv, NEW r \in Runners,
         \/ Begin(r) \/ Crash(r) \/ Fence(r) \/ Forget(r)
         \/ \E p \in People : PassOver(r, p) \/ Drop(r, p) \/ PutOff(r, p)
  PROVE  Calm
  <1> DEFINE rows == Reconciled(event)
  <1>1. /\ event \in Events /\ now \in Nat /\ going \subseteq People
        /\ prefs \in Prefs /\ crashes \in Nat
        /\ Tells(reminder, event) /\ Tells(rows, event) /\ TypeOK
    BY OtherTypes, HasRows DEF IInv
  <1>2. /\ event' = event /\ now' = now /\ going' = going /\ prefs' = prefs
        /\ attempt' = attempt /\ handed' = handed /\ taken' = taken
        /\ crashes' \in {crashes, crashes + 1}
    BY DEF Begin, Crash, Fence, Forget, PassOver, Drop, PutOff, choices, outside
  <1>3. /\ pass' \in [Runners -> Passes]
        /\ \A s \in Runners : pass'[s].claim \in {pass[s].claim, NoClaim}
    <2>1. CASE \E p \in People : TakesUp(r, p) BY <2>1, PassMoves
    <2>2. CASE Release(r) \/ pass' = [pass EXCEPT ![r] = Resting]
      BY <2>2, PassMoves
    <2>3. CASE Begin(r)
      <3>1. PICK S \in SUBSET Due : pass' = [pass EXCEPT ![r].todo = S]
        BY <2>3 DEF Begin
      <3>2. S \in SUBSET People BY DEF Due
      <3> QED BY <3>1, <3>2, PassMoves
    <2> QED BY <2>1, <2>2, <2>3 DEF Crash, Fence, Forget, PassOver, Drop, PutOff
  <1> HIDE DEF rows
  <1>4. Tells(reminder', event)
    <2>1. CASE reminder' = reminder \/ reminder' = rows BY <1>1, <2>1
    <2>2. ASSUME NEW p \in People, reminder' = [rows EXCEPT ![p] = Off]
          PROVE  Tells(reminder', event)
      BY <1>1, <2>2, StopOne
    <2>3. ASSUME NEW p \in People, Ready(p, rows),
                 reminder' = [rows EXCEPT ![p].status = Told(p, rows[p].key)]
          PROVE  Tells(reminder', event)
      <3> DEFINE o == Told(p, rows[p].key)
                 s == [rows[p] EXCEPT !.status = o]
      <3>1. rows[p] # Off /\ rows[p] \in Row /\ rows[p].key \in Keys
        BY <1>1, <2>3, ReadyRow
      <3>2. o \in Outcomes \cup {"pending"} BY <1>1, <3>1, ToldType
      <3>3. rows \in [People -> Row] BY <1>1 DEF Tells
      <3>4. reminder' = [rows EXCEPT ![p] = s] BY <2>3, <3>3
      <3> HIDE DEF o
      <3>5. s \in Row /\ s.key = rows[p].key /\ s.status = o BY <3>1, <3>2, StatusRow
      <3> HIDE DEF s
      <3>6. s.status = Told(p, s.key) BY <3>5 DEF o
      <3> QED BY <1>1, <3>1, <3>3, <3>4, <3>5, <3>6 DEF Tells
    <2>4. CASE Begin(r) \/ Crash(r) BY <2>1, <2>4 DEF Begin, Crash
    <2>5. CASE Fence(r) BY <2>1, <2>5 DEF Fence, rows
    <2>6. CASE Forget(r)
      <3>1. PICK c \in {pass[r].claim} :
              c.owner \in People /\ reminder' = [rows EXCEPT ![c.owner] = Off]
        <4>1. pass[r].claim \in Claims BY <2>6, PassTypes DEF Forget, Claimed
        <4>2. pass[r].claim.owner \in People BY <4>1 DEF Claims
        <4> QED BY <2>6, <4>2 DEF Forget, rows
      <3> QED BY <2>2, <3>1
    <2>7. ASSUME NEW p \in People, PassOver(r, p) PROVE Tells(reminder', event)
      BY <2>1, <2>7 DEF PassOver, rows
    <2>8. ASSUME NEW p \in People, Drop(r, p) PROVE Tells(reminder', event)
      BY <2>2, <2>8 DEF Drop, rows
    <2>9. ASSUME NEW p \in People, PutOff(r, p) PROVE Tells(reminder', event)
      BY <2>3, <2>9 DEF PutOff, rows
    <2> QED BY <2>4, <2>5, <2>6, <2>7, <2>8, <2>9
  <1>5. crashes' \in Nat BY <1>1, <1>2
  <1> QED BY <1>1, <1>2, <1>3, <1>4, <1>5 DEF Calm

LEMMA StutterStep ==
  ASSUME IInv, UNCHANGED vars
  PROVE  Calm
  <1>1. /\ event \in Events /\ now \in Nat /\ going \subseteq People
        /\ prefs \in Prefs /\ crashes \in Nat /\ pass \in [Runners -> Passes]
        /\ Tells(reminder, event)
    BY OtherTypes, HasRows
  <1>2. /\ event' = event /\ now' = now /\ going' = going /\ prefs' = prefs
        /\ reminder' = reminder /\ attempt' = attempt /\ pass' = pass
        /\ handed' = handed /\ taken' = taken /\ crashes' = crashes
    BY DEF vars
  <1> QED BY <1>1, <1>2 DEF Calm

-----------------------------------------------------------------------------
(* Steps that attempt something: one attempt changes its outcome, and may    *)
(* be handed over.                                                          *)

Tried(p, k, o) ==
  /\ attempt' \in [People -> [Keys -> Outcomes \cup {"none"}]]
  /\ attempt'[p][k] = o
  /\ \A q \in People, l \in Keys :
       q # p \/ l # k => attempt'[q][l] = attempt[q][l]
Sent(p, k) ==
  /\ handed' \in [People -> [Keys -> Nat]]
  /\ handed'[p][k] = handed[p][k] + 1
  /\ \A q \in People, l \in Keys : q # p \/ l # k => handed'[q][l] = handed[q][l]

LEMMA TriedCell ==
  ASSUME TypeOK, NEW p \in People, NEW k \in Keys, NEW o \in Outcomes,
         attempt' = [attempt EXCEPT ![p][k] = o]
  PROVE  Tried(p, k, o)
  <1> DEFINE T == [Keys -> Outcomes \cup {"none"}]
             f == [attempt[p] EXCEPT ![k] = o]
  <1>1. attempt \in [People -> T] BY DEF TypeOK
  <1>2. f \in T /\ f[k] = o /\ \A l \in Keys : l # k => f[l] = attempt[p][l]
    BY <1>1
  <1>3. attempt' = [attempt EXCEPT ![p] = f] BY <1>1
  <1> HIDE DEF f, T
  <1>4. attempt' \in [People -> T] /\ attempt'[p] = f
        /\ \A q \in People : q # p => attempt'[q] = attempt[q]
    BY <1>1, <1>2, <1>3
  <1> QED BY <1>2, <1>4 DEF Tried, T

LEMMA SentCell ==
  ASSUME TypeOK, NEW p \in People, NEW k \in Keys,
         handed' = [handed EXCEPT ![p][k] = @ + 1]
  PROVE  Sent(p, k)
  <1> DEFINE T == [Keys -> Nat]
             f == [handed[p] EXCEPT ![k] = handed[p][k] + 1]
  <1>1. handed \in [People -> T] BY DEF TypeOK
  <1>2. handed[p][k] + 1 \in Nat BY <1>1
  <1>3. f \in T /\ f[k] = handed[p][k] + 1 /\ \A l \in Keys : l # k => f[l] = handed[p][l]
    BY <1>1, <1>2
  <1>4. handed' = [handed EXCEPT ![p] = f] BY <1>1
  <1> HIDE DEF f, T
  <1>5. handed' \in [People -> T] /\ handed'[p] = f
        /\ \A q \in People : q # p => handed'[q] = handed[q]
    BY <1>1, <1>3, <1>4
  <1> QED BY <1>3, <1>5 DEF Sent, T

\* The row that is written with the attempt says what the attempt says.
LEMMA RowsAfter ==
  ASSUME NEW rows, Tells(rows, event), event' = event,
         NEW p \in People, rows[p] # Off, NEW o \in Outcomes,
         reminder' = [rows EXCEPT ![p].status = o],
         Tried(p, rows[p].key, o)
  PROVE  reminder' \in [People -> Row] /\ RowsTell'
  <1> DEFINE s == [rows[p] EXCEPT !.status = o]
  <1>1. rows \in [People -> Row] /\ rows[p] \in Row BY DEF Tells
  <1>2. s \in Row /\ s.key = rows[p].key /\ s.status = o BY <1>1, StatusRow
  <1>3. reminder' = [rows EXCEPT ![p] = s] BY <1>1
  <1> HIDE DEF s
  <1>4. reminder' \in [People -> Row] /\ reminder'[p] = s
        /\ \A q \in People : q # p => reminder'[q] = rows[q]
    BY <1>1, <1>2, <1>3
  <1>5. o # "none" BY DEF Outcomes
  <1>6. ASSUME NEW q \in People, reminder'[q] # Off
        PROVE  /\ reminder'[q].key \in Keys
               /\ attempt'[q][reminder'[q].key] = "none" => reminder'[q].status = "pending"
               /\ attempt'[q][reminder'[q].key] # "none"
                    => reminder'[q].status = attempt'[q][reminder'[q].key]
               /\ event.published /\ reminder'[q].key.start = event.start
    <2>1. CASE q = p
      <3>1. attempt'[p][rows[p].key] = o BY DEF Tried
      <3>2. rows[p].key \in Keys /\ event.published /\ rows[p].key.start = event.start
        BY <1>1, RowFacts DEF Tells
      <3> QED BY <1>2, <1>4, <1>5, <2>1, <3>1, <3>2
    <2>2. CASE q # p
      <3>1. reminder'[q] = rows[q] BY <1>4, <2>2
      <3>2. rows[q].key \in Keys BY <1>1, <1>6, <3>1, RowFacts
      <3>3. attempt'[q][rows[q].key] = attempt[q][rows[q].key]
        BY <2>2, <3>2 DEF Tried
      <3>4. /\ rows[q].status = Told(q, rows[q].key)
            /\ event.published /\ rows[q].key.start = event.start
        BY <1>6, <3>1 DEF Tells
      <3> QED BY <3>1, <3>2, <3>3, <3>4 DEF Told
    <2> QED BY <2>1, <2>2
  <1>7. RowsTell' BY <1>6 DEF RowsTell, Told
  <1> QED BY <1>4, <1>7

\* No claim but the one of pass r is about this attempt.
OnlyHis(r, p, k) ==
  \A s \in Runners \ {r} :
    Claimed(s) => pass[s].claim.owner # p \/ pass[s].claim.key # k

\* An attempt that was not handed over changes its outcome, is handed over
\* once at the most, and is claimed by pass r or by nobody afterwards.
LEMMA AttemptHolds ==
  ASSUME IInv, NEW r \in Runners, NEW p \in People, NEW k \in Keys,
         NEW o \in Outcomes, Tried(p, k, o), OnlyHis(r, p, k), handed[p][k] = 0,
         handed' = handed \/ Sent(p, k),
         event' = event, going' = going, prefs' = prefs,
         now' \in Nat, crashes' \in Nat,
         reminder' \in [People -> Row], RowsTell',
         taken' \in {taken, taken \cup {<<p, k>>}},
         o = "provider_accepted" => <<p, k>> \in taken',
         pass' \in [Runners -> Passes],
         \A s \in Runners \ {r} : pass'[s].claim = pass[s].claim,
         pass'[r].claim # NoClaim =>
           /\ pass'[r].claim.owner = p /\ pass'[r].claim.key = k
           /\ o = "failed" /\ handed' = handed
  PROVE  IInv'
  <1>1. handed' \in [People -> [Keys -> Nat]] BY DEF IInv, TypeOK, Sent
  <1>2. TypeOK'
    <2>1. taken' \subseteq People \X Keys BY DEF IInv, TypeOK
    <2> QED BY <1>1, <2>1 DEF IInv, TypeOK, Tried, Passes
  <1>3. \A q \in People, l \in Keys :
          handed'[q][l] = handed[q][l] \/ (q = p /\ l = k /\ handed'[q][l] = 1)
    BY DEF Sent
  <1>4. HandedOnce' BY <1>3 DEF IInv, HandedOnce
  <1>5. UntriedUnsent'
    <2>1. o # "none" BY DEF Outcomes
    <2> QED BY <1>3, <2>1 DEF IInv, UntriedUnsent, Tried
  <1>6. ClaimsDiffer'
    <2> SUFFICES ASSUME NEW s \in Runners, NEW t \in Runners,
                        pass'[s].claim # NoClaim, pass'[s].claim = pass'[t].claim
                 PROVE  s = t
      BY DEF ClaimsDiffer, Claimed
    <2>1. CASE s # r /\ t # r BY <2>1 DEF IInv, ClaimsDiffer, Claimed
    <2>2. CASE s = r /\ t # r BY <2>2 DEF OnlyHis, Claimed
    <2>3. CASE s # r /\ t = r BY <2>3 DEF OnlyHis, Claimed
    <2> QED BY <2>1, <2>2, <2>3
  <1>7. ClaimsUnsent'
    <2> SUFFICES ASSUME NEW s \in Runners, pass'[s].claim # NoClaim
                 PROVE  /\ attempt'[pass'[s].claim.owner][pass'[s].claim.key] = "failed"
                        /\ handed'[pass'[s].claim.owner][pass'[s].claim.key] = 0
      BY DEF ClaimsUnsent, Claimed
    <2>1. CASE s = r BY <2>1 DEF Tried
    <2>2. CASE s # r
      <3> DEFINE c == pass[s].claim
      <3>1. pass'[s].claim = c /\ Claimed(s) BY <2>2 DEF Claimed
      <3>2. c \in Claims BY <3>1, PassTypes DEF Claimed
      <3>3. c.owner \in People /\ c.key \in Keys BY <3>2 DEF Claims
      <3>4. c.owner # p \/ c.key # k BY <2>2, <3>1 DEF OnlyHis
      <3>5. attempt[c.owner][c.key] = "failed" /\ handed[c.owner][c.key] = 0
        BY <3>1 DEF IInv, ClaimsUnsent
      <3> HIDE DEF c
      <3>6. attempt'[c.owner][c.key] = "failed" /\ handed'[c.owner][c.key] = 0
        BY <1>3, <3>3, <3>4, <3>5 DEF Tried
      <3> QED BY <3>1, <3>6
    <2> QED BY <2>1, <2>2
  <1>8. AcceptedMeansTaken'
    <2> SUFFICES ASSUME NEW q \in People, NEW l \in Keys,
                        attempt'[q][l] = "provider_accepted"
                 PROVE  <<q, l>> \in taken'
      BY DEF AcceptedMeansTaken
    <2>1. CASE q = p /\ l = k BY <2>1 DEF Tried
    <2>2. CASE q # p \/ l # k
      <3>1. attempt[q][l] = "provider_accepted" BY <2>2 DEF Tried
      <3>2. <<q, l>> \in taken BY <3>1 DEF IInv, AcceptedMeansTaken
      <3> QED BY <3>2
    <2> QED BY <2>1, <2>2
  <1> QED BY <1>2, <1>4, <1>5, <1>6, <1>7, <1>8 DEF IInv

\* Nobody has claimed an attempt that was not made.
LEMMA FreshAttempt ==
  ASSUME IInv, NEW r \in Runners, NEW p \in People, NEW k \in Keys,
         attempt[p][k] = "none"
  PROVE  OnlyHis(r, p, k) /\ handed[p][k] = 0
  BY DEF OnlyHis, IInv, ClaimsUnsent, UntriedUnsent

\* What a pass has claimed, it alone has, and has not sent.
LEMMA ClaimedAttempt ==
  ASSUME IInv, NEW r \in Runners, Claimed(r), NEW c, c = pass[r].claim
  PROVE  /\ c \in Claims /\ c.owner \in People /\ c.key \in Keys
         /\ OnlyHis(r, c.owner, c.key)
         /\ attempt[c.owner][c.key] = "failed" /\ handed[c.owner][c.key] = 0
  <1>1. c \in Claims /\ c.owner \in People /\ c.key \in Keys
    BY PassTypes DEF Claimed, Claims
  <1>2. ASSUME NEW s \in Runners \ {r}, Claimed(s)
        PROVE  pass[s].claim.owner # c.owner \/ pass[s].claim.key # c.key
    <2>1. pass[s].claim \in Claims BY <1>2, PassTypes DEF Claimed
    <2>2. pass[s].claim # c BY <1>2 DEF IInv, ClaimsDiffer
    <2> QED BY <1>1, <2>1, <2>2 DEF Claims
  <1>3. OnlyHis(r, c.owner, c.key) BY <1>2 DEF OnlyHis
  <1>4. attempt[c.owner][c.key] = "failed" /\ handed[c.owner][c.key] = 0
    BY DEF IInv, ClaimsUnsent
  <1> QED BY <1>1, <1>3, <1>4

\* The row of a candidate that is dispatched, and its attempt.
LEMMA DispatchedRow ==
  ASSUME IInv, NEW r \in Runners, NEW p \in People,
         NEW rows, rows = Reconciled(event), Dispatched(p, rows)
  PROVE  /\ Tells(rows, event) /\ rows[p] # Off /\ rows[p] \in Row
         /\ rows[p].key \in Keys
         /\ OnlyHis(r, p, rows[p].key) /\ handed[p][rows[p].key] = 0
  <1>1. Tells(rows, event) BY HasRows
  <1>2. rows[p] # Off /\ rows[p] \in Row /\ rows[p].key \in Keys
    BY <1>1, ReadyRow DEF Dispatched
  <1>3. attempt[p][rows[p].key] = "none" BY DEF Dispatched, Known
  <1>4. OnlyHis(r, p, rows[p].key) /\ handed[p][rows[p].key] = 0
    BY <1>2, <1>3, FreshAttempt
  <1> QED BY <1>1, <1>2, <1>4

LEMMA PostStep ==
  ASSUME IInv, NEW r \in Runners, NEW p \in People, Post(r, p)
  PROVE  IInv'
  <1> DEFINE rows == Reconciled(event)
             k == rows[p].key
  <1>1. /\ Dispatched(p, rows)
        /\ reminder' = [rows EXCEPT ![p].status = "recorded"]
        /\ attempt' = [attempt EXCEPT ![p][k] = "recorded"]
        /\ handed' = [handed EXCEPT ![p][k] = @ + 1]
        /\ pass[r].claim = NoClaim /\ TakesUp(r, p)
        /\ event' = event /\ going' = going /\ prefs' = prefs /\ taken' = taken
        /\ now' = now /\ crashes' = crashes
    BY DEF Post, choices
  <1>2. rows = Reconciled(event) OBVIOUS
  <1> HIDE DEF rows
  <1>3. /\ Tells(rows, event) /\ rows[p] # Off /\ k \in Keys
        /\ OnlyHis(r, p, k) /\ handed[p][k] = 0
    BY <1>1, <1>2, DispatchedRow
  <1>4. "recorded" \in Outcomes BY DEF Outcomes
  <1>5. TypeOK BY DEF IInv
  <1>6. Tried(p, k, "recorded") /\ Sent(p, k)
    BY <1>1, <1>3, <1>4, <1>5, TriedCell, SentCell
  <1>7. reminder' \in [People -> Row] /\ RowsTell'
    BY <1>1, <1>3, <1>4, <1>6, RowsAfter
  <1>8. /\ pass' \in [Runners -> Passes]
        /\ \A s \in Runners : pass'[s].claim = pass[s].claim
    BY <1>1, PassMoves
  <1>9. now \in Nat /\ crashes \in Nat BY OtherTypes
  <1> HIDE DEF k
  <1> QED BY <1>1, <1>3, <1>4, <1>6, <1>7, <1>8, <1>9, AttemptHolds

LEMMA ReserveStep ==
  ASSUME IInv, NEW r \in Runners, NEW p \in People, Reserve(r, p)
  PROVE  IInv'
  <1> DEFINE rows == Reconciled(event)
             k == rows[p].key
             q == [todo |-> pass[r].todo \ {p}, claim |-> [owner |-> p, key |-> k]]
  <1>0. pass \in [Runners -> Passes] BY PassTypes
  <1>1. /\ Dispatched(p, rows)
        /\ reminder' = [rows EXCEPT ![p].status = "failed"]
        /\ attempt' = [attempt EXCEPT ![p][k] = "failed"]
        /\ handed' = handed /\ taken' = taken
        /\ pass' = [pass EXCEPT ![r] = q]
        /\ event' = event /\ going' = going /\ prefs' = prefs
        /\ now' = now /\ crashes' = crashes
    BY <1>0 DEF Reserve, choices, outside
  <1>2. rows = Reconciled(event) OBVIOUS
  <1> HIDE DEF rows
  <1>3. /\ Tells(rows, event) /\ rows[p] # Off /\ k \in Keys
        /\ OnlyHis(r, p, k) /\ handed[p][k] = 0
    BY <1>1, <1>2, DispatchedRow
  <1>4. "failed" \in Outcomes BY DEF Outcomes
  <1>5. TypeOK BY DEF IInv
  <1>6. Tried(p, k, "failed") BY <1>1, <1>3, <1>4, <1>5, TriedCell
  <1>7. reminder' \in [People -> Row] /\ RowsTell'
    BY <1>1, <1>3, <1>4, <1>6, RowsAfter
  <1>8. /\ pass' \in [Runners -> Passes]
        /\ \A s \in Runners \ {r} : pass'[s].claim = pass[s].claim
        /\ pass'[r].claim.owner = p /\ pass'[r].claim.key = k
    <2>1. pass[r].todo \ {p} \subseteq People BY PassTypes
    <2>2. q \in Passes /\ q.claim.owner = p /\ q.claim.key = k
      BY <1>3, <2>1 DEF Passes, Claims
    <2> HIDE DEF q
    <2> QED BY <1>0, <1>1, <2>2
  <1>9. now \in Nat /\ crashes \in Nat BY OtherTypes
  <1> HIDE DEF k, q
  <1> QED BY <1>1, <1>3, <1>4, <1>6, <1>7, <1>8, <1>9, AttemptHolds

LEMMA TooLateStep ==
  ASSUME IInv, NEW r \in Runners, NEW p \in People, ReserveTooLate(r, p)
  PROVE  IInv'
  <1> DEFINE rows == Reconciled(event)
             k == rows[p].key
  <1>1. /\ Dispatched(p, rows)
        /\ attempt' = [attempt EXCEPT ![p][k] = "failed"]
        /\ reminder' = AllStopped /\ now' = event.start
        /\ pass[r].claim = NoClaim /\ TakesUp(r, p)
        /\ handed' = handed /\ taken' = taken
        /\ event' = event /\ going' = going /\ prefs' = prefs /\ crashes' = crashes
    BY DEF ReserveTooLate, choices, outside
  <1>2. rows = Reconciled(event) OBVIOUS
  <1> HIDE DEF rows
  <1>3. k \in Keys /\ OnlyHis(r, p, k) /\ handed[p][k] = 0
    BY <1>1, <1>2, DispatchedRow
  <1>4. "failed" \in Outcomes BY DEF Outcomes
  <1>5. TypeOK BY DEF IInv
  <1>6. Tried(p, k, "failed") BY <1>1, <1>3, <1>4, <1>5, TriedCell
  <1>7. reminder' \in [People -> Row] /\ RowsTell'
    <2>1. Tells(reminder', event) BY <1>1, StoppedRows
    <2>2. \A x \in People : reminder'[x] = Off BY <1>1 DEF AllStopped
    <2> QED BY <2>1, <2>2 DEF RowsTell, Tells
  <1>8. /\ pass' \in [Runners -> Passes]
        /\ \A s \in Runners : pass'[s].claim = pass[s].claim
    BY <1>1, PassMoves
  <1>9. now' \in Nat /\ crashes \in Nat
    BY <1>1, OtherTypes, TimeAssumption DEF Events
  <1> HIDE DEF k
  <1> QED BY <1>1, <1>3, <1>4, <1>6, <1>7, <1>8, <1>9, AttemptHolds

LEMMA SendStep ==
  ASSUME IInv, NEW r \in Runners, SendAccepted(r) \/ SendFailed(r)
  PROVE  IInv'
  <1> DEFINE rows == Reconciled(event)
             c == pass[r].claim
             p == c.owner
             k == c.key
             o == IF SendAccepted(r) THEN "provider_accepted" ELSE "failed"
  <1>1. /\ Claimed(r) /\ Current(c, rows)
        /\ reminder' = [rows EXCEPT ![p].status = o]
        /\ attempt' = [attempt EXCEPT ![p][k] = o]
        /\ handed' = [handed EXCEPT ![p][k] = @ + 1]
        /\ taken' = IF SendAccepted(r) THEN taken \cup {<<p, k>>} ELSE taken
        /\ Release(r)
        /\ event' = event /\ going' = going /\ prefs' = prefs
        /\ now' = now /\ crashes' = crashes
    <2>1. CASE SendAccepted(r) BY <2>1 DEF SendAccepted, Sendable, choices
    <2>2. CASE ~SendAccepted(r) BY <2>2 DEF SendFailed, Sendable, choices
    <2> QED BY <2>1, <2>2
  <1>2. /\ o \in Outcomes
        /\ taken' \in {taken, taken \cup {<<p, k>>}}
        /\ o = "provider_accepted" => <<p, k>> \in taken'
    BY <1>1 DEF Outcomes
  <1>3. /\ Tells(rows, event) /\ TypeOK BY HasRows DEF IInv
  <1>4. /\ p \in People /\ k \in Keys /\ OnlyHis(r, p, k) /\ handed[p][k] = 0
    BY <1>1, ClaimedAttempt
  <1>5. rows[p] # Off /\ rows[p].key = k BY <1>1 DEF Current
  <1> HIDE DEF rows, o, c, p, k
  <1>6. Tried(p, k, o) /\ Sent(p, k)
    BY <1>1, <1>2, <1>3, <1>4, TriedCell, SentCell
  <1>7. reminder' \in [People -> Row] /\ RowsTell'
    BY <1>1, <1>2, <1>3, <1>4, <1>5, <1>6, RowsAfter
  <1>8. /\ pass' \in [Runners -> Passes] /\ pass'[r].claim = NoClaim
        /\ \A s \in Runners \ {r} : pass'[s].claim = pass[s].claim
    BY <1>1, PassMoves
  <1>9. now \in Nat /\ crashes \in Nat BY OtherTypes
  <1> QED BY <1>1, <1>2, <1>4, <1>6, <1>7, <1>8, <1>9, AttemptHolds

LEMMA SendLostStep ==
  ASSUME IInv, NEW r \in Runners, SendLost(r)
  PROVE  IInv'
  <1> DEFINE c == pass[r].claim
             p == c.owner
             k == c.key
  <1>1. /\ Claimed(r)
        /\ handed' = [handed EXCEPT ![p][k] = @ + 1]
        /\ pass' = [pass EXCEPT ![r] = Resting] /\ crashes' = crashes + 1
        /\ reminder' = reminder /\ attempt' = attempt /\ taken' = taken
        /\ event' = event /\ going' = going /\ prefs' = prefs /\ now' = now
    BY DEF SendLost, choices
  <1>2. /\ p \in People /\ k \in Keys /\ OnlyHis(r, p, k) /\ handed[p][k] = 0
        /\ attempt[p][k] = "failed"
    BY <1>1, ClaimedAttempt
  <1> HIDE DEF c, p, k
  <1>3. TypeOK /\ "failed" \in Outcomes BY DEF IInv, Outcomes
  <1>4. Sent(p, k) BY <1>1, <1>2, <1>3, SentCell
  <1>5. Tried(p, k, "failed") BY <1>1, <1>2, <1>3 DEF Tried, TypeOK
  <1>6. reminder' \in [People -> Row] BY <1>1, <1>3 DEF TypeOK
  <1>7. RowsTell' BY <1>1 DEF IInv, RowsTell, Told
  <1>8. /\ pass' \in [Runners -> Passes] /\ pass'[r].claim = NoClaim
        /\ \A s \in Runners \ {r} : pass'[s].claim = pass[s].claim
    BY <1>1, PassMoves
  <1>9. now' \in Nat /\ crashes' \in Nat BY <1>1, OtherTypes
  <1> QED BY <1>1, <1>2, <1>3, <1>4, <1>5, <1>6, <1>7, <1>8, <1>9, AttemptHolds


-----------------------------------------------------------------------------
(* The theorems.                                                            *)

LEMMA InitHolds ==
  ASSUME Init
  PROVE  IInv
  <1>1. TypeOK
    <2>1. event \in [published : BOOLEAN, start : Starts] BY DEF Init
    <2>2. reminder \in [People -> Row] BY RowFacts DEF Init
    <2>3. pass \in [Runners -> [todo : SUBSET People, claim : Claims \cup {NoClaim}]]
      BY DEF Init, Resting
    <2>4. attempt \in [People -> [Keys -> Outcomes \cup {"none"}]] BY DEF Init
    <2> QED BY <2>1, <2>2, <2>3, <2>4 DEF Init, TypeOK
  <1>2. HandedOnce /\ UntriedUnsent BY DEF Init, HandedOnce, UntriedUnsent
  <1>3. ClaimsDiffer /\ ClaimsUnsent
    BY DEF Init, Resting, ClaimsDiffer, ClaimsUnsent, Claimed
  <1>4. RowsTell /\ AcceptedMeansTaken BY DEF Init, RowsTell, AcceptedMeansTaken
  <1> QED BY <1>1, <1>2, <1>3, <1>4 DEF IInv

LEMMA NextHolds ==
  ASSUME IInv, [Next]_vars
  PROVE  IInv'
  <1>1. CASE UNCHANGED vars BY <1>1, StutterStep, CalmHolds
  <1>2. CASE Tick \/ CancelEvent \/ \E s \in Starts : Reschedule(s)
    BY <1>2, EventStep, CalmHolds
  <1>3. CASE \E p \in People : PersonActs(p) BY <1>3, PersonStep, CalmHolds
  <1>4. CASE \E p \in Members, mode \in {"on", "off", "quiet"} : Prefer(p, mode)
    BY <1>4, PreferStep, CalmHolds
  <1>5. ASSUME NEW r \in Runners, Begin(r) \/ Work(r) \/ SendLost(r) \/ Crash(r)
        PROVE  IInv'
    <2>1. CASE Begin(r) \/ Crash(r) \/ Fence(r) \/ Forget(r)
      BY <2>1, PassStep, CalmHolds
    <2>2. CASE SendLost(r) BY <2>2, SendLostStep
    <2>3. CASE SendAccepted(r) \/ SendFailed(r) BY <2>3, SendStep
    <2>4. ASSUME NEW p \in People, Consider(r, p)
          PROVE  IInv'
      <3>1. CASE PassOver(r, p) \/ Drop(r, p) \/ PutOff(r, p)
        BY <3>1, PassStep, CalmHolds
      <3>2. CASE Post(r, p) BY <3>2, PostStep
      <3>3. CASE Reserve(r, p) BY <3>3, ReserveStep
      <3>4. CASE ReserveTooLate(r, p) BY <3>4, TooLateStep
      <3> QED BY <2>4, <3>1, <3>2, <3>3, <3>4 DEF Consider
    <2> QED BY <1>5, <2>1, <2>2, <2>3, <2>4 DEF Work, Finish
  <1> QED BY <1>1, <1>2, <1>3, <1>4, <1>5 DEF Next

\* However people choose and withdraw, the event moves and passes overlap
\* and die: rows say what attempts say, a claim has one owner, and an
\* attempt that says accepted tells the truth.
THEOREM Invariance == Spec => []IInv
  <1>1. Init => IInv BY InitHolds
  <1>2. IInv /\ [Next]_vars => IInv' BY NextHolds
  <1> QED BY <1>1, <1>2, PTL DEF Spec

\* No reminder of one start, lead and channel reaches its owner twice.
THEOREM OnceHanded == Spec => []HandedOnce
  <1>1. IInv => HandedOnce BY DEF IInv
  <1> QED BY <1>1, Invariance, PTL

\* An attempt that says provider_accepted was taken by the sender.
THEOREM AcceptedTaken == Spec => []AcceptedMeansTaken
  <1>1. IInv => AcceptedMeansTaken BY DEF IInv
  <1> QED BY <1>1, Invariance, PTL

\* What a step hands over is what is chosen for the event as it is: the rows
\* are reconciled before they are used, and a row that survives a
\* reconciliation was enabled, and was for that start, before it.
LEMMA ReconciledSame ==
  ASSUME IInv, NEW p \in People, NEW rows, rows = Reconciled(event), rows[p] # Off
  PROVE  /\ Open(event) /\ reminder[p] # Off
         /\ rows[p].key = reminder[p].key /\ reminder[p].key.start = event.start
  <1>1. TypeOK /\ event \in Events /\ Tells(reminder, event)
    BY HasRows DEF IInv
  <1>2. /\ Open(event) /\ reminder[p] # Off
        /\ rows[p].key = [reminder[p].key EXCEPT !.start = event.start]
    BY <1>1, ReconciledRows
  <1>3. reminder[p].key \in Keys /\ reminder[p].key.start = event.start
    BY <1>1, <1>2, RowFacts DEF Tells
  <1>4. [reminder[p].key EXCEPT !.start = event.start] = reminder[p].key
    BY <1>3 DEF Keys
  <1> QED BY <1>2, <1>3, <1>4

HandsRight ==
  \A p \in People, k \in Keys :
    handed'[p][k] > handed[p][k]
    => /\ p \in going /\ Open(event)
       /\ reminder[p] # Off /\ reminder[p].key = k
       /\ k.start = event.start

LEMMA StillHanded ==
  ASSUME IInv, handed' = handed
  PROVE  HandsRight
  BY DEF HandsRight, IInv, TypeOK

LEMMA SentRight ==
  ASSUME IInv, NEW p \in People, NEW k \in Keys, Sent(p, k),
         NEW rows, rows = Reconciled(event), rows[p] # Off, rows[p].key = k,
         p \in going
  PROVE  HandsRight
  <1>1. /\ Open(event) /\ reminder[p] # Off
        /\ k = reminder[p].key /\ k.start = event.start
    BY ReconciledSame
  <1>2. ASSUME NEW q \in People, NEW l \in Keys, handed'[q][l] > handed[q][l]
        PROVE  q = p /\ l = k
    <2>1. handed[q][l] \in Nat BY DEF IInv, TypeOK
    <2> QED BY <1>2, <2>1 DEF Sent
  <1> QED BY <1>1, <1>2 DEF HandsRight

LEMMA NextHandsRight ==
  ASSUME IInv, [Next]_vars
  PROVE  HandsRight
  <1>1. CASE UNCHANGED vars BY <1>1, StutterStep, StillHanded DEF Calm
  <1>2. CASE Tick \/ CancelEvent \/ \E s \in Starts : Reschedule(s)
    BY <1>2, EventStep, StillHanded DEF Calm
  <1>3. CASE \E p \in People : PersonActs(p)
    BY <1>3, PersonStep, StillHanded DEF Calm
  <1>4. CASE \E p \in Members, mode \in {"on", "off", "quiet"} : Prefer(p, mode)
    BY <1>4, PreferStep, StillHanded DEF Calm
  <1>5. ASSUME NEW r \in Runners, Begin(r) \/ Work(r) \/ SendLost(r) \/ Crash(r)
        PROVE  HandsRight
    <2>1. CASE Begin(r) \/ Crash(r) \/ Fence(r) \/ Forget(r)
      BY <2>1, PassStep, StillHanded DEF Calm
    <2>2. CASE SendAccepted(r) \/ SendFailed(r) \/ SendLost(r)
      <3> DEFINE rows == Reconciled(event)
                 c == pass[r].claim
                 p == c.owner
                 k == c.key
      <3>1. /\ Claimed(r) /\ Current(c, rows) /\ p \in going
            /\ handed' = [handed EXCEPT ![p][k] = @ + 1]
        BY <2>2 DEF SendAccepted, SendFailed, SendLost, Sendable
      <3>2. p \in People /\ k \in Keys /\ TypeOK
        BY <3>1, ClaimedAttempt DEF IInv
      <3>3. rows = Reconciled(event) OBVIOUS
      <3> HIDE DEF rows, c, p, k
      <3>4. Sent(p, k) BY <3>1, <3>2, SentCell
      <3>5. rows[p] # Off /\ rows[p].key = k BY <3>1 DEF Current, p, k
      <3> QED BY <3>1, <3>2, <3>3, <3>4, <3>5, SentRight, SMTT(20)
    <2>3. ASSUME NEW p \in People, Consider(r, p)
          PROVE  HandsRight
      <3>1. CASE PassOver(r, p) \/ Drop(r, p) \/ PutOff(r, p)
        BY <3>1, PassStep, StillHanded DEF Calm
      <3>2. CASE Reserve(r, p) \/ ReserveTooLate(r, p)
        BY <3>2, StillHanded DEF Reserve, ReserveTooLate, outside
      <3>3. CASE Post(r, p)
        <4> DEFINE rows == Reconciled(event)
                   k == rows[p].key
        <4>1. /\ Dispatched(p, rows) /\ p \in going
              /\ handed' = [handed EXCEPT ![p][k] = @ + 1]
          BY <3>3 DEF Post, Dispatched, Silenced
        <4>2. rows = Reconciled(event) /\ TypeOK BY DEF IInv
        <4> HIDE DEF rows
        <4>3. rows[p] # Off /\ k \in Keys BY <4>1, <4>2, DispatchedRow
        <4>4. Sent(p, k) BY <4>1, <4>2, <4>3, SentCell
        <4> QED BY <4>1, <4>2, <4>3, <4>4, SentRight
      <3> QED BY <2>3, <3>1, <3>2, <3>3 DEF Consider
    <2> QED BY <1>5, <2>1, <2>2, <2>3 DEF Work, Finish
  <1> QED BY <1>1, <1>2, <1>3, <1>4, <1>5 DEF Next

\* A message goes to who goes to the event, for the start it has, as its
\* owner wants it at that moment.
THEOREM CurrentHanded == Spec => HandedIsCurrent
  <1>1. IInv /\ [Next]_vars => [HandsRight]_vars BY NextHandsRight
  <1>2. HandedIsCurrent <=> [][HandsRight]_vars BY DEF HandedIsCurrent, HandsRight
  <1> QED BY <1>1, <1>2, Invariance, PTL DEF Spec

=============================================================================
