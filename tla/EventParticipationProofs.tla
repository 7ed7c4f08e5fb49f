---------------------- MODULE EventParticipationProofs ----------------------
(***************************************************************************)
(* What EventParticipation guarantees for any members, guests, capacities,  *)
(* response windows and delays of the scheduled pass.                       *)
(***************************************************************************)
EXTENDS EventParticipation, FiniteSetTheorems, TLAPS

\* One row, whoever it belongs to.
Fine(r) ==
  /\ r \in Row
  /\ r.status \notin Waiting => r.ahead = {}
  /\ r.status = "accepted" => r.rsvp = "going"
  /\ r.remind => r.rsvp = "going"

FirstServed(b) ==
  \A p, q \in People :
    p \in b[q].ahead /\ b[p].status = "queued" => b[q].status # "invited"

\* What every transaction preserves, and what each of its parts does.
Good(b) ==
  /\ b \in [People -> Row]
  /\ \A p \in People : Fine(b[p])
  /\ InOrder(b)
  /\ FirstServed(b)

\* Nobody is enqueued or offered a seat, and no reminder is set.
Quiet(r, s) ==
  /\ Fine(s)
  /\ s.status \in Waiting => s.status = r.status /\ s.ahead = r.ahead
  /\ s.remind => r.remind
Keeps(b, c) == \A p \in People : c[p].remind => b[p].remind

\* Nobody takes a seat.
Frees(b, c) == \A p \in People : Takes(c[p], 0) => Takes(b[p], 0)

-----------------------------------------------------------------------------
(* Rows.                                                                    *)

LEMMA RowFields ==
  ASSUME NEW r \in Row
  PROVE  /\ r.rsvp \in {"none", "pending", "going"}
         /\ r.hold \in Int /\ r.left \in Int
         /\ r.status \in {"queued", "invited", "none", "accepted"}
         /\ r.ahead \in SUBSET People
         /\ r.remind \in BOOLEAN
  BY DEF Row, Waiting

LEMMA EndEntryRow ==
  ASSUME NEW r \in Row
  PROVE  LET s == EndEntry(r)
         IN  /\ s \in Row
             /\ s.rsvp = r.rsvp /\ s.hold = r.hold /\ s.remind = r.remind
             /\ s.status = "none" /\ s.ahead = {}
  <1> DEFINE s == EndEntry(r)
  <1>1. /\ 0 \in Int /\ {} \in SUBSET People
        /\ "none" \in Waiting \cup {"none", "accepted"}
    OBVIOUS
  <1>2. s \in Row
    BY <1>1, Zenon DEF Row, EndEntry
  <1>3. /\ s.rsvp = r.rsvp /\ s.hold = r.hold /\ s.remind = r.remind
        /\ s.status = "none" /\ s.ahead = {}
    BY DEF Row, EndEntry
  <1> QED BY <1>2, <1>3

LEMMA AcceptedRow ==
  ASSUME NEW r \in Row
  PROVE  LET s == Accepted(r)
         IN  /\ s \in Row
             /\ s.rsvp = r.rsvp /\ s.hold = r.hold /\ s.remind = r.remind
             /\ s.status = "accepted" /\ s.ahead = {}
  <1> DEFINE s == Accepted(r)
  <1>1. /\ 0 \in Int /\ {} \in SUBSET People
        /\ "accepted" \in Waiting \cup {"none", "accepted"}
    OBVIOUS
  <1>2. s \in Row
    BY <1>1, Zenon DEF Row, Accepted
  <1>3. /\ s.rsvp = r.rsvp /\ s.hold = r.hold /\ s.remind = r.remind
        /\ s.status = "accepted" /\ s.ahead = {}
    BY DEF Row, Accepted
  <1> QED BY <1>2, <1>3

LEMMA CancelledRow ==
  ASSUME NEW r \in Row
  PROVE  LET s == Cancelled(r)
         IN  /\ s \in Row /\ s.rsvp = "none" /\ s.status = r.status
             /\ s.ahead = r.ahead /\ s.left = r.left /\ s.remind = r.remind
  <1> DEFINE s == Cancelled(r)
  <1>1. s \in Row
    <2>1. 0 \in Int /\ "none" \in {"none", "pending", "going"} OBVIOUS
    <2> QED BY <2>1, Zenon DEF Row, Cancelled
  <1>2. /\ s.rsvp = "none" /\ s.status = r.status
        /\ s.ahead = r.ahead /\ s.left = r.left /\ s.remind = r.remind
    BY DEF Row, Cancelled
  <1> QED BY <1>1, <1>2

LEMMA ExpiredRow ==
  ASSUME NEW r, Fine(r), NEW late \in Nat
  PROVE  LET s == Expired(r, late)
         IN  /\ Quiet(r, s)
             /\ s.rsvp = r.rsvp /\ s.hold = r.hold
             /\ s.status = "invited" =>
                  r.status = "invited" /\ s.left = r.left /\ r.left + late > 0
  <1> DEFINE s == Expired(r, late)
  <1>1. CASE r.status = "invited" /\ r.left + late <= 0
    BY <1>1, EndEntryRow DEF Expired, Quiet, Fine, Waiting
  <1>2. CASE ~(r.status = "invited" /\ r.left + late <= 0)
    BY <1>2, RowFields DEF Expired, Quiet, Fine, Waiting
  <1> QED BY <1>1, <1>2

LEMMA LapsedRow ==
  ASSUME NEW r, Fine(r), NEW late \in Nat
  PROVE  LET s == Lapsed(r, late)
         IN  /\ Quiet(r, s)
             /\ s.status = r.status /\ s.left = r.left
             /\ s.rsvp = "going" => r.rsvp = "going"
             /\ s.rsvp = "pending" => r.rsvp = "pending" /\ s.hold = r.hold
  <1> DEFINE t == Cancelled(r)
  <1>1. r \in Row BY DEF Fine
  <1>2. /\ t \in Row /\ t.status = r.status /\ t.left = r.left /\ t.rsvp = "none"
        /\ t.ahead = r.ahead /\ t.remind = r.remind
    BY <1>1, CancelledRow
  <1>3. CASE r.rsvp = "pending" /\ r.hold + late <= 0
    BY <1>2, <1>3 DEF Lapsed, Quiet, Fine
  <1>4. CASE ~(r.rsvp = "pending" /\ r.hold + late <= 0)
    BY <1>4 DEF Lapsed, Quiet, Fine
  <1> QED BY <1>3, <1>4

LEMMA SortedRow ==
  ASSUME NEW r, Fine(r), NEW on \in BOOLEAN, NEW admitted \in BOOLEAN
  PROVE  LET s == Sorted(r, on, admitted)
         IN  /\ Quiet(r, s)
             /\ s.rsvp = r.rsvp /\ s.hold = r.hold
             /\ s.status = "invited" => r.status = "invited" /\ s.left = r.left
             /\ s.status \in Waiting => on
  <1>1. r \in Row BY DEF Fine
  <1>2. CASE r.status \notin Waiting
    <2>1. Sorted(r, on, admitted) = r BY <1>2 DEF Sorted
    <2> QED BY <1>2, <2>1 DEF Quiet, Fine, Waiting
  <1>3. CASE r.status \in Waiting /\ on /\ r.rsvp = "going"
    <2>1. Sorted(r, on, admitted) = Accepted(r) BY <1>3 DEF Sorted
    <2> QED BY <1>1, <1>3, <2>1, AcceptedRow DEF Quiet, Fine, Waiting
  <1>4. CASE r.status \in Waiting /\ on /\ r.rsvp # "going" /\ admitted
    <2>1. Sorted(r, on, admitted) = r BY <1>4 DEF Sorted
    <2> QED BY <1>4, <2>1 DEF Quiet, Fine, Waiting
  <1>5. CASE r.status \in Waiting /\ ~(on /\ r.rsvp = "going")
               /\ ~(on /\ r.rsvp # "going" /\ admitted)
    <2>1. Sorted(r, on, admitted) = EndEntry(r) BY <1>5 DEF Sorted
    <2> QED BY <1>1, <2>1, EndEntryRow DEF Quiet, Fine, Waiting
  <1> QED BY <1>2, <1>3, <1>4, <1>5

\* A row that reconciliation tidies up takes no seat it did not take.
LEMMA TidyRow ==
  ASSUME NEW r, Fine(r), NEW late \in Nat, NEW on \in BOOLEAN,
         NEW admitted \in BOOLEAN
  PROVE  LET s == Sorted(Lapsed(Expired(r, late), late), on, admitted)
         IN  /\ Quiet(r, s)
             /\ Takes(s, 0) => Takes(r, 0)
             /\ s.status = "invited" => s.left + late > 0
             /\ s.status \in Waiting => on
  <1> DEFINE x == Expired(r, late)
             y == Lapsed(x, late)
             s == Sorted(y, on, admitted)
  <1> HIDE DEF x, y, s
  <1>1. /\ Quiet(r, x) /\ x.rsvp = r.rsvp /\ x.hold = r.hold
        /\ x.status = "invited" =>
             r.status = "invited" /\ x.left = r.left /\ r.left + late > 0
    BY ExpiredRow DEF x
  <1>2. /\ Quiet(x, y) /\ y.status = x.status /\ y.left = x.left
        /\ y.rsvp = "going" => x.rsvp = "going"
        /\ y.rsvp = "pending" => x.rsvp = "pending" /\ y.hold = x.hold
    <2>1. Fine(x) BY <1>1 DEF Quiet
    <2> QED BY <2>1, LapsedRow DEF y
  <1>3. /\ Quiet(y, s) /\ s.rsvp = y.rsvp /\ s.hold = y.hold
        /\ s.status = "invited" => y.status = "invited" /\ s.left = y.left
        /\ s.status \in Waiting => on
    <2>1. Fine(y) BY <1>2 DEF Quiet
    <2> QED BY <2>1, SortedRow DEF s
  <1>4. Quiet(r, s) BY <1>1, <1>2, <1>3 DEF Quiet
  <1>5. Takes(s, 0) => Takes(r, 0)
    BY <1>1, <1>2, <1>3 DEF Takes, Pending, Offered
  <1>6. s.status = "invited" => s.left + late > 0 BY <1>1, <1>2, <1>3
  <1> QED BY <1>3, <1>4, <1>5, <1>6 DEF s, x, y

\* Whoever takes a seat for good has no entry that waits.
LEMMA AttendingRow ==
  ASSUME NEW r, Fine(r)
  PROVE  LET s == Attending(r)
         IN  /\ Quiet(r, s)
             /\ s.rsvp = "going"
             /\ s.status \notin Waiting
  <1> DEFINE t == [r EXCEPT !.rsvp = "going", !.hold = 0]
  <1>1. r \in Row BY DEF Fine
  <1>2. /\ t \in Row /\ t.rsvp = "going" /\ t.status = r.status
        /\ t.ahead = r.ahead /\ t.remind = r.remind
    <2>1. t \in Row
      <3>1. 0 \in Int /\ "going" \in {"none", "pending", "going"} OBVIOUS
      <3> QED BY <1>1, <3>1, Zenon DEF Row
    <2>2. /\ t.rsvp = "going" /\ t.status = r.status
          /\ t.ahead = r.ahead /\ t.remind = r.remind
      BY <1>1 DEF Row
    <2> QED BY <2>1, <2>2
  <1>3. CASE r.status \in Waiting
    <2>1. Attending(r) = Accepted(t) BY <1>3 DEF Attending
    <2>2. LET s == Accepted(t)
          IN  /\ s \in Row /\ s.rsvp = t.rsvp /\ s.remind = t.remind
              /\ s.status = "accepted" /\ s.ahead = {}
      BY <1>2, AcceptedRow
    <2> QED BY <1>2, <2>1, <2>2 DEF Quiet, Fine, Waiting
  <1>4. CASE r.status \notin Waiting
    <2>1. Attending(r) = t BY <1>4 DEF Attending
    <2> QED BY <1>2, <1>4, <2>1 DEF Quiet, Fine
  <1> QED BY <1>3, <1>4

\* A row loses its entry and its reminder, and may have lost its registration.
LEMMA GoneRow ==
  ASSUME NEW r \in Row, r.status \notin Waiting => r.ahead = {}
  PROVE  LET s == Gone(r)
         IN  /\ s \in Row /\ s.rsvp = r.rsvp /\ s.hold = r.hold
             /\ s.status = "none" /\ s.ahead = {} /\ ~s.remind
  <1> DEFINE t == IF r.status \in Waiting \cup {"accepted"} THEN EndEntry(r) ELSE r
             s == [t EXCEPT !.remind = FALSE]
  <1>1. /\ t \in Row /\ t.rsvp = r.rsvp /\ t.hold = r.hold
        /\ t.status = "none" /\ t.ahead = {}
    <2>1. CASE r.status \in Waiting \cup {"accepted"}
      BY <2>1, EndEntryRow
    <2>2. CASE r.status \notin Waiting \cup {"accepted"}
      BY <2>2 DEF Row
    <2> QED BY <2>1, <2>2
  <1> HIDE DEF t
  <1>2. s \in Row
    BY <1>1, Zenon DEF Row
  <1>3. /\ s.rsvp = t.rsvp /\ s.hold = t.hold /\ s.status = t.status
        /\ s.ahead = t.ahead /\ ~s.remind
    BY <1>1 DEF Row
  <1>4. Gone(r) = s BY DEF Gone, t
  <1> QED BY <1>1, <1>2, <1>3, <1>4

LEMMA HeldRow ==
  ASSUME NEW r, Fine(r), r.rsvp = "none"
  PROVE  LET s == Held(r)
         IN  Quiet(r, s)
  <1> DEFINE s == Held(r)
  <1>1. r \in Row BY DEF Fine
  <1>2. s \in Row
    <2>1. Hold \in Int /\ "pending" \in {"none", "pending", "going"}
      BY TimeAssumption
    <2> QED BY <1>1, <2>1, Zenon DEF Row, Held
  <1>3. /\ s.status = r.status /\ s.ahead = r.ahead /\ s.remind = r.remind
    BY <1>1 DEF Row, Held
  <1> QED BY <1>2, <1>3 DEF Quiet, Fine

-----------------------------------------------------------------------------
(* Books.                                                                   *)

\* A transaction whose every row is quiet keeps the order of the queue.
LEMMA QuietBook ==
  ASSUME NEW b, Good(b), NEW c, c \in [People -> Row],
         \A p \in People : Quiet(b[p], c[p])
  PROVE  Good(c) /\ Keeps(b, c)
  <1>1. \A p \in People : Fine(c[p]) BY DEF Quiet
  <1>2. InOrder(c)
    <2>1. \A p \in People : p \notin c[p].ahead
      BY <1>1 DEF Quiet, Good, InOrder, Fine
    <2>2. \A p \in People : c[p].status \notin Waiting => c[p].ahead = {}
      BY <1>1 DEF Fine
    <2>3. ASSUME NEW p \in People, NEW q \in People, q \in c[p].ahead
          PROVE  c[q].ahead \subseteq c[p].ahead
      <3>1. c[p].status \in Waiting /\ c[p].ahead = b[p].ahead
        BY <2>2, <2>3 DEF Quiet
      <3>2. c[q].ahead = b[q].ahead \/ c[q].ahead = {}
        BY <2>2 DEF Quiet
      <3> QED BY <2>3, <3>1, <3>2 DEF Good, InOrder
    <2>4. ASSUME NEW p \in People, NEW q \in People,
                 c[p].status \in Waiting, c[q].status \in Waiting
          PROVE  p = q \/ p \in c[q].ahead \/ q \in c[p].ahead
      BY <2>4 DEF Quiet, Good, InOrder
    <2> QED BY <2>1, <2>2, <2>3, <2>4 DEF InOrder
  <1>3. FirstServed(c)
    <2> SUFFICES ASSUME NEW p \in People, NEW q \in People,
                        p \in c[q].ahead, c[p].status = "queued",
                        c[q].status = "invited"
                 PROVE  FALSE
      BY DEF FirstServed
    <2>1. /\ c[p].status = b[p].status
          /\ c[q].status = b[q].status /\ c[q].ahead = b[q].ahead
      BY DEF Quiet, Waiting
    <2> QED BY <2>1 DEF Good, FirstServed
  <1> QED BY <1>1, <1>2, <1>3 DEF Good, Keeps, Quiet

LEMMA TidyBook ==
  ASSUME NEW b, Good(b), NEW late \in Nat, NEW on \in BOOLEAN
  PROVE  LET c == Tidy(b, on, late)
         IN  /\ Good(c) /\ Keeps(b, c) /\ Frees(b, c)
             /\ \A p \in People : c[p].status = "invited" => c[p].left + late > 0
             /\ ~on => \A p \in People : c[p].status \notin Waiting
  <1> DEFINE c == Tidy(b, on, late)
  <1>1. ASSUME NEW p \in People
        PROVE  /\ Quiet(b[p], c[p])
               /\ Takes(c[p], 0) => Takes(b[p], 0)
               /\ c[p].status = "invited" => c[p].left + late > 0
               /\ c[p].status \in Waiting => on
    <2>1. c[p] = Sorted(Lapsed(Expired(b[p], late), late), on, p \in eligible)
      BY DEF Tidy
    <2>2. Fine(b[p]) BY DEF Good
    <2> DEFINE a == p \in eligible
    <2>3. a \in BOOLEAN OBVIOUS
    <2>4. c[p] = Sorted(Lapsed(Expired(b[p], late), late), on, a) BY <2>1
    <2> HIDE DEF c, a
    <2> QED BY <2>2, <2>3, <2>4, TidyRow
  <1>2. c \in [People -> Row]
    <2>1. \A p \in People : c[p] \in Row BY <1>1 DEF Quiet, Fine
    <2>2. c = [p \in People |-> c[p]] BY DEF Tidy
    <2> HIDE DEF c
    <2> QED BY <2>1, <2>2
  <1> HIDE DEF c
  <1>3. Good(c) /\ Keeps(b, c) BY <1>1, <1>2, QuietBook
  <1> QED BY <1>1, <1>3 DEF Frees, c

-----------------------------------------------------------------------------
(* Counting.                                                                *)

LEMMA SomePeople ==
  ASSUME NEW S \in SUBSET People
  PROVE  IsFiniteSet(S) /\ Cardinality(S) \in Nat
  BY PeopleAssumption, FS_Subset, FS_CardinalityType

LEMMA FewerPeople ==
  ASSUME NEW S \in SUBSET People, NEW T \in SUBSET S
  PROVE  Cardinality(T) <= Cardinality(S)
  BY SomePeople, FS_Subset

LEMMA SeatsCount ==
  ASSUME NEW b, NEW late
  PROVE  Seats(b, late) \in Nat
  BY SomePeople DEF Seats

\* Only those of S may have taken a seat.
LEMMA SeatsGrow ==
  ASSUME NEW b, NEW c, NEW S \in SUBSET People,
         \A p \in People : Takes(c[p], 0) => Takes(b[p], 0) \/ p \in S
  PROVE  Seats(c, 0) <= Seats(b, 0) + Cardinality(S)
  <1> DEFINE B == {p \in People : Takes(b[p], 0)}
             C == {p \in People : Takes(c[p], 0)}
  <1>1. /\ B \in SUBSET People /\ C \in SUBSET People
        /\ B \cup S \in SUBSET People /\ B \cap S \in SUBSET People
        /\ C \in SUBSET (B \cup S)
    OBVIOUS
  <1>2. Seats(c, 0) = Cardinality(C) /\ Seats(b, 0) = Cardinality(B)
    BY DEF Seats
  <1> HIDE DEF B, C
  <1>3. Cardinality(C) <= Cardinality(B \cup S)
    BY <1>1, FewerPeople
  <1>4. Cardinality(B \cup S) = Cardinality(B) + Cardinality(S) - Cardinality(B \cap S)
    <2>1. IsFiniteSet(B) /\ IsFiniteSet(S) BY <1>1, SomePeople
    <2> QED BY <2>1, FS_Union
  <1>5. /\ Cardinality(C) \in Nat /\ Cardinality(B) \in Nat
        /\ Cardinality(S) \in Nat /\ Cardinality(B \cap S) \in Nat
    BY <1>1, SomePeople
  <1> QED BY <1>2, <1>3, <1>4, <1>5

LEMMA SeatsFreed ==
  ASSUME NEW b, NEW c, Frees(b, c)
  PROVE  Seats(c, 0) <= Seats(b, 0)
  <1>1. Seats(c, 0) <= Seats(b, 0) + Cardinality({})
    BY SeatsGrow DEF Frees
  <1> QED BY <1>1, FS_EmptySet, SeatsCount

\* A later reading of the clock finds no more seats taken.
LEMMA SeatsLate ==
  ASSUME NEW b \in [People -> Row], NEW late \in Nat
  PROVE  Seats(b, 0) <= Seats(b, late)
  <1> DEFINE B == {p \in People : Takes(b[p], late)}
             C == {p \in People : Takes(b[p], 0)}
  <1>1. ASSUME NEW p \in C PROVE p \in B
    <2>1. b[p] \in Row OBVIOUS
    <2>2. b[p].hold \in Int /\ b[p].left \in Int BY <2>1 DEF Row
    <2> QED BY <2>2 DEF Takes, Pending, Offered
  <1>2. B \in SUBSET People /\ C \in SUBSET B BY <1>1
  <1>3. Cardinality(C) <= Cardinality(B)
    <2> HIDE DEF B, C
    <2> QED BY <1>2, FewerPeople
  <1> QED BY <1>3 DEF Seats

\* The first n of a queue are at most n.
LEMMA FirstFew ==
  ASSUME NEW b, Good(b), NEW S \in SUBSET People,
         \A p \in S : b[p].status \in Waiting, NEW n \in Nat
  PROVE  Cardinality(First(b, S, n)) <= n
  <1> DEFINE F == First(b, S, n)
             rank == [p \in F |-> Cardinality(S \cap b[p].ahead)]
  <1>1. F \in SUBSET S /\ F \in SUBSET People BY DEF First
  <1>2. ASSUME NEW p \in F
        PROVE  rank[p] \in 0..n-1
    <2>1. Cardinality(S \cap b[p].ahead) < n BY DEF First
    <2>2. Cardinality(S \cap b[p].ahead) \in Nat
      <3>1. S \cap b[p].ahead \in SUBSET People OBVIOUS
      <3> QED BY <3>1, SomePeople
    <2> QED BY <2>1, <2>2
  <1>3. ASSUME NEW p \in F, NEW q \in F, p \in b[q].ahead
        PROVE  rank[p] < rank[q]
    <2> DEFINE P == S \cap b[p].ahead
               Q == S \cap b[q].ahead
    <2>1. P \in SUBSET Q /\ p \in Q /\ p \notin P /\ Q \in SUBSET People
      BY <1>1, <1>3 DEF Good, InOrder
    <2>2. IsFiniteSet(Q) /\ Cardinality(P) \in Nat /\ Cardinality(Q) \in Nat
      BY <2>1, SomePeople
    <2>3. Cardinality(P) <= Cardinality(Q) /\ (Cardinality(Q) = Cardinality(P) => Q = P)
      <3> HIDE DEF P, Q
      <3> QED BY <2>1, <2>2, FS_Subset
    <2>4. Q # P BY <2>1
    <2>5. rank[p] = Cardinality(P) /\ rank[q] = Cardinality(Q) OBVIOUS
    <2> HIDE DEF P, Q
    <2> QED BY <2>2, <2>3, <2>4, <2>5
  <1>4. ASSUME NEW p \in F, NEW q \in F, p # q
        PROVE  rank[p] # rank[q]
    <2>1. p \in b[q].ahead \/ q \in b[p].ahead
      BY <1>1, <1>4 DEF Good, InOrder
    <2>2. rank[p] \in Int /\ rank[q] \in Int
      <3>1. rank[p] \in 0..n-1 /\ rank[q] \in 0..n-1 BY <1>2
      <3> HIDE DEF rank
      <3> QED BY <3>1
    <2>3. p \in b[q].ahead => rank[p] < rank[q] BY <1>3
    <2>4. q \in b[p].ahead => rank[q] < rank[p] BY <1>3
    <2> HIDE DEF rank, F
    <2> QED BY <2>1, <2>2, <2>3, <2>4
  <1>5. rank \in [F -> 0..n-1] BY <1>2
  <1>6. IsFiniteSet(0..n-1) /\ Cardinality(0..n-1) = n
    <2>1. 0 \in Int /\ n - 1 \in Int OBVIOUS
    <2>2. IsFiniteSet(0..n-1) /\ Cardinality(0..n-1) = IF 0 > n-1 THEN 0 ELSE n-1-0+1
      BY <2>1, FS_Interval
    <2> QED BY <2>2
  <1>7. IsFiniteSet(F) /\ Cardinality(F) \in Nat BY <1>1, SomePeople
  <1>8. SUFFICES ASSUME n < Cardinality(F) PROVE FALSE
    BY <1>7
  <1> HIDE DEF F, rank
  <1>9. \E x, y \in F : x # y /\ rank[x] = rank[y]
    BY <1>5, <1>6, <1>7, <1>8, FS_PigeonHole
  <1> QED BY <1>4, <1>9

-----------------------------------------------------------------------------
(* Reconciliation.                                                          *)

LEMMA OfferedRow ==
  ASSUME NEW r \in Row, NEW k \in Int
  PROVE  LET s == Invited(r, k)
         IN  /\ s \in Row /\ s.status = "invited" /\ s.left = k
             /\ s.rsvp = r.rsvp /\ s.hold = r.hold
             /\ s.ahead = r.ahead /\ s.remind = r.remind
  <1> DEFINE s == Invited(r, k)
  <1>1. "invited" \in Waiting \cup {"none", "accepted"} BY DEF Waiting
  <1>2. s \in Row BY <1>1, Zenon DEF Row, Invited
  <1>3. /\ s.status = "invited" /\ s.left = k
        /\ s.rsvp = r.rsvp /\ s.hold = r.hold
        /\ s.ahead = r.ahead /\ s.remind = r.remind
    BY DEF Row, Invited
  <1> QED BY <1>2, <1>3

LEMMA QueuedRow ==
  ASSUME NEW r \in Row
  PROVE  LET s == Requeued(r)
         IN  /\ s \in Row /\ s.status = "queued"
             /\ s.rsvp = r.rsvp /\ s.hold = r.hold
             /\ s.ahead = r.ahead /\ s.remind = r.remind
  <1> DEFINE s == Requeued(r)
  <1>1. "queued" \in Waiting \cup {"none", "accepted"} /\ 0 \in Int BY DEF Waiting
  <1>2. s \in Row BY <1>1, Zenon DEF Row, Requeued
  <1>3. /\ s.status = "queued"
        /\ s.rsvp = r.rsvp /\ s.hold = r.hold
        /\ s.ahead = r.ahead /\ s.remind = r.remind
    BY DEF Row, Requeued
  <1> QED BY <1>2, <1>3

\* Entries change between queued and invited, and nothing else does.
Moves(r, s) ==
  /\ s \in Row
  /\ s.rsvp = r.rsvp /\ s.hold = r.hold /\ s.remind = r.remind
  /\ s.ahead = r.ahead
  /\ s.status = r.status \/ (s.status \in Waiting /\ r.status \in Waiting)

LEMMA MovedBook ==
  ASSUME NEW b, Good(b), NEW c, c \in [People -> Row],
         \A p \in People : Moves(b[p], c[p]), FirstServed(c)
  PROVE  Good(c) /\ Keeps(b, c)
  <1>1. \A p \in People : Fine(c[p]) BY DEF Moves, Good, Fine, Waiting
  <1>2. InOrder(c) BY DEF Moves, Good, InOrder
  <1> QED BY <1>1, <1>2 DEF Good, Keeps, Moves

\* Whoever joined before one of the first is one of the first.
LEMMA FirstClosed ==
  ASSUME NEW b, Good(b), NEW S \in SUBSET People, NEW n \in Int,
         NEW q \in First(b, S, n), NEW p \in S, p \in b[q].ahead
  PROVE  p \in First(b, S, n)
  <1> DEFINE P == S \cap b[p].ahead
             Q == S \cap b[q].ahead
  <1>1. q \in People /\ Cardinality(Q) < n BY DEF First
  <1>2. P \in SUBSET Q /\ Q \in SUBSET People /\ P \in SUBSET People
    BY <1>1 DEF Good, InOrder
  <1>3. Cardinality(P) \in Nat /\ Cardinality(Q) \in Nat BY <1>2, SomePeople
  <1>4. Cardinality(P) <= Cardinality(Q)
    <2> HIDE DEF P, Q
    <2> QED BY <1>2, FewerPeople
  <1>5. Cardinality(P) < n BY <1>1, <1>3, <1>4
  <1> QED BY <1>5 DEF First

\* Whoever joined after one of the newest is one of the newest.
LEMMA NewestClosed ==
  ASSUME NEW b, Good(b), NEW S \in SUBSET People, NEW n \in Int,
         NEW p \in Newest(b, S, n), NEW q \in S, p \in b[q].ahead
  PROVE  q \in Newest(b, S, n)
  <1> DEFINE P == {x \in S : p \in b[x].ahead}
             Q == {x \in S : q \in b[x].ahead}
  <1>1. p \in People /\ Cardinality(P) < n BY DEF Newest
  <1>2. Q \in SUBSET P /\ P \in SUBSET People /\ Q \in SUBSET People
    BY <1>1 DEF Good, InOrder
  <1>3. Cardinality(P) \in Nat /\ Cardinality(Q) \in Nat BY <1>2, SomePeople
  <1>4. Cardinality(Q) <= Cardinality(P)
    <2> HIDE DEF P, Q
    <2> QED BY <1>2, FewerPeople
  <1>5. Cardinality(Q) < n BY <1>1, <1>3, <1>4
  <1> QED BY <1>5 DEF Newest

LEMMA OfferBook ==
  ASSUME NEW ev, ev.startIn \in Int, NEW b, Good(b),
         NEW late \in Nat, NEW n \in Int,
         NEW S, S = First(b, With(b, "queued"), n),
         NEW c, c = Offer(ev, b, S, late)
  PROVE  /\ Good(c) /\ Keeps(b, c)
         /\ \A p \in People :
              /\ Takes(c[p], 0) => Takes(b[p], 0) \/ p \in S
              /\ c[p].status = "invited" =>
                   \/ b[p].status = "invited" /\ c[p].left = b[p].left
                   \/ c[p].left = Deadline(ev, late)
  <1> DEFINE W == With(b, "queued")
             k == Deadline(ev, late)
  <1>1. k \in Int BY TimeAssumption DEF Lesser, Deadline
  <1>2. W \in SUBSET People /\ \A p \in W : b[p].status = "queued" BY DEF With
  <1>3. S \in SUBSET W BY DEF First
  <1>4. c = [p \in People |-> IF p \in S
                              THEN Invited(b[p], k) ELSE b[p]]
    BY DEF Offer
  <1>5. FirstServed(b) /\ \A p \in People : Fine(b[p]) /\ b[p] \in Row
    BY DEF Good, Fine
  <1>6. ASSUME NEW p \in People, NEW q \in W, q \in S, p \in W, p \in b[q].ahead
        PROVE  p \in S
    BY <1>2, <1>6, FirstClosed
  <1> HIDE DEF k, W
  <1>7. ASSUME NEW p \in People
        PROVE  /\ Moves(b[p], c[p])
               /\ p \in S => c[p].status = "invited" /\ c[p].left = k
               /\ p \notin S => c[p] = b[p]
    <2>1. CASE p \in S
      <3>1. c[p] = Invited(b[p], k) BY <1>4, <2>1
      <3>2. b[p].status = "queued" BY <1>2, <1>3, <2>1
      <3>3. /\ c[p] \in Row /\ c[p].status = "invited" /\ c[p].left = k
            /\ c[p].rsvp = b[p].rsvp /\ c[p].hold = b[p].hold
            /\ c[p].ahead = b[p].ahead /\ c[p].remind = b[p].remind
        BY <1>1, <1>5, <3>1, OfferedRow
      <3> QED BY <2>1, <3>2, <3>3 DEF Moves, Waiting
    <2>2. CASE p \notin S
      <3>1. c[p] = b[p] BY <1>4, <2>2
      <3> QED BY <1>5, <2>2, <3>1 DEF Moves
    <2> QED BY <2>1, <2>2
  <1>8. c \in [People -> Row]
    <2>1. \A p \in People : c[p] \in Row BY <1>7 DEF Moves
    <2>2. c = [p \in People |-> c[p]] BY <1>4
    <2> QED BY <2>1, <2>2
  <1>9. FirstServed(c)
    <2> SUFFICES ASSUME NEW p \in People, NEW q \in People,
                        p \in c[q].ahead, c[p].status = "queued",
                        c[q].status = "invited"
                 PROVE  FALSE
      BY DEF FirstServed
    <2>1. c[p] = b[p] /\ p \notin S /\ p \in b[q].ahead BY <1>7 DEF Moves
    <2>2. p \in W BY <2>1 DEF W, With
    <2>3. CASE q \in S BY <1>3, <1>6, <2>1, <2>2, <2>3
    <2>4. CASE q \notin S BY <1>5, <1>7, <2>1, <2>4 DEF FirstServed
    <2> QED BY <2>3, <2>4
  <1>10. Good(c) /\ Keeps(b, c) BY <1>7, <1>8, <1>9, MovedBook
  <1>11. ASSUME NEW p \in People
         PROVE  /\ Takes(c[p], 0) => Takes(b[p], 0) \/ p \in S
                /\ c[p].status = "invited" =>
                     \/ b[p].status = "invited" /\ c[p].left = b[p].left
                     \/ c[p].left = k
    BY <1>7
  <1> QED BY <1>10, <1>11 DEF k, W

LEMMA TakeBackBook ==
  ASSUME NEW b, Good(b), NEW n \in Int
  PROVE  LET S == Newest(b, With(b, "invited"), n)
             c == TakeBack(b, S)
         IN  /\ Good(c) /\ Keeps(b, c) /\ Frees(b, c)
             /\ \A p \in People :
                  c[p].status = "invited" =>
                    b[p].status = "invited" /\ c[p].left = b[p].left
  <1> DEFINE W == With(b, "invited")
             S == Newest(b, W, n)
             c == TakeBack(b, S)
  <1>2. W \in SUBSET People /\ \A p \in W : b[p].status = "invited" BY DEF With
  <1>3. S \in SUBSET W BY DEF Newest
  <1>4. c = [p \in People |-> IF p \in S
                              THEN Requeued(b[p]) ELSE b[p]]
    BY DEF TakeBack
  <1>5. FirstServed(b) /\ \A p \in People : Fine(b[p]) /\ b[p] \in Row
    BY DEF Good, Fine
  <1>6. ASSUME NEW p \in W, NEW q \in W, p \in S, p \in b[q].ahead
        PROVE  q \in S
    BY <1>2, <1>6, NewestClosed
  <1> HIDE DEF c, S, W
  <1>7. ASSUME NEW p \in People
        PROVE  /\ Moves(b[p], c[p])
               /\ p \in S => c[p].status = "queued"
               /\ p \notin S => c[p] = b[p]
    <2>1. CASE p \in S
      <3>1. c[p] = Requeued(b[p]) BY <1>4, <2>1
      <3>2. b[p].status = "invited" BY <1>2, <1>3, <2>1
      <3>3. /\ c[p] \in Row /\ c[p].status = "queued"
            /\ c[p].rsvp = b[p].rsvp /\ c[p].hold = b[p].hold
            /\ c[p].ahead = b[p].ahead /\ c[p].remind = b[p].remind
        BY <1>5, <3>1, QueuedRow
      <3> QED BY <2>1, <3>2, <3>3 DEF Moves, Waiting
    <2>2. CASE p \notin S
      <3>1. c[p] = b[p] BY <1>4, <2>2
      <3> QED BY <1>5, <2>2, <3>1 DEF Moves
    <2> QED BY <2>1, <2>2
  <1>8. c \in [People -> Row]
    <2>1. \A p \in People : c[p] \in Row BY <1>7 DEF Moves
    <2>2. c = [p \in People |-> c[p]] BY <1>4
    <2> QED BY <2>1, <2>2
  <1>9. FirstServed(c)
    <2> SUFFICES ASSUME NEW p \in People, NEW q \in People,
                        p \in c[q].ahead, c[p].status = "queued",
                        c[q].status = "invited"
                 PROVE  FALSE
      BY DEF FirstServed
    <2>1. c[q] = b[q] /\ q \notin S /\ p \in b[q].ahead BY <1>7 DEF Moves
    <2>2. q \in W BY <2>1 DEF W, With
    <2>3. CASE p \in S BY <1>3, <1>6, <2>1, <2>2, <2>3
    <2>4. CASE p \notin S BY <1>5, <1>7, <2>1, <2>4 DEF FirstServed
    <2> QED BY <2>3, <2>4
  <1>10. Good(c) /\ Keeps(b, c) BY <1>7, <1>8, <1>9, MovedBook
  <1>11. ASSUME NEW p \in People
         PROVE  /\ Takes(c[p], 0) => Takes(b[p], 0)
                /\ c[p].status = "invited" =>
                     b[p].status = "invited" /\ c[p].left = b[p].left
    BY <1>7 DEF Moves, Takes, Pending, Offered
  <1> QED BY <1>10, <1>11 DEF c, S, W, Frees

\* The occupancy grows up to the capacity at most.
Fits(b, c, n) == Seats(c, 0) <= Seats(b, 0) \/ Seats(c, 0) <= n

LEMMA FitsTransitive ==
  ASSUME NEW b, NEW c, NEW d, NEW n \in Nat, Fits(b, c, n), Fits(c, d, n)
  PROVE  Fits(b, d, n)
  BY SeatsCount DEF Fits

LEMMA FreesFits ==
  ASSUME NEW b, NEW c, NEW n, Frees(b, c)
  PROVE  Fits(b, c, n)
  BY SeatsFreed DEF Fits

\* A late pass lives in the same book; its offers are alive to it.
Alive(b, late) ==
  \A p \in People : b[p].status = "invited" => b[p].left + late > 0

LEMMA OfferFits ==
  ASSUME NEW ev, ev.startIn \in Int, NEW b, Good(b),
         NEW late \in Nat, NEW n \in Int,
         NEW S, S = First(b, With(b, "queued"), n),
         NEW c, c = Offer(ev, b, S, late)
  PROVE  /\ Good(c) /\ Keeps(b, c)
         /\ n >= 0 => Seats(c, 0) <= Seats(b, late) + n
         /\ ev.startIn + late > 0 /\ Alive(b, late) => Alive(c, late)
  <1>1. /\ Good(c) /\ Keeps(b, c)
        /\ \A p \in People :
             /\ Takes(c[p], 0) => Takes(b[p], 0) \/ p \in S
             /\ c[p].status = "invited" =>
                  \/ b[p].status = "invited" /\ c[p].left = b[p].left
                  \/ c[p].left = Deadline(ev, late)
    BY OfferBook
  <1>2. ev.startIn + late > 0 => Deadline(ev, late) + late > 0
    BY TimeAssumption DEF Lesser, Deadline
  <1>3. S \in SUBSET People /\ (n >= 0 => Cardinality(S) <= n)
    <2> DEFINE W == With(b, "queued")
    <2>1. W \in SUBSET People /\ \A p \in W : b[p].status \in Waiting
      BY DEF With, Waiting
    <2>2. S = First(b, W, n) OBVIOUS
    <2> HIDE DEF W
    <2>3. S \in SUBSET People BY <2>1, <2>2 DEF First
    <2>4. n >= 0 => n \in Nat OBVIOUS
    <2> QED BY <2>1, <2>2, <2>3, <2>4, FirstFew
  <1>4. n >= 0 => Seats(c, 0) <= Seats(b, late) + n
    <2>1. Seats(c, 0) <= Seats(b, 0) + Cardinality(S) BY <1>1, <1>3, SeatsGrow
    <2>2. Seats(b, 0) <= Seats(b, late) BY SeatsLate DEF Good
    <2>3. /\ Seats(b, 0) \in Nat /\ Seats(c, 0) \in Nat
          /\ Seats(b, late) \in Nat /\ Cardinality(S) \in Nat
      BY <1>3, SeatsCount, SomePeople
    <2> QED BY <1>3, <2>1, <2>2, <2>3
  <1>5. ev.startIn + late > 0 /\ Alive(b, late) => Alive(c, late)
    BY <1>1, <1>2 DEF Alive
  <1> QED BY <1>1, <1>4, <1>5

LEMMA ReofferedBook ==
  ASSUME NEW ev, ev.startIn \in Int, ev.capacity \in Nat, NEW b, Good(b),
         NEW late \in Nat, ev.startIn + late > 0, Alive(b, late)
  PROVE  LET c == Reoffered(ev, b, late)
         IN  Good(c) /\ Keeps(b, c) /\ Fits(b, c, ev.capacity) /\ Alive(c, late)
  <1> DEFINE n == ev.capacity - Seats(b, late)
             W == With(b, "queued")
             S == First(b, W, n)
             c == Reoffered(ev, b, late)
  <1>1. n \in Int /\ Seats(b, late) \in Nat BY SeatsCount
  <1>2. CASE n < 0
    <2> DEFINE m == -n
               d == TakeBack(b, Newest(b, With(b, "invited"), m))
    <2>1. m \in Int BY <1>1
    <2>2. c = d BY <1>2 DEF Reoffered
    <2> HIDE DEF m, n, c
    <2>3. /\ Good(d) /\ Keeps(b, d) /\ Frees(b, d)
          /\ \A p \in People :
               d[p].status = "invited" =>
                 b[p].status = "invited" /\ d[p].left = b[p].left
      BY <2>1, TakeBackBook
    <2> HIDE DEF d
    <2>4. Fits(b, c, ev.capacity) BY <2>2, <2>3, FreesFits
    <2>5. Alive(c, late) BY <2>2, <2>3 DEF Alive
    <2> QED BY <2>2, <2>3, <2>4, <2>5 DEF c
  <1>3. CASE n >= 0
    <2>1. n \in Nat /\ n + Seats(b, late) = ev.capacity BY <1>1, <1>3
    <2>2. c = Offer(ev, b, S, late) BY <1>1, <1>3 DEF Reoffered
    <2>3. S = First(b, With(b, "queued"), n) OBVIOUS
    <2> HIDE DEF n, S, c
    <2>4. /\ Good(c) /\ Keeps(b, c) /\ Alive(c, late)
          /\ Seats(c, 0) <= Seats(b, late) + n
      <3>1. n \in Int BY <2>1
      <3> QED BY <2>1, <2>2, <2>3, <3>1, OfferFits
    <2>5. Fits(b, c, ev.capacity) BY <1>1, <2>1, <2>4, SeatsCount DEF Fits
    <2> QED BY <2>4, <2>5 DEF c
  <1> QED BY <1>1, <1>2, <1>3

LEMMA BehindRow ==
  ASSUME NEW r \in Row, NEW S
  PROVE  LET s == Behind(r, S)
         IN  /\ s \in Row /\ s.ahead = r.ahead \cap S
             /\ s.rsvp = r.rsvp /\ s.hold = r.hold /\ s.status = r.status
             /\ s.left = r.left /\ s.remind = r.remind
  <1> DEFINE s == Behind(r, S)
  <1>1. s \in Row
    <2>1. r.ahead \cap S \in SUBSET People BY DEF Row
    <2> QED BY <2>1, Zenon DEF Row, Behind
  <1>2. /\ s.ahead = r.ahead \cap S
        /\ s.rsvp = r.rsvp /\ s.hold = r.hold /\ s.status = r.status
        /\ s.left = r.left /\ s.remind = r.remind
    BY DEF Row, Behind
  <1> QED BY <1>1, <1>2

LEMMA InLineBook ==
  ASSUME NEW b, Good(b)
  PROVE  LET c == InLine(b)
         IN  /\ Good(c) /\ WaitingAhead(c) /\ Keeps(b, c) /\ Frees(b, c)
             /\ \A late : Alive(b, late) => Alive(c, late)
  <1> DEFINE W == {q \in People : b[q].status \in Waiting}
             c == InLine(b)
  <1>1. c = [p \in People |-> Behind(b[p], W)] BY DEF InLine
  <1>2. \A p \in People : b[p] \in Row /\ Fine(b[p]) BY DEF Good
  <1>3. \A p \in People : p \in W <=> b[p].status \in Waiting OBVIOUS
  <1> HIDE DEF c, W
  <1>4. ASSUME NEW p \in People
        PROVE  /\ c[p] \in Row /\ c[p].ahead = b[p].ahead \cap W
               /\ c[p].rsvp = b[p].rsvp /\ c[p].hold = b[p].hold
               /\ c[p].status = b[p].status
               /\ c[p].left = b[p].left /\ c[p].remind = b[p].remind
    <2>1. c[p] = Behind(b[p], W) BY <1>1
    <2> QED BY <1>2, <2>1, BehindRow
  <1>5. c \in [People -> Row]
    <2>1. c = [p \in People |-> c[p]] BY <1>1
    <2> QED BY <1>4, <2>1
  <1>6. \A p \in People : Fine(c[p]) BY <1>2, <1>4 DEF Fine
  <1>7. InOrder(c)
    <2>1. \A p \in People : p \notin c[p].ahead BY <1>4 DEF Good, InOrder
    <2>2. \A p \in People : c[p].status \notin Waiting => c[p].ahead = {}
      BY <1>6 DEF Fine
    <2>3. \A p, q \in People : q \in c[p].ahead => c[q].ahead \subseteq c[p].ahead
      BY <1>4 DEF Good, InOrder
    <2>4. ASSUME NEW p \in People, NEW q \in People,
                 c[p].status \in Waiting, c[q].status \in Waiting
          PROVE  p = q \/ p \in c[q].ahead \/ q \in c[p].ahead
      <3>1. p \in W /\ q \in W BY <1>3, <1>4, <2>4
      <3>2. p = q \/ p \in b[q].ahead \/ q \in b[p].ahead
        BY <1>3, <3>1 DEF Good, InOrder
      <3> QED BY <1>4, <3>1, <3>2
    <2> QED BY <2>1, <2>2, <2>3, <2>4 DEF InOrder
  <1>8. FirstServed(c) BY <1>4 DEF Good, FirstServed
  <1>9. WaitingAhead(c) BY <1>3, <1>4, RowFields DEF WaitingAhead
  <1>10. Frees(b, c) BY <1>4 DEF Frees, Takes, Pending, Offered
  <1>11. Keeps(b, c) BY <1>4 DEF Keeps
  <1>12. \A late : Alive(b, late) => Alive(c, late) BY <1>4 DEF Alive
  <1> QED BY <1>5, <1>6, <1>7, <1>8, <1>9, <1>10, <1>11, <1>12 DEF Good, c

\* Every transaction ends with a book in order, and nobody is offered a seat
\* there is not.
LEMMA ReconcileBook ==
  ASSUME NEW ev, ev.startIn \in Int, ev.capacity \in Nat, NEW b, Good(b),
         NEW late \in Nat
  PROVE  LET c == Reconcile(ev, b, late)
         IN  /\ Good(c) /\ WaitingAhead(c) /\ Keeps(b, c)
             /\ Fits(b, c, ev.capacity) /\ Alive(c, late)
  <1> DEFINE on == Open(ev, late) /\ ev.waitlist
             t == Tidy(b, on, late)
             u == IF on THEN Reoffered(ev, t, late) ELSE t
             c == InLine(u)
  <1>1. Reconcile(ev, b, late) = c BY DEF Reconcile
  <1>2. on \in BOOLEAN OBVIOUS
  <1>3. on => ev.startIn + late > 0 BY DEF Open
  <1> HIDE DEF on
  <1>4. /\ Good(t) /\ Keeps(b, t) /\ Frees(b, t)
        /\ Alive(t, late)
        /\ ~on => \A p \in People : t[p].status \notin Waiting
    BY <1>2, TidyBook DEF Alive
  <1>5. Fits(b, t, ev.capacity) BY <1>4, FreesFits
  <1> HIDE DEF t
  <1>6. Good(u) /\ Keeps(t, u) /\ Fits(t, u, ev.capacity) /\ Alive(u, late)
    <2>1. CASE on
      <3>1. u = Reoffered(ev, t, late) BY <2>1
      <3> HIDE DEF u
      <3> QED BY <1>3, <1>4, <2>1, <3>1, ReofferedBook
    <2>2. CASE ~on
      <3>1. u = t BY <2>2
      <3> HIDE DEF u
      <3> QED BY <1>4, <3>1, SeatsCount DEF Keeps, Fits
    <2> QED BY <2>1, <2>2
  <1> HIDE DEF u
  <1>7. /\ Good(c) /\ WaitingAhead(c) /\ Keeps(u, c) /\ Frees(u, c)
        /\ Alive(c, late)
    BY <1>6, InLineBook
  <1> HIDE DEF c
  <1>8. Fits(u, c, ev.capacity) BY <1>7, FreesFits
  <1>9. Fits(b, c, ev.capacity) BY <1>5, <1>6, <1>8, FitsTransitive
  <1>10. Keeps(b, c) BY <1>4, <1>6, <1>7 DEF Keeps
  <1> QED BY <1>1, <1>7, <1>9, <1>10

-----------------------------------------------------------------------------
(* What commands do to one row, and to all.                                 *)

LEMMA OneRow ==
  ASSUME NEW b, Good(b), NEW p \in People, NEW s, Quiet(b[p], s),
         NEW c, c = [b EXCEPT ![p] = s]
  PROVE  /\ Good(c) /\ Keeps(b, c)
         /\ c[p] = s
         /\ \A q \in People : q # p => c[q] = b[q]
         /\ Seats(c, 0) <= Seats(b, 0) + 1
         /\ (Takes(s, 0) => Takes(b[p], 0)) => Frees(b, c)
  <1>1. s \in Row /\ b \in [People -> Row] BY DEF Quiet, Fine, Good
  <1>2. c \in [People -> Row] /\ c[p] = s BY <1>1
  <1>3. \A q \in People : q # p => c[q] = b[q] BY <1>1
  <1>4. ASSUME NEW q \in People PROVE Quiet(b[q], c[q])
    <2>1. Quiet(b[q], b[q]) BY DEF Quiet, Good
    <2> QED BY <1>2, <1>3, <2>1
  <1>5. Good(c) /\ Keeps(b, c) BY <1>2, <1>4, QuietBook
  <1>6. Seats(c, 0) <= Seats(b, 0) + 1
    <2>1. \A q \in People : Takes(c[q], 0) => Takes(b[q], 0) \/ q \in {p}
      BY <1>3
    <2>2. Seats(c, 0) <= Seats(b, 0) + Cardinality({p}) BY <2>1, SeatsGrow
    <2> QED BY <2>2, FS_Singleton
  <1>7. (Takes(s, 0) => Takes(b[p], 0)) => Frees(b, c)
    BY <1>2, <1>3 DEF Frees
  <1> QED BY <1>2, <1>3, <1>5, <1>6, <1>7

LEMMA GoingBook ==
  ASSUME NEW b, Good(b), NEW p \in People
  PROVE  LET c == Going(b, p)
         IN  /\ Good(c) /\ Keeps(b, c)
             /\ Seats(c, 0) <= Seats(b, 0) + 1
             /\ Takes(b[p], 0) => Frees(b, c)
  <1> DEFINE s == Attending(b[p])
             c == Going(b, p)
  <1>1. Quiet(b[p], s) BY AttendingRow DEF Good
  <1>2. c = [b EXCEPT ![p] = s] BY DEF Going
  <1> HIDE DEF s, c
  <1>3. /\ Good(c) /\ Keeps(b, c)
        /\ Seats(c, 0) <= Seats(b, 0) + 1
        /\ (Takes(s, 0) => Takes(b[p], 0)) => Frees(b, c)
    BY <1>1, <1>2, OneRow
  <1> QED BY <1>3 DEF c

LEMMA HoldsBook ==
  ASSUME NEW b, Good(b), NEW p \in People, b[p].rsvp = "none"
  PROVE  LET c == Holds(b, p)
         IN  Good(c) /\ Keeps(b, c) /\ Seats(c, 0) <= Seats(b, 0) + 1
  <1> DEFINE s == Held(b[p])
             c == Holds(b, p)
  <1>1. Quiet(b[p], s) BY HeldRow DEF Good
  <1>2. c = [b EXCEPT ![p] = s] BY DEF Holds
  <1> HIDE DEF s, c
  <1>3. Good(c) /\ Keeps(b, c) /\ Seats(c, 0) <= Seats(b, 0) + 1
    BY <1>1, <1>2, OneRow
  <1> QED BY <1>3 DEF c

LEMMA LeavesBook ==
  ASSUME NEW b, Good(b), NEW p \in People
  PROVE  LET c == Leaves(b, p)
         IN  Good(c) /\ Keeps(b, c) /\ Frees(b, c)
  <1> DEFINE r == b[p]
             s == Gone(r)
             c == Leaves(b, p)
  <1>1. r \in Row /\ (r.status \notin Waiting => r.ahead = {})
    BY DEF Good, Fine
  <1>2. c = [b EXCEPT ![p] = s] BY DEF Leaves
  <1> HIDE DEF r, s, c
  <1>3. /\ s \in Row /\ s.rsvp = r.rsvp /\ s.hold = r.hold
        /\ s.status = "none" /\ s.ahead = {} /\ ~s.remind
    BY <1>1, GoneRow DEF s
  <1>4. Quiet(r, s) BY <1>3 DEF Quiet, Fine, Waiting
  <1>5. Takes(s, 0) => Takes(r, 0) BY <1>3 DEF Takes, Pending, Offered
  <1> QED BY <1>2, <1>4, <1>5, OneRow DEF c, r

LEMMA WithdrawsBook ==
  ASSUME NEW b, Good(b), NEW p \in People
  PROVE  LET c == Leaves(Cancels(b, p), p)
         IN  Good(c) /\ Keeps(b, c) /\ Frees(b, c)
  <1> DEFINE r == b[p]
             t == Cancelled(r)
             d == Cancels(b, p)
             s == Gone(t)
             c == Leaves(d, p)
  <1>1. /\ r \in Row /\ (r.status \notin Waiting => r.ahead = {})
        /\ b \in [People -> Row]
    BY DEF Good, Fine
  <1>2. d = [b EXCEPT ![p] = t] BY DEF Cancels
  <1>3. c = [d EXCEPT ![p] = Gone(d[p])] BY DEF Leaves
  <1> HIDE DEF r, t, c, d
  <1>4. d[p] = t BY <1>1, <1>2
  <1>5. c = [b EXCEPT ![p] = s]
    <2>1. c = [d EXCEPT ![p] = s] BY <1>3, <1>4
    <2> HIDE DEF s
    <2> QED BY <1>1, <1>2, <2>1
  <1> HIDE DEF s
  <1>6. /\ t \in Row /\ t.rsvp = "none" /\ t.status = r.status
        /\ t.ahead = r.ahead /\ t.left = r.left
    BY <1>1, CancelledRow DEF t
  <1>7. /\ s \in Row /\ s.rsvp = t.rsvp
        /\ s.status = "none" /\ s.ahead = {} /\ ~s.remind
    BY <1>1, <1>6, GoneRow DEF s
  <1>8. Quiet(r, s) BY <1>7 DEF Quiet, Fine, Waiting
  <1>9. Takes(s, 0) => Takes(r, 0) BY <1>6, <1>7 DEF Takes, Pending, Offered
  <1>10. Good(c) /\ Keeps(b, c) /\ Frees(b, c)
    BY <1>5, <1>8, <1>9, OneRow DEF r
  <1> QED BY <1>10 DEF c, d

LEMMA LastRow ==
  ASSUME NEW r \in Row, NEW S \in SUBSET People
  PROVE  LET s == Last(r, S)
         IN  /\ s \in Row /\ s.status = "queued" /\ s.ahead = S
             /\ s.rsvp = r.rsvp /\ s.hold = r.hold /\ s.remind = r.remind
  <1> DEFINE s == Last(r, S)
  <1>1. "queued" \in Waiting \cup {"none", "accepted"} /\ 0 \in Int BY DEF Waiting
  <1>2. s \in Row BY <1>1, Zenon DEF Row, Last
  <1>3. /\ s.status = "queued" /\ s.ahead = S
        /\ s.rsvp = r.rsvp /\ s.hold = r.hold /\ s.remind = r.remind
    BY DEF Row, Last
  <1> QED BY <1>2, <1>3

\* A new entry is behind all that wait, and none is behind it.
LEMMA RejoinedBook ==
  ASSUME NEW b, Good(b), WaitingAhead(b), NEW p \in People,
         b[p].status \notin Waiting
  PROVE  LET c == Rejoined(b, p)
         IN  Good(c) /\ Keeps(b, c) /\ Frees(b, c)
  <1> DEFINE W == {q \in People \ {p} : b[q].status \in Waiting}
             s == Last(b[p], W)
             c == Rejoined(b, p)
  <1>1. /\ b \in [People -> Row] /\ \A q \in People : Fine(b[q])
        /\ InOrder(b) /\ FirstServed(b)
    BY DEF Good
  <1>2. c = [b EXCEPT ![p] = s] BY DEF Rejoined
  <1>3. W \in SUBSET People /\ p \notin W OBVIOUS
  <1>4. \A q \in People : q \in W <=> q # p /\ b[q].status \in Waiting
    OBVIOUS
  <1> HIDE DEF W
  <1>5. /\ s \in Row /\ s.status = "queued" /\ s.ahead = W
        /\ s.rsvp = b[p].rsvp /\ s.hold = b[p].hold /\ s.remind = b[p].remind
    BY <1>1, <1>3, LastRow
  <1> HIDE DEF s, c
  <1>6. /\ c \in [People -> Row] /\ c[p] = s
        /\ \A q \in People : q # p => c[q] = b[q]
    BY <1>1, <1>2, <1>5
  <1>7. \A q \in People : p \notin c[q].ahead
    <2>1. \A q \in People : p \notin b[q].ahead BY DEF WaitingAhead
    <2> QED BY <1>3, <1>5, <1>6, <2>1
  <1>8. \A q \in People : Fine(c[q])
    <2>1. Fine(c[p]) BY <1>1, <1>5, <1>6 DEF Fine, Waiting
    <2>2. \A q \in People : q # p => Fine(c[q]) BY <1>1, <1>6
    <2> QED BY <2>1, <2>2
  <1>9. InOrder(c)
    <2>1. \A q \in People : q \notin c[q].ahead
      BY <1>1, <1>6, <1>7 DEF InOrder
    <2>2. \A q \in People : c[q].status \notin Waiting => c[q].ahead = {}
      BY <1>8 DEF Fine
    <2>3. ASSUME NEW x \in People, NEW q \in People, q \in c[x].ahead
          PROVE  c[q].ahead \subseteq c[x].ahead
      <3>1. q # p /\ c[q] = b[q] BY <1>6, <1>7, <2>3
      <3>2. CASE x # p
        BY <1>1, <1>6, <2>3, <3>1, <3>2 DEF InOrder
      <3>3. CASE x = p
        <4> SUFFICES ASSUME NEW y \in b[q].ahead PROVE y \in W
          BY <1>5, <1>6, <3>1, <3>3
        <4>1. b[q].ahead \in SUBSET People
          <5>1. b[q] \in Row BY <1>1
          <5> QED BY <5>1 DEF Row
        <4>2. y \in People /\ y # p /\ b[y].status \in Waiting
          BY <1>6, <1>7, <3>1, <4>1 DEF WaitingAhead
        <4> QED BY <1>4, <4>2
      <3> QED BY <3>2, <3>3
    <2>4. ASSUME NEW x \in People, NEW q \in People,
                 c[x].status \in Waiting, c[q].status \in Waiting
          PROVE  x = q \/ x \in c[q].ahead \/ q \in c[x].ahead
      <3>1. CASE x # p /\ q # p
        BY <1>1, <1>6, <2>4, <3>1 DEF InOrder
      <3>2. CASE x = p /\ q # p
        BY <1>4, <1>5, <1>6, <2>4, <3>2
      <3>3. CASE q = p /\ x # p
        BY <1>4, <1>5, <1>6, <2>4, <3>3
      <3> QED BY <3>1, <3>2, <3>3
    <2> QED BY <2>1, <2>2, <2>3, <2>4 DEF InOrder
  <1>10. FirstServed(c)
    <2> SUFFICES ASSUME NEW x \in People, NEW q \in People,
                        x \in c[q].ahead, c[x].status = "queued",
                        c[q].status = "invited"
                 PROVE  FALSE
      BY DEF FirstServed
    <2>1. x # p /\ q # p BY <1>5, <1>6, <1>7
    <2> QED BY <1>1, <1>6, <2>1 DEF FirstServed
  <1>11. Keeps(b, c)
    <2>1. c[p].remind => b[p].remind BY <1>5, <1>6
    <2> QED BY <1>6, <2>1 DEF Keeps
  <1>12. Frees(b, c)
    <2>1. Takes(c[p], 0) => Takes(b[p], 0)
      BY <1>5, <1>6 DEF Takes, Pending, Offered
    <2> QED BY <1>6, <2>1 DEF Frees
  <1> QED BY <1>6, <1>8, <1>9, <1>10, <1>11, <1>12 DEF Good, c

LEMMA RemindingRow ==
  ASSUME NEW r \in Row, NEW on \in BOOLEAN
  PROVE  LET s == Reminding(r, on)
         IN  /\ s \in Row /\ s.remind = on /\ s.ahead = r.ahead
             /\ s.rsvp = r.rsvp /\ s.hold = r.hold
             /\ s.status = r.status /\ s.left = r.left
  <1> DEFINE s == Reminding(r, on)
  <1>1. s \in Row BY Zenon DEF Row, Reminding
  <1>2. /\ s.remind = on /\ s.ahead = r.ahead
        /\ s.rsvp = r.rsvp /\ s.hold = r.hold
        /\ s.status = r.status /\ s.left = r.left
    BY DEF Row, Reminding
  <1> QED BY <1>1, <1>2

\* Nothing of the queue or of the seats changes.
Alike(b, c) ==
  \A p \in People :
    /\ c[p].ahead = b[p].ahead /\ c[p].status = b[p].status
    /\ c[p].rsvp = b[p].rsvp
    /\ Takes(c[p], 0) => Takes(b[p], 0)
    /\ c[p].remind => c[p].rsvp = "going"

LEMMA AlikeBook ==
  ASSUME NEW b, Good(b), NEW c \in [People -> Row], Alike(b, c)
  PROVE  Good(c) /\ Frees(b, c) /\ (WaitingAhead(b) => WaitingAhead(c))
  <1>1. \A p \in People : Fine(c[p]) BY DEF Good, Fine, Alike
  <1>2. InOrder(c) BY DEF Good, InOrder, Alike
  <1>3. FirstServed(c) BY DEF Good, FirstServed, Alike
  <1>4. Frees(b, c) BY DEF Frees, Alike
  <1>5. WaitingAhead(b) => WaitingAhead(c)
    <2>1. \A p \in People : b[p].ahead \in SUBSET People
      <3>1. \A p \in People : b[p] \in Row BY DEF Good
      <3> QED BY <3>1 DEF Row
    <2> QED BY <2>1 DEF WaitingAhead, Alike
  <1> QED BY <1>1, <1>2, <1>3, <1>4, <1>5 DEF Good

LEMMA RemindedBook ==
  ASSUME NEW b, Good(b), NEW p \in People, NEW on \in BOOLEAN,
         on => b[p].rsvp = "going", NEW c, c = [b EXCEPT ![p] = Reminding(@, on)]
  PROVE  c \in [People -> Row] /\ Alike(b, c)
  <1> DEFINE s == Reminding(b[p], on)
  <1>1. b \in [People -> Row] /\ \A q \in People : Fine(b[q]) BY DEF Good
  <1>2. c = [b EXCEPT ![p] = s] OBVIOUS
  <1>3. /\ s \in Row /\ s.remind = on /\ s.ahead = b[p].ahead
        /\ s.rsvp = b[p].rsvp /\ s.hold = b[p].hold
        /\ s.status = b[p].status /\ s.left = b[p].left
    BY <1>1, RemindingRow
  <1> HIDE DEF s
  <1>4. c \in [People -> Row] /\ c[p] = s /\ \A q \in People : q # p => c[q] = b[q]
    BY <1>1, <1>2, <1>3
  <1>5. Takes(s, 0) => Takes(b[p], 0) BY <1>3 DEF Takes, Pending, Offered
  <1>6. \A q \in People : b[q].remind => b[q].rsvp = "going" BY <1>1 DEF Fine
  <1>7. ASSUME NEW q \in People
        PROVE  /\ c[q].ahead = b[q].ahead /\ c[q].status = b[q].status
               /\ c[q].rsvp = b[q].rsvp
               /\ Takes(c[q], 0) => Takes(b[q], 0)
               /\ c[q].remind => c[q].rsvp = "going"
    <2>1. CASE q = p BY <1>3, <1>4, <1>5, <2>1
    <2>2. CASE q # p BY <1>4, <1>6, <2>2
    <2> QED BY <2>1, <2>2
  <1> QED BY <1>4, <1>7 DEF Alike

LEMMA UnremindedBook ==
  ASSUME NEW b, Good(b)
  PROVE  LET c == Unreminded(b)
         IN  c \in [People -> Row] /\ Alike(b, c) /\ \A p \in People : ~c[p].remind
  <1> DEFINE c == Unreminded(b)
  <1>1. \A p \in People : b[p] \in Row BY DEF Good
  <1>2. c = [p \in People |-> Reminding(b[p], FALSE)] BY DEF Unreminded
  <1> HIDE DEF c
  <1>3. ASSUME NEW p \in People
        PROVE  /\ c[p] \in Row /\ ~c[p].remind /\ c[p].ahead = b[p].ahead
               /\ c[p].rsvp = b[p].rsvp /\ c[p].hold = b[p].hold
               /\ c[p].status = b[p].status /\ c[p].left = b[p].left
    <2>1. c[p] = Reminding(b[p], FALSE) BY <1>2
    <2>2. b[p] \in Row BY <1>1
    <2> DEFINE r == b[p]
    <2>3. r \in Row BY <2>2
    <2> HIDE DEF r
    <2>4. /\ Reminding(r, FALSE) \in Row /\ ~Reminding(r, FALSE).remind
          /\ Reminding(r, FALSE).ahead = r.ahead /\ Reminding(r, FALSE).rsvp = r.rsvp
          /\ Reminding(r, FALSE).hold = r.hold /\ Reminding(r, FALSE).status = r.status
          /\ Reminding(r, FALSE).left = r.left
      BY <2>3, RemindingRow
    <2> QED BY <2>1, <2>4, Zenon DEF r
  <1>4. c \in [People -> Row]
    <2>1. c = [p \in People |-> c[p]] BY <1>2
    <2> QED BY <1>3, <2>1
  <1>5. Alike(b, c) BY <1>3 DEF Alike, Takes, Pending, Offered
  <1> QED BY <1>3, <1>4, <1>5 DEF c

LEMMA ShortenedBook ==
  ASSUME NEW b, Good(b), NEW start \in Int
  PROVE  LET c == Shortened(b, start)
         IN  Good(c) /\ Keeps(b, c) /\ Frees(b, c)
  <1> DEFINE c == Shortened(b, start)
  <1>1. \A p \in People : b[p] \in Row /\ Fine(b[p]) BY DEF Good
  <1>2. c = [p \in People |->
               IF b[p].status = "invited" THEN Invited(b[p], Lesser(b[p].left, start))
               ELSE b[p]]
    BY DEF Shortened
  <1> HIDE DEF c
  <1>3. ASSUME NEW p \in People
        PROVE  Quiet(b[p], c[p]) /\ (Takes(c[p], 0) => Takes(b[p], 0))
    <2>1. CASE b[p].status = "invited"
      <3> DEFINE k == Lesser(b[p].left, start)
      <3>1. b[p].left \in Int BY <1>1, RowFields
      <3>2. k \in Int /\ k <= b[p].left BY <3>1 DEF Lesser
      <3>3. c[p] = Invited(b[p], k) BY <1>2, <2>1
      <3> HIDE DEF k
      <3>4. /\ c[p] \in Row /\ c[p].status = "invited" /\ c[p].left = k
            /\ c[p].rsvp = b[p].rsvp /\ c[p].hold = b[p].hold
            /\ c[p].ahead = b[p].ahead /\ c[p].remind = b[p].remind
        BY <1>1, <3>2, <3>3, OfferedRow
      <3>5. Quiet(b[p], c[p]) BY <1>1, <2>1, <3>4 DEF Quiet, Fine
      <3>6. Takes(c[p], 0) => Takes(b[p], 0)
        BY <2>1, <3>1, <3>2, <3>4 DEF Takes, Pending, Offered
      <3> QED BY <3>5, <3>6
    <2>2. CASE b[p].status # "invited"
      <3>1. c[p] = b[p] BY <1>2, <2>2
      <3> QED BY <1>1, <3>1 DEF Quiet
    <2> QED BY <2>1, <2>2
  <1>4. c \in [People -> Row]
    <2>1. c = [p \in People |-> c[p]] BY <1>2
    <2>2. \A p \in People : c[p] \in Row BY <1>3 DEF Quiet, Fine
    <2> QED BY <2>1, <2>2
  <1>5. Good(c) /\ Keeps(b, c) BY <1>3, <1>4, QuietBook
  <1>6. Frees(b, c) BY <1>3 DEF Frees
  <1> QED BY <1>5, <1>6 DEF c

LEMMA OlderRow ==
  ASSUME NEW r \in Row
  PROVE  LET s == Older(r)
         IN  /\ s \in Row /\ s.remind = r.remind /\ s.ahead = r.ahead
             /\ s.rsvp = r.rsvp /\ s.status = r.status
             /\ s.hold <= r.hold /\ s.left <= r.left
             /\ s.hold \in Int /\ s.left \in Int
  <1> DEFINE h == IF r.rsvp = "pending" THEN Sooner(r.hold) ELSE r.hold
             l == IF r.status = "invited" THEN Sooner(r.left) ELSE r.left
             s == [r EXCEPT !.hold = h, !.left = l]
  <1>1. r.hold \in Int /\ r.left \in Int BY DEF Row
  <1>2. h \in Int /\ l \in Int /\ h <= r.hold /\ l <= r.left
    BY <1>1, TimeAssumption DEF Sooner
  <1>3. Older(r) = s BY DEF Older
  <1> HIDE DEF h, l
  <1>4. s \in Row BY <1>2, Zenon DEF Row
  <1>5. /\ s.remind = r.remind /\ s.ahead = r.ahead
        /\ s.rsvp = r.rsvp /\ s.status = r.status
        /\ s.hold = h /\ s.left = l
    BY DEF Row
  <1> QED BY <1>2, <1>3, <1>4, <1>5

LEMMA OlderBook ==
  ASSUME NEW b, Good(b), NEW c, c = [p \in People |-> Older(b[p])]
  PROVE  c \in [People -> Row] /\ Alike(b, c) /\ Keeps(b, c)
  <1>1. \A p \in People : b[p] \in Row /\ Fine(b[p]) BY DEF Good
  <1>2. ASSUME NEW p \in People
        PROVE  /\ c[p] \in Row /\ c[p].remind = b[p].remind
               /\ c[p].ahead = b[p].ahead
               /\ c[p].rsvp = b[p].rsvp /\ c[p].status = b[p].status
               /\ c[p].hold <= b[p].hold /\ c[p].left <= b[p].left
               /\ c[p].hold \in Int /\ c[p].left \in Int
               /\ b[p].hold \in Int /\ b[p].left \in Int
    <2>1. c[p] = Older(b[p]) OBVIOUS
    <2>2. b[p].hold \in Int /\ b[p].left \in Int BY <1>1, RowFields
    <2> QED BY <1>1, <2>1, <2>2, OlderRow
  <1>3. c \in [People -> Row]
    <2>1. c = [p \in People |-> c[p]] OBVIOUS
    <2> QED BY <1>2, <2>1
  <1>4. \A p \in People : Takes(c[p], 0) => Takes(b[p], 0)
    BY <1>2 DEF Takes, Pending, Offered
  <1>5. \A p \in People : b[p].remind => b[p].rsvp = "going" BY <1>1 DEF Fine
  <1>6. Alike(b, c) BY <1>2, <1>4, <1>5 DEF Alike
  <1> QED BY <1>2, <1>3, <1>6 DEF Keeps

-----------------------------------------------------------------------------
(* Steps.                                                                   *)

NoneReminded(b) == \A p \in People : ~b[p].remind

LEMMA Parts ==
  IInv <=> /\ TypeOK /\ Good(book) /\ WaitingAhead(book)
           /\ event.state # "published" => NoneReminded(book)
  BY DEF IInv, TypeOK, Good, Fine, InOrder, FirstServed, NoneReminded,
         InvitedAreFirst, AcceptedMeansGoing, ReminderMeansGoing

\* What every step does.
Step ==
  /\ event' \in Event /\ eligible' \subseteq People /\ registering' \subseteq Guests
  /\ Good(book') /\ WaitingAhead(book')
  /\ event'.state # "published" => NoneReminded(book')
  /\ Fits(book, book', event'.capacity)

LEMMA EventFields ==
  ASSUME NEW ev \in Event
  PROVE  ev.startIn \in Int /\ ev.capacity \in Nat
  BY EventAssumption DEF Event

\* A transaction changes the book and reconciles it.
LEMMA Transaction ==
  ASSUME NEW ev \in Event, NEW b, NEW d, Good(d), Keeps(b, d),
         Fits(b, d, ev.capacity), NEW c, c = Now(ev, d)
  PROVE  /\ Good(c) /\ WaitingAhead(c) /\ Keeps(b, c)
         /\ Fits(b, c, ev.capacity) /\ Alive(c, 0)
  <1>1. ev.startIn \in Int /\ ev.capacity \in Nat /\ 0 \in Nat BY EventFields
  <1>2. c = Reconcile(ev, d, 0) BY DEF Now
  <1>3. /\ Good(c) /\ WaitingAhead(c) /\ Keeps(d, c)
        /\ Fits(d, c, ev.capacity) /\ Alive(c, 0)
    BY <1>1, <1>2, ReconcileBook
  <1>4. Fits(b, c, ev.capacity) BY <1>1, <1>3, FitsTransitive
  <1>5. Keeps(b, c) BY <1>3 DEF Keeps
  <1> QED BY <1>3, <1>4, <1>5

LEMMA Unchanged ==
  ASSUME NEW b, NEW n
  PROVE  Keeps(b, b) /\ Fits(b, b, n) /\ Frees(b, b)
  BY SeatsCount DEF Keeps, Fits, Frees

LEMMA SameEvent ==
  ASSUME IInv, event' = event, Good(book'), WaitingAhead(book'),
         Keeps(book, book'), Fits(book, book', event.capacity),
         eligible' \subseteq People, registering' \subseteq Guests
  PROVE  Step
  BY Parts DEF Step, TypeOK, NoneReminded, Keeps

\* The book that commands look at first.
LEMMA NowBook ==
  ASSUME IInv, NEW b, b = Now(event, book)
  PROVE  /\ Good(b) /\ WaitingAhead(b) /\ Keeps(book, b)
         /\ Fits(book, b, event.capacity) /\ Alive(b, 0)
  <1>1. event \in Event /\ Good(book) BY Parts DEF TypeOK
  <1>2. Keeps(book, book) /\ Fits(book, book, event.capacity) BY Unchanged
  <1> QED BY <1>1, <1>2, Transaction

\* A command that goes on from there.
LEMMA Command ==
  ASSUME IInv, event' = event, eligible' = eligible, registering' \subseteq Guests,
         NEW b, b = Now(event, book),
         NEW d, Good(d), Keeps(b, d), Fits(b, d, event.capacity),
         book' = Now(event, d)
  PROVE  Step
  <1>1. event \in Event /\ eligible \subseteq People BY DEF IInv, TypeOK
  <1>2. Keeps(book, b) /\ Fits(book, b, event.capacity) BY NowBook
  <1>3. Fits(book, d, event.capacity)
    <2>1. event.capacity \in Nat BY <1>1, EventFields
    <2> QED BY <1>2, <2>1, FitsTransitive
  <1>4. Keeps(book, d) BY <1>2 DEF Keeps
  <1>5. /\ Good(book') /\ WaitingAhead(book') /\ Keeps(book, book')
        /\ Fits(book, book', event.capacity)
    BY <1>1, <1>3, <1>4, Transaction
  <1> QED BY <1>1, <1>5, SameEvent

\* A command that looks at the book as it is.
LEMMA ShortCommand ==
  ASSUME IInv, event' = event, eligible' = eligible, registering' \subseteq Guests,
         NEW d, Good(d), Keeps(book, d), Fits(book, d, event.capacity),
         book' = Now(event, d)
  PROVE  Step
  <1>1. event \in Event /\ eligible \subseteq People BY DEF IInv, TypeOK
  <1>2. /\ Good(book') /\ WaitingAhead(book') /\ Keeps(book, book')
        /\ Fits(book, book', event.capacity)
    BY <1>1, Transaction
  <1> QED BY <1>1, <1>2, SameEvent

LEMMA GoingFits ==
  ASSUME NEW b, Good(b), NEW p \in People, NEW n \in Nat,
         Takes(b[p], 0) \/ Seats(b, 0) < n
  PROVE  Fits(b, Going(b, p), n)
  <1> DEFINE d == Going(b, p)
  <1>1. Seats(d, 0) <= Seats(b, 0) + 1 /\ (Takes(b[p], 0) => Frees(b, d))
    BY GoingBook
  <1> HIDE DEF d
  <1>2. CASE Takes(b[p], 0) BY <1>1, <1>2, FreesFits DEF d
  <1>3. CASE Seats(b, 0) < n BY <1>1, <1>3, SeatsCount DEF Fits, d
  <1> QED BY <1>2, <1>3

LEMMA AttendStep ==
  ASSUME IInv, NEW p \in People, Attend(p)
  PROVE  Step
  <1> DEFINE b == Now(event, book)
             d == Going(b, p)
             own == IF Offered(b[p], 0) THEN 1 ELSE 0
  <1>1. /\ b[p].rsvp # "going" => Seats(b, 0) - own < event.capacity
        /\ book' = Now(event, d) /\ event' = event
        /\ eligible' = eligible /\ registering' = registering
    BY DEF Attend, Seated
  <1>2. registering' \subseteq Guests /\ event.capacity \in Nat
    BY <1>1, EventFields DEF IInv, TypeOK
  <1> HIDE DEF b
  <1>3. Good(b) BY NowBook DEF b
  <1>4. Takes(b[p], 0) \/ Seats(b, 0) < event.capacity
    <2>1. CASE b[p].rsvp = "going" \/ Offered(b[p], 0) BY <2>1 DEF Takes
    <2>2. CASE b[p].rsvp # "going" /\ ~Offered(b[p], 0)
      BY <1>1, <1>2, <2>2, SeatsCount
    <2> QED BY <2>1, <2>2
  <1>5. Good(d) /\ Keeps(b, d) BY <1>3, GoingBook
  <1>6. Fits(b, d, event.capacity) BY <1>2, <1>3, <1>4, GoingFits
  <1> HIDE DEF d
  <1> QED BY <1>1, <1>2, <1>5, <1>6, Command DEF b

LEMMA WithdrawStep ==
  ASSUME IInv, NEW p \in People, Withdraw(p)
  PROVE  Step
  <1> DEFINE b == Now(event, book)
             d == Leaves(Cancels(b, p), p)
  <1>1. /\ book' = Now(event, d) /\ event' = event
        /\ eligible' = eligible /\ registering' = registering
    BY DEF Withdraw
  <1>2. registering' \subseteq Guests BY <1>1 DEF IInv, TypeOK
  <1> HIDE DEF b
  <1>3. Good(b) BY NowBook DEF b
  <1>4. Good(d) /\ Keeps(b, d) /\ Frees(b, d) BY <1>3, WithdrawsBook
  <1> HIDE DEF d
  <1>5. Fits(b, d, event.capacity) BY <1>4, FreesFits
  <1> QED BY <1>1, <1>2, <1>4, <1>5, Command DEF b

LEMMA RegisterStep ==
  ASSUME IInv, NEW p \in Guests, Register(p)
  PROVE  Step
  <1> DEFINE b == Now(event, book)
             d == Holds(b, p)
  <1>1. /\ b[p].rsvp = "none" => Seats(b, 0) < event.capacity
        /\ book' = IF b[p].rsvp = "none" THEN d ELSE b
        /\ event' = event /\ eligible' = eligible
        /\ registering' = registering \cup {p}
    BY DEF Register, Seated
  <1>2. /\ registering' \subseteq Guests /\ eligible' \subseteq People
        /\ event.capacity \in Nat /\ p \in People
    BY <1>1, EventFields DEF IInv, TypeOK, People
  <1> HIDE DEF b, d
  <1>3. /\ Good(b) /\ WaitingAhead(b) /\ Keeps(book, b)
        /\ Fits(book, b, event.capacity)
    BY NowBook DEF b
  <1>4. CASE b[p].rsvp # "none"
    <2>1. book' = b BY <1>1, <1>4
    <2> QED BY <1>1, <1>2, <1>3, <2>1, SameEvent
  <1>5. CASE b[p].rsvp = "none"
    <2>1. book' = d BY <1>1, <1>5
    <2>2. Good(d) /\ Keeps(b, d) /\ Seats(d, 0) <= Seats(b, 0) + 1
      BY <1>2, <1>3, <1>5, HoldsBook DEF d
    <2>3. Fits(b, d, event.capacity)
      BY <1>1, <1>2, <1>5, <2>2, SeatsCount DEF Fits
    <2>4. Fits(book, d, event.capacity) BY <1>2, <1>3, <2>3, FitsTransitive
    <2>5. Keeps(book, d) BY <1>3, <2>2 DEF Keeps
    <2>6. WaitingAhead(d)
      <3>1. b[p] \in Row /\ b \in [People -> Row] BY <1>2, <1>3 DEF Good
      <3>2. /\ d[p].status = b[p].status /\ d[p].ahead = b[p].ahead
            /\ \A q \in People : q # p => d[q] = b[q]
        <4>1. d = [b EXCEPT ![p] = Held(b[p])] BY DEF d, Holds
        <4>2. Held(b[p]).status = b[p].status /\ Held(b[p]).ahead = b[p].ahead
          BY <3>1 DEF Held, Row
        <4> QED BY <1>2, <3>1, <4>1, <4>2
      <3>3. \A q \in People : b[q].ahead \in SUBSET People
        <4>1. \A q \in People : b[q] \in Row BY <3>1
        <4> QED BY <4>1 DEF Row
      <3> QED BY <1>3, <3>2, <3>3 DEF WaitingAhead
    <2> QED BY <1>1, <1>2, <2>1, <2>2, <2>4, <2>5, <2>6, SameEvent
  <1> QED BY <1>4, <1>5

LEMMA ConfirmStep ==
  ASSUME IInv, NEW p \in Guests, Confirm(p)
  PROVE  Step
  <1> DEFINE d == Going(book, p)
  <1>1. /\ book' = Now(event, d) /\ event' = event /\ eligible' = eligible
        /\ registering' \in {registering, registering \ {p}}
        /\ book[p].rsvp = "going" \/ Pending(book[p], 0)
    BY DEF Confirm
  <1>2. registering' \subseteq Guests /\ event.capacity \in Nat /\ p \in People
    BY <1>1, EventFields DEF IInv, TypeOK, People
  <1>3. Good(book) BY Parts
  <1>4. Takes(book[p], 0) BY <1>1 DEF Takes
  <1>5. Good(d) /\ Keeps(book, d) BY <1>2, <1>3, GoingBook
  <1>6. Fits(book, d, event.capacity) BY <1>2, <1>3, <1>4, GoingFits
  <1> HIDE DEF d
  <1> QED BY <1>1, <1>2, <1>5, <1>6, ShortCommand

LEMMA JoinStep ==
  ASSUME IInv, NEW p \in People, Join(p)
  PROVE  Step
  <1> DEFINE b == Now(event, book)
             d == IF b[p].status \in Waiting \cup {"accepted"} THEN b
                  ELSE Rejoined(b, p)
  <1>1. /\ book' = Now(event, d) /\ event' = event
        /\ eligible' = eligible /\ registering' = registering
    BY DEF Join
  <1>2. registering' \subseteq Guests BY <1>1 DEF IInv, TypeOK
  <1> HIDE DEF b
  <1>3. Good(b) /\ WaitingAhead(b) BY NowBook DEF b
  <1>4. Good(d) /\ Keeps(b, d) /\ Frees(b, d)
    <2>1. CASE b[p].status \in Waiting \cup {"accepted"}
      BY <1>3, <2>1 DEF Keeps, Frees
    <2>2. CASE b[p].status \notin Waiting \cup {"accepted"}
      <3>1. d = Rejoined(b, p) BY <2>2
      <3> HIDE DEF d
      <3> QED BY <1>3, <2>2, <3>1, RejoinedBook
    <2> QED BY <2>1, <2>2
  <1> HIDE DEF d
  <1>5. Fits(b, d, event.capacity) BY <1>4, FreesFits
  <1> QED BY <1>1, <1>2, <1>4, <1>5, Command DEF b

LEMMA LeaveStep ==
  ASSUME IInv, NEW p \in People, Leave(p) \/ Decline(p)
  PROVE  Step
  <1>1. PICK d : /\ d = book \/ d = Leaves(book, p)
                 /\ book' = Now(event, d) /\ event' = event
                 /\ eligible' = eligible /\ registering' = registering
    BY DEF Leave, Decline
  <1>2. registering' \subseteq Guests BY <1>1 DEF IInv, TypeOK
  <1>3. Good(book) BY Parts
  <1>4. Good(d) /\ Keeps(book, d) /\ Frees(book, d)
    <2>1. CASE d = book BY <1>3, <2>1, Unchanged
    <2>2. CASE d = Leaves(book, p) BY <1>3, <2>2, LeavesBook
    <2> QED BY <1>1, <2>1, <2>2
  <1>5. Fits(book, d, event.capacity) BY <1>4, FreesFits
  <1> QED BY <1>1, <1>2, <1>4, <1>5, ShortCommand

LEMMA AcceptStep ==
  ASSUME IInv, NEW p \in People, Accept(p)
  PROVE  Step
  <1> DEFINE b == Now(event, book)
             d == Going(b, p)
  <1>1. /\ Offered(b[p], 0)
        /\ book' = Now(event, d) /\ event' = event
        /\ eligible' = eligible /\ registering' = registering \ {p}
    BY DEF Accept, Superseded
  <1>2. registering' \subseteq Guests /\ event.capacity \in Nat
    BY <1>1, EventFields DEF IInv, TypeOK
  <1> HIDE DEF b
  <1>3. Good(b) BY NowBook DEF b
  <1>4. Takes(b[p], 0) BY <1>1 DEF Takes
  <1>5. Good(d) /\ Keeps(b, d) BY <1>3, GoingBook
  <1>6. Fits(b, d, event.capacity) BY <1>2, <1>3, <1>4, GoingFits
  <1> HIDE DEF d
  <1> QED BY <1>1, <1>2, <1>5, <1>6, Command DEF b

LEMMA RegisterByLinkStep ==
  ASSUME IInv, NEW p \in Guests, RegisterByLink(p)
  PROVE  Step
  <1> DEFINE b == Now(event, book)
             d == Going(b, p)
             own == IF Pending(b[p], 0) THEN 1 ELSE 0
  <1>1. /\ b[p].status = "invited" \/ Seats(b, 0) - own < event.capacity
        /\ book' = Now(event, d) /\ event' = event
        /\ eligible' = eligible /\ registering' = registering \ {p}
    BY DEF RegisterByLink, Superseded, Seated
  <1>2. registering' \subseteq Guests /\ event.capacity \in Nat /\ p \in People
    BY <1>1, EventFields DEF IInv, TypeOK, People
  <1> HIDE DEF b
  <1>3. Good(b) /\ Alive(b, 0) BY NowBook DEF b
  <1>4. Takes(b[p], 0) \/ Seats(b, 0) < event.capacity
    <2>1. CASE b[p].status = "invited"
      BY <1>2, <1>3, <2>1 DEF Alive, Takes, Offered
    <2>2. CASE Pending(b[p], 0) BY <2>2 DEF Takes
    <2>3. CASE b[p].status # "invited" /\ ~Pending(b[p], 0)
      BY <1>1, <1>2, <2>3, SeatsCount
    <2> QED BY <2>1, <2>2, <2>3
  <1>5. Good(d) /\ Keeps(b, d) BY <1>2, <1>3, GoingBook
  <1>6. Fits(b, d, event.capacity) BY <1>2, <1>3, <1>4, GoingFits
  <1> HIDE DEF d
  <1> QED BY <1>1, <1>2, <1>5, <1>6, Command DEF b

LEMMA CancelByLinkStep ==
  ASSUME IInv, NEW p \in People, CancelByLink(p)
  PROVE  Step
  <1> DEFINE d == Leaves(Cancels(book, p), p)
  <1>1. /\ book' = Now(event, d) /\ event' = event
        /\ eligible' = eligible /\ registering' = registering
    BY DEF CancelByLink
  <1>2. registering' \subseteq Guests /\ Good(book) BY <1>1, Parts DEF TypeOK
  <1>3. Good(d) /\ Keeps(book, d) /\ Frees(book, d) BY <1>2, WithdrawsBook
  <1> HIDE DEF d
  <1>4. Fits(book, d, event.capacity) BY <1>3, FreesFits
  <1> QED BY <1>1, <1>2, <1>3, <1>4, ShortCommand

LEMMA GiveUpStep ==
  ASSUME IInv, NEW p \in Guests, GiveUp(p)
  PROVE  Step
  <1>1. /\ event' = event /\ book' = book /\ eligible' = eligible
        /\ registering' = registering \ {p}
    BY DEF GiveUp
  <1>2. /\ Good(book) /\ WaitingAhead(book)
        /\ registering' \subseteq Guests /\ eligible' \subseteq People
    BY <1>1, Parts DEF TypeOK
  <1>3. Keeps(book, book) /\ Fits(book, book, event.capacity) BY Unchanged
  <1> QED BY <1>1, <1>2, <1>3, SameEvent

LEMMA RemindStep ==
  ASSUME IInv, NEW p \in People, NEW on \in BOOLEAN, Remind(p, on)
  PROVE  Step
  <1>1. /\ on => book[p].rsvp = "going" /\ event.state = "published"
        /\ book' = [book EXCEPT ![p] = Reminding(@, on)] /\ event' = event
        /\ eligible' = eligible /\ registering' = registering
    BY DEF Remind, Open
  <1>2. /\ Good(book) /\ WaitingAhead(book)
        /\ event' \in Event /\ registering' \subseteq Guests /\ eligible' \subseteq People
        /\ event.state # "published" => NoneReminded(book)
    BY <1>1, Parts DEF TypeOK
  <1>3. book' \in [People -> Row] /\ Alike(book, book')
    BY <1>1, <1>2, RemindedBook
  <1>4. Good(book') /\ WaitingAhead(book') /\ Frees(book, book')
    BY <1>2, <1>3, AlikeBook
  <1>5. Fits(book, book', event'.capacity) BY <1>4, FreesFits
  <1>6. ASSUME event.state # "published" PROVE NoneReminded(book')
    <2>1. ~on BY <1>1, <1>6
    <2>2. book[p] \in Row /\ book \in [People -> Row] BY <1>2 DEF Good
    <2>3. ~Reminding(book[p], on).remind BY <2>1, <2>2, RemindingRow
    <2>4. \A q \in People : book'[q] = IF q = p THEN Reminding(book[p], on) ELSE book[q]
      BY <1>1, <2>2
    <2> QED BY <1>2, <1>6, <2>3, <2>4 DEF NoneReminded
  <1> QED BY <1>1, <1>2, <1>4, <1>5, <1>6 DEF Step

\* The row of the event changes while the book stays, or is reconciled.
LEMMA PendingStep ==
  ASSUME IInv, event.state # "published", event' \in Event,
         UNCHANGED <<book, eligible, registering>>
  PROVE  Step
  <1>1. /\ Good(book) /\ WaitingAhead(book) /\ NoneReminded(book)
        /\ registering' \subseteq Guests /\ eligible' \subseteq People
    BY Parts DEF TypeOK
  <1>2. Fits(book, book, event'.capacity) BY Unchanged
  <1>3. book' = book OBVIOUS
  <1> QED BY <1>1, <1>2, <1>3 DEF Step, NoneReminded

LEMMA EditStep ==
  ASSUME IInv, NEW cap \in Capacities, NEW start \in Starts, Edit(cap, start)
  PROVE  Step
  <1>1. /\ event.state = "pending"
        /\ event' = [event EXCEPT !.capacity = cap, !.startIn = start]
        /\ UNCHANGED <<book, eligible, registering>>
    BY DEF Edit
  <1>2. event' \in Event
    <2>1. event \in Event /\ start \in Int BY EventAssumption DEF IInv, TypeOK
    <2> QED BY <1>1, <2>1 DEF Event
  <1> QED BY <1>1, <1>2, PendingStep

LEMMA ReviewStep ==
  ASSUME IInv, NEW decision \in {"published", "rejected"}, Review(decision)
  PROVE  Step
  <1>1. /\ event.state = "pending"
        /\ event' = [event EXCEPT !.state = decision]
        /\ UNCHANGED <<book, eligible, registering>>
    BY DEF Review
  <1>2. event' \in Event
    <2>1. event \in Event BY DEF IInv, TypeOK
    <2> QED BY <1>1, <2>1 DEF Event
  <1> QED BY <1>1, <1>2, PendingStep

LEMMA CancelEventStep ==
  ASSUME IInv, CancelEvent
  PROVE  Step
  <1> DEFINE c == Now(event', book)
             d == Unreminded(c)
  <1>1. /\ event' = [event EXCEPT !.state = "cancelled"] /\ book' = d
        /\ UNCHANGED <<eligible, registering>>
    BY DEF CancelEvent
  <1>2. /\ Good(book) /\ event \in Event
        /\ registering' \subseteq Guests /\ eligible' \subseteq People
    BY <1>1, Parts DEF TypeOK
  <1>3. event' \in Event BY <1>1, <1>2 DEF Event
  <1>4. Keeps(book, book) /\ Fits(book, book, event'.capacity) BY Unchanged
  <1>5. event'.capacity \in Nat BY <1>3, EventFields
  <1>6. Good(c) /\ WaitingAhead(c) /\ Fits(book, c, event'.capacity)
    BY <1>2, <1>3, <1>4, Transaction
  <1> HIDE DEF c
  <1>7. d \in [People -> Row] /\ Alike(c, d) /\ NoneReminded(d)
    BY <1>6, UnremindedBook DEF NoneReminded
  <1> HIDE DEF d
  <1>8. Good(d) /\ Frees(c, d) /\ WaitingAhead(d) BY <1>6, <1>7, AlikeBook
  <1>9. Fits(c, d, event'.capacity) BY <1>8, FreesFits
  <1>10. Fits(book, d, event'.capacity) BY <1>5, <1>6, <1>9, FitsTransitive
  <1> QED BY <1>1, <1>2, <1>3, <1>7, <1>8, <1>10 DEF Step

\* The event is open and stays so, and its book is reconciled.
LEMMA OpenStep ==
  ASSUME IInv, event' \in Event, event.state = "published",
         event'.state = "published",
         UNCHANGED <<eligible, registering>>, NEW d, Good(d),
         Keeps(book, d), Frees(book, d), book' = Now(event', d)
  PROVE  Step
  <1>1. registering' \subseteq Guests /\ eligible' \subseteq People
    BY DEF IInv, TypeOK
  <1>2. Fits(book, d, event'.capacity) BY FreesFits
  <1>3. /\ Good(book') /\ WaitingAhead(book')
        /\ Fits(book, book', event'.capacity)
    BY <1>2, Transaction
  <1> QED BY <1>1, <1>3 DEF Step

LEMMA SetPolicyStep ==
  ASSUME IInv, NEW on \in BOOLEAN, SetPolicy(on)
  PROVE  Step
  <1>1. /\ event.state = "published"
        /\ event' = [event EXCEPT !.waitlist = on]
        /\ book' = Now(event', book) /\ UNCHANGED <<eligible, registering>>
    BY DEF SetPolicy, Open
  <1>2. event \in Event /\ Good(book) BY Parts DEF TypeOK
  <1>3. event' \in Event /\ event'.state = "published" BY <1>1, <1>2 DEF Event
  <1>4. Keeps(book, book) /\ Frees(book, book) BY Unchanged
  <1> QED BY <1>1, <1>2, <1>3, <1>4, OpenStep

LEMMA ScheduleStep ==
  ASSUME IInv, NEW cap \in Capacities, NEW start \in Starts, Schedule(cap, start)
  PROVE  Step
  <1> DEFINE d == Shortened(book, start)
  <1>1. /\ event.state = "published"
        /\ event' = [event EXCEPT !.capacity = cap, !.startIn = start]
        /\ book' = Now(event', d) /\ UNCHANGED <<eligible, registering>>
    BY DEF Schedule, Open
  <1>2. event \in Event /\ Good(book) /\ start \in Int
    BY EventAssumption, Parts DEF TypeOK
  <1>3. event' \in Event /\ event'.state = "published" BY <1>1, <1>2 DEF Event
  <1>4. Good(d) /\ Keeps(book, d) /\ Frees(book, d) BY <1>2, ShortenedBook
  <1> HIDE DEF d
  <1> QED BY <1>1, <1>3, <1>4, OpenStep

LEMMA SweepStep ==
  ASSUME IInv, NEW late \in 0..MaxLate, Sweep(late)
  PROVE  Step
  <1>1. /\ book' = Reconcile(event, book, late) /\ event' = event
        /\ eligible' = eligible /\ registering' = registering
    BY DEF Sweep
  <1>2. /\ Good(book) /\ event \in Event
        /\ registering' \subseteq Guests /\ eligible' \subseteq People
    BY <1>1, Parts DEF TypeOK
  <1>3. event.startIn \in Int /\ event.capacity \in Nat /\ late \in Nat
    BY <1>2, EventFields, TimeAssumption
  <1>4. /\ Good(book') /\ WaitingAhead(book') /\ Keeps(book, book')
        /\ Fits(book, book', event.capacity)
    BY <1>1, <1>2, <1>3, ReconcileBook
  <1> QED BY <1>1, <1>2, <1>4, SameEvent

LEMMA RequalifyStep ==
  ASSUME IInv, NEW p \in People, Requalify(p)
  PROVE  Step
  <1>1. event' = event /\ book' = book /\ registering' = registering
    BY DEF Requalify
  <1>2. /\ Good(book) /\ WaitingAhead(book)
        /\ registering' \subseteq Guests /\ eligible' \subseteq People
    BY <1>1, Parts DEF TypeOK, Requalify
  <1>3. Keeps(book, book) /\ Fits(book, book, event.capacity) BY Unchanged
  <1> QED BY <1>1, <1>2, <1>3, SameEvent

LEMMA TickStep ==
  ASSUME IInv, Tick
  PROVE  Step
  <1>1. /\ event' = [event EXCEPT !.startIn = Sooner(@)]
        /\ book' = [p \in People |-> Older(book[p])]
        /\ eligible' = eligible /\ registering' = registering
    BY DEF Tick
  <1>2. /\ Good(book) /\ WaitingAhead(book) /\ event \in Event
        /\ registering' \subseteq Guests /\ eligible' \subseteq People
        /\ event.state # "published" => NoneReminded(book)
    BY <1>1, Parts DEF TypeOK
  <1>3. event' \in Event /\ event'.state = event.state
    <2>1. event.startIn \in Int BY <1>2, EventFields
    <2>2. Sooner(event.startIn) \in Int BY <2>1, TimeAssumption DEF Sooner
    <2> QED BY <1>1, <1>2, <2>2 DEF Event
  <1>4. book' \in [People -> Row] /\ Alike(book, book') /\ Keeps(book, book')
    BY <1>1, <1>2, OlderBook
  <1>5. Good(book') /\ WaitingAhead(book') /\ Frees(book, book')
    BY <1>2, <1>4, AlikeBook
  <1>6. Fits(book, book', event'.capacity) BY <1>5, FreesFits
  <1> QED BY <1>2, <1>3, <1>4, <1>5, <1>6, <1>1 DEF Step, NoneReminded, Keeps

LEMMA StutteringStep ==
  ASSUME IInv, UNCHANGED vars
  PROVE  Step
  <1>1. /\ event' = event /\ book' = book /\ eligible' = eligible
        /\ registering' = registering
    BY DEF vars
  <1>2. /\ Good(book) /\ WaitingAhead(book)
        /\ registering' \subseteq Guests /\ eligible' \subseteq People
    BY <1>1, Parts DEF TypeOK
  <1>3. Keeps(book, book) /\ Fits(book, book, event.capacity) BY Unchanged
  <1> QED BY <1>1, <1>2, <1>3, SameEvent

LEMMA NextStep ==
  ASSUME IInv, [Next]_vars
  PROVE  Step
  <1>1. Members \subseteq People /\ Guests \subseteq People BY DEF People
  <1>2. CASE SystemActs
    BY <1>2, TickStep, SweepStep DEF SystemActs
  <1>3. CASE OrganizerActs
    BY <1>3, CancelEventStep, SetPolicyStep, EditStep, ScheduleStep, ReviewStep
       DEF OrganizerActs
  <1>4. ASSUME NEW p \in Members, MemberActs(p) PROVE Step
    BY <1>1, <1>4, AttendStep, WithdrawStep DEF MemberActs
  <1>5. ASSUME NEW p \in Guests, GuestActs(p) PROVE Step
    BY <1>1, <1>5, RegisterStep, ConfirmStep, GiveUpStep, RegisterByLinkStep,
       CancelByLinkStep DEF GuestActs
  <1>6. ASSUME NEW p \in People, PersonActs(p) \/ Requalify(p) PROVE Step
    BY <1>6, JoinStep, LeaveStep, AcceptStep, RemindStep, RequalifyStep
       DEF PersonActs
  <1> QED BY <1>2, <1>3, <1>4, <1>5, <1>6, StutteringStep DEF Next

-----------------------------------------------------------------------------
(* The invariant.                                                           *)

LEMMA InitHolds == Init => IInv
  <1> SUFFICES ASSUME Init PROVE IInv
    OBVIOUS
  <1>1. Nothing \in Row BY DEF Nothing, Row
  <1>2. /\ Nothing.rsvp = "none" /\ Nothing.status = "none"
        /\ Nothing.ahead = {} /\ Nothing.remind = FALSE
    BY DEF Nothing
  <1>3. book \in [People -> Row] /\ \A p \in People : book[p] = Nothing
    BY <1>1 DEF Init
  <1>4. event \in Event /\ event.state = "pending"
    <2>1. event \in [state : {"pending"}, capacity : Capacities,
                    waitlist : {FALSE}, startIn : Starts]
      BY DEF Init
    <2>2. Starts \subseteq Int BY EventAssumption
    <2>3. event.state = "pending" BY <2>1
    <2>4. event \in Event BY <2>1, <2>2 DEF Event
    <2> QED BY <2>3, <2>4
  <1>5. eligible \subseteq People /\ registering \subseteq Guests BY DEF Init
  <1>6. Good(book) /\ WaitingAhead(book) /\ NoneReminded(book)
    BY <1>1, <1>2, <1>3
       DEF Good, Fine, InOrder, FirstServed, WaitingAhead, NoneReminded, Waiting
  <1> QED BY <1>3, <1>4, <1>5, <1>6, Parts DEF TypeOK

LEMMA StepHolds == IInv /\ [Next]_vars => IInv'
  <1> SUFFICES ASSUME IInv, [Next]_vars PROVE IInv'
    OBVIOUS
  <1>1. Step BY NextStep
  <1>2. TypeOK' BY <1>1 DEF Step, TypeOK, Good
  <1>3. (Good(book) /\ WaitingAhead(book))'
    BY <1>1 DEF Step
  <1>4. (event.state # "published" => NoneReminded(book))' BY <1>1 DEF Step
  <1>5. (/\ TypeOK /\ Good(book) /\ WaitingAhead(book)
         /\ event.state # "published" => NoneReminded(book))' => IInv'
    BY Parts, PTL
  <1> QED BY <1>2, <1>3, <1>4, <1>5

-----------------------------------------------------------------------------
\* Through all transactions, late passes and cancellations the types hold,
\* the queue is a strict order of those who wait (event-waitlist.ts), and the
\* three properties below.
THEOREM Invariance == Spec => []IInv
  BY InitHolds, StepHolds, PTL DEF Spec

\* The queue is served in its order: nobody who joined later holds an offer
\* while somebody before him waits for one (reconcileEventWaitlist).
THEOREM FirstInFirstOffered == Spec => []InvitedAreFirst
  <1>1. IInv => InvitedAreFirst BY DEF IInv
  <1> QED BY <1>1, Invariance, PTL

\* An accepted entry and an enabled reminder always belong to somebody who goes,
\* the reminder to an event that is published: no way to withdraw, and no
\* cancellation of the event, leaves one behind.
THEOREM LeavesNothing == Spec => []NothingLeftBehind
  <1>1. IInv => NothingLeftBehind BY DEF IInv, NothingLeftBehind
  <1> QED BY <1>1, Invariance, PTL

\* For any number of people, any capacity and any delay of the scheduled pass,
\* the occupancy never grows beyond the capacity.
THEOREM GrowthBounded == Spec => GrowsWithinCapacity
  <1>1. IInv /\ [Next]_vars =>
          [Seats(book', 0) > Seats(book, 0) => Seats(book', 0) <= event'.capacity]_vars
    <2> SUFFICES ASSUME IInv, [Next]_vars, Seats(book', 0) > Seats(book, 0)
                 PROVE  Seats(book', 0) <= event'.capacity
      OBVIOUS
    <2>1. Step BY NextStep
    <2>2. Fits(book, book', event'.capacity) BY <2>1 DEF Step
    <2> QED BY <2>2, SeatsCount DEF Fits
  <1> QED BY <1>1, Invariance, PTL DEF Spec, GrowsWithinCapacity

-----------------------------------------------------------------------------
(* Where overbooking comes from.  That the capacity is never below the      *)
(* confirmed and the pending registrations fails in general (the run        *)
(* EventOverbooked); it holds as long as no organizer lowers the capacity.  *)

NeverLowered == [][event'.capacity >= event.capacity]_vars
SeatsForAll == Seats(book, 0) <= event.capacity

LEMMA ConfirmedSeated == Confirmed(book) \in Nat /\ Confirmed(book) <= Seats(book, 0)
  <1> DEFINE A == {p \in People : book[p].rsvp = "going" \/ Pending(book[p], 0)}
             B == {p \in People : Takes(book[p], 0)}
  <1>1. A \in SUBSET B /\ B \in SUBSET People /\ A \in SUBSET People BY DEF Takes
  <1>2. Cardinality(A) <= Cardinality(B) /\ Cardinality(A) \in Nat
    <2> HIDE DEF A, B
    <2>1. IsFiniteSet(B) /\ IsFiniteSet(A) BY <1>1, PeopleAssumption, FS_Subset
    <2> QED BY <1>1, <2>1, FS_Subset, FS_CardinalityType
  <1> QED BY <1>2 DEF Confirmed, Seats

\* An event whose capacity is never lowered has a seat for everyone who goes,
\* holds a seat or is offered one, whatever the organizer, the clock and the
\* people do: only the revocation after a smaller capacity (event-waitlist.ts,
\* reconcileEventWaitlist) overbooks.
THEOREM OverbookedByReductionOnly == Spec /\ NeverLowered => [](SeatsForAll /\ NeverOverbooked)
  <1>1. Init => SeatsForAll
    <2> SUFFICES ASSUME Init PROVE SeatsForAll
      OBVIOUS
    <2>1. {p \in People : Takes(book[p], 0)} = {}
      BY DEF Init, Nothing, Takes, Pending, Offered
    <2>2. event.capacity \in Nat BY EventAssumption DEF Init
    <2> QED BY <2>1, <2>2, FS_EmptySet DEF SeatsForAll, Seats
  <1>2. /\ IInv /\ IInv' /\ SeatsForAll
        /\ [Next]_vars
        /\ [Seats(book', 0) > Seats(book, 0) => Seats(book', 0) <= event'.capacity]_vars
        /\ [event'.capacity >= event.capacity]_vars
        => SeatsForAll'
    <2> SUFFICES ASSUME IInv, IInv', SeatsForAll,
                        [Seats(book', 0) > Seats(book, 0)
                           => Seats(book', 0) <= event'.capacity]_vars,
                        [event'.capacity >= event.capacity]_vars
                 PROVE  SeatsForAll'
      OBVIOUS
    <2>1. event.capacity \in Nat /\ event'.capacity \in Nat
      BY EventAssumption DEF IInv, TypeOK, Event
    <2>2. Seats(book, 0) \in Nat /\ Seats(book', 0) \in Nat BY SeatsCount
    <2>3. CASE UNCHANGED vars BY <2>3 DEF SeatsForAll, Seats, vars
    <2>4. CASE /\ event'.capacity >= event.capacity
               /\ Seats(book', 0) > Seats(book, 0) => Seats(book', 0) <= event'.capacity
      <3>1. Seats(book', 0) <= event'.capacity
        BY <2>1, <2>2, <2>4 DEF SeatsForAll
      <3> QED BY <3>1 DEF SeatsForAll, Seats
    <2> QED BY <2>3, <2>4
  <1>3. IInv /\ SeatsForAll => NeverOverbooked
    <2> SUFFICES ASSUME IInv, SeatsForAll PROVE Confirmed(book) <= event.capacity
      BY DEF NeverOverbooked
    <2>1. event.capacity \in Nat BY EventAssumption DEF IInv, TypeOK, Event
    <2> QED BY <2>1, SeatsCount, ConfirmedSeated DEF SeatsForAll
  <1> QED BY <1>1, <1>2, <1>3, Invariance, GrowthBounded, PTL
          DEF Spec, NeverLowered, GrowsWithinCapacity

=============================================================================
