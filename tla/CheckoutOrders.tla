--------------------------- MODULE CheckoutOrders ---------------------------
(***************************************************************************)
(* The order and stock transactions of the hosted checkout                 *)
(* (src/modules/agent-commerce/checkout): placement, the release of        *)
(* expired holds, the application of a payment, the three cancellations,   *)
(* the retry and the release of an allocation, handover and restocking.    *)
(*                                                                         *)
(* Every one of these transactions first takes the advisory lock of its    *)
(* community (authority.ts, direct-authority.ts), so transactions of one   *)
(* community are serial and each is one action.  What interleaves is the   *)
(* order of the transactions: buyers, the seller, the provider's events    *)
(* and the scheduled jobs each choose when to run theirs.                  *)
(*                                                                         *)
(* A call that is refused, or that replays a command already retained,     *)
(* changes no table and is a stuttering step.                              *)
(*                                                                         *)
(* A definition marked Fault is never used by the model: it is a mistake    *)
(* the next definition could have made, kept to show that a property        *)
(* notices it.                                                             *)
(***************************************************************************)
EXTENDS Integers, FiniteSets

CONSTANTS
  Orders,      \* commerce_checkout_orders that may be placed
  Items,       \* commerce_items of the community
  Line,        \* Line[o][i]: units of i that o orders, 0 when i is not on o
  Checkouts,   \* commerce_checkouts
  CheckoutOf,  \* the checkout an order is placed from
  PayRefs,     \* payment references: attempt ids and offline payment ids
  CmdRefs,     \* references of allocation release commands
  ShipRefs,    \* references of handovers
  ReturnRefs,  \* references of returns
  MaxStock,    \* the largest stock of an item (2147483647 in the code)
  None         \* no order, no reference

ASSUME OrdersAssumption  == IsFiniteSet(Orders) /\ None \notin Orders
ASSUME PayRefsAssumption == None \notin PayRefs
ASSUME MaxStockAssumption == MaxStock \in Nat
ASSUME LineAssumption ==
  /\ Line \in [Orders -> [Items -> 0..MaxStock]]
  /\ \A o \in Orders : \E i \in Items : Line[o][i] > 0
ASSUME CheckoutAssumption == CheckoutOf \in [Orders -> Checkouts]

VARIABLES
  stock, reserved,  \* commerce_items.stock, .reserved
  life, reason,     \* commerce_checkout_orders.lifecycle_state, .cancel_reason
  expired,          \* the orders whose commerce_orders.expires_at has passed
  unpayable,        \* the orders the unresolved-order port no longer reports
  hold,             \* state of commerce_inventory_reservations, per order line
  source,           \* payment application of the line's allocation, or None
  shipped, freed,   \* commerce_inventory_allocations.shipped_/released_quantity
  appOrder,         \* order of the payment application with this payment_ref
  appOutcome,       \* its outcome
  retained,         \* paid provider events in the inbox, not yet applied
  commands,         \* commerce_checkout_allocation_commands: command -> order
  moves             \* commerce_inventory_movements

orderVars == <<life, reason>>
moneyVars == <<appOrder, appOutcome>>
allocVars == <<source, shipped, freed>>
vars == <<stock, reserved, life, reason, expired, unpayable, hold, source,
          shipped, freed, appOrder, appOutcome, retained, commands, moves>>

Outcomes == {"converted", "allocated", "unallocatable", "after_cancel",
             "overpaid", "amount_mismatch", "simulated"}
\* Fault: a payment that found no stock does not count as confirmed.
ConfirmedWithStock == {"converted", "allocated"}
ConfirmedOutcomes == {"converted", "allocated", "unallocatable"}
Reasons == {"none", "buyer_cancelled", "seller_cancelled",
            "payment_not_completed", "paid_cancelled"}
Kinds == {"convert", "allocate", "allocation_release", "ship", "restock"}

Quantity == 0..MaxStock
LineItems(o) == {i \in Items : Line[o][i] > 0}

Movement == [kind  : Kinds,
             ref   : PayRefs \cup CmdRefs \cup ShipRefs \cup ReturnRefs \cup {None},
             order : Orders,
             item  : Items,
             qty   : Quantity]

TypeOK ==
  /\ stock \in [Items -> Quantity]
  /\ reserved \in [Items -> Quantity]
  /\ life \in [Orders -> {"absent", "open", "cancelled"}]
  /\ reason \in [Orders -> Reasons]
  /\ expired \subseteq Orders
  /\ unpayable \subseteq Orders
  /\ hold \in [Orders -> [Items -> {"none", "held", "released"}]]
  /\ source \in [Orders -> [Items -> PayRefs \cup {None}]]
  /\ shipped \in [Orders -> [Items -> Quantity]]
  /\ freed \in [Orders -> [Items -> Quantity]]
  /\ appOrder \in [PayRefs -> Orders \cup {None}]
  /\ appOutcome \in [PayRefs -> Outcomes \cup {"none"}]
  /\ retained \subseteq Orders \X PayRefs
  /\ commands \in [CmdRefs -> Orders \cup {None}]
  /\ moves \subseteq Movement

Init ==
  /\ stock \in [Items -> Quantity]
  /\ reserved = [i \in Items |-> 0]
  /\ life = [o \in Orders |-> "absent"]
  /\ reason = [o \in Orders |-> "none"]
  /\ expired = {}
  /\ unpayable = {}
  /\ hold = [o \in Orders |-> [i \in Items |-> "none"]]
  /\ source = [o \in Orders |-> [i \in Items |-> None]]
  /\ shipped = [o \in Orders |-> [i \in Items |-> 0]]
  /\ freed = [o \in Orders |-> [i \in Items |-> 0]]
  /\ appOrder = [r \in PayRefs |-> None]
  /\ appOutcome = [r \in PayRefs |-> "none"]
  /\ retained = {}
  /\ commands = [c \in CmdRefs |-> None]
  /\ moves = {}

-----------------------------------------------------------------------------
(* Quantities.                                                              *)

\* The units that a claim of claim[o] units by each order o amounts to: the
\* pairs <<o, k>> with k at most claim[o].  Total is the sum of the claims,
\* written as a cardinality.
Units(claim) == {u \in Orders \X (1..MaxStock) : u[2] <= claim[u[1]]}
Total(claim) == Cardinality(Units(claim))

\* Units of i in the held reservations of the orders in S.
HeldBy(S, i) ==
  [o \in Orders |-> IF o \in S /\ hold[o][i] = "held" THEN Line[o][i] ELSE 0]

\* Units of an allocation neither shipped nor released.
Remaining(o, i) ==
  IF source[o][i] = None THEN 0 ELSE Line[o][i] - shipped[o][i] - freed[o][i]

Allocated(o) == \E i \in Items : source[o][i] # None
AllHeld(o) == \A i \in LineItems(o) : hold[o][i] = "held"

\* hasConfirmedPayment.
Confirmed(o) ==
  \E r \in PayRefs : appOrder[r] = o /\ appOutcome[r] \in ConfirmedOutcomes

\* The negation of noUnappliedPaidEvent.
PaidEventPending(o) == \E r \in PayRefs : <<o, r>> \in retained

\* Fault: expired orders are due although a paid event of theirs waits.
DueDespitePaidEvent(S) == {o \in expired : \E i \in S : hold[o][i] = "held"}

\* The orders settleDueCheckoutHolds selects for the items in S.
DueOrders(S) ==
  {o \in expired : ~PaidEventPending(o) /\ \E i \in S : hold[o][i] = "held"}

\* releaseHolds of the orders in S, as the new hold table.
HoldsReleased(S) ==
  [o \in Orders |-> [i \in Items |->
     IF o \in S /\ hold[o][i] = "held" THEN "released" ELSE hold[o][i]]]

\* reserved after releaseHolds of the orders in S; the UPDATE of each item
\* requires reserved to be at least what it gives back.
Consistent(S) == \A i \in Items : Total(HeldBy(S, i)) <= reserved[i]
\* Fault: the items keep the units.
ReservedKept(S) == reserved
ReservedWithout(S) == [i \in Items |-> reserved[i] - Total(HeldBy(S, i))]

Moves(kind, ref, q) ==
  {[kind |-> kind, ref |-> ref, order |-> x[1], item |-> x[2], qty |-> q[x[1]][x[2]]] :
     x \in {y \in Orders \X Items : q[y[1]][y[2]] > 0}}

OnlyOrder(o, q) == [p \in Orders |-> IF p = o THEN q ELSE [i \in Items |-> 0]]

\* Fault: a repeated reference is not recognised.
RefNeverUsed(kind, ref) == FALSE
RefUsed(kind, ref) == \E m \in moves : m.kind = kind /\ m.ref = ref

\* What the movements of one kind have moved of a line, summed as in Total.
MovedUnits(kind, o, i) ==
  {u \in moves \X (1..MaxStock) :
     /\ u[1].kind = kind /\ u[1].order = o /\ u[1].item = i
     /\ u[2] <= u[1].qty}
Moved(kind, o, i) == Cardinality(MovedUnits(kind, o, i))
Restocked(o, i) == Moved("restock", o, i)

-----------------------------------------------------------------------------
(* Time, the attempts of an order and the provider's inbox: what happens    *)
(* around the checkout, as the checkout sees it.                            *)

\* commerce_orders.expires_at passes.
Expire(o) ==
  /\ life[o] # "absent" /\ o \notin expired
  /\ expired' = expired \cup {o}
  /\ UNCHANGED <<stock, reserved, orderVars, unpayable, hold, allocVars,
                 moneyVars, retained, commands, moves>>

\* Every attempt of the order has failed or lapsed, or its offline deadline
\* has passed: paymentUnresolvedOrders no longer finds the order.
AttemptsEnd(o) ==
  /\ life[o] = "open" /\ ~Confirmed(o) /\ o \notin unpayable
  /\ unpayable' = unpayable \cup {o}
  /\ UNCHANGED <<stock, reserved, orderVars, expired, hold, allocVars,
                 moneyVars, retained, commands, moves>>

\* A new attempt on the same order; inspectRepay asks for the holds, not for
\* the other orders of the checkout.
Repay(o) ==
  /\ life[o] = "open" /\ ~Confirmed(o) /\ o \in unpayable
  /\ AllHeld(o) /\ o \notin expired /\ ~PaidEventPending(o)
  /\ \A r \in PayRefs : appOrder[r] = o => appOutcome[r] = "simulated"
  /\ unpayable' = unpayable \ {o}
  /\ UNCHANGED <<stock, reserved, orderVars, expired, hold, allocVars,
                 moneyVars, retained, commands, moves>>

\* A verified paid event is written to the inbox and left unapplied, because
\* commerce is quarantined or an earlier event of the attempt is unapplied.
\* At most one unapplied paid event per payment reference is told apart.
RetainPaidEvent(o, r) ==
  /\ life[o] # "absent"
  /\ appOrder[r] = None
  /\ \A p \in Orders : <<p, r>> \notin retained
  /\ retained' = retained \cup {<<o, r>>}
  /\ UNCHANGED <<stock, reserved, orderVars, expired, unpayable, hold,
                 allocVars, moneyVars, commands, moves>>

-----------------------------------------------------------------------------
(* Placement and the release of expired holds.                              *)

\* The default unresolved-order port narrowed by paymentUnresolvedOrders.
Unresolved(o) ==
  \E p \in Orders : /\ CheckoutOf[p] = CheckoutOf[o]
                    /\ life[p] = "open" /\ ~Confirmed(p) /\ p \notin unpayable

Place(o) ==
  LET due == DueOrders(LineItems(o))
      left == ReservedWithout(due)
  IN  /\ life[o] = "absent"
      /\ Consistent(due)
      /\ ~Unresolved(o)
      /\ \A i \in LineItems(o) : stock[i] - left[i] >= Line[o][i]
      /\ life' = [life EXCEPT ![o] = "open"]
      /\ reserved' = [i \in Items |-> left[i] + Line[o][i]]
      /\ hold' = [HoldsReleased(due) EXCEPT
                    ![o] = [i \in Items |-> IF i \in LineItems(o) THEN "held" ELSE "none"]]
      /\ UNCHANGED <<stock, reason, expired, unpayable, allocVars, moneyVars,
                     retained, commands, moves>>

ReleaseHolds(S) ==
  /\ Consistent(S)
  /\ reserved' = ReservedWithout(S)
  /\ hold' = HoldsReleased(S)

\* settleDueCheckoutHolds, as a replayed placement and the v1 quote call it
\* for the items they need.  The orders stay open.
SettleDueHolds(S) ==
  /\ DueOrders(S) # {}
  /\ ReleaseHolds(DueOrders(S))
  /\ UNCHANGED <<stock, orderVars, expired, unpayable, allocVars, moneyVars,
                 retained, commands, moves>>

\* One transaction of sweepDueCheckoutHolds settles one order.
SweepDueHolds(o) ==
  /\ o \in DueOrders(LineItems(o))
  /\ ReleaseHolds({o})
  /\ UNCHANGED <<stock, orderVars, expired, unpayable, allocVars, moneyVars,
                 retained, commands, moves>>

-----------------------------------------------------------------------------
(* The application of a payment.                                            *)

\* Fault: the event that carried the payment stays unapplied.
RecordPaymentOnly(o, r, outcome) ==
  /\ appOrder' = [appOrder EXCEPT ![r] = o]
  /\ appOutcome' = [appOutcome EXCEPT ![r] = outcome]
  /\ UNCHANGED retained

\* Insert the application with its outcome; an event that carried the payment
\* is applied in the same transaction.
RecordPayment(o, r, outcome) ==
  /\ appOrder' = [appOrder EXCEPT ![r] = o]
  /\ appOutcome' = [appOutcome EXCEPT ![r] = outcome]
  /\ retained' = retained \ {<<o, r>>}

\* Faults: a paid order, or a cancelled one, takes the payment too.
PayableTwice(o, r) ==
  /\ appOrder[r] = None
  /\ \A p \in Orders \ {o} : <<p, r>> \notin retained
  /\ life[o] = "open"
PayableLate(o, r) ==
  /\ appOrder[r] = None
  /\ \A p \in Orders \ {o} : <<p, r>> \notin retained
  /\ life[o] # "absent" /\ ~Confirmed(o)

\* A payment the order can take: it matches the terms, and the order is open
\* and unpaid.
Payable(o, r) ==
  /\ appOrder[r] = None
  /\ \A p \in Orders \ {o} : <<p, r>> \notin retained
  /\ life[o] = "open" /\ ~Confirmed(o)

\* All lines are still held: the holds become allocations, unit for unit.  Each
\* conversion movement has an identity of its own that nobody repeats; its
\* reference is left None.
ConvertPayment(o, r) ==
  /\ Payable(o, r) /\ AllHeld(o)
  /\ RecordPayment(o, r, "converted")
  /\ hold' = HoldsReleased({o})
  /\ source' = [source EXCEPT ![o] =
                  [i \in Items |-> IF i \in LineItems(o) THEN r ELSE None]]
  /\ moves' = moves \cup Moves("convert", None, OnlyOrder(o, Line[o]))
  /\ UNCHANGED <<stock, reserved, orderVars, expired, unpayable, shipped, freed,
                 commands>>

\* Fault: units reserved for others count as available.
StockOnShelf(o) == \A i \in LineItems(o) : stock[i] >= Line[o][i]

\* The unreserved stock covers every line of o once o's own holds are gone.
StockCovers(o) ==
  \A i \in LineItems(o) : stock[i] - ReservedWithout({o})[i] >= Line[o][i]

\* The holds were released: all lines are allocated afresh, or none is.
AllocatePayment(o, r) ==
  /\ Payable(o, r) /\ ~AllHeld(o)
  /\ Consistent({o}) /\ StockCovers(o)
  /\ RecordPayment(o, r, "allocated")
  /\ hold' = HoldsReleased({o})
  /\ reserved' = [i \in Items |-> ReservedWithout({o})[i] + Line[o][i]]
  /\ source' = [source EXCEPT ![o] =
                  [i \in Items |-> IF i \in LineItems(o) THEN r ELSE None]]
  /\ moves' = moves \cup Moves("allocate", r, OnlyOrder(o, Line[o]))
  /\ UNCHANGED <<stock, orderVars, expired, unpayable, shipped, freed, commands>>

UnallocatablePayment(o, r) ==
  /\ Payable(o, r) /\ ~AllHeld(o) /\ ~StockCovers(o)
  /\ ReleaseHolds({o})
  /\ RecordPayment(o, r, "unallocatable")
  /\ UNCHANGED <<stock, orderVars, expired, unpayable, allocVars, commands, moves>>

\* Money that does not pay the order is recorded and moves nothing: a
\* simulated payment, another amount, a cancelled order, a paid order.
RecordUnappliedPayment(o, r, fact) ==
  /\ life[o] # "absent"
  /\ appOrder[r] = None
  /\ \A p \in Orders \ {o} : <<p, r>> \notin retained
  /\ \/ /\ fact = "simulated" /\ <<o, r>> \notin retained
        /\ RecordPayment(o, r, "simulated")
     \/ fact = "mismatch" /\ RecordPayment(o, r, "amount_mismatch")
     \/ fact = "match" /\ life[o] = "cancelled" /\ RecordPayment(o, r, "after_cancel")
     \/ /\ fact = "match" /\ life[o] = "open" /\ Confirmed(o)
        /\ RecordPayment(o, r, "overpaid")
  /\ UNCHANGED <<stock, reserved, orderVars, expired, unpayable, hold, allocVars,
                 commands, moves>>

\* The seller retries the allocation of a payment that found no stock.
RetryAllocation(o) ==
  /\ life[o] = "open"
  /\ \E r \in PayRefs :
       /\ appOrder[r] = o /\ appOutcome[r] = "unallocatable"
       /\ source' = [source EXCEPT ![o] =
                       [i \in Items |-> IF i \in LineItems(o) THEN r ELSE None]]
       /\ moves' = moves \cup Moves("allocate", r, OnlyOrder(o, Line[o]))
  /\ ~Allocated(o)
  /\ \A i \in LineItems(o) : hold[o][i] = "released"
  /\ \A i \in LineItems(o) : stock[i] - reserved[i] >= Line[o][i]
  /\ reserved' = [i \in Items |-> reserved[i] + Line[o][i]]
  /\ UNCHANGED <<stock, orderVars, expired, unpayable, hold, shipped, freed,
                 moneyVars, retained, commands>>

-----------------------------------------------------------------------------
(* Cancellation, release, handover, return and the seller's stock edit.     *)

Cancel(o, why) ==
  /\ life' = [life EXCEPT ![o] = "cancelled"]
  /\ reason' = [reason EXCEPT ![o] = why]

\* cancelUnpaidOrder.  A person may cancel at any time; the system cancels at
\* the end of the payment window, when no attempt can still be paid and no
\* event of the order is unapplied (settleOrderPayments, offline window).
CancelUnpaidOrder(o, why) ==
  /\ life[o] = "open" /\ ~Confirmed(o)
  /\ why = "payment_not_completed" =>
       o \in expired /\ o \in unpayable /\ ~PaidEventPending(o)
  /\ ReleaseHolds({o})
  /\ Cancel(o, why)
  /\ UNCHANGED <<stock, expired, unpayable, allocVars, moneyVars, retained,
                 commands, moves>>

\* Faults: the item keeps the released units reserved, or no movement is kept.
ReleaseKeepsReserved(o, c, q) ==
  /\ UNCHANGED reserved
  /\ freed' = [freed EXCEPT ![o] = [i \in Items |-> freed[o][i] + q[i]]]
  /\ moves' = moves \cup Moves("allocation_release", c, OnlyOrder(o, q))
  /\ commands' = [commands EXCEPT ![c] = o]
ReleaseUnjournalled(o, c, q) ==
  /\ \A i \in Items : q[i] <= reserved[i]
  /\ reserved' = [i \in Items |-> reserved[i] - q[i]]
  /\ freed' = [freed EXCEPT ![o] = [i \in Items |-> freed[o][i] + q[i]]]
  /\ UNCHANGED moves
  /\ commands' = [commands EXCEPT ![c] = o]

\* The released quantities q of order o under command c.
ReleaseUnits(o, c, q) ==
  /\ \A i \in Items : q[i] <= reserved[i]
  /\ reserved' = [i \in Items |-> reserved[i] - q[i]]
  /\ freed' = [freed EXCEPT ![o] = [i \in Items |-> freed[o][i] + q[i]]]
  /\ moves' = moves \cup Moves("allocation_release", c, OnlyOrder(o, q))
  /\ commands' = [commands EXCEPT ![c] = o]

\* releaseAllocation: the last unshipped unit released of an order that never
\* shipped cancels it.
ReleaseAllocation(o, c, q) ==
  /\ commands[c] = None /\ ~RefUsed("allocation_release", c)
  /\ life[o] = "open" /\ Allocated(o)
  /\ \A i \in Items : q[i] <= Remaining(o, i)
  /\ ReleaseUnits(o, c, q)
  /\ IF /\ \A i \in Items : q[i] = Remaining(o, i) /\ shipped[o][i] = 0
        /\ \E i \in Items : q[i] > 0
     THEN Cancel(o, "paid_cancelled")
     ELSE UNCHANGED orderVars
  /\ UNCHANGED <<stock, expired, unpayable, hold, source, shipped, moneyVars,
                 retained>>

CancelPaidOrder(o, c) ==
  /\ commands[c] = None /\ ~RefUsed("allocation_release", c)
  /\ life[o] = "open" /\ Confirmed(o)
  /\ \A i \in Items : shipped[o][i] = 0
  /\ ReleaseUnits(o, c, [i \in Items |-> Remaining(o, i)])
  /\ Cancel(o, "paid_cancelled")
  /\ UNCHANGED <<stock, expired, unpayable, hold, source, shipped, moneyVars,
                 retained>>

\* recordHandover of q[o][i] units of the lines it names, of one or more orders.
RecordHandover(ref, q) ==
  LET named == {o \in Orders : \E i \in Items : q[o][i] > 0}
      out == [i \in Items |-> Total([o \in Orders |-> q[o][i]])]
  IN  /\ named # {}
      /\ ~RefUsed("ship", ref)
      /\ \A o \in named : life[o] = "open"
      /\ \A o \in named : \A i \in Items : q[o][i] <= Remaining(o, i)
      /\ \A i \in Items : out[i] <= stock[i] /\ out[i] <= reserved[i]
      /\ stock' = [i \in Items |-> stock[i] - out[i]]
      /\ reserved' = [i \in Items |-> reserved[i] - out[i]]
      /\ shipped' = [o \in Orders |-> [i \in Items |-> shipped[o][i] + q[o][i]]]
      /\ moves' = moves \cup Moves("ship", ref, q)
      /\ UNCHANGED <<orderVars, expired, unpayable, hold, source, freed, moneyVars,
                     retained, commands>>

RestockReturn(ref, o, i, n) ==
  /\ ~RefUsed("restock", ref)
  /\ n > 0 /\ source[o][i] # None
  /\ n <= shipped[o][i] - Restocked(o, i)
  /\ stock[i] + n <= MaxStock
  /\ stock' = [stock EXCEPT ![i] = @ + n]
  /\ moves' = moves \cup {[kind |-> "restock", ref |-> ref, order |-> o,
                           item |-> i, qty |-> n]}
  /\ UNCHANGED <<reserved, orderVars, expired, unpayable, hold, allocVars,
                 moneyVars, retained, commands>>

\* updateSupplyProduct sets the stock, never below what is reserved.
EditStock(i, n) ==
  /\ n # stock[i] /\ n >= reserved[i]
  /\ stock' = [stock EXCEPT ![i] = n]
  /\ UNCHANGED <<reserved, orderVars, expired, unpayable, hold, allocVars,
                 moneyVars, retained, commands, moves>>

-----------------------------------------------------------------------------
PaymentStep(o, r) ==
  \/ ConvertPayment(o, r)
  \/ AllocatePayment(o, r)
  \/ UnallocatablePayment(o, r)
  \/ \E fact \in {"match", "mismatch", "simulated"} : RecordUnappliedPayment(o, r, fact)

Next ==
  \/ \E o \in Orders : \/ Expire(o) \/ AttemptsEnd(o) \/ Repay(o)
                       \/ Place(o) \/ SweepDueHolds(o) \/ RetryAllocation(o)
  \/ \E o \in Orders, r \in PayRefs : RetainPaidEvent(o, r) \/ PaymentStep(o, r)
  \/ \E S \in SUBSET Items : SettleDueHolds(S)
  \/ \E o \in Orders, why \in {"buyer_cancelled", "seller_cancelled",
                               "payment_not_completed"} : CancelUnpaidOrder(o, why)
  \/ \E o \in Orders, c \in CmdRefs :
       \/ CancelPaidOrder(o, c)
       \/ \E q \in [Items -> Quantity] : ReleaseAllocation(o, c, q)
  \/ \E ref \in ShipRefs, q \in [Orders -> [Items -> Quantity]] : RecordHandover(ref, q)
  \/ \E ref \in ReturnRefs, o \in Orders, i \in Items, n \in Quantity :
       RestockReturn(ref, o, i, n)
  \/ \E i \in Items, n \in Quantity : EditStock(i, n)

Spec == Init /\ [][Next]_vars

-----------------------------------------------------------------------------
(* Properties.                                                              *)

\* No transaction reserves more units of an item than are in stock
\* (placement, a late payment, a retry and the seller's own stock edit all
\* compete for the same row).
NoOversell == \A i \in Items : reserved[i] <= stock[i]

\* commerce_items.reserved is exactly the units of the held reservations plus
\* the units of the allocations neither shipped nor released
\* (check_commerce_inventory_balance of migration 168), whatever order the
\* transactions ran in.
Claims(i) == [o \in Orders |-> HeldBy(Orders, i)[o] + Remaining(o, i)]
Balance == \A i \in Items : reserved[i] = Total(Claims(i))

\* The reservations of an order are all held or all released: the branch of
\* applyHeldPayment for mixed holds never runs.
HoldsMoveTogether ==
  \A o \in Orders :
    /\ \A i \in Items : hold[o][i] = "none" <=> life[o] = "absent" \/ i \notin LineItems(o)
    /\ \A i, j \in LineItems(o) : hold[o][i] = hold[o][j]

\* At most one payment confirms an order: a second one is overpaid.
OneConfirmedPayment ==
  \A r, s \in PayRefs :
    /\ appOrder[r] # None /\ appOrder[r] = appOrder[s]
    /\ appOutcome[r] \in ConfirmedOutcomes /\ appOutcome[s] \in ConfirmedOutcomes
    => r = s

\* Units are allocated only to an order whose own confirmed payment they name,
\* on every line or on none, and a payment that found stock has its units.
AllocationIsPaid ==
  /\ \A o \in Orders, i \in Items :
       source[o][i] # None =>
         /\ appOrder[source[o][i]] = o
         /\ appOutcome[source[o][i]] \in ConfirmedOutcomes
         /\ \A j \in Items : source[o][j] = IF j \in LineItems(o) THEN source[o][i] ELSE None
  /\ \A r \in PayRefs :
       appOutcome[r] \in {"converted", "allocated"} => Allocated(appOrder[r])

\* Units held for an unpaid order are never also allocated to it.
HeldUnitsUnpaid ==
  \A o \in Orders, i \in Items :
    hold[o][i] = "held" => life[o] = "open" /\ ~Confirmed(o) /\ source[o][i] = None

\* A cancelled order keeps no unit and never shipped one, and it is cancelled
\* as paid exactly when a payment of it was confirmed
\* (cancelUnpaidOrder against cancelPaidOrder and releaseAllocation).
CancelledKeepsNothing ==
  \A o \in Orders :
    life[o] = "cancelled" =>
      /\ \A i \in Items : hold[o][i] # "held" /\ Remaining(o, i) = 0 /\ shipped[o][i] = 0
      /\ reason[o] = "paid_cancelled" <=> Confirmed(o)

\* What the rest of the invariant rests on: counters stay within their line,
\* and a payment application belongs to an order that was placed.
CountersWithinLine ==
  \A o \in Orders, i \in Items :
    /\ source[o][i] = None => shipped[o][i] = 0 /\ freed[o][i] = 0
    /\ shipped[o][i] + freed[o][i] <= Line[o][i]
PaymentsOfPlacedOrders ==
  \A r \in PayRefs :
    /\ appOrder[r] = None <=> appOutcome[r] = "none"
    /\ appOrder[r] # None => life[appOrder[r]] # "absent"

\* The inductive invariant.
IInv ==
  /\ TypeOK
  /\ NoOversell
  /\ Balance
  /\ HoldsMoveTogether
  /\ OneConfirmedPayment
  /\ AllocationIsPaid
  /\ HeldUnitsUnpaid
  /\ CancelledKeepsNothing
  /\ CountersWithinLine
  /\ PaymentsOfPlacedOrders

\* The movement journal explains every counter, and a line is never returned
\* beyond what it shipped.
JournalExplainsCounters ==
  \A o \in Orders, i \in Items :
    /\ Moved("convert", o, i) + Moved("allocate", o, i)
         = IF source[o][i] = None THEN 0 ELSE Line[o][i]
    /\ Moved("allocation_release", o, i) = freed[o][i]
    /\ Moved("ship", o, i) = shipped[o][i]
    /\ Moved("restock", o, i) <= shipped[o][i]

\* While a verified paid event of an order waits in the inbox, no placement,
\* settlement or sweep takes the units held for it: only a person's
\* cancellation or the payment itself ends the hold
\* (settlement.ts, noUnappliedPaidEvent).
PaidUnitsProtected ==
  [][\A o \in Orders :
       life[o] = "open" /\ AllHeld(o) /\ PaidEventPending(o) =>
         \/ AllHeld(o)'
         \/ Allocated(o)'
         \/ reason'[o] \in {"buyer_cancelled", "seller_cancelled"}]_vars

\* A reference of a release, a handover or a return moves units in one
\* transaction only: whoever repeats it moves nothing.
ReferencesSpentOnce ==
  [][\A m \in moves, n \in moves' \ moves :
       n.ref # None => n.kind # m.kind \/ n.ref # m.ref]_vars

\* A cancellation is final and an order that shipped stays out of its reach:
\* whatever payment, event or sweep comes later.
CancelledIsFinal ==
  [][\A o \in Orders :
       life[o] = "cancelled" =>
         /\ life'[o] = "cancelled" /\ reason'[o] = reason[o]
         /\ hold'[o] = hold[o] /\ source'[o] = source[o]
         /\ shipped'[o] = shipped[o] /\ freed'[o] = freed[o]]_vars

-----------------------------------------------------------------------------
(* Liveness: the worker's cron runs the deferred application of retained     *)
(* events and the sweep of expired holds on every tick outside quarantine.  *)

ApplyRetained(o, r) == <<o, r>> \in retained /\ PaymentStep(o, r)

Fairness ==
  /\ \A o \in Orders : WF_vars(SweepDueHolds(o))
  /\ \A o \in Orders, r \in PayRefs : WF_vars(ApplyRetained(o, r))

FairSpec == Spec /\ Fairness

\* The units of an order that was never paid return to the shelf after its
\* expiry, though a paid event may hold the sweep back for a while.
ExpiredHoldsEnd ==
  \A o \in Orders : o \in expired ~> \A i \in Items : hold[o][i] # "held"

-----------------------------------------------------------------------------
(* Each order keeps the promise of OrderLedger, whatever the other orders,   *)
(* their payments and the seller's stock edits do.                          *)

Goods(o) ==
  IF life[o] = "absent" THEN "none"
  ELSE IF life[o] = "cancelled" THEN "free"
  ELSE IF Allocated(o) THEN "kept"
  ELSE IF AllHeld(o) THEN "held"
  ELSE "free"

HandedOver(o) == \E i \in Items : shipped[o][i] > 0

Ledger(o) == INSTANCE OrderLedger WITH
  phase <- life[o], paid <- Confirmed(o), goods <- Goods(o), handed <- HandedOver(o)

\* Every order behaves as OrderLedger promises: stock is kept only for paid
\* orders, goods leave only from kept stock, and money never lands on a
\* cancelled order as a confirmed payment.
KeepsLedger ==
  /\ \A o \in Orders : Ledger(o)!Init
  /\ [][\A o \in Orders : [Ledger(o)!Next]_(Ledger(o)!vars)]_vars

\* The money of one order: its payments, whether they found stock or not.
MoneyOf(o) ==
  [r \in PayRefs |->
     IF appOrder[r] # o \/ appOutcome[r] = "simulated" THEN "none"
     ELSE IF appOutcome[r] \in ConfirmedOutcomes THEN "confirmed"
     ELSE appOutcome[r]]

Money(o) == INSTANCE OrderMoney WITH Refs <- PayRefs, phase <- life[o], money <- MoneyOf(o)

\* Every order makes of its money what OrderMoney says, the promise the payments
\* of the order rely on: one payment confirms it, while it is open, every other
\* one is too much or too late, and no outcome is ever changed.
KeepsMoney ==
  /\ \A o \in Orders : Money(o)!Init
  /\ [][\A o \in Orders : [Money(o)!Next]_(Money(o)!vars)]_vars

=============================================================================
