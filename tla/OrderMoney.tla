----------------------------- MODULE OrderMoney ------------------------------
(***************************************************************************)
(* What becomes of the money sent for one order, whoever sends it and in    *)
(* whatever order: every payment reference has one outcome, for good, and   *)
(* one reference at most confirms the order, while it is open.              *)
(*                                                                         *)
(* CheckoutOrders implements this for each of its orders, PaymentAttempts    *)
(* for its own one: the payments rely on no more than the checkout keeps.   *)
(***************************************************************************)
CONSTANT Refs    \* payment references

VARIABLES
  phase,   \* of the order: "absent", "open" or "cancelled"
  money    \* outcome of the payment with this reference, or "none"

vars == <<phase, money>>

Paid == \E r \in Refs : money[r] = "confirmed"

Init == phase \in {"absent", "open"} /\ money = [r \in Refs |-> "none"]

Record(r, outcome) ==
  /\ money[r] = "none"
  /\ money' = [money EXCEPT ![r] = outcome]

Place == phase = "absent" /\ phase' = "open" /\ UNCHANGED money
Cancel == phase = "open" /\ phase' = "cancelled" /\ UNCHANGED money

\* The first payment of an open order confirms it, any other one is too much.
Confirm(r) ==
  phase = "open" /\ ~Paid /\ Record(r, "confirmed") /\ UNCHANGED phase
Overpay(r) ==
  phase = "open" /\ Paid /\ Record(r, "overpaid") /\ UNCHANGED phase

\* Money for a cancelled order is never taken for it.
PayLate(r) ==
  phase = "cancelled" /\ Record(r, "after_cancel") /\ UNCHANGED phase

\* Another amount than the order's; it may be the last word on an unpaid order.
PayWrongAmount(r) ==
  /\ phase # "absent" /\ Record(r, "amount_mismatch")
  /\ \/ UNCHANGED phase
     \/ phase = "open" /\ ~Paid /\ phase' = "cancelled"

Next ==
  \/ Place \/ Cancel
  \/ \E r \in Refs : Confirm(r) \/ Overpay(r) \/ PayLate(r) \/ PayWrongAmount(r)

Spec == Init /\ [][Next]_vars

=============================================================================
