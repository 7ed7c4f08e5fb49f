----------------------------- MODULE OrderLedger -----------------------------
(***************************************************************************)
(* What the hosted checkout promises about one order, whatever transactions *)
(* of other orders, payment events and scheduled jobs come between: how its *)
(* life, its money and its goods may move together.  CheckoutOrders         *)
(* implements it for every order.                                          *)
(***************************************************************************)
VARIABLES
  phase,   \* "absent", "open" or "cancelled"
  paid,    \* a payment of the order is confirmed
  goods,   \* "none", "held" until paid, "kept" for the buyer, or "free"
  handed   \* some unit was handed over

vars == <<phase, paid, goods, handed>>

Init == phase = "absent" /\ paid = FALSE /\ goods = "none" /\ handed = FALSE

\* The order is placed only with all its units held.
Place ==
  /\ phase = "absent"
  /\ phase' = "open" /\ goods' = "held"
  /\ UNCHANGED <<paid, handed>>

\* The held units are given back; the order still waits for its payment.
LoseHold ==
  /\ phase = "open" /\ ~paid /\ goods = "held"
  /\ goods' = "free"
  /\ UNCHANGED <<phase, paid, handed>>

\* A payment confirms an open, unpaid order once.  Units still held become the
\* buyer's; units given back are found again, all of them, or none is.
Pay ==
  /\ phase = "open" /\ ~paid
  /\ paid' = TRUE
  /\ goods' = "kept" \/ (goods = "free" /\ goods' = "free")
  /\ UNCHANGED <<phase, handed>>

\* Stock is found later for a paid order that had none.
FindStock ==
  /\ phase = "open" /\ paid /\ goods = "free"
  /\ goods' = "kept"
  /\ UNCHANGED <<phase, paid, handed>>

\* Goods leave the shelf only out of units kept for a paid order.
HandOver ==
  /\ phase = "open" /\ paid /\ goods = "kept" /\ ~handed
  /\ handed' = TRUE
  /\ UNCHANGED <<phase, paid, goods>>

\* An order is cancelled once, never after goods left, and frees its units.
Cancel ==
  /\ phase = "open" /\ ~handed
  /\ phase' = "cancelled" /\ goods' = "free"
  /\ UNCHANGED <<paid, handed>>

Next == Place \/ LoseHold \/ Pay \/ FindStock \/ HandOver \/ Cancel

Spec == Init /\ [][Next]_vars

=============================================================================
