-------------------------- MODULE MCCheckoutOrders --------------------------
(***************************************************************************)
(* Small instances of CheckoutOrders for TLC.                              *)
(***************************************************************************)
EXTENDS CheckoutOrders, TLC

CONSTANTS o1, o2, i1, i2, k1, k2

\* Both orders want i1, the first one also i2.
ScarceLine == (o1 :> (i1 :> 1 @@ i2 :> 1)) @@ (o2 :> (i1 :> 1 @@ i2 :> 0))
\* An order of two units and an order of one unit of the same item.
FulfilLine == (o1 :> (i1 :> 2)) @@ (o2 :> (i1 :> 1))

\* One unit of one item each.
UnitLine == (o1 :> (i1 :> 1)) @@ (o2 :> (i1 :> 1))

SameCheckout == [o \in Orders |-> k1]
OwnCheckout == (o1 :> k1) @@ (o2 :> k2)

=============================================================================
