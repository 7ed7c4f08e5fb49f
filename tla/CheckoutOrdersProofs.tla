------------------------ MODULE CheckoutOrdersProofs ------------------------
(***************************************************************************)
(* Proofs about CheckoutOrders for any orders, items, references and stock  *)
(* bound.                                                                  *)
(***************************************************************************)
EXTENDS CheckoutOrders, FiniteSetTheorems, TLAPS

-----------------------------------------------------------------------------
(* Sums of claims.                                                          *)

Claim == [Orders -> Quantity]

\* A claim amounts to a finite number of units.
LEMMA TotalType ==
  ASSUME NEW f \in Claim
  PROVE  IsFiniteSet(Units(f)) /\ Total(f) \in Nat
<1>1. IsFiniteSet(1..MaxStock)
  BY FS_Interval, MaxStockAssumption
<1>2. IsFiniteSet(Orders \X (1..MaxStock))
  BY <1>1, FS_Product, OrdersAssumption
<1>3. IsFiniteSet(Units(f))
  BY <1>2, FS_Subset DEF Units
<1> QED
  BY <1>3, FS_CardinalityType DEF Total

\* Claims add up: the units of h = f + g are those of f and, behind them, those
\* of g.
LEMMA TotalAdd ==
  ASSUME NEW f \in Claim, NEW g \in Claim, NEW h \in Claim,
         \A o \in Orders : h[o] = f[o] + g[o]
  PROVE  Total(h) = Total(f) + Total(g)
<1> DEFINE Behind == Units(h) \ Units(f)
           shift == [u \in Units(g) |-> <<u[1], u[2] + f[u[1]]>>]
<1>1. Units(f) \subseteq Units(h)
  BY MaxStockAssumption DEF Units, Claim, Quantity
<1>2. \A u \in Units(g) : shift[u] \in Behind
  <2> TAKE u \in Units(g)
  <2>1. u[1] \in Orders /\ u[2] \in 1..MaxStock /\ u[2] <= g[u[1]] /\ shift[u] = <<u[1], u[2] + f[u[1]]>>
    BY DEF Units
  <2>2. f[u[1]] \in Nat /\ h[u[1]] = f[u[1]] + g[u[1]] /\ h[u[1]] <= MaxStock /\ u[2] \in Nat /\ u[2] >= 1
    BY <2>1, MaxStockAssumption DEF Claim, Quantity
  <2>3. g[u[1]] \in Nat
    BY <2>1, MaxStockAssumption DEF Claim, Quantity
  <2> QED
    BY <2>1, <2>2, <2>3, MaxStockAssumption DEF Units
<1>3. \A u, v \in Units(g) : shift[u] = shift[v] => u = v
  <2> TAKE u, v \in Units(g)
  <2> HAVE shift[u] = shift[v]
  <2>1. /\ u = <<u[1], u[2]>> /\ u[1] \in Orders /\ u[2] \in Int
        /\ v = <<v[1], v[2]>> /\ v[1] \in Orders /\ v[2] \in Int
    BY MaxStockAssumption DEF Units
  <2>2. u[1] = v[1] /\ u[2] + f[u[1]] = v[2] + f[v[1]]
    BY <2>1
  <2>3. f[u[1]] \in Int
    BY <2>1, MaxStockAssumption DEF Claim, Quantity
  <2> QED
    BY <2>1, <2>2, <2>3
<1>4. \A w \in Behind : \E u \in Units(g) : shift[u] = w
  <2> TAKE w \in Behind
  <2>1. /\ w = <<w[1], w[2]>> /\ w[1] \in Orders /\ w[2] \in 1..MaxStock
        /\ w[2] <= h[w[1]] /\ ~(w[2] <= f[w[1]])
    BY DEF Units
  <2>2. f[w[1]] \in Nat /\ g[w[1]] \in Nat /\ h[w[1]] = f[w[1]] + g[w[1]] /\ w[2] \in Nat
    BY <2>1, MaxStockAssumption DEF Claim, Quantity
  <2> DEFINE u == <<w[1], w[2] - f[w[1]]>>
  <2>3. u \in Units(g)
    BY <2>1, <2>2, MaxStockAssumption DEF Units
  <2>4. shift[u] = <<w[1], w[2]>>
    BY <2>2, <2>3
  <2> QED
    BY <2>1, <2>3, <2>4
<1>5. shift \in Bijection(Units(g), Behind)
  BY <1>2, <1>3, <1>4 DEF Bijection, Injection, Surjection, IsInjective
<1>6. Cardinality(Behind) = Total(g) /\ IsFiniteSet(Behind)
  BY <1>5, TotalType, FS_Bijection DEF Total, ExistsBijection
<1>7. Cardinality(Behind) = Total(h) - Cardinality(Units(h) \cap Units(f))
  BY TotalType, FS_Difference DEF Total
<1>8. Units(h) \cap Units(f) = Units(f)
  BY <1>1
<1>9. Total(g) = Total(h) - Total(f)
  BY <1>6, <1>7, <1>8 DEF Total
<1> QED
  BY <1>9, TotalType

\* A claim of one order only amounts to what that order claims.
LEMMA TotalOne ==
  ASSUME NEW f \in Claim, NEW o \in Orders, \A p \in Orders \ {o} : f[p] = 0
  PROVE  Total(f) = f[o]
<1> DEFINE pair == [k \in 1..f[o] |-> <<o, k>>]
<1>1. f[o] \in Nat /\ f[o] <= MaxStock /\ MaxStock \in Nat
  BY MaxStockAssumption DEF Claim, Quantity
<1>2. Units(f) = {<<o, k>> : k \in 1..f[o]}
  <2>1. \A u \in Units(f) : u[1] = o /\ u = <<u[1], u[2]>> /\ u[2] \in 1..f[o]
    BY <1>1 DEF Units
  <2>2. \A k \in 1..f[o] : <<o, k>> \in Units(f)
    BY <1>1 DEF Units
  <2> QED
    BY <2>1, <2>2
<1>3. pair \in Bijection(1..f[o], Units(f))
  <2>1. pair \in [1..f[o] -> Units(f)]
    BY <1>2
  <2>2. \A j, k \in 1..f[o] : pair[j] = pair[k] => j = k
    OBVIOUS
  <2>3. \A u \in Units(f) : \E k \in 1..f[o] : pair[k] = u
    BY <1>2
  <2> QED
    BY <2>1, <2>2, <2>3 DEF Bijection, Injection, Surjection, IsInjective
<1>4. IsFiniteSet(1..f[o]) /\ Cardinality(1..f[o]) = f[o]
  <2> DEFINE n == f[o]
  <2>1. 1 \in Int /\ n \in Int /\ n >= 0
    BY <1>1
  <2> HIDE DEF n
  <2>2. IsFiniteSet(1..n) /\ Cardinality(1..n) = IF 1 > n THEN 0 ELSE n - 1 + 1
    BY <2>1, FS_Interval
  <2>3. IsFiniteSet(1..n) /\ Cardinality(1..n) = n
    BY <2>1, <2>2
  <2> QED
    BY <2>3 DEF n
<1>5. ExistsBijection(1..f[o], Units(f))
  BY <1>3 DEF ExistsBijection
<1>6. Cardinality(Units(f)) = Cardinality(1..f[o])
  BY <1>4, <1>5, FS_Bijection
<1> QED
  BY <1>4, <1>6 DEF Total

\* A part of a claim amounts to no more than the claim.
LEMMA TotalPart ==
  ASSUME NEW f \in Claim, NEW h \in Claim, \A o \in Orders : f[o] <= h[o]
  PROVE  Total(f) <= Total(h)
<1>1. Units(f) \subseteq Units(h)
  BY MaxStockAssumption DEF Units, Claim, Quantity
<1> QED
  BY <1>1, TotalType, FS_Subset DEF Total

\* No claim, no unit.
LEMMA TotalNone ==
  ASSUME NEW f \in Claim, \A o \in Orders : f[o] = 0
  PROVE  Total(f) = 0
<1>1. Units(f) = {}
  BY MaxStockAssumption DEF Units
<1> QED
  BY <1>1, FS_EmptySet DEF Total

-----------------------------------------------------------------------------
(* Types.                                                                   *)

\* A held claim is a claim, and giving units back leaves a quantity.
LEMMA HeldType ==
  ASSUME TypeOK, NEW S, NEW i \in Items
  PROVE  HeldBy(S, i) \in Claim /\ Total(HeldBy(S, i)) \in Nat
<1>1. HeldBy(S, i) \in Claim
  BY LineAssumption, MaxStockAssumption DEF HeldBy, Claim, Quantity
<1> QED
  BY <1>1, TotalType

\* Giving held units back leaves a quantity of each item.
LEMMA WithoutType ==
  ASSUME TypeOK, NEW S, Consistent(S)
  PROVE  /\ ReservedWithout(S) \in [Items -> Quantity]
         /\ \A i \in Items : ReservedWithout(S)[i] <= reserved[i]
<1>1. ASSUME NEW i \in Items
      PROVE  reserved[i] - Total(HeldBy(S, i)) \in Quantity
             /\ reserved[i] - Total(HeldBy(S, i)) <= reserved[i]
  <2> DEFINE n == Total(HeldBy(S, i))
  <2>1. n \in Nat /\ n <= reserved[i] /\ reserved[i] \in Quantity
    BY HeldType DEF Consistent, TypeOK
  <2> HIDE DEF n
  <2>2. reserved[i] - n \in Quantity /\ reserved[i] - n <= reserved[i]
    BY <2>1, MaxStockAssumption DEF Quantity
  <2> QED
    BY <2>2 DEF n
<1> QED
  BY <1>1 DEF ReservedWithout

\* Releasing holds leaves a hold table.
LEMMA ReleasedType ==
  ASSUME TypeOK, NEW S
  PROVE  HoldsReleased(S) \in [Orders -> [Items -> {"none", "held", "released"}]]
BY DEF TypeOK, HoldsReleased

\* The movements of one action are movements.
LEMMA MovesType ==
  ASSUME NEW kind \in Kinds,
         NEW ref \in PayRefs \cup CmdRefs \cup ShipRefs \cup ReturnRefs \cup {None},
         NEW q \in [Orders -> [Items -> Quantity]]
  PROVE  Moves(kind, ref, q) \subseteq Movement
BY DEF Moves, Movement

\* The quantities of one order are quantities of every order.
LEMMA OnlyOrderType ==
  ASSUME NEW o \in Orders, NEW q \in [Items -> Quantity]
  PROVE  OnlyOrder(o, q) \in [Orders -> [Items -> Quantity]]
BY MaxStockAssumption DEF OnlyOrder, Quantity

\* The line of an order is a quantity of each item.
LEMMA LineType ==
  ASSUME NEW o \in Orders
  PROVE  Line[o] \in [Items -> Quantity]
BY LineAssumption DEF Quantity

\* What remains of an allocation is a quantity, and at most its line.
LEMMA RemainingType ==
  ASSUME TypeOK, CountersWithinLine, NEW o \in Orders, NEW i \in Items
  PROVE  Remaining(o, i) \in Quantity /\ Remaining(o, i) <= Line[o][i]
<1>1. shipped[o][i] \in Quantity /\ freed[o][i] \in Quantity /\ Line[o][i] \in Quantity
  BY LineType DEF TypeOK
<1>2. shipped[o][i] + freed[o][i] <= Line[o][i]
  BY DEF CountersWithinLine
<1> QED
  BY <1>1, <1>2, MaxStockAssumption DEF Remaining, Quantity

\* Every action keeps the types.
LEMMA TypeStep ==
  ASSUME IInv, Next
  PROVE  TypeOK'
<1> USE DEF orderVars, moneyVars, allocVars
<1>0. TypeOK /\ NoOversell /\ CountersWithinLine
  BY DEF IInv
<1>1. ASSUME NEW o \in Orders, Expire(o) \/ AttemptsEnd(o) \/ Repay(o)
      PROVE  TypeOK'
  BY <1>0, <1>1 DEF TypeOK, Expire, AttemptsEnd, Repay
<1>2. ASSUME NEW o \in Orders, Place(o)
      PROVE  TypeOK'
  <2> DEFINE due == DueOrders(LineItems(o))
  <2>1. /\ ReservedWithout(due) \in [Items -> Quantity]
        /\ HoldsReleased(due) \in [Orders -> [Items -> {"none", "held", "released"}]]
    BY <1>0, <1>2, WithoutType, ReleasedType DEF Place
  <2>2. ASSUME NEW i \in Items
        PROVE  ReservedWithout(due)[i] + Line[o][i] \in Quantity
    <3>1. Line[o][i] \in Quantity /\ stock[i] \in Quantity /\ ReservedWithout(due)[i] \in Quantity
      BY <1>0, <2>1, LineType DEF TypeOK
    <3>2. Line[o][i] > 0 => stock[i] - ReservedWithout(due)[i] >= Line[o][i]
      BY <1>2 DEF Place, LineItems
    <3> QED
      BY <3>1, <3>2, MaxStockAssumption DEF Quantity
  <2>3. reserved' \in [Items -> Quantity]
    BY <1>2, <2>2 DEF Place
  <2>4. hold' \in [Orders -> [Items -> {"none", "held", "released"}]]
    BY <1>2, <2>1 DEF Place
  <2> QED
    BY <1>0, <1>2, <2>3, <2>4 DEF TypeOK, Place
<1>3. ASSUME NEW S, ReleaseHolds(S)
      PROVE  /\ reserved' \in [Items -> Quantity]
             /\ hold' \in [Orders -> [Items -> {"none", "held", "released"}]]
  BY <1>0, <1>3, WithoutType, ReleasedType DEF ReleaseHolds
<1>4. ASSUME NEW o \in Orders, SweepDueHolds(o)
      PROVE  TypeOK'
  BY <1>0, <1>3, <1>4 DEF TypeOK, SweepDueHolds
<1>5. ASSUME NEW S \in SUBSET Items, SettleDueHolds(S)
      PROVE  TypeOK'
  BY <1>0, <1>3, <1>5 DEF TypeOK, SettleDueHolds
<1>6. ASSUME NEW o \in Orders, RetryAllocation(o)
      PROVE  TypeOK'
  <2>1. PICK r \in PayRefs :
          /\ source' = [source EXCEPT ![o] =
                          [i \in Items |-> IF i \in LineItems(o) THEN r ELSE None]]
          /\ moves' = moves \cup Moves("allocate", r, OnlyOrder(o, Line[o]))
    BY <1>6 DEF RetryAllocation
  <2>2. moves' \subseteq Movement
    BY <1>0, <2>1, MovesType, OnlyOrderType, LineType DEF TypeOK, Kinds
  <2>3. source' \in [Orders -> [Items -> PayRefs \cup {None}]]
    BY <1>0, <2>1 DEF TypeOK
  <2>4. ASSUME NEW i \in Items
        PROVE  reserved[i] + Line[o][i] \in Quantity
    <3>1. Line[o][i] \in Quantity /\ stock[i] \in Quantity /\ reserved[i] \in Quantity
      BY <1>0, LineType DEF TypeOK
    <3>2. Line[o][i] > 0 => stock[i] - reserved[i] >= Line[o][i]
      BY <1>6 DEF RetryAllocation, LineItems
    <3> QED
      BY <3>1, <3>2, MaxStockAssumption DEF Quantity
  <2>5. reserved' \in [Items -> Quantity]
    BY <1>6, <2>4 DEF RetryAllocation
  <2> QED
    BY <1>0, <1>6, <2>2, <2>3, <2>5 DEF TypeOK, RetryAllocation
<1>7. ASSUME NEW o \in Orders, NEW r \in PayRefs, RetainPaidEvent(o, r)
      PROVE  TypeOK'
  BY <1>0, <1>7 DEF TypeOK, RetainPaidEvent
<1>8. ASSUME NEW o \in Orders, NEW r \in PayRefs, NEW outcome \in Outcomes,
             RecordPayment(o, r, outcome)
      PROVE  /\ appOrder' \in [PayRefs -> Orders \cup {None}]
             /\ appOutcome' \in [PayRefs -> Outcomes \cup {"none"}]
             /\ retained' \subseteq Orders \X PayRefs
  BY <1>0, <1>8 DEF TypeOK, RecordPayment
<1>9. ASSUME NEW o \in Orders, NEW r \in PayRefs, ConvertPayment(o, r)
      PROVE  TypeOK'
  <2>1. /\ appOrder' \in [PayRefs -> Orders \cup {None}]
        /\ appOutcome' \in [PayRefs -> Outcomes \cup {"none"}]
        /\ retained' \subseteq Orders \X PayRefs
    BY <1>8, <1>9 DEF ConvertPayment, Outcomes
  <2>2. moves' \subseteq Movement
    BY <1>0, <1>9, MovesType, OnlyOrderType, LineType DEF TypeOK, ConvertPayment, Kinds
  <2>3. hold' \in [Orders -> [Items -> {"none", "held", "released"}]]
    BY <1>0, <1>9, ReleasedType DEF ConvertPayment
  <2>4. source' \in [Orders -> [Items -> PayRefs \cup {None}]]
    BY <1>0, <1>9 DEF TypeOK, ConvertPayment
  <2> QED
    BY <1>0, <1>9, <2>1, <2>2, <2>3, <2>4 DEF TypeOK, ConvertPayment
<1>10. ASSUME NEW o \in Orders, NEW r \in PayRefs, AllocatePayment(o, r)
       PROVE  TypeOK'
  <2>1. /\ appOrder' \in [PayRefs -> Orders \cup {None}]
        /\ appOutcome' \in [PayRefs -> Outcomes \cup {"none"}]
        /\ retained' \subseteq Orders \X PayRefs
    BY <1>8, <1>10 DEF AllocatePayment, Outcomes
  <2>2. moves' \subseteq Movement
    BY <1>0, <1>10, MovesType, OnlyOrderType, LineType DEF TypeOK, AllocatePayment, Kinds
  <2>3. hold' \in [Orders -> [Items -> {"none", "held", "released"}]]
    BY <1>0, <1>10, ReleasedType DEF AllocatePayment
  <2>4. source' \in [Orders -> [Items -> PayRefs \cup {None}]]
    BY <1>0, <1>10 DEF TypeOK, AllocatePayment
  <2>5. ASSUME NEW i \in Items
        PROVE  ReservedWithout({o})[i] + Line[o][i] \in Quantity
    <3>1. /\ Line[o][i] \in Quantity /\ stock[i] \in Quantity
          /\ ReservedWithout({o})[i] \in Quantity
      BY <1>0, <1>10, LineType, WithoutType DEF TypeOK, AllocatePayment
    <3>2. Line[o][i] > 0 => stock[i] - ReservedWithout({o})[i] >= Line[o][i]
      BY <1>10 DEF AllocatePayment, StockCovers, LineItems
    <3> QED
      BY <3>1, <3>2, MaxStockAssumption DEF Quantity
  <2>6. reserved' \in [Items -> Quantity]
    BY <1>10, <2>5 DEF AllocatePayment
  <2> QED
    BY <1>0, <1>10, <2>1, <2>2, <2>3, <2>4, <2>6 DEF TypeOK, AllocatePayment
<1>11. ASSUME NEW o \in Orders, NEW r \in PayRefs, UnallocatablePayment(o, r)
       PROVE  TypeOK'
  BY <1>0, <1>3, <1>8, <1>11 DEF TypeOK, UnallocatablePayment, Outcomes
<1>12. ASSUME NEW o \in Orders, NEW r \in PayRefs, NEW fact,
              RecordUnappliedPayment(o, r, fact)
       PROVE  TypeOK'
  <2>1. /\ appOrder' \in [PayRefs -> Orders \cup {None}]
        /\ appOutcome' \in [PayRefs -> Outcomes \cup {"none"}]
        /\ retained' \subseteq Orders \X PayRefs
    BY <1>8, <1>12 DEF RecordUnappliedPayment, Outcomes
  <2> QED
    BY <1>0, <1>12, <2>1 DEF TypeOK, RecordUnappliedPayment
<1>13. ASSUME NEW o \in Orders, NEW why \in Reasons, CancelUnpaidOrder(o, why)
       PROVE  TypeOK'
  BY <1>0, <1>3, <1>13 DEF TypeOK, CancelUnpaidOrder, Cancel
<1>14. ASSUME NEW o \in Orders, NEW c \in CmdRefs, NEW q \in [Items -> Quantity],
              \A i \in Items : q[i] <= Remaining(o, i), ReleaseUnits(o, c, q)
       PROVE  /\ reserved' \in [Items -> Quantity]
              /\ freed' \in [Orders -> [Items -> Quantity]]
              /\ moves' \subseteq Movement
              /\ commands' \in [CmdRefs -> Orders \cup {None}]
  <2>1. ASSUME NEW i \in Items
        PROVE  reserved[i] - q[i] \in Quantity /\ freed[o][i] + q[i] \in Quantity
    <3>1. /\ reserved[i] \in Quantity /\ q[i] \in Quantity /\ freed[o][i] \in Quantity
          /\ shipped[o][i] \in Quantity /\ Line[o][i] \in Quantity
          /\ q[i] <= reserved[i] /\ shipped[o][i] + freed[o][i] <= Line[o][i]
      BY <1>0, <1>14, LineType DEF TypeOK, ReleaseUnits, CountersWithinLine
    <3>2. source[o][i] = None => q[i] = 0
      BY <1>14, <3>1, MaxStockAssumption DEF Remaining, Quantity
    <3>3. source[o][i] # None => q[i] <= Line[o][i] - shipped[o][i] - freed[o][i]
      BY <1>14 DEF Remaining
    <3> QED
      BY <3>1, <3>2, <3>3, MaxStockAssumption DEF Quantity
  <2>2. moves' \subseteq Movement
    BY <1>0, <1>14, MovesType, OnlyOrderType DEF TypeOK, ReleaseUnits, Kinds
  <2> QED
    BY <1>0, <1>14, <2>1, <2>2 DEF TypeOK, ReleaseUnits
<1>15. ASSUME NEW o \in Orders, NEW c \in CmdRefs, NEW q \in [Items -> Quantity],
              ReleaseAllocation(o, c, q)
       PROVE  TypeOK'
  <2>1. /\ reserved' \in [Items -> Quantity]
        /\ freed' \in [Orders -> [Items -> Quantity]]
        /\ moves' \subseteq Movement
        /\ commands' \in [CmdRefs -> Orders \cup {None}]
    BY <1>14, <1>15 DEF ReleaseAllocation
  <2> QED
    BY <1>0, <1>15, <2>1 DEF TypeOK, ReleaseAllocation, Cancel, Reasons
<1>16. ASSUME NEW o \in Orders, NEW c \in CmdRefs, CancelPaidOrder(o, c)
       PROVE  TypeOK'
  <2> DEFINE q == [i \in Items |-> Remaining(o, i)]
  <2>1. q \in [Items -> Quantity] /\ \A i \in Items : q[i] <= Remaining(o, i)
    <3>1. \A i \in Items : Remaining(o, i) \in Quantity /\ Remaining(o, i) \in Int
      BY <1>0, RemainingType, MaxStockAssumption DEF Quantity
    <3> QED
      BY <3>1
  <2>2. /\ reserved' \in [Items -> Quantity]
        /\ freed' \in [Orders -> [Items -> Quantity]]
        /\ moves' \subseteq Movement
        /\ commands' \in [CmdRefs -> Orders \cup {None}]
    BY <1>14, <1>16, <2>1 DEF CancelPaidOrder
  <2> QED
    BY <1>0, <1>16, <2>2 DEF TypeOK, CancelPaidOrder, Cancel, Reasons
<1>17. ASSUME NEW ref \in ShipRefs, NEW q \in [Orders -> [Items -> Quantity]],
              RecordHandover(ref, q)
       PROVE  TypeOK'
  <2> DEFINE out == [i \in Items |-> Total([o \in Orders |-> q[o][i]])]
  <2>1. ASSUME NEW i \in Items
        PROVE  stock[i] - out[i] \in Quantity /\ reserved[i] - out[i] \in Quantity
    <3> DEFINE n == Total([o \in Orders |-> q[o][i]])
    <3>1. [o \in Orders |-> q[o][i]] \in Claim
      BY DEF Claim
    <3>2. n \in Nat
      BY <3>1, TotalType
    <3>3. n <= stock[i] /\ n <= reserved[i]
      BY <1>17 DEF RecordHandover
    <3>4. stock[i] \in Quantity /\ reserved[i] \in Quantity
      BY <1>0 DEF TypeOK
    <3> HIDE DEF n
    <3>5. stock[i] - n \in Quantity /\ reserved[i] - n \in Quantity
      BY <3>2, <3>3, <3>4, MaxStockAssumption DEF Quantity
    <3> QED
      BY <3>5 DEF n
  <2>2. ASSUME NEW o \in Orders, NEW i \in Items
        PROVE  shipped[o][i] + q[o][i] \in Quantity
    <3>1. /\ shipped[o][i] \in Quantity /\ freed[o][i] \in Quantity /\ Line[o][i] \in Quantity
          /\ q[o][i] \in Quantity /\ shipped[o][i] + freed[o][i] <= Line[o][i]
      BY <1>0, LineType DEF TypeOK, CountersWithinLine
    <3>2. q[o][i] > 0 => q[o][i] <= Remaining(o, i)
      BY <1>17 DEF RecordHandover
    <3>3. Remaining(o, i) <= Line[o][i] - shipped[o][i] - freed[o][i]
      BY <3>1, MaxStockAssumption DEF Remaining, Quantity
    <3>4. Remaining(o, i) \in Int
      BY <1>0, RemainingType, MaxStockAssumption DEF Quantity
    <3> QED
      BY <3>1, <3>2, <3>3, <3>4, MaxStockAssumption DEF Quantity
  <2>3. moves' \subseteq Movement
    BY <1>0, <1>17, MovesType DEF TypeOK, RecordHandover, Kinds
  <2>4. stock' \in [Items -> Quantity] /\ reserved' \in [Items -> Quantity]
    BY <1>17, <2>1 DEF RecordHandover
  <2>5. shipped' \in [Orders -> [Items -> Quantity]]
    BY <1>17, <2>2 DEF RecordHandover
  <2> QED
    BY <1>0, <1>17, <2>3, <2>4, <2>5 DEF TypeOK, RecordHandover
<1>18. ASSUME NEW ref \in ReturnRefs, NEW o \in Orders, NEW i \in Items,
              NEW n \in Quantity, RestockReturn(ref, o, i, n)
       PROVE  TypeOK'
  <2>1. stock[i] + n \in Quantity
    BY <1>0, <1>18, MaxStockAssumption DEF TypeOK, RestockReturn, Quantity
  <2>2. moves' \subseteq Movement
    BY <1>0, <1>18 DEF TypeOK, RestockReturn, Movement, Kinds
  <2> QED
    BY <1>0, <1>18, <2>1, <2>2 DEF TypeOK, RestockReturn
<1>19. ASSUME NEW i \in Items, NEW n \in Quantity, EditStock(i, n)
       PROVE  TypeOK'
  BY <1>0, <1>19 DEF TypeOK, EditStock
<1> QED
  BY <1>1, <1>2, <1>4, <1>5, <1>6, <1>7, <1>9, <1>10, <1>11, <1>12, <1>13, <1>15,
     <1>16, <1>17, <1>18, <1>19
     DEF Next, PaymentStep, Reasons

-----------------------------------------------------------------------------
(* The steps of the system, as the invariant tells them apart.              *)

\* Steps that touch no order, hold, allocation or payment.
Aside == UNCHANGED <<reserved, life, reason, hold, source, shipped, freed, appOrder, appOutcome>>

\* Expired holds are released; nothing else moves.
Settle(S) ==
  /\ ReleaseHolds(S)
  /\ UNCHANGED <<stock, life, reason, source, shipped, freed, appOrder, appOutcome>>

\* The actions of Next, grouped by the tables they leave alone.
LEMMA NextCases ==
  ASSUME Next
  PROVE  \/ Aside
         \/ \E o \in Orders : Place(o)
         \/ \E S : Settle(S)
         \/ \E o \in Orders, r \in PayRefs : ConvertPayment(o, r)
         \/ \E o \in Orders, r \in PayRefs : AllocatePayment(o, r)
         \/ \E o \in Orders, r \in PayRefs : UnallocatablePayment(o, r)
         \/ \E o \in Orders, r \in PayRefs :
              \E fact \in {"match", "mismatch", "simulated"} : RecordUnappliedPayment(o, r, fact)
         \/ \E o \in Orders : RetryAllocation(o)
         \/ \E o \in Orders, why \in {"buyer_cancelled", "seller_cancelled",
                                     "payment_not_completed"} : CancelUnpaidOrder(o, why)
         \/ \E o \in Orders, c \in CmdRefs, q \in [Items -> Quantity] : ReleaseAllocation(o, c, q)
         \/ \E o \in Orders, c \in CmdRefs : CancelPaidOrder(o, c)
         \/ \E ref \in ShipRefs, q \in [Orders -> [Items -> Quantity]] : RecordHandover(ref, q)
<1> USE DEF orderVars, moneyVars, allocVars
<1>1. ASSUME NEW o \in Orders, Expire(o) \/ AttemptsEnd(o) \/ Repay(o)
      PROVE  Aside
  BY <1>1 DEF Aside, Expire, AttemptsEnd, Repay
<1>2. ASSUME NEW o \in Orders, NEW r \in PayRefs, RetainPaidEvent(o, r)
      PROVE  Aside
  BY <1>2 DEF Aside, RetainPaidEvent
<1>3. ASSUME NEW ref \in ReturnRefs, NEW o \in Orders, NEW i \in Items,
             NEW n \in Quantity, RestockReturn(ref, o, i, n)
      PROVE  Aside
  BY <1>3 DEF Aside, RestockReturn
<1>4. ASSUME NEW i \in Items, NEW n \in Quantity, EditStock(i, n)
      PROVE  Aside
  BY <1>4 DEF Aside, EditStock
<1>5. ASSUME NEW o \in Orders, SweepDueHolds(o)
      PROVE  Settle({o})
  BY <1>5 DEF Settle, SweepDueHolds
<1>6. ASSUME NEW S \in SUBSET Items, SettleDueHolds(S)
      PROVE  Settle(DueOrders(S))
  BY <1>6 DEF Settle, SettleDueHolds
<1> QED
  BY <1>1, <1>2, <1>3, <1>4, <1>5, <1>6 DEF Next, PaymentStep

-----------------------------------------------------------------------------
(* Payments and allocations.                                                *)

\* A payment recorded under a fresh reference confirms its own order at most.
LEMMA RecordConfirms ==
  ASSUME TypeOK, NEW o \in Orders, NEW r \in PayRefs, NEW outcome \in Outcomes,
         appOrder[r] = None, RecordPayment(o, r, outcome)
  PROVE  \A p \in Orders :
           Confirmed(p)' <=> Confirmed(p) \/ (p = o /\ outcome \in ConfirmedOutcomes)
BY OrdersAssumption DEF TypeOK, RecordPayment, Confirmed

\* No step ships or releases more of a line than it orders.
LEMMA CountersStep ==
  ASSUME IInv, Next
  PROVE  CountersWithinLine'
<1> USE DEF orderVars, moneyVars, allocVars
<1>0. TypeOK /\ CountersWithinLine /\ AllocationIsPaid
  BY DEF IInv
<1>1. CASE UNCHANGED <<source, shipped, freed>>
  BY <1>0, <1>1 DEF CountersWithinLine
<1>2. ASSUME NEW o \in Orders, NEW r \in PayRefs,
             source' = [source EXCEPT ![o] =
                          [i \in Items |-> IF i \in LineItems(o) THEN r ELSE None]],
             ~Allocated(o), UNCHANGED <<shipped, freed>>
      PROVE  CountersWithinLine'
  BY <1>0, <1>2, PayRefsAssumption DEF CountersWithinLine, Allocated, TypeOK
<1>3. ASSUME NEW o \in Orders, NEW r \in PayRefs, Payable(o, r)
      PROVE  ~Allocated(o)
  BY <1>0, <1>3 DEF AllocationIsPaid, Allocated, Payable, Confirmed, TypeOK
<1>4. ASSUME NEW o \in Orders, NEW r \in PayRefs, ConvertPayment(o, r) \/ AllocatePayment(o, r)
      PROVE  CountersWithinLine'
  BY <1>2, <1>3, <1>4 DEF ConvertPayment, AllocatePayment
<1>5. ASSUME NEW o \in Orders, RetryAllocation(o)
      PROVE  CountersWithinLine'
  BY <1>2, <1>5 DEF RetryAllocation
<1>6. ASSUME NEW o \in Orders, NEW c \in CmdRefs, NEW q \in [Items -> Quantity],
             \A i \in Items : q[i] <= Remaining(o, i), ReleaseUnits(o, c, q),
             UNCHANGED <<source, shipped>>
      PROVE  CountersWithinLine'
  <2> SUFFICES ASSUME NEW p \in Orders, NEW i \in Items
               PROVE  /\ source[p][i] = None => shipped[p][i] = 0 /\ freed'[p][i] = 0
                      /\ shipped[p][i] + freed'[p][i] <= Line[p][i]
    BY <1>6 DEF CountersWithinLine
  <2>1. freed'[p][i] = IF p = o THEN freed[o][i] + q[i] ELSE freed[p][i]
    BY <1>0, <1>6 DEF TypeOK, ReleaseUnits
  <2>2. /\ source[p][i] = None => shipped[p][i] = 0 /\ freed[p][i] = 0
        /\ shipped[p][i] + freed[p][i] <= Line[p][i]
    BY <1>0 DEF CountersWithinLine
  <2>3. q[i] \in Nat /\ freed[p][i] \in Nat /\ shipped[p][i] \in Nat /\ Line[p][i] \in Nat
    BY <1>0, LineType, MaxStockAssumption DEF TypeOK, Quantity
  <2>4. source[o][i] = None => q[i] <= 0
    BY <1>6 DEF Remaining
  <2>5. source[o][i] # None => q[i] <= Line[o][i] - shipped[o][i] - freed[o][i]
    BY <1>6 DEF Remaining
  <2> QED
    BY <2>1, <2>2, <2>3, <2>4, <2>5
<1>7. ASSUME NEW o \in Orders, NEW c \in CmdRefs, NEW q \in [Items -> Quantity],
             ReleaseAllocation(o, c, q)
      PROVE  CountersWithinLine'
  BY <1>6, <1>7 DEF ReleaseAllocation
<1>8. ASSUME NEW o \in Orders, NEW c \in CmdRefs, CancelPaidOrder(o, c)
      PROVE  CountersWithinLine'
  <2>1. \A i \in Items : Remaining(o, i) \in Quantity /\ Remaining(o, i) \in Int
    BY <1>0, RemainingType, MaxStockAssumption DEF Quantity
  <2> QED
    BY <1>6, <1>8, <2>1 DEF CancelPaidOrder
<1>9. ASSUME NEW ref \in ShipRefs, NEW q \in [Orders -> [Items -> Quantity]],
             RecordHandover(ref, q)
      PROVE  CountersWithinLine'
  <2> SUFFICES ASSUME NEW p \in Orders, NEW i \in Items
               PROVE  /\ source[p][i] = None => shipped'[p][i] = 0 /\ freed[p][i] = 0
                      /\ shipped'[p][i] + freed[p][i] <= Line[p][i]
    BY <1>9 DEF CountersWithinLine, RecordHandover
  <2>1. shipped'[p][i] = shipped[p][i] + q[p][i]
    BY <1>9 DEF RecordHandover
  <2>2. /\ source[p][i] = None => shipped[p][i] = 0 /\ freed[p][i] = 0
        /\ shipped[p][i] + freed[p][i] <= Line[p][i]
    BY <1>0 DEF CountersWithinLine
  <2>3. /\ q[p][i] \in Nat /\ freed[p][i] \in Nat /\ shipped[p][i] \in Nat
        /\ Line[p][i] \in Nat
    BY <1>0, LineType, MaxStockAssumption DEF TypeOK, Quantity
  <2>4. q[p][i] > 0 => q[p][i] <= Remaining(p, i)
    BY <1>9 DEF RecordHandover
  <2>5. source[p][i] = None => ~(q[p][i] > 0)
    BY <2>3, <2>4 DEF Remaining
  <2>6. source[p][i] # None /\ q[p][i] > 0 => q[p][i] <= Line[p][i] - shipped[p][i] - freed[p][i]
    BY <2>4 DEF Remaining
  <2> QED
    BY <2>1, <2>2, <2>3, <2>5, <2>6
<1>10. ASSUME NEW o \in Orders, Place(o)
       PROVE  CountersWithinLine'
  BY <1>1, <1>10 DEF Place
<1>11. ASSUME NEW o \in Orders, NEW r \in PayRefs, NEW fact,
              UnallocatablePayment(o, r) \/ RecordUnappliedPayment(o, r, fact)
       PROVE  CountersWithinLine'
  BY <1>1, <1>11 DEF UnallocatablePayment, RecordUnappliedPayment
<1>12. ASSUME NEW o \in Orders, NEW why, CancelUnpaidOrder(o, why)
       PROVE  CountersWithinLine'
  BY <1>1, <1>12 DEF CancelUnpaidOrder
<1>13. ASSUME NEW S, Settle(S)
       PROVE  CountersWithinLine'
  BY <1>1, <1>13 DEF Settle
<1>14. CASE Aside
  BY <1>1, <1>14 DEF Aside
<1> QED
  BY <1>4, <1>5, <1>7, <1>8, <1>9, <1>10, <1>11, <1>12, <1>13, <1>14, NextCases

\* Payment applications belong to orders that were placed.
LEMMA PlacedStep ==
  ASSUME IInv, Next
  PROVE  PaymentsOfPlacedOrders'
<1> USE DEF orderVars, moneyVars, allocVars
<1>0. TypeOK /\ PaymentsOfPlacedOrders
  BY DEF IInv
<1>1. ASSUME UNCHANGED <<appOrder, appOutcome>>,
             \A p \in Orders : life[p] # "absent" => life'[p] # "absent"
      PROVE  PaymentsOfPlacedOrders'
  BY <1>0, <1>1 DEF PaymentsOfPlacedOrders, TypeOK
<1>2. ASSUME NEW o \in Orders, NEW r \in PayRefs, NEW outcome \in Outcomes,
             life[o] # "absent", RecordPayment(o, r, outcome), UNCHANGED life
      PROVE  PaymentsOfPlacedOrders'
  BY <1>0, <1>2, OrdersAssumption DEF PaymentsOfPlacedOrders, TypeOK, RecordPayment, Outcomes
<1>3. ASSUME NEW o \in Orders, NEW r \in PayRefs,
             ConvertPayment(o, r) \/ AllocatePayment(o, r) \/ UnallocatablePayment(o, r)
      PROVE  PaymentsOfPlacedOrders'
  BY <1>2, <1>3 DEF ConvertPayment, AllocatePayment, UnallocatablePayment, Payable, Outcomes
<1>4. ASSUME NEW o \in Orders, NEW r \in PayRefs, NEW fact, RecordUnappliedPayment(o, r, fact)
      PROVE  PaymentsOfPlacedOrders'
  BY <1>2, <1>4 DEF RecordUnappliedPayment, Outcomes
<1>5. ASSUME NEW o \in Orders, Place(o)
      PROVE  PaymentsOfPlacedOrders'
  BY <1>0, <1>1, <1>5 DEF Place, TypeOK
<1>6. ASSUME NEW o \in Orders, NEW why, CancelUnpaidOrder(o, why)
      PROVE  PaymentsOfPlacedOrders'
  BY <1>0, <1>1, <1>6 DEF CancelUnpaidOrder, Cancel, TypeOK
<1>7. ASSUME NEW o \in Orders, NEW c \in CmdRefs, CancelPaidOrder(o, c)
      PROVE  PaymentsOfPlacedOrders'
  BY <1>0, <1>1, <1>7 DEF CancelPaidOrder, Cancel, TypeOK
<1>8. ASSUME NEW o \in Orders, NEW c \in CmdRefs, NEW q, ReleaseAllocation(o, c, q)
      PROVE  PaymentsOfPlacedOrders'
  BY <1>0, <1>1, <1>8 DEF ReleaseAllocation, Cancel, TypeOK
<1>9. ASSUME NEW o \in Orders, RetryAllocation(o)
      PROVE  PaymentsOfPlacedOrders'
  BY <1>1, <1>9 DEF RetryAllocation
<1>10. ASSUME NEW ref, NEW q, RecordHandover(ref, q)
       PROVE  PaymentsOfPlacedOrders'
  BY <1>1, <1>10 DEF RecordHandover
<1>11. ASSUME NEW S, Settle(S)
       PROVE  PaymentsOfPlacedOrders'
  BY <1>1, <1>11 DEF Settle
<1>12. CASE Aside
  BY <1>1, <1>12 DEF Aside
<1> QED
  BY <1>3, <1>4, <1>5, <1>6, <1>7, <1>8, <1>9, <1>10, <1>11, <1>12, NextCases

\* Only a payment of an order no payment confirmed can confirm it.
LEMMA OneConfirmedStep ==
  ASSUME IInv, Next
  PROVE  OneConfirmedPayment'
<1> USE DEF orderVars, moneyVars, allocVars
<1>0. TypeOK /\ OneConfirmedPayment
  BY DEF IInv
<1>1. CASE UNCHANGED <<appOrder, appOutcome>>
  BY <1>0, <1>1 DEF OneConfirmedPayment
<1>2. ASSUME NEW o \in Orders, NEW r \in PayRefs, NEW outcome \in Outcomes,
             outcome \in ConfirmedOutcomes => ~Confirmed(o), RecordPayment(o, r, outcome)
      PROVE  OneConfirmedPayment'
  BY <1>0, <1>2, OrdersAssumption DEF OneConfirmedPayment, TypeOK, RecordPayment, Confirmed
<1>3. ASSUME NEW o \in Orders, NEW r \in PayRefs,
             ConvertPayment(o, r) \/ AllocatePayment(o, r) \/ UnallocatablePayment(o, r)
      PROVE  OneConfirmedPayment'
  BY <1>2, <1>3 DEF ConvertPayment, AllocatePayment, UnallocatablePayment, Payable, Outcomes
<1>4. ASSUME NEW o \in Orders, NEW r \in PayRefs, NEW fact, RecordUnappliedPayment(o, r, fact)
      PROVE  OneConfirmedPayment'
  BY <1>2, <1>4 DEF RecordUnappliedPayment, Outcomes, ConfirmedOutcomes
<1>5. CASE ~\E o \in Orders, r \in PayRefs :
               \/ ConvertPayment(o, r) \/ AllocatePayment(o, r) \/ UnallocatablePayment(o, r)
               \/ \E fact \in {"match", "mismatch", "simulated"} :
                     RecordUnappliedPayment(o, r, fact)
  BY <1>1, <1>5, NextCases
     DEF Aside, Place, Settle, RetryAllocation, CancelUnpaidOrder, ReleaseAllocation,
         CancelPaidOrder, RecordHandover
<1> QED
  BY <1>3, <1>4, <1>5

\* Only a confirmed payment of the order, or a retry of one, allocates, and
\* it allocates every line.
LEMMA AllocationStep ==
  ASSUME IInv, Next
  PROVE  AllocationIsPaid'
<1> USE DEF orderVars, moneyVars, allocVars
<1>0. TypeOK /\ AllocationIsPaid /\ PaymentsOfPlacedOrders
  BY DEF IInv
<1>1. CASE UNCHANGED <<source, appOrder, appOutcome>>
  BY <1>0, <1>1 DEF AllocationIsPaid, Allocated
<1>2. ASSUME NEW o \in Orders, NEW r \in PayRefs,
             appOrder[r] \in {o, None}, appOrder'[r] = o, appOutcome'[r] \in ConfirmedOutcomes,
             source' = [source EXCEPT ![o] =
                          [i \in Items |-> IF i \in LineItems(o) THEN r ELSE None]],
             \A s \in PayRefs \ {r} : appOrder'[s] = appOrder[s] /\ appOutcome'[s] = appOutcome[s],
             ~Allocated(o)
      PROVE  AllocationIsPaid'
  <2>1. \A i \in Items : source'[o][i] = IF i \in LineItems(o) THEN r ELSE None
    BY <1>0, <1>2 DEF TypeOK
  <2>2. \A p \in Orders \ {o} : source'[p] = source[p]
    BY <1>0, <1>2 DEF TypeOK
  <2>3. ASSUME NEW p \in Orders \ {o}, NEW i \in Items, source[p][i] # None
        PROVE  source[p][i] # r
    BY <1>0, <1>2, <2>3, OrdersAssumption DEF AllocationIsPaid, TypeOK
  <2>4. \E i \in Items : source'[o][i] # None
    BY <2>1, LineAssumption, PayRefsAssumption DEF LineItems
  <2>5. ASSUME NEW p \in Orders, NEW i \in Items, source'[p][i] # None
        PROVE  /\ appOrder'[source'[p][i]] = p
               /\ appOutcome'[source'[p][i]] \in ConfirmedOutcomes
               /\ \A j \in Items : source'[p][j] = IF j \in LineItems(p) THEN source'[p][i] ELSE None
    <3>1. CASE p = o
      BY <1>2, <2>1, <2>5, <3>1
    <3>2. CASE p # o
      <4>1. source[p][i] \in PayRefs \ {r} /\ source'[p] = source[p]
        BY <1>0, <2>2, <2>3, <2>5, <3>2 DEF TypeOK
      <4>2. /\ appOrder[source[p][i]] = p /\ appOutcome[source[p][i]] \in ConfirmedOutcomes
            /\ \A j \in Items : source[p][j] = IF j \in LineItems(p) THEN source[p][i] ELSE None
        BY <1>0, <4>1, PayRefsAssumption DEF AllocationIsPaid
      <4> QED
        BY <1>2, <4>1, <4>2
    <3> QED
      BY <3>1, <3>2
  <2>6. ASSUME NEW s \in PayRefs, appOutcome'[s] \in {"converted", "allocated"}
        PROVE  \E i \in Items : source'[appOrder'[s]][i] # None
    <3>1. CASE s = r
      BY <1>2, <2>4, <3>1
    <3>2. CASE s # r
      <4>1. appOrder'[s] = appOrder[s] /\ appOutcome[s] \in {"converted", "allocated"}
        BY <1>2, <2>6, <3>2
      <4>2. appOrder[s] \in Orders /\ Allocated(appOrder[s])
        BY <1>0, <4>1 DEF AllocationIsPaid, PaymentsOfPlacedOrders, TypeOK
      <4> QED
        BY <1>2, <2>2, <4>1, <4>2 DEF Allocated
    <3> QED
      BY <3>1, <3>2
  <2> QED
    BY <2>5, <2>6 DEF AllocationIsPaid, Allocated
<1>3. ASSUME NEW o \in Orders, NEW r \in PayRefs, Payable(o, r)
      PROVE  ~Allocated(o)
  BY <1>0, <1>3 DEF AllocationIsPaid, Allocated, Payable, Confirmed, TypeOK
<1>4. ASSUME NEW o \in Orders, NEW r \in PayRefs, ConvertPayment(o, r) \/ AllocatePayment(o, r)
      PROVE  AllocationIsPaid'
  <2>1. /\ appOrder[r] = None /\ ~Allocated(o)
        /\ source' = [source EXCEPT ![o] =
                        [i \in Items |-> IF i \in LineItems(o) THEN r ELSE None]]
    BY <1>3, <1>4 DEF ConvertPayment, AllocatePayment, Payable
  <2>2. RecordPayment(o, r, "converted") \/ RecordPayment(o, r, "allocated")
    BY <1>4 DEF ConvertPayment, AllocatePayment
  <2>3. appOrder'[r] = o /\ appOutcome'[r] \in ConfirmedOutcomes
    BY <1>0, <2>2 DEF RecordPayment, ConfirmedOutcomes, TypeOK
  <2>4. \A s \in PayRefs \ {r} : appOrder'[s] = appOrder[s] /\ appOutcome'[s] = appOutcome[s]
    BY <1>0, <2>2 DEF RecordPayment, TypeOK
  <2> QED
    BY <1>2, <2>1, <2>3, <2>4
<1>5. ASSUME NEW o \in Orders, RetryAllocation(o)
      PROVE  AllocationIsPaid'
  <2>1. PICK r \in PayRefs :
          /\ appOrder[r] = o /\ appOutcome[r] = "unallocatable"
          /\ source' = [source EXCEPT ![o] =
                          [i \in Items |-> IF i \in LineItems(o) THEN r ELSE None]]
    BY <1>5 DEF RetryAllocation
  <2>2. UNCHANGED <<appOrder, appOutcome>> /\ ~Allocated(o)
    BY <1>5 DEF RetryAllocation
  <2>3. appOrder'[r] = o /\ appOutcome'[r] \in ConfirmedOutcomes
    BY <2>1, <2>2 DEF ConfirmedOutcomes
  <2>4. \A s \in PayRefs \ {r} : appOrder'[s] = appOrder[s] /\ appOutcome'[s] = appOutcome[s]
    BY <2>2
  <2> QED
    BY <1>2, <2>1, <2>2, <2>3, <2>4
<1>6. ASSUME NEW o \in Orders, NEW r \in PayRefs, NEW outcome \in Outcomes,
             appOrder[r] = None, outcome \notin {"converted", "allocated"},
             RecordPayment(o, r, outcome), UNCHANGED source
      PROVE  AllocationIsPaid'
  <2>1. \A p \in Orders, i \in Items : source[p][i] # None => source[p][i] # r
    BY <1>0, <1>6, OrdersAssumption DEF AllocationIsPaid
  <2>2. \A s \in PayRefs \ {r} : appOrder'[s] = appOrder[s] /\ appOutcome'[s] = appOutcome[s]
    BY <1>0, <1>6 DEF RecordPayment, TypeOK
  <2>3. appOutcome'[r] = outcome
    BY <1>0, <1>6 DEF RecordPayment, TypeOK
  <2>4. \A p \in Orders, i \in Items : source[p][i] \in PayRefs \cup {None}
    BY <1>0 DEF TypeOK
  <2>5. ASSUME NEW p \in Orders, NEW i \in Items, source[p][i] # None
        PROVE  appOrder'[source[p][i]] = p /\ appOutcome'[source[p][i]] \in ConfirmedOutcomes
    BY <1>0, <2>1, <2>2, <2>4, <2>5 DEF AllocationIsPaid
  <2>6. ASSUME NEW s \in PayRefs, appOutcome'[s] \in {"converted", "allocated"}
        PROVE  \E i \in Items : source[appOrder'[s]][i] # None
    BY <1>0, <1>6, <2>2, <2>3, <2>6 DEF AllocationIsPaid, Allocated
  <2> QED
    BY <1>0, <1>6, <2>5, <2>6 DEF AllocationIsPaid, Allocated
<1>7. ASSUME NEW o \in Orders, NEW r \in PayRefs, UnallocatablePayment(o, r)
      PROVE  AllocationIsPaid'
  BY <1>6, <1>7 DEF UnallocatablePayment, Payable, Outcomes
<1>8. ASSUME NEW o \in Orders, NEW r \in PayRefs, NEW fact, RecordUnappliedPayment(o, r, fact)
      PROVE  AllocationIsPaid'
  BY <1>6, <1>8 DEF RecordUnappliedPayment, Outcomes
<1>9. CASE ~\E o \in Orders : \/ RetryAllocation(o)
                           \/ \E r \in PayRefs :
                                \/ ConvertPayment(o, r) \/ AllocatePayment(o, r)
                                \/ UnallocatablePayment(o, r)
                                \/ \E fact \in {"match", "mismatch", "simulated"} :
                                     RecordUnappliedPayment(o, r, fact)
  BY <1>1, <1>9, NextCases
     DEF Aside, Place, Settle, CancelUnpaidOrder, ReleaseAllocation, CancelPaidOrder, RecordHandover
<1> QED
  BY <1>4, <1>5, <1>7, <1>8, <1>9

-----------------------------------------------------------------------------
(* Holds, cancellation.                                                     *)

\* Placement holds every line of an order, and every release releases them all.
LEMMA HoldsStep ==
  ASSUME IInv, Next
  PROVE  HoldsMoveTogether'
<1> USE DEF orderVars, moneyVars, allocVars
<1>0. TypeOK /\ HoldsMoveTogether
  BY DEF IInv
<1>1. ASSUME UNCHANGED hold,
             \A p \in Orders : life'[p] = "absent" <=> life[p] = "absent"
      PROVE  HoldsMoveTogether'
  BY <1>0, <1>1 DEF HoldsMoveTogether
<1>2. ASSUME NEW S, hold' = HoldsReleased(S),
             \A p \in Orders : life'[p] = "absent" <=> life[p] = "absent"
      PROVE  HoldsMoveTogether'
  <2> SUFFICES ASSUME NEW p \in Orders
               PROVE  /\ \A i \in Items : hold'[p][i] = "none" <=> life'[p] = "absent" \/ i \notin LineItems(p)
                      /\ \A i, j \in LineItems(p) : hold'[p][i] = hold'[p][j]
    BY DEF HoldsMoveTogether
  <2>1. LineItems(p) \subseteq Items
    BY DEF LineItems
  <2>2. \A i \in Items : hold'[p][i] = IF p \in S /\ hold[p][i] = "held" THEN "released" ELSE hold[p][i]
    BY <1>2 DEF HoldsReleased
  <2>3. /\ \A i \in Items : hold[p][i] = "none" <=> life[p] = "absent" \/ i \notin LineItems(p)
        /\ \A i, j \in LineItems(p) : hold[p][i] = hold[p][j]
    BY <1>0 DEF HoldsMoveTogether
  <2>4. life'[p] = "absent" <=> life[p] = "absent"
    BY <1>2
  <2> QED
    BY <2>1, <2>2, <2>3, <2>4
<1>3. ASSUME NEW o \in Orders, Place(o)
      PROVE  HoldsMoveTogether'
  <2> DEFINE due == DueOrders(LineItems(o))
             line == [i \in Items |-> IF i \in LineItems(o) THEN "held" ELSE "none"]
  <2>1. hold' = [HoldsReleased(due) EXCEPT ![o] = line] /\ life' = [life EXCEPT ![o] = "open"]
    BY <1>3 DEF Place
  <2>2. hold'[o] = line /\ life'[o] = "open"
    BY <1>0, <2>1 DEF HoldsReleased, TypeOK
  <2>3. \A p \in Orders \ {o} : hold'[p] = HoldsReleased(due)[p] /\ life'[p] = life[p]
    BY <1>0, <2>1 DEF HoldsReleased, TypeOK
  <2>4. \A p \in Orders, i \in Items :
          HoldsReleased(due)[p][i] = IF p \in due /\ hold[p][i] = "held" THEN "released" ELSE hold[p][i]
    BY DEF HoldsReleased
  <2>5. \A i \in Items : hold'[o][i] = IF i \in LineItems(o) THEN "held" ELSE "none"
    BY <2>2
  <2>6. ASSUME NEW p \in Orders
        PROVE  /\ \A i \in Items : hold'[p][i] = "none" <=> life'[p] = "absent" \/ i \notin LineItems(p)
               /\ \A i, j \in LineItems(p) : hold'[p][i] = hold'[p][j]
    <3>1. LineItems(p) \subseteq Items
      BY DEF LineItems
    <3>2. CASE p = o
      BY <2>2, <2>5, <3>1, <3>2
    <3>3. CASE p # o
      <4>1. \A i \in Items : hold'[p][i] = IF p \in due /\ hold[p][i] = "held" THEN "released" ELSE hold[p][i]
        BY <2>3, <2>4, <3>3
      <4>2. /\ \A i \in Items : hold[p][i] = "none" <=> life[p] = "absent" \/ i \notin LineItems(p)
            /\ \A i, j \in LineItems(p) : hold[p][i] = hold[p][j]
        BY <1>0 DEF HoldsMoveTogether
      <4>3. life'[p] = life[p]
        BY <2>3, <3>3
      <4> QED
        BY <3>1, <4>1, <4>2, <4>3
    <3> QED
      BY <3>2, <3>3
  <2> QED
    BY <2>6 DEF HoldsMoveTogether
<1>4. ASSUME NEW S, Settle(S)
      PROVE  HoldsMoveTogether'
  BY <1>2, <1>4 DEF Settle, ReleaseHolds
<1>5. ASSUME NEW o \in Orders, NEW r \in PayRefs,
             ConvertPayment(o, r) \/ AllocatePayment(o, r) \/ UnallocatablePayment(o, r)
      PROVE  HoldsMoveTogether'
  BY <1>2, <1>5 DEF ConvertPayment, AllocatePayment, UnallocatablePayment, ReleaseHolds
<1>6. ASSUME NEW o \in Orders, NEW why, CancelUnpaidOrder(o, why)
      PROVE  HoldsMoveTogether'
  BY <1>0, <1>2, <1>6 DEF CancelUnpaidOrder, ReleaseHolds, Cancel, TypeOK
<1>7. ASSUME NEW o \in Orders, NEW c \in CmdRefs, NEW q, ReleaseAllocation(o, c, q)
      PROVE  HoldsMoveTogether'
  BY <1>0, <1>1, <1>7 DEF ReleaseAllocation, Cancel, TypeOK
<1>8. ASSUME NEW o \in Orders, NEW c \in CmdRefs, CancelPaidOrder(o, c)
      PROVE  HoldsMoveTogether'
  BY <1>0, <1>1, <1>8 DEF CancelPaidOrder, Cancel, TypeOK
<1>9. CASE \/ Aside
           \/ \E o \in Orders : RetryAllocation(o)
           \/ \E o \in Orders, r \in PayRefs :
                \E fact \in {"match", "mismatch", "simulated"} : RecordUnappliedPayment(o, r, fact)
           \/ \E ref \in ShipRefs, q \in [Orders -> [Items -> Quantity]] : RecordHandover(ref, q)
  BY <1>1, <1>9 DEF Aside, RetryAllocation, RecordUnappliedPayment, RecordHandover
<1> QED
  BY <1>3, <1>4, <1>5, <1>6, <1>7, <1>8, <1>9, NextCases

\* A payment, an allocation and a cancellation all end the hold of their order.
LEMMA HeldStep ==
  ASSUME IInv, Next
  PROVE  HeldUnitsUnpaid'
<1> USE DEF orderVars, moneyVars, allocVars
<1>0. /\ TypeOK /\ HeldUnitsUnpaid /\ AllocationIsPaid /\ HoldsMoveTogether
      /\ PaymentsOfPlacedOrders
  BY DEF IInv
<1>1. ASSUME \A p \in Orders, i \in Items : hold'[p][i] = "held" =>
               /\ hold[p][i] = "held" /\ life'[p] = life[p] /\ source'[p] = source[p]
               /\ Confirmed(p)' <=> Confirmed(p)
      PROVE  HeldUnitsUnpaid'
  BY <1>0, <1>1 DEF HeldUnitsUnpaid
<1>2. \A S : \A p \in Orders, i \in Items :
         HoldsReleased(S)[p][i] = "held" => hold[p][i] = "held" /\ p \notin S
  BY DEF HoldsReleased
<1>3. UNCHANGED <<appOrder, appOutcome>> => \A p \in Orders : Confirmed(p)' <=> Confirmed(p)
  BY DEF Confirmed
<1>4. ASSUME NEW o \in Orders, Place(o)
      PROVE  HeldUnitsUnpaid'
  <2> DEFINE due == DueOrders(LineItems(o))
  <2>1. UNCHANGED <<source, appOrder, appOutcome>> /\ life'[o] = "open"
    BY <1>0, <1>4 DEF Place, TypeOK
  <2>2. \A p \in Orders \ {o} : hold'[p] = HoldsReleased(due)[p] /\ life'[p] = life[p]
    BY <1>0, <1>4 DEF Place, HoldsReleased, TypeOK
  <2>3. life[o] = "absent"
    BY <1>4 DEF Place
  <2>4. ~Confirmed(o)
    BY <1>0, <2>3, OrdersAssumption DEF Confirmed, PaymentsOfPlacedOrders
  <2>5. \A i \in Items : source[o][i] = None
    <3> SUFFICES ASSUME NEW i \in Items, source[o][i] # None PROVE FALSE
      OBVIOUS
    <3>1. source[o][i] \in PayRefs /\ appOrder[source[o][i]] = o
      BY <1>0 DEF TypeOK, AllocationIsPaid
    <3> QED
      BY <1>0, <2>3, <3>1, OrdersAssumption DEF PaymentsOfPlacedOrders
  <2>6. ASSUME NEW p \in Orders, NEW i \in Items, hold'[p][i] = "held"
        PROVE  life'[p] = "open" /\ ~Confirmed(p)' /\ source'[p][i] = None
    <3>1. CASE p = o
      BY <1>3, <2>1, <2>4, <2>5, <3>1
    <3>2. CASE p # o
      <4>1. hold[p][i] = "held" /\ life'[p] = life[p] /\ source' = source
        BY <1>2, <2>1, <2>2, <2>6, <3>2
      <4> QED
        BY <1>0, <1>3, <2>1, <4>1 DEF HeldUnitsUnpaid
    <3> QED
      BY <3>1, <3>2
  <2> QED
    BY <2>6 DEF HeldUnitsUnpaid
<1>5. ASSUME NEW S, Settle(S)
      PROVE  HeldUnitsUnpaid'
  BY <1>1, <1>2, <1>3, <1>5 DEF Settle, ReleaseHolds
<1>6. ASSUME NEW o \in Orders, NEW r \in PayRefs,
             ConvertPayment(o, r) \/ AllocatePayment(o, r) \/ UnallocatablePayment(o, r)
      PROVE  HeldUnitsUnpaid'
  <2>1. hold' = HoldsReleased({o}) /\ UNCHANGED life
    BY <1>6 DEF ConvertPayment, AllocatePayment, UnallocatablePayment, ReleaseHolds
  <2>2. \A p \in Orders \ {o} : source'[p] = source[p]
    BY <1>0, <1>6 DEF ConvertPayment, AllocatePayment, UnallocatablePayment, TypeOK
  <2>3. \A p \in Orders \ {o} : Confirmed(p)' <=> Confirmed(p)
    BY <1>0, <1>6, RecordConfirms
       DEF ConvertPayment, AllocatePayment, UnallocatablePayment, Payable, Outcomes
  <2> QED
    BY <1>1, <1>2, <2>1, <2>2, <2>3
<1>7. ASSUME NEW o \in Orders, NEW r \in PayRefs, NEW fact, RecordUnappliedPayment(o, r, fact)
      PROVE  HeldUnitsUnpaid'
  <2>1. UNCHANGED <<hold, life, source>>
    BY <1>7 DEF RecordUnappliedPayment
  <2>2. \A p \in Orders : Confirmed(p)' <=> Confirmed(p)
    BY <1>0, <1>7, RecordConfirms DEF RecordUnappliedPayment, Outcomes, ConfirmedOutcomes
  <2> QED
    BY <1>1, <2>1, <2>2
<1>8. ASSUME NEW o \in Orders, RetryAllocation(o)
      PROVE  HeldUnitsUnpaid'
  <2>1. UNCHANGED <<hold, life, appOrder, appOutcome>>
    BY <1>8 DEF RetryAllocation
  <2>2. \A p \in Orders \ {o} : source'[p] = source[p]
    BY <1>0, <1>8 DEF RetryAllocation, TypeOK
  <2>3. \A i \in Items : hold[o][i] # "held"
    BY <1>0, <1>8 DEF RetryAllocation, HoldsMoveTogether, LineItems
  <2> QED
    BY <1>1, <1>3, <2>1, <2>2, <2>3
<1>9. ASSUME NEW o \in Orders, NEW why, CancelUnpaidOrder(o, why)
      PROVE  HeldUnitsUnpaid'
  <2>1. /\ hold' = HoldsReleased({o}) /\ UNCHANGED <<source, appOrder, appOutcome>>
        /\ \A p \in Orders \ {o} : life'[p] = life[p]
    BY <1>0, <1>9 DEF CancelUnpaidOrder, Cancel, ReleaseHolds, TypeOK
  <2> QED
    BY <1>1, <1>2, <1>3, <2>1
<1>10. ASSUME NEW o \in Orders, Allocated(o) \/ Confirmed(o),
              UNCHANGED <<hold, source, appOrder, appOutcome>>,
              \A p \in Orders \ {o} : life'[p] = life[p]
       PROVE  HeldUnitsUnpaid'
  <2>1. Confirmed(o)
    BY <1>0, <1>10 DEF AllocationIsPaid, Allocated, Confirmed, TypeOK
  <2>2. \A i \in Items : hold[o][i] # "held"
    BY <1>0, <2>1 DEF HeldUnitsUnpaid
  <2> QED
    BY <1>1, <1>3, <1>10, <2>2
<1>11. ASSUME NEW o \in Orders, NEW c \in CmdRefs, NEW q,
              ReleaseAllocation(o, c, q) \/ CancelPaidOrder(o, c)
       PROVE  HeldUnitsUnpaid'
  BY <1>0, <1>10, <1>11 DEF ReleaseAllocation, CancelPaidOrder, Cancel, TypeOK
<1>12. CASE \/ Aside
            \/ \E ref \in ShipRefs, q \in [Orders -> [Items -> Quantity]] : RecordHandover(ref, q)
  BY <1>1, <1>3, <1>12 DEF Aside, RecordHandover
<1> QED
  BY <1>4, <1>5, <1>6, <1>7, <1>8, <1>9, <1>11, <1>12, NextCases

\* What CancelledKeepsNothing asks of one cancelled order.
KeepsNothing(p) ==
  /\ \A i \in Items : hold[p][i] # "held" /\ Remaining(p, i) = 0 /\ shipped[p][i] = 0
  /\ reason[p] = "paid_cancelled" <=> Confirmed(p)

\* A cancellation takes back everything the order had, and no later step gives
\* it anything.
LEMMA CancelledStep ==
  ASSUME IInv, Next
  PROVE  CancelledKeepsNothing'
<1> USE DEF orderVars, moneyVars, allocVars
<1>0. /\ TypeOK /\ HeldUnitsUnpaid /\ AllocationIsPaid /\ HoldsMoveTogether
      /\ CountersWithinLine /\ CancelledKeepsNothing
  BY DEF IInv
<1>1. ASSUME NEW p \in Orders, life[p] = "cancelled", reason'[p] = reason[p],
             \A i \in Items : hold'[p][i] = "held" => hold[p][i] = "held",
             source'[p] = source[p], shipped'[p] = shipped[p], freed'[p] = freed[p],
             Confirmed(p)' <=> Confirmed(p)
      PROVE  KeepsNothing(p)'
  <2>1. KeepsNothing(p)
    BY <1>0, <1>1 DEF CancelledKeepsNothing, KeepsNothing
  <2>2. \A i \in Items : Remaining(p, i)' = Remaining(p, i)
    BY <1>1 DEF Remaining
  <2> QED
    BY <1>1, <2>1, <2>2 DEF KeepsNothing
<1>2. \A S : \A p \in Orders, i \in Items :
         HoldsReleased(S)[p][i] = "held" => hold[p][i] = "held" /\ p \notin S
  BY DEF HoldsReleased
<1>3. UNCHANGED <<appOrder, appOutcome>> => \A p \in Orders : Confirmed(p)' <=> Confirmed(p)
  BY DEF Confirmed
<1>4. ASSUME \A p \in Orders : life'[p] = "cancelled" => KeepsNothing(p)'
      PROVE  CancelledKeepsNothing'
  BY <1>4 DEF CancelledKeepsNothing, KeepsNothing
<1>5. ASSUME NEW o \in Orders, Place(o)
      PROVE  CancelledKeepsNothing'
  <2>1. UNCHANGED <<reason, source, shipped, freed, appOrder, appOutcome>> /\ life'[o] = "open"
    BY <1>0, <1>5 DEF Place, TypeOK
  <2>2. \A p \in Orders \ {o} :
          hold'[p] = HoldsReleased(DueOrders(LineItems(o)))[p] /\ life'[p] = life[p]
    BY <1>0, <1>5 DEF Place, HoldsReleased, TypeOK
  <2> QED
    BY <1>1, <1>2, <1>3, <1>4, <2>1, <2>2
<1>6. ASSUME NEW S, Settle(S)
      PROVE  CancelledKeepsNothing'
  BY <1>1, <1>2, <1>3, <1>4, <1>6 DEF Settle, ReleaseHolds
<1>7. ASSUME NEW o \in Orders, NEW r \in PayRefs,
             ConvertPayment(o, r) \/ AllocatePayment(o, r) \/ UnallocatablePayment(o, r)
      PROVE  CancelledKeepsNothing'
  <2>1. hold' = HoldsReleased({o}) /\ UNCHANGED <<life, reason, shipped, freed>> /\ life[o] = "open"
    BY <1>7 DEF ConvertPayment, AllocatePayment, UnallocatablePayment, ReleaseHolds, Payable
  <2>2. \A p \in Orders \ {o} : source'[p] = source[p]
    BY <1>0, <1>7 DEF ConvertPayment, AllocatePayment, UnallocatablePayment, TypeOK
  <2>3. \A p \in Orders \ {o} : Confirmed(p)' <=> Confirmed(p)
    BY <1>0, <1>7, RecordConfirms
       DEF ConvertPayment, AllocatePayment, UnallocatablePayment, Payable, Outcomes
  <2> QED
    BY <1>1, <1>2, <1>4, <2>1, <2>2, <2>3
<1>8. ASSUME NEW o \in Orders, NEW r \in PayRefs, NEW fact, RecordUnappliedPayment(o, r, fact)
      PROVE  CancelledKeepsNothing'
  <2>1. UNCHANGED <<hold, life, reason, source, shipped, freed>>
    BY <1>8 DEF RecordUnappliedPayment
  <2>2. \A p \in Orders : Confirmed(p)' <=> Confirmed(p)
    BY <1>0, <1>8, RecordConfirms DEF RecordUnappliedPayment, Outcomes, ConfirmedOutcomes
  <2> QED
    BY <1>1, <1>4, <2>1, <2>2
<1>9. ASSUME NEW o \in Orders, RetryAllocation(o)
      PROVE  CancelledKeepsNothing'
  <2>1. /\ UNCHANGED <<hold, life, reason, shipped, freed, appOrder, appOutcome>>
        /\ life[o] = "open"
    BY <1>9 DEF RetryAllocation
  <2>2. \A p \in Orders \ {o} : source'[p] = source[p]
    BY <1>0, <1>9 DEF RetryAllocation, TypeOK
  <2> QED
    BY <1>1, <1>3, <1>4, <2>1, <2>2
<1>10. \A o \in Orders : Allocated(o) => Confirmed(o)
  BY <1>0 DEF AllocationIsPaid, Allocated, Confirmed, TypeOK
<1>11. ASSUME NEW o \in Orders, NEW why \in Reasons \ {"paid_cancelled"}, CancelUnpaidOrder(o, why)
       PROVE  CancelledKeepsNothing'
  <2>1. /\ hold' = HoldsReleased({o}) /\ ~Confirmed(o)
        /\ UNCHANGED <<source, shipped, freed, appOrder, appOutcome>>
    BY <1>11 DEF CancelUnpaidOrder, ReleaseHolds
  <2>2. \A p \in Orders \ {o} : life'[p] = life[p] /\ reason'[p] = reason[p]
    BY <1>0, <1>11 DEF CancelUnpaidOrder, Cancel, TypeOK
  <2>3. reason'[o] = why
    BY <1>0, <1>11 DEF CancelUnpaidOrder, Cancel, TypeOK
  <2>4. \A i \in Items : source[o][i] = None
    BY <1>10, <2>1 DEF Allocated
  <2>5. \A i \in Items : Remaining(o, i)' = 0 /\ shipped'[o][i] = 0
    BY <1>0, <2>1, <2>4 DEF Remaining, CountersWithinLine
  <2>6. KeepsNothing(o)'
    BY <1>2, <1>3, <1>11, <2>1, <2>3, <2>5 DEF KeepsNothing
  <2> QED
    BY <1>1, <1>2, <1>3, <1>4, <2>1, <2>2, <2>6
<1>12. ASSUME NEW o \in Orders, NEW q \in [Items -> Quantity],
              Confirmed(o), reason'[o] = "paid_cancelled",
              \A i \in Items : q[i] = Remaining(o, i) /\ shipped[o][i] = 0,
              freed' = [freed EXCEPT ![o] = [i \in Items |-> freed[o][i] + q[i]]],
              UNCHANGED <<hold, source, shipped, appOrder, appOutcome>>
       PROVE  KeepsNothing(o)'
  <2>1. ASSUME NEW i \in Items
        PROVE  Remaining(o, i)' = 0
    <3>1. freed'[o][i] = freed[o][i] + q[i]
      BY <1>0, <1>12 DEF TypeOK
    <3>2. q[i] = IF source[o][i] = None THEN 0 ELSE Line[o][i] - shipped[o][i] - freed[o][i]
      BY <1>12 DEF Remaining
    <3>3. Remaining(o, i)' = IF source[o][i] = None THEN 0 ELSE Line[o][i] - shipped[o][i] - freed'[o][i]
      BY <1>12 DEF Remaining
    <3>4. Line[o][i] \in Int /\ shipped[o][i] \in Int /\ freed[o][i] \in Int
      BY <1>0, LineType, MaxStockAssumption DEF TypeOK, Quantity
    <3> QED
      BY <3>1, <3>2, <3>3, <3>4
  <2>2. \A i \in Items : hold[o][i] # "held"
    BY <1>0, <1>12 DEF HeldUnitsUnpaid
  <2> QED
    BY <1>3, <1>12, <2>1, <2>2 DEF KeepsNothing
<1>13. ASSUME NEW o \in Orders, NEW c \in CmdRefs, NEW q \in [Items -> Quantity],
              ReleaseAllocation(o, c, q)
       PROVE  CancelledKeepsNothing'
  <2>1. /\ UNCHANGED <<hold, source, shipped, appOrder, appOutcome>> /\ life[o] = "open"
        /\ Confirmed(o)
    BY <1>10, <1>13 DEF ReleaseAllocation
  <2>2. \A p \in Orders \ {o} :
          life'[p] = life[p] /\ reason'[p] = reason[p] /\ freed'[p] = freed[p]
    BY <1>0, <1>13 DEF ReleaseAllocation, ReleaseUnits, Cancel, TypeOK
  <2>3. life'[o] = "cancelled" =>
          /\ \A i \in Items : q[i] = Remaining(o, i) /\ shipped[o][i] = 0
          /\ reason'[o] = "paid_cancelled"
    BY <1>0, <1>13, <2>1 DEF ReleaseAllocation, Cancel, TypeOK
  <2>4. freed' = [freed EXCEPT ![o] = [i \in Items |-> freed[o][i] + q[i]]]
    BY <1>13 DEF ReleaseAllocation, ReleaseUnits
  <2>5. life'[o] = "cancelled" => KeepsNothing(o)'
    BY <1>12, <2>1, <2>3, <2>4
  <2> QED
    BY <1>1, <1>3, <1>4, <2>1, <2>2, <2>5
<1>14. ASSUME NEW o \in Orders, NEW c \in CmdRefs, CancelPaidOrder(o, c)
       PROVE  CancelledKeepsNothing'
  <2> DEFINE q == [i \in Items |-> Remaining(o, i)]
  <2>1. /\ UNCHANGED <<hold, source, shipped, appOrder, appOutcome>> /\ life[o] = "open"
        /\ Confirmed(o) /\ \A i \in Items : shipped[o][i] = 0
    BY <1>14 DEF CancelPaidOrder
  <2>2. \A p \in Orders \ {o} :
          life'[p] = life[p] /\ reason'[p] = reason[p] /\ freed'[p] = freed[p]
    BY <1>0, <1>14 DEF CancelPaidOrder, ReleaseUnits, Cancel, TypeOK
  <2>3. reason'[o] = "paid_cancelled"
    BY <1>0, <1>14 DEF CancelPaidOrder, Cancel, TypeOK
  <2>4. freed' = [freed EXCEPT ![o] = [i \in Items |-> freed[o][i] + q[i]]]
    BY <1>14 DEF CancelPaidOrder, ReleaseUnits
  <2>5. q \in [Items -> Quantity]
    BY <1>0, RemainingType
  <2>6. \A i \in Items : q[i] = Remaining(o, i)
    OBVIOUS
  <2> HIDE DEF q
  <2>7. KeepsNothing(o)'
    BY <1>12, <2>1, <2>3, <2>4, <2>5, <2>6
  <2> QED
    BY <1>1, <1>3, <1>4, <2>1, <2>2, <2>7
<1>15. ASSUME NEW ref \in ShipRefs, NEW q \in [Orders -> [Items -> Quantity]], RecordHandover(ref, q)
       PROVE  CancelledKeepsNothing'
  <2>1. UNCHANGED <<life, reason, hold, source, freed, appOrder, appOutcome>>
    BY <1>15 DEF RecordHandover
  <2>2. ASSUME NEW p \in Orders, life[p] = "cancelled"
        PROVE  shipped'[p] = shipped[p]
    <3>1. \A i \in Items : q[p][i] = 0
      BY <1>15, <2>2, MaxStockAssumption DEF RecordHandover, Quantity
    <3>2. shipped'[p] = [i \in Items |-> shipped[p][i] + q[p][i]]
      BY <1>15 DEF RecordHandover
    <3>3. shipped[p] \in [Items -> Quantity] /\ \A i \in Items : shipped[p][i] \in Int
      BY <1>0, MaxStockAssumption DEF TypeOK, Quantity
    <3> QED
      BY <3>1, <3>2, <3>3
  <2> QED
    BY <1>1, <1>3, <1>4, <2>1, <2>2
<1>16. CASE Aside
  BY <1>1, <1>3, <1>4, <1>16 DEF Aside
<1> QED
  BY <1>5, <1>6, <1>7, <1>8, <1>9, <1>11, <1>13, <1>14, <1>15, <1>16, NextCases DEF Reasons

-----------------------------------------------------------------------------
(* Stock.                                                                   *)

\* Units are reserved only out of unreserved stock, goods leave the shelf and
\* the reservation together, and the seller cannot set the stock below what is
\* reserved.
LEMMA OversellStep ==
  ASSUME IInv, Next
  PROVE  NoOversell'
<1> USE DEF orderVars, moneyVars, allocVars
<1>0. TypeOK /\ NoOversell /\ TypeOK'
  BY TypeStep DEF IInv
<1>1. \A i \in Items :
        /\ stock[i] \in Int /\ reserved[i] \in Int /\ stock'[i] \in Int /\ reserved'[i] \in Int
        /\ reserved[i] <= stock[i]
  BY <1>0, MaxStockAssumption DEF TypeOK, NoOversell, Quantity
<1>2. ASSUME UNCHANGED stock, \A i \in Items : reserved'[i] <= reserved[i]
      PROVE  NoOversell'
  BY <1>1, <1>2 DEF NoOversell
<1>3. ASSUME NEW S, ReleaseHolds(S), UNCHANGED stock
      PROVE  NoOversell'
  BY <1>0, <1>2, <1>3, WithoutType DEF ReleaseHolds
<1>4. ASSUME NEW S, Consistent(S), NEW o \in Orders, UNCHANGED stock,
             \A i \in LineItems(o) : stock[i] - ReservedWithout(S)[i] >= Line[o][i],
             reserved' = [i \in Items |-> ReservedWithout(S)[i] + Line[o][i]]
      PROVE  NoOversell'
  <2> SUFFICES ASSUME NEW i \in Items PROVE reserved'[i] <= stock[i]
    BY <1>4 DEF NoOversell
  <2>1. ReservedWithout(S)[i] \in Int /\ ReservedWithout(S)[i] <= reserved[i]
    BY <1>0, <1>4, WithoutType, MaxStockAssumption DEF Quantity
  <2>2. Line[o][i] \in Int /\ Line[o][i] >= 0
    BY LineType, MaxStockAssumption DEF Quantity
  <2>3. Line[o][i] > 0 => stock[i] - ReservedWithout(S)[i] >= Line[o][i]
    BY <1>4 DEF LineItems
  <2>4. reserved'[i] = ReservedWithout(S)[i] + Line[o][i]
    BY <1>4
  <2> QED
    BY <1>1, <2>1, <2>2, <2>3, <2>4
<1>5. ASSUME NEW o \in Orders, Place(o)
      PROVE  NoOversell'
  BY <1>4, <1>5 DEF Place
<1>6. ASSUME NEW o \in Orders, NEW r \in PayRefs, AllocatePayment(o, r)
      PROVE  NoOversell'
  BY <1>4, <1>6 DEF AllocatePayment, StockCovers
<1>7. ASSUME NEW o \in Orders, RetryAllocation(o)
      PROVE  NoOversell'
  <2> SUFFICES ASSUME NEW i \in Items PROVE reserved'[i] <= stock[i]
    BY <1>7 DEF NoOversell, RetryAllocation
  <2>1. Line[o][i] \in Int /\ Line[o][i] >= 0
    BY LineType, MaxStockAssumption DEF Quantity
  <2>2. Line[o][i] > 0 => stock[i] - reserved[i] >= Line[o][i]
    BY <1>7 DEF RetryAllocation, LineItems
  <2>3. reserved'[i] = reserved[i] + Line[o][i]
    BY <1>7 DEF RetryAllocation
  <2> QED
    BY <1>1, <2>1, <2>2, <2>3
<1>8. ASSUME NEW o \in Orders, NEW c, NEW q,
             \A i \in Items : q[i] \in Nat, ReleaseUnits(o, c, q), UNCHANGED stock
      PROVE  NoOversell'
  BY <1>1, <1>2, <1>8 DEF ReleaseUnits
<1>9. ASSUME NEW o \in Orders, NEW c \in CmdRefs, NEW q \in [Items -> Quantity],
             ReleaseAllocation(o, c, q)
      PROVE  NoOversell'
  <2>1. \A i \in Items : q[i] \in Nat
    BY MaxStockAssumption DEF Quantity
  <2> QED
    BY <1>8, <1>9, <2>1 DEF ReleaseAllocation
<1>10. ASSUME NEW o \in Orders, NEW c \in CmdRefs, CancelPaidOrder(o, c)
       PROVE  NoOversell'
  <2>1. \A i \in Items : Remaining(o, i) \in Nat
    BY <1>0, RemainingType, MaxStockAssumption DEF Quantity, IInv
  <2> QED
    BY <1>8, <1>10, <2>1 DEF CancelPaidOrder
<1>11. ASSUME NEW ref \in ShipRefs, NEW q \in [Orders -> [Items -> Quantity]],
              RecordHandover(ref, q)
       PROVE  NoOversell'
  <2> SUFFICES ASSUME NEW i \in Items PROVE reserved'[i] <= stock'[i]
    BY DEF NoOversell
  <2> DEFINE n == Total([o \in Orders |-> q[o][i]])
  <2>1. stock'[i] = stock[i] - n /\ reserved'[i] = reserved[i] - n
    BY <1>11 DEF RecordHandover
  <2>2. [o \in Orders |-> q[o][i]] \in Claim
    BY DEF Claim
  <2>3. n \in Int
    BY <2>2, TotalType
  <2> HIDE DEF n
  <2> QED
    BY <1>1, <2>1, <2>3
<1>12. ASSUME NEW ref \in ReturnRefs, NEW o \in Orders, NEW i \in Items,
              NEW n \in Quantity, RestockReturn(ref, o, i, n)
       PROVE  NoOversell'
  <2> SUFFICES ASSUME NEW j \in Items PROVE reserved[j] <= stock'[j]
    BY <1>12 DEF NoOversell, RestockReturn
  <2>1. stock'[j] = IF j = i THEN stock[i] + n ELSE stock[j]
    BY <1>0, <1>12 DEF RestockReturn, TypeOK
  <2>2. n \in Nat
    BY MaxStockAssumption DEF Quantity
  <2> QED
    BY <1>1, <2>1, <2>2
<1>13. ASSUME NEW i \in Items, NEW n \in Quantity, EditStock(i, n)
       PROVE  NoOversell'
  BY <1>0, <1>1, <1>13 DEF NoOversell, EditStock, TypeOK
<1>14. ASSUME UNCHANGED <<stock, reserved>>
       PROVE  NoOversell'
  BY <1>0, <1>14 DEF NoOversell
<1>15. ASSUME NEW o \in Orders, Expire(o) \/ AttemptsEnd(o) \/ Repay(o)
       PROVE  NoOversell'
  BY <1>14, <1>15 DEF Expire, AttemptsEnd, Repay
<1>16. ASSUME NEW o \in Orders, NEW r \in PayRefs,
              \/ RetainPaidEvent(o, r) \/ ConvertPayment(o, r)
              \/ \E fact \in {"match", "mismatch", "simulated"} : RecordUnappliedPayment(o, r, fact)
       PROVE  NoOversell'
  BY <1>14, <1>16 DEF RetainPaidEvent, ConvertPayment, RecordUnappliedPayment
<1>17. ASSUME NEW o \in Orders, NEW r \in PayRefs, UnallocatablePayment(o, r)
       PROVE  NoOversell'
  BY <1>3, <1>17 DEF UnallocatablePayment
<1>18. ASSUME NEW o \in Orders, NEW why, CancelUnpaidOrder(o, why)
       PROVE  NoOversell'
  BY <1>3, <1>18 DEF CancelUnpaidOrder
<1>19. ASSUME NEW o \in Orders, SweepDueHolds(o)
       PROVE  NoOversell'
  BY <1>3, <1>19 DEF SweepDueHolds
<1>20. ASSUME NEW S \in SUBSET Items, SettleDueHolds(S)
       PROVE  NoOversell'
  BY <1>3, <1>20 DEF SettleDueHolds
<1> QED
  BY <1>5, <1>6, <1>7, <1>9, <1>10, <1>11, <1>12, <1>13, <1>15, <1>16, <1>17, <1>18,
     <1>19, <1>20
     DEF Next, PaymentStep

\* What an order claims of an item: its line while held, then what remains of
\* its allocation.
LEMMA ClaimsType ==
  ASSUME TypeOK, CountersWithinLine, HeldUnitsUnpaid, NEW i \in Items
  PROVE  /\ Claims(i) \in Claim
         /\ \A p \in Orders :
              Claims(i)[p] = IF hold[p][i] = "held" THEN Line[p][i] ELSE Remaining(p, i)
<1> SUFFICES ASSUME NEW p \in Orders
             PROVE  /\ HeldBy(Orders, i)[p] + Remaining(p, i) \in Quantity
                    /\ HeldBy(Orders, i)[p] + Remaining(p, i)
                         = IF hold[p][i] = "held" THEN Line[p][i] ELSE Remaining(p, i)
  BY DEF Claims, Claim
<1>1. HeldBy(Orders, i)[p] = IF hold[p][i] = "held" THEN Line[p][i] ELSE 0
  BY DEF HeldBy
<1>2. hold[p][i] = "held" => Remaining(p, i) = 0
  BY DEF HeldUnitsUnpaid, Remaining
<1>3. Line[p][i] \in Quantity /\ Remaining(p, i) \in Quantity /\ \A x \in Quantity : x \in Int
  BY LineType, RemainingType, MaxStockAssumption DEF Quantity
<1> QED
  BY <1>1, <1>2, <1>3

\* The same after a step.
LEMMA ClaimsTypeNext ==
  ASSUME TypeOK', CountersWithinLine', HeldUnitsUnpaid', NEW i \in Items
  PROVE  /\ Claims(i)' \in Claim
         /\ \A p \in Orders :
              Claims(i)'[p] = IF hold'[p][i] = "held" THEN Line[p][i] ELSE Remaining(p, i)'
<1> SUFFICES ASSUME NEW p \in Orders
             PROVE  /\ HeldBy(Orders, i)'[p] + Remaining(p, i)' \in Quantity
                    /\ HeldBy(Orders, i)'[p] + Remaining(p, i)'
                         = IF hold'[p][i] = "held" THEN Line[p][i] ELSE Remaining(p, i)'
  BY DEF Claims, Claim
<1>1. HeldBy(Orders, i)'[p] = IF hold'[p][i] = "held" THEN Line[p][i] ELSE 0
  BY DEF HeldBy
<1>2. hold'[p][i] = "held" => Remaining(p, i)' = 0
  BY DEF HeldUnitsUnpaid, Remaining
<1>3. shipped'[p][i] \in Quantity /\ freed'[p][i] \in Quantity /\ Line[p][i] \in Quantity
  BY LineType DEF TypeOK
<1>4. shipped'[p][i] + freed'[p][i] <= Line[p][i]
  BY DEF CountersWithinLine
<1>5. Remaining(p, i)' \in Quantity /\ \A x \in Quantity : x \in Int
  BY <1>3, <1>4, MaxStockAssumption DEF Remaining, Quantity
<1> QED
  BY <1>1, <1>2, <1>3, <1>5

\* A claim moved from f to h changes the total by what was moved.
LEMMA TotalMoved ==
  ASSUME NEW f \in Claim, NEW h \in Claim, NEW given \in Claim, NEW taken \in Claim,
         \A o \in Orders : taken[o] <= f[o] /\ h[o] = f[o] - taken[o] + given[o]
  PROVE  Total(h) = Total(f) - Total(taken) + Total(given)
<1> DEFINE rest == [o \in Orders |-> f[o] - taken[o]]
<1>1. \A o \in Orders : f[o] \in Quantity /\ taken[o] \in Quantity /\ given[o] \in Quantity
  BY DEF Claim
<1>2. \A o \in Orders : f[o] - taken[o] \in Quantity
  BY <1>1, MaxStockAssumption DEF Quantity
<1>3. rest \in Claim
  BY <1>2 DEF Claim
<1>4. \A o \in Orders : f[o] = rest[o] + taken[o] /\ h[o] = rest[o] + given[o]
  BY <1>1, MaxStockAssumption DEF Quantity
<1> HIDE DEF rest
<1>5. Total(f) = Total(rest) + Total(taken)
  BY <1>3, <1>4, TotalAdd
<1>6. Total(h) = Total(rest) + Total(given)
  BY <1>3, <1>4, TotalAdd
<1>7. Total(rest) \in Nat /\ Total(taken) \in Nat /\ Total(given) \in Nat
  BY <1>3, TotalType
<1> QED
  BY <1>5, <1>6, <1>7

\* The claim of one order.
One(o, n) == [p \in Orders |-> IF p = o THEN n ELSE 0]

\* The claim of one order is a claim.
LEMMA OneType ==
  ASSUME NEW o \in Orders, NEW n \in Quantity
  PROVE  One(o, n) \in Claim /\ Total(One(o, n)) = n
<1>1. One(o, n) \in Claim
  BY MaxStockAssumption DEF One, Claim, Quantity
<1>2. One(o, n)[o] = n /\ \A p \in Orders \ {o} : One(o, n)[p] = 0
  BY DEF One
<1> QED
  BY <1>1, <1>2, TotalOne

\* Every step that changes what orders claim of an item changes reserved by the
\* same number of units.
LEMMA BalanceStep ==
  ASSUME IInv, Next
  PROVE  Balance'
<1> USE DEF orderVars, moneyVars, allocVars
<1>0. /\ TypeOK /\ HeldUnitsUnpaid /\ CountersWithinLine /\ AllocationIsPaid
      /\ HoldsMoveTogether /\ PaymentsOfPlacedOrders /\ Balance
      /\ TypeOK' /\ HeldUnitsUnpaid' /\ CountersWithinLine'
  BY TypeStep, HeldStep, CountersStep DEF IInv
<1>1. ASSUME NEW i \in Items
      PROVE  /\ Claims(i) \in Claim /\ Claims(i)' \in Claim
             /\ reserved[i] = Total(Claims(i)) /\ reserved[i] \in Int
  BY <1>0, ClaimsType, ClaimsTypeNext, MaxStockAssumption DEF Balance, TypeOK, Quantity
<1>2. \A i \in Items, p \in Orders :
        /\ Claims(i)[p] = IF hold[p][i] = "held" THEN Line[p][i] ELSE Remaining(p, i)
        /\ Claims(i)'[p] = IF hold'[p][i] = "held" THEN Line[p][i] ELSE Remaining(p, i)'
        /\ Claims(i)[p] \in Quantity /\ Claims(i)'[p] \in Quantity
        /\ Line[p][i] \in Quantity /\ Line[p][i] >= 0
        /\ \A n \in Quantity : n \in Int
  BY <1>0, <1>1, ClaimsType, ClaimsTypeNext, LineType, MaxStockAssumption DEF Claim, Quantity
<1>3. ASSUME NEW i \in Items, NEW given \in Claim, NEW taken \in Claim,
             \A p \in Orders : /\ taken[p] <= Claims(i)[p]
                               /\ Claims(i)'[p] = Claims(i)[p] - taken[p] + given[p],
             reserved'[i] = reserved[i] - Total(taken) + Total(given)
      PROVE  reserved'[i] = Total(Claims(i)')
  <2>1. Total(Claims(i)') = Total(Claims(i)) - Total(taken) + Total(given)
    BY <1>1, <1>3, TotalMoved
  <2> QED
    BY <1>1, <1>3, <2>1
<1> DEFINE nothing == [p \in Orders |-> 0]
<1>4. nothing \in Claim /\ Total(nothing) = 0
  <2>1. nothing \in Claim
    BY MaxStockAssumption DEF Claim, Quantity
  <2> QED
    BY <2>1, TotalNone
<1>5. \A p \in Orders : nothing[p] = 0
  OBVIOUS
<1> HIDE DEF nothing
<1>6. ASSUME NEW i \in Items, NEW given \in Claim,
             \A p \in Orders : Claims(i)'[p] = Claims(i)[p] + given[p],
             reserved'[i] = reserved[i] + Total(given)
      PROVE  reserved'[i] = Total(Claims(i)')
  <2>1. \A p \in Orders : Claims(i)[p] \in Nat /\ given[p] \in Int
    BY <1>1, MaxStockAssumption DEF Claim, Quantity
  <2>2. \A p \in Orders : /\ nothing[p] <= Claims(i)[p]
                          /\ Claims(i)'[p] = Claims(i)[p] - nothing[p] + given[p]
    BY <1>5, <1>6, <2>1
  <2>3. Total(given) \in Int
    BY TotalType
  <2>4. reserved'[i] = reserved[i] - Total(nothing) + Total(given)
    BY <1>1, <1>4, <1>6, <2>3
  <2> QED
    BY <1>3, <1>4, <2>2, <2>4
<1>7. ASSUME NEW i \in Items, NEW taken \in Claim,
             \A p \in Orders : /\ taken[p] <= Claims(i)[p]
                               /\ Claims(i)'[p] = Claims(i)[p] - taken[p],
             reserved'[i] = reserved[i] - Total(taken)
      PROVE  reserved'[i] = Total(Claims(i)')
  <2>1. \A p \in Orders : Claims(i)[p] \in Int /\ taken[p] \in Int
    BY <1>1, MaxStockAssumption DEF Claim, Quantity
  <2>2. \A p \in Orders : Claims(i)'[p] = Claims(i)[p] - taken[p] + nothing[p]
    BY <1>5, <1>7, <2>1
  <2>3. Total(taken) \in Int
    BY TotalType
  <2>4. reserved'[i] = reserved[i] - Total(taken) + Total(nothing)
    BY <1>1, <1>4, <1>7, <2>3
  <2> QED
    BY <1>3, <1>4, <1>7, <2>2, <2>4
<1>8. ASSUME \A i \in Items, p \in Orders : Claims(i)'[p] = Claims(i)[p],
             UNCHANGED reserved
      PROVE  Balance'
  <2> SUFFICES ASSUME NEW i \in Items PROVE reserved'[i] = Total(Claims(i)')
    BY DEF Balance
  <2>1. \A p \in Orders : Claims(i)[p] \in Int /\ Claims(i)'[p] = Claims(i)[p] + nothing[p]
    BY <1>2, <1>5, <1>8
  <2>2. reserved'[i] = reserved[i] + Total(nothing)
    BY <1>1, <1>4, <1>8
  <2> QED
    BY <1>4, <1>6, <2>1, <2>2

\* Releasing the holds of S takes exactly their units.
<1>9. ASSUME NEW S, ReleaseHolds(S), UNCHANGED <<source, shipped, freed>>
      PROVE  Balance'
  <2> SUFFICES ASSUME NEW i \in Items PROVE reserved'[i] = Total(Claims(i)')
    BY DEF Balance
  <2> DEFINE taken == HeldBy(S, i)
  <2>1. taken \in Claim
    BY <1>0, HeldType
  <2>2. reserved'[i] = reserved[i] - Total(taken)
    BY <1>9 DEF ReleaseHolds, ReservedWithout
  <2>3. ASSUME NEW p \in Orders
        PROVE  taken[p] <= Claims(i)[p] /\ Claims(i)'[p] = Claims(i)[p] - taken[p]
    <3>1. taken[p] = IF p \in S /\ hold[p][i] = "held" THEN Line[p][i] ELSE 0
      BY DEF HeldBy
    <3>2. hold'[p][i] = IF p \in S /\ hold[p][i] = "held" THEN "released" ELSE hold[p][i]
      BY <1>9 DEF ReleaseHolds, HoldsReleased
    <3>3. Remaining(p, i)' = Remaining(p, i)
      BY <1>9 DEF Remaining
    <3>4. hold[p][i] = "held" => Remaining(p, i) = 0
      BY <1>0 DEF HeldUnitsUnpaid, Remaining
    <3>5. Claims(i)[p] \in Nat
      BY <1>2, MaxStockAssumption DEF Quantity
    <3> HIDE DEF taken
    <3> QED
      BY <1>2, <3>1, <3>2, <3>3, <3>4, <3>5
  <2> HIDE DEF taken
  <2> QED
    BY <1>7, <2>1, <2>2, <2>3

\* An order that claims nothing comes to claim its line.
<1>10. ASSUME NEW o \in Orders, NEW i \in Items,
              Claims(i)[o] = 0, Claims(i)'[o] = Line[o][i],
              \A p \in Orders \ {o} : Claims(i)'[p] = Claims(i)[p],
              reserved'[i] = reserved[i] + Line[o][i]
       PROVE  reserved'[i] = Total(Claims(i)')
  <2>1. One(o, Line[o][i]) \in Claim /\ Total(One(o, Line[o][i])) = Line[o][i]
    BY <1>2, OneType
  <2>2. \A p \in Orders : Claims(i)'[p] = Claims(i)[p] + One(o, Line[o][i])[p]
    BY <1>2, <1>10 DEF One
  <2> QED
    BY <1>6, <1>10, <2>1, <2>2

\* A payment r of o allocates the lines of o: what o claims afterwards.
<1>11. ASSUME NEW o \in Orders, NEW r \in PayRefs, NEW i \in Items, ~Allocated(o),
              source' = [source EXCEPT ![o] =
                           [j \in Items |-> IF j \in LineItems(o) THEN r ELSE None]],
              UNCHANGED <<shipped, freed>>
       PROVE  /\ Remaining(o, i) = 0 /\ Remaining(o, i)' = Line[o][i]
              /\ \A p \in Orders \ {o} : Remaining(p, i)' = Remaining(p, i)
  <2>1. source'[o][i] = IF i \in LineItems(o) THEN r ELSE None
    BY <1>0, <1>11 DEF TypeOK
  <2>2. \A p \in Orders \ {o} : source'[p] = source[p]
    BY <1>0, <1>11 DEF TypeOK
  <2>3. source[o][i] = None /\ shipped[o][i] = 0 /\ freed[o][i] = 0
    BY <1>0, <1>11 DEF Allocated, CountersWithinLine
  <2>4. i \notin LineItems(o) => Line[o][i] = 0
    BY <1>2, MaxStockAssumption DEF LineItems, Quantity
  <2>5. Remaining(o, i)' = IF i \in LineItems(o) THEN Line[o][i] - 0 - 0 ELSE 0
    BY <1>11, <2>1, <2>3, PayRefsAssumption DEF Remaining
  <2> QED
    BY <1>2, <1>11, <2>2, <2>3, <2>4, <2>5 DEF Remaining
<1>12. ASSUME NEW o \in Orders, NEW r \in PayRefs, Payable(o, r)
       PROVE  ~Allocated(o)
  BY <1>0, <1>12 DEF AllocationIsPaid, Allocated, Payable, Confirmed, TypeOK
<1>13. ASSUME NEW o \in Orders, Place(o)
       PROVE  Balance'
  <2> SUFFICES ASSUME NEW i \in Items PROVE reserved'[i] = Total(Claims(i)')
    BY DEF Balance
  <2> DEFINE due == DueOrders(LineItems(o))
             taken == HeldBy(due, i)
  <2>1. taken \in Claim /\ Total(taken) \in Int
    BY <1>0, HeldType
  <2>2. reserved'[i] = reserved[i] - Total(taken) + Line[o][i]
    BY <1>13 DEF Place, ReservedWithout
  <2>3. One(o, Line[o][i]) \in Claim /\ Total(One(o, Line[o][i])) = Line[o][i]
    BY <1>2, OneType
  <2>4. /\ hold'[o][i] = IF i \in LineItems(o) THEN "held" ELSE "none"
        /\ \A p \in Orders \ {o} : hold'[p] = HoldsReleased(due)[p]
        /\ UNCHANGED <<source, shipped, freed>>
    BY <1>0, <1>13 DEF Place, HoldsReleased, TypeOK
  <2>5. \A p \in Orders : Remaining(p, i)' = Remaining(p, i)
    BY <2>4 DEF Remaining
  <2>6. hold[o][i] = "none" /\ Remaining(o, i) = 0
    <3>1. life[o] = "absent"
      BY <1>13 DEF Place
    <3>2. source[o][i] # None => source[o][i] \in PayRefs /\ appOrder[source[o][i]] = o
      BY <1>0 DEF TypeOK, AllocationIsPaid
    <3>3. source[o][i] = None
      BY <1>0, <3>1, <3>2, OrdersAssumption DEF PaymentsOfPlacedOrders
    <3> QED
      BY <1>0, <3>1, <3>3 DEF HoldsMoveTogether, Remaining
  <2>7. ASSUME NEW p \in Orders
        PROVE  /\ taken[p] <= Claims(i)[p]
               /\ Claims(i)'[p] = Claims(i)[p] - taken[p] + One(o, Line[o][i])[p]
    <3>1. taken[p] = IF p \in due /\ hold[p][i] = "held" THEN Line[p][i] ELSE 0
      BY DEF HeldBy
    <3>2. One(o, Line[o][i])[p] = IF p = o THEN Line[o][i] ELSE 0
      BY DEF One
    <3>3. CASE p = o
      <4>1. taken[p] = 0 /\ Claims(i)[p] = 0
        BY <1>2, <2>6, <3>1, <3>3
      <4>2. Claims(i)'[p] = Line[o][i]
        <5>1. i \notin LineItems(o) => Line[o][i] = 0
          BY <1>2, MaxStockAssumption DEF LineItems, Quantity
        <5> QED
          BY <1>2, <2>4, <2>5, <2>6, <3>3, <5>1
      <4> HIDE DEF taken
      <4> QED
        BY <1>2, <3>2, <3>3, <4>1, <4>2
    <3>4. CASE p # o
      <4>1. hold'[p][i] = IF p \in due /\ hold[p][i] = "held" THEN "released" ELSE hold[p][i]
        BY <2>4, <3>4 DEF HoldsReleased
      <4>2. hold[p][i] = "held" => Remaining(p, i) = 0
        BY <1>0 DEF HeldUnitsUnpaid, Remaining
      <4>3. Claims(i)[p] \in Nat
        BY <1>2, MaxStockAssumption DEF Quantity
      <4> HIDE DEF taken, due
      <4> QED
        BY <1>2, <2>5, <3>1, <3>2, <3>4, <4>1, <4>2, <4>3
    <3> QED
      BY <3>3, <3>4
  <2> HIDE DEF taken
  <2>8. reserved'[i] = reserved[i] - Total(taken) + Total(One(o, Line[o][i]))
    BY <2>2, <2>3
  <2> QED
    BY <1>3, <2>1, <2>3, <2>7, <2>8
<1>14. ASSUME NEW S, Settle(S)
       PROVE  Balance'
  BY <1>9, <1>14 DEF Settle
<1>15. ASSUME NEW o \in Orders, NEW r \in PayRefs, ConvertPayment(o, r)
       PROVE  Balance'
  <2>1. /\ hold' = HoldsReleased({o}) /\ UNCHANGED <<reserved, shipped, freed>>
        /\ AllHeld(o) /\ life[o] = "open"
        /\ source' = [source EXCEPT ![o] =
                        [j \in Items |-> IF j \in LineItems(o) THEN r ELSE None]]
    BY <1>15 DEF ConvertPayment, Payable
  <2>2. ~Allocated(o)
    BY <1>12, <1>15 DEF ConvertPayment
  <2>3. \A p \in Orders, i \in Items :
          hold'[p][i] = IF p = o /\ hold[p][i] = "held" THEN "released" ELSE hold[p][i]
    BY <2>1 DEF HoldsReleased
  <2>4. ASSUME NEW i \in Items, NEW p \in Orders
        PROVE  Claims(i)'[p] = Claims(i)[p]
    <3>1. /\ Remaining(o, i) = 0 /\ Remaining(o, i)' = Line[o][i]
          /\ p # o => Remaining(p, i)' = Remaining(p, i)
      BY <1>11, <2>1, <2>2
    <3>2. hold[o][i] = IF i \in LineItems(o) THEN "held" ELSE "none"
      BY <1>0, <2>1 DEF AllHeld, HoldsMoveTogether
    <3>3. i \notin LineItems(o) => Line[o][i] = 0
      BY <1>2, MaxStockAssumption DEF LineItems, Quantity
    <3> QED
      BY <1>2, <2>3, <3>1, <3>2, <3>3
  <2> QED
    BY <1>8, <2>1, <2>4
<1>16. ASSUME NEW o \in Orders, NEW r \in PayRefs, ~Allocated(o),
              \A i \in Items : hold[o][i] # "held",
              hold' = hold \/ hold' = HoldsReleased({o}),
              UNCHANGED <<shipped, freed>>,
              \A i \in Items : reserved'[i] = reserved[i] + Line[o][i],
              source' = [source EXCEPT ![o] =
                           [j \in Items |-> IF j \in LineItems(o) THEN r ELSE None]]
       PROVE  Balance'
  <2> SUFFICES ASSUME NEW i \in Items PROVE reserved'[i] = Total(Claims(i)')
    BY DEF Balance
  <2>1. \A p \in Orders : hold'[p][i] = hold[p][i]
    BY <1>16 DEF HoldsReleased
  <2>2. /\ Remaining(o, i) = 0 /\ Remaining(o, i)' = Line[o][i]
        /\ \A p \in Orders \ {o} : Remaining(p, i)' = Remaining(p, i)
    BY <1>11, <1>16
  <2>3. /\ Claims(i)[o] = 0 /\ Claims(i)'[o] = Line[o][i]
        /\ \A p \in Orders \ {o} : Claims(i)'[p] = Claims(i)[p]
    BY <1>2, <1>16, <2>1, <2>2
  <2> QED
    BY <1>10, <1>16, <2>3
<1>17. ASSUME NEW o \in Orders, NEW r \in PayRefs, AllocatePayment(o, r)
       PROVE  Balance'
  <2>1. ~Allocated(o) /\ life[o] = "open"
    BY <1>12, <1>17 DEF AllocatePayment, Payable
  <2>2. \A i \in Items : hold[o][i] # "held"
    <3>1. PICK j \in LineItems(o) : hold[o][j] # "held"
      BY <1>17 DEF AllocatePayment, AllHeld
    <3>2. \A i \in LineItems(o) : hold[o][i] = hold[o][j]
      BY <1>0, <3>1 DEF HoldsMoveTogether
    <3>3. \A i \in Items \ LineItems(o) : hold[o][i] = "none"
      BY <1>0 DEF HoldsMoveTogether
    <3> QED
      BY <3>1, <3>2, <3>3
  <2>3. ASSUME NEW i \in Items
        PROVE  reserved'[i] = reserved[i] + Line[o][i]
    <3>1. HeldBy({o}, i) \in Claim
      BY <1>0, HeldType
    <3>2. \A p \in Orders : HeldBy({o}, i)[p] = 0
      BY <2>2 DEF HeldBy
    <3>3. Total(HeldBy({o}, i)) = 0
      BY <3>1, <3>2, TotalNone
    <3>4. reserved'[i] = reserved[i] - Total(HeldBy({o}, i)) + Line[o][i]
      BY <1>17 DEF AllocatePayment, ReservedWithout
    <3> QED
      BY <1>1, <1>2, <3>3, <3>4
  <2> QED
    BY <1>16, <1>17, <2>1, <2>2, <2>3 DEF AllocatePayment
<1>18. ASSUME NEW o \in Orders, RetryAllocation(o)
       PROVE  Balance'
  <2>1. PICK r \in PayRefs :
          source' = [source EXCEPT ![o] =
                       [j \in Items |-> IF j \in LineItems(o) THEN r ELSE None]]
    BY <1>18 DEF RetryAllocation
  <2>2. \A i \in Items : hold[o][i] # "held"
    BY <1>0, <1>18 DEF RetryAllocation, HoldsMoveTogether, LineItems
  <2> QED
    BY <1>16, <1>18, <2>1, <2>2 DEF RetryAllocation
<1>19. ASSUME NEW o \in Orders, NEW r \in PayRefs, UnallocatablePayment(o, r)
       PROVE  Balance'
  BY <1>9, <1>19 DEF UnallocatablePayment
<1>20. ASSUME NEW o \in Orders, NEW why, CancelUnpaidOrder(o, why)
       PROVE  Balance'
  BY <1>9, <1>20 DEF CancelUnpaidOrder

\* Released units leave the allocation and the reservation together.
<1>21. ASSUME NEW o \in Orders, NEW c \in CmdRefs, NEW q \in [Items -> Quantity],
              \A i \in Items : q[i] <= Remaining(o, i), ReleaseUnits(o, c, q),
              UNCHANGED <<hold, source, shipped>>
       PROVE  Balance'
  <2> SUFFICES ASSUME NEW i \in Items PROVE reserved'[i] = Total(Claims(i)')
    BY DEF Balance
  <2>1. q[i] \in Quantity /\ One(o, q[i]) \in Claim /\ Total(One(o, q[i])) = q[i]
    BY OneType
  <2>2. reserved'[i] = reserved[i] - q[i]
    BY <1>21 DEF ReleaseUnits
  <2>3. /\ freed'[o][i] = freed[o][i] + q[i]
        /\ \A p \in Orders \ {o} : freed'[p] = freed[p]
    BY <1>0, <1>21 DEF ReleaseUnits, TypeOK
  <2>4. \A p \in Orders \ {o} : Remaining(p, i)' = Remaining(p, i)
    BY <1>21, <2>3 DEF Remaining
  <2>5. /\ q[i] <= Remaining(o, i) /\ Remaining(o, i)' = Remaining(o, i) - q[i]
        /\ q[i] > 0 => hold[o][i] # "held"
    <3>1. q[i] <= Remaining(o, i) /\ q[i] \in Nat
      BY <1>21, <2>1, MaxStockAssumption DEF Quantity
    <3>2. /\ Line[o][i] \in Int /\ shipped[o][i] \in Int /\ freed[o][i] \in Int
      BY <1>0, <1>2, MaxStockAssumption DEF TypeOK, Quantity
    <3>3. source[o][i] = None => q[i] = 0 /\ Remaining(o, i) = 0 /\ Remaining(o, i)' = 0
      BY <1>21, <3>1 DEF Remaining
    <3>4. source[o][i] # None =>
            /\ Remaining(o, i) = Line[o][i] - shipped[o][i] - freed[o][i]
            /\ Remaining(o, i)' = Line[o][i] - shipped[o][i] - freed'[o][i]
      BY <1>21 DEF Remaining
    <3>5. hold[o][i] = "held" => source[o][i] = None
      BY <1>0 DEF HeldUnitsUnpaid
    <3> QED
      BY <2>3, <3>1, <3>2, <3>3, <3>4, <3>5
  <2>6. ASSUME NEW p \in Orders
        PROVE  /\ One(o, q[i])[p] <= Claims(i)[p]
               /\ Claims(i)'[p] = Claims(i)[p] - One(o, q[i])[p]
    <3>1. One(o, q[i])[p] = IF p = o THEN q[i] ELSE 0
      BY DEF One
    <3>2. hold'[p][i] = hold[p][i] /\ q[i] \in Nat /\ Claims(i)[p] \in Nat
      BY <1>2, <1>21, <2>1, MaxStockAssumption DEF Quantity
    <3>3. hold[p][i] = "held" => Remaining(p, i)' = Remaining(p, i)
      BY <1>0, <1>21 DEF HeldUnitsUnpaid, Remaining
    <3> QED
      BY <1>2, <2>4, <2>5, <3>1, <3>2
  <2> QED
    BY <1>7, <2>1, <2>2, <2>6
<1>22. ASSUME NEW o \in Orders, NEW c \in CmdRefs, NEW q \in [Items -> Quantity],
              ReleaseAllocation(o, c, q)
       PROVE  Balance'
  BY <1>21, <1>22 DEF ReleaseAllocation
<1>23. ASSUME NEW o \in Orders, NEW c \in CmdRefs, CancelPaidOrder(o, c)
       PROVE  Balance'
  <2>1. \A i \in Items : Remaining(o, i) \in Quantity /\ Remaining(o, i) <= Remaining(o, i)
    BY <1>0, RemainingType, MaxStockAssumption DEF Quantity
  <2> QED
    BY <1>21, <1>23, <2>1 DEF CancelPaidOrder
<1>24. ASSUME NEW ref \in ShipRefs, NEW q \in [Orders -> [Items -> Quantity]],
              RecordHandover(ref, q)
       PROVE  Balance'
  <2> SUFFICES ASSUME NEW i \in Items PROVE reserved'[i] = Total(Claims(i)')
    BY DEF Balance
  <2> DEFINE taken == [o \in Orders |-> q[o][i]]
  <2>1. taken \in Claim
    BY DEF Claim
  <2>2. reserved'[i] = reserved[i] - Total(taken)
    BY <1>24 DEF RecordHandover
  <2>3. ASSUME NEW p \in Orders
        PROVE  taken[p] <= Claims(i)[p] /\ Claims(i)'[p] = Claims(i)[p] - taken[p]
    <3>1. taken[p] = q[p][i] /\ q[p][i] \in Nat
      BY MaxStockAssumption DEF Quantity
    <3>2. shipped'[p][i] = shipped[p][i] + q[p][i] /\ UNCHANGED <<hold, source, freed>>
      BY <1>24 DEF RecordHandover
    <3>3. q[p][i] > 0 => q[p][i] <= Remaining(p, i)
      BY <1>24 DEF RecordHandover
    <3>4. Line[p][i] \in Int /\ shipped[p][i] \in Int /\ freed[p][i] \in Int /\ Claims(i)[p] \in Nat
      BY <1>0, <1>2, MaxStockAssumption DEF TypeOK, Quantity
    <3>5. source[p][i] = None => q[p][i] = 0 /\ Remaining(p, i) = 0 /\ Remaining(p, i)' = 0
      BY <3>1, <3>2, <3>3 DEF Remaining
    <3>6. source[p][i] # None =>
            /\ Remaining(p, i) = Line[p][i] - shipped[p][i] - freed[p][i]
            /\ Remaining(p, i)' = Line[p][i] - shipped'[p][i] - freed[p][i]
      BY <3>2 DEF Remaining
    <3>7. hold[p][i] = "held" => source[p][i] = None
      BY <1>0 DEF HeldUnitsUnpaid
    <3> HIDE DEF taken
    <3> QED
      BY <1>2, <3>1, <3>2, <3>3, <3>4, <3>5, <3>6, <3>7
  <2> HIDE DEF taken
  <2> QED
    BY <1>7, <2>1, <2>2, <2>3
<1>25. CASE \/ Aside
            \/ \E o \in Orders, r \in PayRefs :
                 \E fact \in {"match", "mismatch", "simulated"} : RecordUnappliedPayment(o, r, fact)
  <2>1. UNCHANGED <<reserved, hold, source, shipped, freed>>
    BY <1>25 DEF Aside, RecordUnappliedPayment
  <2>2. \A i \in Items : Claims(i)' = Claims(i)
    BY <2>1 DEF Claims, HeldBy, Remaining
  <2> QED
    BY <1>8, <2>1, <2>2
<1> QED
  BY <1>13, <1>14, <1>15, <1>17, <1>18, <1>19, <1>20, <1>22, <1>23, <1>24, <1>25, NextCases

-----------------------------------------------------------------------------
(* The theorems.                                                            *)

\* Nothing is placed, reserved or paid at first.
LEMMA InitInv ==
  ASSUME Init
  PROVE  IInv
<1>1. \A n \in Quantity : n \in Nat /\ 0 \in Quantity
  BY MaxStockAssumption DEF Quantity
<1>2. TypeOK
  BY <1>1, MaxStockAssumption DEF Init, TypeOK, Reasons, Quantity
<1>3. NoOversell
  BY <1>1 DEF Init, NoOversell
<1>4. Balance
  <2> SUFFICES ASSUME NEW i \in Items PROVE reserved[i] = Total(Claims(i))
    BY DEF Balance
  <2>1. \A p \in Orders : HeldBy(Orders, i)[p] + Remaining(p, i) = 0
    BY DEF Init, HeldBy, Remaining
  <2>2. Claims(i) \in Claim /\ \A p \in Orders : Claims(i)[p] = 0
    BY <1>1, <2>1, MaxStockAssumption DEF Claims, Claim, Quantity
  <2> QED
    BY <2>2, TotalNone DEF Init
<1>5. HoldsMoveTogether
  BY DEF Init, HoldsMoveTogether, LineItems
<1>6. OneConfirmedPayment /\ PaymentsOfPlacedOrders
  BY OrdersAssumption DEF Init, OneConfirmedPayment, PaymentsOfPlacedOrders
<1>7. AllocationIsPaid
  BY DEF Init, AllocationIsPaid
<1>8. HeldUnitsUnpaid /\ CancelledKeepsNothing
  BY DEF Init, HeldUnitsUnpaid, CancelledKeepsNothing
<1>9. CountersWithinLine
  BY LineType, MaxStockAssumption DEF Init, CountersWithinLine, Quantity
<1> QED
  BY <1>2, <1>3, <1>4, <1>5, <1>6, <1>7, <1>8, <1>9 DEF IInv

\* A step that changes nothing keeps the invariant.
LEMMA StutterInv ==
  ASSUME IInv, UNCHANGED vars
  PROVE  IInv'
<1>1. UNCHANGED <<stock, reserved, life, reason, expired, unpayable, hold, source,
                  shipped, freed, appOrder, appOutcome, retained, commands, moves>>
  BY DEF vars
<1>2. TypeOK' /\ NoOversell' /\ HoldsMoveTogether' /\ CountersWithinLine'
  BY <1>1 DEF IInv, TypeOK, NoOversell, HoldsMoveTogether, CountersWithinLine
<1>3. OneConfirmedPayment' /\ PaymentsOfPlacedOrders' /\ AllocationIsPaid'
  BY <1>1 DEF IInv, OneConfirmedPayment, PaymentsOfPlacedOrders, AllocationIsPaid, Allocated
<1>4. HeldUnitsUnpaid' /\ CancelledKeepsNothing'
  BY <1>1 DEF IInv, HeldUnitsUnpaid, CancelledKeepsNothing, Confirmed, Remaining
<1>5. Balance'
  BY <1>1 DEF IInv, Balance, Claims, HeldBy, Remaining
<1> QED
  BY <1>2, <1>3, <1>4, <1>5 DEF IInv

\* The invariant of the checkout holds in every reachable state.
THEOREM Invariance == Spec => []IInv
<1>1. Init => IInv
  BY InitInv
<1>2. IInv /\ [Next]_vars => IInv'
  <2> SUFFICES ASSUME IInv, [Next]_vars PROVE IInv'
    OBVIOUS
  <2>1. CASE Next
    <3>1. TypeOK' /\ NoOversell' /\ Balance' /\ HoldsMoveTogether'
      BY <2>1, TypeStep, OversellStep, BalanceStep, HoldsStep
    <3>2. OneConfirmedPayment' /\ AllocationIsPaid' /\ HeldUnitsUnpaid' /\ CancelledKeepsNothing'
      BY <2>1, OneConfirmedStep, AllocationStep, HeldStep, CancelledStep
    <3>3. CountersWithinLine' /\ PaymentsOfPlacedOrders'
      BY <2>1, CountersStep, PlacedStep
    <3> QED
      BY <3>1, <3>2, <3>3 DEF IInv
  <2>2. CASE UNCHANGED vars
    BY <2>2, StutterInv
  <2> QED
    BY <2>1, <2>2
<1> QED
  BY <1>1, <1>2, PTL DEF Spec

\* The tables keep their types.
THEOREM TypeCorrect == Spec => []TypeOK
<1>1. IInv => TypeOK
  BY DEF IInv
<1> QED
  BY <1>1, Invariance, PTL

\* However many orders, items, payments and edits compete, no item is reserved
\* beyond its stock.
THEOREM NeverOversold == Spec => []NoOversell
<1>1. IInv => NoOversell
  BY DEF IInv
<1> QED
  BY <1>1, Invariance, PTL

\* commerce_items.reserved is exactly what holds and allocations claim.
THEOREM AlwaysBalanced == Spec => []Balance
<1>1. IInv => Balance
  BY DEF IInv
<1> QED
  BY <1>1, Invariance, PTL

\* No two payments confirm one order.
THEOREM ConfirmedOnce == Spec => []OneConfirmedPayment
<1>1. IInv => OneConfirmedPayment
  BY DEF IInv
<1> QED
  BY <1>1, Invariance, PTL

\* Only paid orders have units, and a payment that found stock has them.
THEOREM AllocatedWhenPaid == Spec => []AllocationIsPaid
<1>1. IInv => AllocationIsPaid
  BY DEF IInv
<1> QED
  BY <1>1, Invariance, PTL

\* The holds of an order live and die together.
THEOREM HoldsTogether == Spec => []HoldsMoveTogether
<1>1. IInv => HoldsMoveTogether
  BY DEF IInv
<1> QED
  BY <1>1, Invariance, PTL

\* A cancelled order has nothing left and shipped nothing.
THEOREM CancelledHasNothing == Spec => []CancelledKeepsNothing
<1>1. IInv => CancelledKeepsNothing
  BY DEF IInv
<1> QED
  BY <1>1, Invariance, PTL

-----------------------------------------------------------------------------
(* Every order keeps the promise of OrderLedger.                            *)

\* A step that changes nothing the ledger of p looks at is a stutter of it.
LEMMA LedgerStutter ==
  ASSUME NEW p \in Orders, life'[p] = life[p],
         Confirmed(p)' <=> Confirmed(p), Allocated(p)' <=> Allocated(p),
         AllHeld(p)' <=> AllHeld(p), HandedOver(p)' <=> HandedOver(p)
  PROVE  [Ledger(p)!Next]_(Ledger(p)!vars)
<1>1. Goods(p)' = Goods(p)
  BY DEF Goods
<1>2. Confirmed(p)' = Confirmed(p) /\ HandedOver(p)' = HandedOver(p)
  BY DEF Confirmed, HandedOver
<1> QED
  BY <1>1, <1>2 DEF Ledger!vars

\* Holds released by an expiry, a placement or a sweep lose the hold of the
\* orders they belong to, and change nothing else the ledger sees.
LEMMA LedgerRelease ==
  ASSUME IInv, NEW S, NEW p \in Orders,
         hold'[p] = HoldsReleased(S)[p], life'[p] = life[p],
         source'[p] = source[p], shipped'[p] = shipped[p], UNCHANGED <<appOrder, appOutcome>>
  PROVE  [Ledger(p)!Next]_(Ledger(p)!vars)
<1>0. HoldsMoveTogether /\ HeldUnitsUnpaid /\ LineItems(p) \subseteq Items
  BY DEF IInv, LineItems
<1>1. Confirmed(p)' = Confirmed(p) /\ HandedOver(p)' = HandedOver(p) /\ Allocated(p)' = Allocated(p)
  BY DEF Confirmed, HandedOver, Allocated
<1>2. \A i \in Items : hold'[p][i] = IF p \in S /\ hold[p][i] = "held" THEN "released" ELSE hold[p][i]
  BY DEF HoldsReleased
<1>3. PICK j \in Items : j \in LineItems(p)
  BY LineAssumption DEF LineItems
<1>4. CASE AllHeld(p)' <=> AllHeld(p)
  BY <1>1, <1>4, LedgerStutter
<1>5. CASE ~(AllHeld(p)' <=> AllHeld(p))
  <2>1. AllHeld(p) /\ ~AllHeld(p)'
    BY <1>0, <1>2, <1>5 DEF AllHeld
  <2>2. hold[p][j] = "held"
    BY <1>3, <2>1 DEF AllHeld
  <2>3. life[p] = "open" /\ ~Confirmed(p) /\ ~Allocated(p)
    <3>1. \A i \in LineItems(p) : hold[p][i] = "held"
      BY <2>1 DEF AllHeld
    <3>2. \A i \in Items : source[p][i] = None
      BY <1>0, <2>2 DEF HeldUnitsUnpaid, IInv, AllocationIsPaid, Confirmed, TypeOK
    <3> QED
      BY <1>0, <2>2, <3>2 DEF HeldUnitsUnpaid, Allocated
  <2>4. Goods(p) = "held" /\ Goods(p)' = "free"
    BY <1>1, <2>1, <2>3 DEF Goods
  <2> QED
    BY <1>1, <2>3, <2>4 DEF Ledger!Next, Ledger!LoseHold
<1> QED
  BY <1>4, <1>5

\* Every step of the checkout is a step or a stutter of every order's ledger.
LEMMA LedgerStep ==
  ASSUME IInv, IInv', Next, NEW p \in Orders
  PROVE  [Ledger(p)!Next]_(Ledger(p)!vars)
<1> USE DEF orderVars, moneyVars, allocVars
<1>0. /\ TypeOK /\ TypeOK' /\ HoldsMoveTogether /\ HeldUnitsUnpaid /\ HeldUnitsUnpaid'
      /\ AllocationIsPaid /\ AllocationIsPaid' /\ CountersWithinLine /\ PaymentsOfPlacedOrders
  BY DEF IInv
<1>1. ASSUME life'[p] = life[p], hold'[p] = hold[p], source'[p] = source[p],
             shipped'[p] = shipped[p], Confirmed(p)' <=> Confirmed(p)
      PROVE  [Ledger(p)!Next]_(Ledger(p)!vars)
  BY <1>1, LedgerStutter DEF Allocated, AllHeld, HandedOver
<1>2. UNCHANGED <<appOrder, appOutcome>> => (Confirmed(p)' <=> Confirmed(p))
  BY DEF Confirmed
<1>3. Allocated(p) => Confirmed(p)
  BY <1>0 DEF AllocationIsPaid, Allocated, Confirmed, TypeOK
<1>4. (\A i \in Items : source[p][i] = None) => ~HandedOver(p)
  BY <1>0, MaxStockAssumption DEF CountersWithinLine, HandedOver
<1>5. \A S : \A i \in Items :
        HoldsReleased(S)[p][i] = IF p \in S /\ hold[p][i] = "held" THEN "released" ELSE hold[p][i]
  BY DEF HoldsReleased
<1>6. LineItems(p) \subseteq Items /\ LineItems(p) # {}
  BY LineAssumption DEF LineItems
<1>7. \A S : p \notin S => HoldsReleased(S)[p] = hold[p]
  BY <1>0 DEF HoldsReleased, TypeOK
<1>8. ASSUME NEW o \in Orders, Place(o)
      PROVE  [Ledger(p)!Next]_(Ledger(p)!vars)
  <2> DEFINE due == DueOrders(LineItems(o))
  <2>1. UNCHANGED <<source, shipped, appOrder, appOutcome>> /\ life[o] = "absent"
    BY <1>8 DEF Place
  <2>2. CASE p = o
    <3>1. life'[p] = "open" /\ \A i \in LineItems(p) : hold'[p][i] = "held"
      BY <1>0, <1>6, <1>8, <2>2 DEF Place, HoldsReleased, TypeOK
    <3>2. ~Confirmed(p)
      BY <1>0, <2>1, <2>2, OrdersAssumption DEF Confirmed, PaymentsOfPlacedOrders
    <3>3. \A i \in Items : source[p][i] = None
      BY <1>3, <3>2 DEF Allocated
    <3>4. Goods(p) = "none" /\ Goods(p)' = "held"
      BY <2>1, <2>2, <3>1, <3>3 DEF Goods, Allocated, AllHeld
    <3>5. /\ Confirmed(p) = FALSE /\ Confirmed(p)' = FALSE
          /\ HandedOver(p) = FALSE /\ HandedOver(p)' = FALSE
      BY <1>2, <1>4, <2>1, <3>2, <3>3 DEF HandedOver, Confirmed
    <3> QED
      BY <2>1, <2>2, <3>1, <3>4, <3>5 DEF Ledger!Next, Ledger!Place
  <2>3. CASE p # o
    <3>1. hold'[p] = HoldsReleased(due)[p] /\ life'[p] = life[p]
      BY <1>0, <1>8, <2>3 DEF Place, HoldsReleased, TypeOK
    <3> QED
      BY <2>1, <3>1, LedgerRelease
  <2> QED
    BY <2>2, <2>3

<1>9. ASSUME NEW S, Settle(S)
      PROVE  [Ledger(p)!Next]_(Ledger(p)!vars)
  BY <1>9, LedgerRelease DEF Settle, ReleaseHolds
<1>10. ASSUME life[p] = "open", life'[p] = "open", ~Confirmed(p), Confirmed(p)',
              UNCHANGED shipped,
              ~Allocated(p), Allocated(p)' \/ (~AllHeld(p) /\ ~AllHeld(p)')
       PROVE  [Ledger(p)!Next]_(Ledger(p)!vars)
  <2>1. Goods(p)' = "kept" \/ (Goods(p) = "free" /\ Goods(p)' = "free")
    BY <1>10 DEF Goods
  <2>2. /\ Confirmed(p) = FALSE /\ Confirmed(p)' = TRUE /\ HandedOver(p)' = HandedOver(p)
    BY <1>10 DEF Confirmed, HandedOver
  <2> QED
    BY <1>10, <2>1, <2>2 DEF Ledger!Next, Ledger!Pay
<1>11. ASSUME NEW o \in Orders, NEW r \in PayRefs,
              ConvertPayment(o, r) \/ AllocatePayment(o, r) \/ UnallocatablePayment(o, r)
       PROVE  [Ledger(p)!Next]_(Ledger(p)!vars)
  <2>1. /\ hold' = HoldsReleased({o}) /\ UNCHANGED <<life, shipped>>
        /\ life[o] = "open" /\ ~Confirmed(o) /\ appOrder[r] = None
    BY <1>11 DEF ConvertPayment, AllocatePayment, UnallocatablePayment, ReleaseHolds, Payable
  <2>2. \A q \in Orders \ {o} : source'[q] = source[q]
    BY <1>0, <1>11 DEF ConvertPayment, AllocatePayment, UnallocatablePayment, TypeOK
  <2>3. Confirmed(p)' <=> Confirmed(p) \/ p = o
    BY <1>0, <1>11, <2>1, RecordConfirms
       DEF ConvertPayment, AllocatePayment, UnallocatablePayment, Outcomes, ConfirmedOutcomes
  <2>4. CASE p # o
    BY <1>1, <1>7, <2>1, <2>2, <2>3, <2>4
  <2>5. CASE p = o
    <3>1. ConvertPayment(p, r) \/ AllocatePayment(p, r) => Allocated(p)'
      <4>1. ASSUME ConvertPayment(p, r) \/ AllocatePayment(p, r)
            PROVE  \A i \in LineItems(p) : source'[p][i] = r
        BY <1>0, <1>6, <4>1 DEF ConvertPayment, AllocatePayment, TypeOK
      <4> QED
        BY <1>6, <4>1, PayRefsAssumption DEF Allocated
    <3>2. UnallocatablePayment(p, r) => ~AllHeld(p)
      BY DEF UnallocatablePayment
    <3>3. ~AllHeld(p)'
      BY <1>5, <1>6, <2>1, <2>5 DEF AllHeld
    <3> QED
      BY <1>3, <1>10, <1>11, <2>1, <2>3, <2>5, <3>1, <3>2, <3>3
  <2> QED
    BY <2>4, <2>5
<1>12. ASSUME NEW o \in Orders, NEW r \in PayRefs, NEW fact, RecordUnappliedPayment(o, r, fact)
       PROVE  [Ledger(p)!Next]_(Ledger(p)!vars)
  <2>1. UNCHANGED <<hold, life, source, shipped>>
    BY <1>12 DEF RecordUnappliedPayment
  <2>2. Confirmed(p)' <=> Confirmed(p)
    BY <1>0, <1>12, RecordConfirms DEF RecordUnappliedPayment, Outcomes, ConfirmedOutcomes
  <2> QED
    BY <1>1, <2>1, <2>2
<1>13. ASSUME NEW o \in Orders, RetryAllocation(o)
       PROVE  [Ledger(p)!Next]_(Ledger(p)!vars)
  <2>1. UNCHANGED <<hold, life, shipped, appOrder, appOutcome>> /\ life[o] = "open" /\ ~Allocated(o)
    BY <1>13 DEF RetryAllocation
  <2>2. PICK r \in PayRefs :
          /\ appOrder[r] = o /\ appOutcome[r] = "unallocatable"
          /\ source' = [source EXCEPT ![o] =
                          [i \in Items |-> IF i \in LineItems(o) THEN r ELSE None]]
    BY <1>13 DEF RetryAllocation
  <2>3. CASE p # o
    <3>1. source'[p] = source[p]
      BY <1>0, <2>2, <2>3 DEF TypeOK
    <3> QED
      BY <1>1, <1>2, <2>1, <3>1
  <2>4. CASE p = o
    <3>1. Allocated(p)'
      BY <1>0, <1>6, <2>2, <2>4, PayRefsAssumption DEF Allocated, TypeOK
    <3>2. Confirmed(p) = TRUE /\ Confirmed(p)' = TRUE /\ HandedOver(p)' = HandedOver(p)
      BY <1>2, <2>1, <2>2, <2>4 DEF Confirmed, ConfirmedOutcomes, HandedOver
    <3>3. ~AllHeld(p)
      BY <1>6, <1>13, <2>4 DEF RetryAllocation, AllHeld
    <3>4. Goods(p) = "free" /\ Goods(p)' = "kept"
      BY <2>1, <2>4, <3>1, <3>3 DEF Goods
    <3> QED
      BY <2>1, <2>4, <3>2, <3>4 DEF Ledger!Next, Ledger!FindStock
  <2> QED
    BY <2>3, <2>4

\* A cancellation of p: nothing was handed over and no payment changes.
<1>14. ASSUME life[p] = "open", life'[p] = "cancelled", ~HandedOver(p),
              UNCHANGED <<shipped, appOrder, appOutcome>>
       PROVE  [Ledger(p)!Next]_(Ledger(p)!vars)
  <2>1. /\ Confirmed(p)' = Confirmed(p) /\ Goods(p)' = "free"
        /\ HandedOver(p)' = HandedOver(p) /\ HandedOver(p) = FALSE
    BY <1>14 DEF Confirmed, Goods, HandedOver
  <2> QED
    BY <1>14, <2>1 DEF Ledger!Next, Ledger!Cancel
<1>15. ASSUME NEW o \in Orders, NEW why, CancelUnpaidOrder(o, why)
       PROVE  [Ledger(p)!Next]_(Ledger(p)!vars)
  <2>1. /\ hold' = HoldsReleased({o}) /\ life[o] = "open" /\ ~Confirmed(o)
        /\ UNCHANGED <<source, shipped, appOrder, appOutcome>>
        /\ life'[o] = "cancelled" /\ \A q \in Orders \ {o} : life'[q] = life[q]
    BY <1>0, <1>15 DEF CancelUnpaidOrder, ReleaseHolds, Cancel, TypeOK
  <2>2. CASE p # o
    BY <1>1, <1>2, <1>7, <2>1, <2>2
  <2>3. CASE p = o
    BY <1>3, <1>4, <1>14, <2>1, <2>3 DEF Allocated
  <2> QED
    BY <2>2, <2>3
<1>16. ASSUME NEW o \in Orders, NEW c \in CmdRefs, NEW q,
              ReleaseAllocation(o, c, q) \/ CancelPaidOrder(o, c)
       PROVE  [Ledger(p)!Next]_(Ledger(p)!vars)
  <2>1. /\ UNCHANGED <<hold, source, shipped, appOrder, appOutcome>> /\ life[o] = "open"
        /\ \A s \in Orders \ {o} : life'[s] = life[s]
        /\ life'[o] \in {"open", "cancelled"}
    BY <1>0, <1>16 DEF ReleaseAllocation, CancelPaidOrder, Cancel, TypeOK
  <2>2. life'[o] = "cancelled" => \A i \in Items : shipped[o][i] = 0
    BY <1>0, <1>16, <2>1 DEF ReleaseAllocation, CancelPaidOrder
  <2>3. CASE life'[p] = life[p]
    BY <1>1, <1>2, <2>1, <2>3
  <2>4. CASE life'[p] # life[p]
    <3>1. p = o /\ life'[p] = "cancelled" /\ ~HandedOver(p)
      BY <2>1, <2>2, <2>4, MaxStockAssumption DEF HandedOver
    <3> QED
      BY <1>14, <2>1, <3>1
  <2> QED
    BY <2>3, <2>4
<1>17. ASSUME NEW ref \in ShipRefs, NEW q \in [Orders -> [Items -> Quantity]], RecordHandover(ref, q)
       PROVE  [Ledger(p)!Next]_(Ledger(p)!vars)
  <2>1. UNCHANGED <<life, hold, source, appOrder, appOutcome>>
    BY <1>17 DEF RecordHandover
  <2>2. \A i \in Items : shipped'[p][i] = shipped[p][i] + q[p][i]
    BY <1>17 DEF RecordHandover
  <2>3. \A i \in Items : q[p][i] \in Nat /\ shipped[p][i] \in Nat
    BY <1>0, MaxStockAssumption DEF TypeOK, Quantity
  <2>4. CASE HandedOver(p)' <=> HandedOver(p)
    BY <1>2, <2>1, <2>4, LedgerStutter DEF Allocated, AllHeld
  <2>5. CASE ~(HandedOver(p)' <=> HandedOver(p))
    <3>1. ~HandedOver(p) /\ HandedOver(p)'
      BY <2>2, <2>3, <2>5 DEF HandedOver
    <3>2. PICK i \in Items : q[p][i] > 0
      BY <2>2, <2>3, <3>1 DEF HandedOver
    <3>3. life[p] = "open" /\ q[p][i] <= Remaining(p, i)
      BY <1>17, <3>2 DEF RecordHandover
    <3>4. Allocated(p)
      BY <2>3, <3>2, <3>3 DEF Remaining, Allocated
    <3>5. /\ Goods(p) = "kept" /\ Goods(p)' = "kept"
          /\ Confirmed(p) = TRUE /\ Confirmed(p)' = TRUE
          /\ HandedOver(p) = FALSE /\ HandedOver(p)' = TRUE
      BY <1>2, <1>3, <2>1, <3>1, <3>3, <3>4 DEF Goods, Allocated, Confirmed, HandedOver
    <3> QED
      BY <2>1, <3>3, <3>5 DEF Ledger!Next, Ledger!HandOver
  <2> QED
    BY <2>4, <2>5
<1>18. CASE Aside
  BY <1>1, <1>2, <1>18 DEF Aside
<1> QED
  BY <1>8, <1>9, <1>11, <1>12, <1>13, <1>15, <1>16, <1>17, <1>18, NextCases

\* Every order keeps the promise of OrderLedger, whatever the other orders do.
THEOREM LedgerKept == Spec => KeepsLedger
<1>1. Init => \A o \in Orders : Ledger(o)!Init
  <2> SUFFICES ASSUME Init, NEW o \in Orders PROVE Ledger(o)!Init
    OBVIOUS
  <2>1. life[o] = "absent" /\ Goods(o) = "none"
    BY DEF Init, Goods
  <2>2. Confirmed(o) = FALSE /\ HandedOver(o) = FALSE
    BY OrdersAssumption DEF Init, Confirmed, HandedOver
  <2> QED
    BY <2>1, <2>2 DEF Ledger!Init
<1>2. IInv /\ IInv' /\ [Next]_vars =>
        [\A o \in Orders : [Ledger(o)!Next]_(Ledger(o)!vars)]_vars
  BY LedgerStep
<1> QED
  BY <1>1, <1>2, Invariance, PTL DEF Spec, KeepsLedger

-----------------------------------------------------------------------------
(* Every order makes of its money what OrderMoney says.                      *)

\* A payment recorded under a fresh reference is an outcome of its own order only.
LEMMA RecordMoney ==
  ASSUME TypeOK, NEW p \in Orders, NEW o \in Orders, NEW r \in PayRefs, NEW outcome \in Outcomes,
         appOrder[r] = None, RecordPayment(o, r, outcome), UNCHANGED life
  PROVE  /\ p # o \/ outcome = "simulated" => UNCHANGED Money(p)!vars
         /\ p = o /\ outcome \in ConfirmedOutcomes => Money(p)!Record(r, "confirmed")
         /\ p = o /\ outcome \in {"after_cancel", "overpaid", "amount_mismatch"} =>
              Money(p)!Record(r, outcome)
<1>1. /\ appOrder' = [appOrder EXCEPT ![r] = o]
      /\ appOutcome' = [appOutcome EXCEPT ![r] = outcome]
      /\ appOrder \in [PayRefs -> Orders \cup {None}]
      /\ appOutcome \in [PayRefs -> Outcomes \cup {"none"}]
  BY DEF RecordPayment, TypeOK
<1>2. /\ appOrder'[r] = o /\ appOutcome'[r] = outcome
      /\ \A s \in PayRefs \ {r} : appOrder'[s] = appOrder[s] /\ appOutcome'[s] = appOutcome[s]
  BY <1>1
<1>3. appOrder[r] # p
  BY OrdersAssumption
<1>4. MoneyOf(p)[r] = "none"
  BY <1>3 DEF MoneyOf
<1>5. CASE p # o \/ outcome = "simulated"
  <2>1. MoneyOf(p)' = MoneyOf(p)
    BY <1>2, <1>3, <1>5 DEF MoneyOf
  <2> QED
    BY <1>5, <2>1 DEF Money!vars, ConfirmedOutcomes
<1>6. CASE p = o /\ outcome # "simulated"
  <2> DEFINE x == IF outcome \in ConfirmedOutcomes THEN "confirmed" ELSE outcome
  <2>1. MoneyOf(p)' = [MoneyOf(p) EXCEPT ![r] = x]
    BY <1>2, <1>6 DEF MoneyOf
  <2>2. Money(p)!Record(r, x)
    BY <1>4, <2>1 DEF Money!Record
  <2> QED
    BY <1>6, <2>2 DEF ConfirmedOutcomes
<1> QED
  BY <1>5, <1>6

LEMMA MoneyStep ==
  ASSUME IInv, [Next]_vars, NEW p \in Orders
  PROVE  [Money(p)!Next]_(Money(p)!vars)
<1> USE DEF orderVars, moneyVars, allocVars
<1>1. TypeOK
  BY DEF IInv
<1>2. Money(p)!Paid <=> Confirmed(p)
  <2>1. \A r \in PayRefs : MoneyOf(p)[r] = "confirmed" <=>
          appOrder[r] = p /\ appOutcome[r] \in ConfirmedOutcomes
    BY <1>1 DEF MoneyOf, TypeOK, Outcomes, ConfirmedOutcomes
  <2> QED
    BY <2>1 DEF Money!Paid, Confirmed
\* No payment: the order is placed, cancelled or left alone.
<1>3. ASSUME UNCHANGED <<appOrder, appOutcome>>,
             \/ life'[p] = life[p]
             \/ life[p] = "absent" /\ life'[p] = "open"
             \/ life[p] = "open" /\ life'[p] = "cancelled"
      PROVE  [Money(p)!Next]_(Money(p)!vars)
  <2>1. UNCHANGED MoneyOf(p)
    BY <1>3 DEF MoneyOf
  <2> QED
    BY <1>3, <2>1 DEF Money!Next, Money!Place, Money!Cancel, Money!vars
<1>4. ASSUME NEW o \in Orders, Place(o)
      PROVE  [Money(p)!Next]_(Money(p)!vars)
  <2>1. /\ UNCHANGED <<appOrder, appOutcome>> /\ life[o] = "absent" /\ life'[o] = "open"
        /\ \A q \in Orders \ {o} : life'[q] = life[q]
    BY <1>1, <1>4 DEF Place, TypeOK
  <2> QED
    BY <1>3, <2>1
<1>5. ASSUME NEW o \in Orders, NEW r \in PayRefs,
             \/ ConvertPayment(o, r) \/ AllocatePayment(o, r) \/ UnallocatablePayment(o, r)
      PROVE  [Money(p)!Next]_(Money(p)!vars)
  <2>1. /\ appOrder[r] = None /\ life[o] = "open" /\ ~Confirmed(o) /\ UNCHANGED life
        /\ \E x \in ConfirmedOutcomes : RecordPayment(o, r, x)
    BY <1>5 DEF ConvertPayment, AllocatePayment, UnallocatablePayment, Payable, ConfirmedOutcomes
  <2>2. PICK x \in ConfirmedOutcomes : RecordPayment(o, r, x)
    BY <2>1
  <2>3. (p # o => UNCHANGED Money(p)!vars) /\ (p = o => Money(p)!Record(r, "confirmed"))
    BY <1>1, <2>1, <2>2, RecordMoney DEF ConfirmedOutcomes, Outcomes
  <2>4. p = o => Money(p)!Confirm(r)
    BY <1>2, <2>1, <2>3 DEF Money!Confirm
  <2> QED
    BY <2>3, <2>4 DEF Money!Next
<1>6. ASSUME NEW o \in Orders, NEW r \in PayRefs, NEW fact, RecordUnappliedPayment(o, r, fact)
      PROVE  [Money(p)!Next]_(Money(p)!vars)
  <2>1. appOrder[r] = None /\ life[o] # "absent" /\ UNCHANGED life
    BY <1>6 DEF RecordUnappliedPayment
  <2>2. CASE RecordPayment(o, r, "simulated")
    <3>1. UNCHANGED Money(p)!vars
      BY <1>1, <2>1, <2>2, RecordMoney DEF Outcomes
    <3> QED
      BY <3>1
  <2>3. CASE RecordPayment(o, r, "amount_mismatch")
    <3>1. (p # o => UNCHANGED Money(p)!vars) /\ (p = o => Money(p)!Record(r, "amount_mismatch"))
      BY <1>1, <2>1, <2>3, RecordMoney DEF Outcomes
    <3>2. p = o => Money(p)!PayWrongAmount(r)
      BY <2>1, <3>1 DEF Money!PayWrongAmount
    <3> QED
      BY <3>1, <3>2 DEF Money!Next
  <2>4. CASE life[o] = "cancelled" /\ RecordPayment(o, r, "after_cancel")
    <3>1. (p # o => UNCHANGED Money(p)!vars) /\ (p = o => Money(p)!Record(r, "after_cancel"))
      BY <1>1, <2>1, <2>4, RecordMoney DEF Outcomes
    <3>2. p = o => Money(p)!PayLate(r)
      BY <2>1, <2>4, <3>1 DEF Money!PayLate
    <3> QED
      BY <3>1, <3>2 DEF Money!Next
  <2>5. CASE life[o] = "open" /\ Confirmed(o) /\ RecordPayment(o, r, "overpaid")
    <3>1. (p # o => UNCHANGED Money(p)!vars) /\ (p = o => Money(p)!Record(r, "overpaid"))
      BY <1>1, <2>1, <2>5, RecordMoney DEF Outcomes
    <3>2. p = o => Money(p)!Overpay(r)
      BY <1>2, <2>1, <2>5, <3>1 DEF Money!Overpay
    <3> QED
      BY <3>1, <3>2 DEF Money!Next
  <2> QED
    BY <1>6, <2>2, <2>3, <2>4, <2>5 DEF RecordUnappliedPayment
<1>7. ASSUME NEW o \in Orders, NEW why,
             \/ CancelUnpaidOrder(o, why)
             \/ \E c \in CmdRefs : CancelPaidOrder(o, c)
             \/ \E c \in CmdRefs, q \in [Items -> Quantity] : ReleaseAllocation(o, c, q)
      PROVE  [Money(p)!Next]_(Money(p)!vars)
  <2>1. /\ UNCHANGED <<appOrder, appOutcome>> /\ life[o] = "open"
        /\ life' = life \/ life' = [life EXCEPT ![o] = "cancelled"]
    BY <1>7 DEF CancelUnpaidOrder, CancelPaidOrder, ReleaseAllocation, Cancel
  <2> QED
    BY <1>1, <1>3, <2>1 DEF TypeOK
<1>8. ASSUME UNCHANGED <<life, appOrder, appOutcome>>
      PROVE  [Money(p)!Next]_(Money(p)!vars)
  BY <1>3, <1>8
<1>9. CASE UNCHANGED vars
  BY <1>8, <1>9 DEF vars
<1>10. CASE Next
  <2>1. CASE \/ Aside \/ (\E S : Settle(S)) \/ (\E o \in Orders : RetryAllocation(o))
             \/ \E ref \in ShipRefs, q \in [Orders -> [Items -> Quantity]] : RecordHandover(ref, q)
    BY <1>8, <2>1 DEF Aside, Settle, RetryAllocation, RecordHandover
  <2> QED
    BY <1>4, <1>5, <1>6, <1>7, <1>10, <2>1, NextCases
<1> QED
  BY <1>9, <1>10

\* Of the money sent for an order, one payment confirms it at most, while it is
\* open, and no outcome is ever changed (applyConfirmedPayment): what the payments
\* of the order count on (PaymentAttempts, MoneyRefined).
THEOREM MoneyKept == Spec => KeepsMoney
<1>1. Init => \A o \in Orders : Money(o)!Init
  BY OrdersAssumption DEF Init, Money!Init, MoneyOf
<1>2. IInv /\ [Next]_vars => [\A o \in Orders : [Money(o)!Next]_(Money(o)!vars)]_vars
  BY MoneyStep
<1> QED
  BY <1>1, <1>2, Invariance, PTL DEF Spec, KeepsMoney

-----------------------------------------------------------------------------
(* What a step never does.                                                  *)

\* No step touches a cancelled order.
LEMMA CancelledFinalStep ==
  ASSUME IInv, Next, NEW p \in Orders, life[p] = "cancelled"
  PROVE  /\ life'[p] = "cancelled" /\ reason'[p] = reason[p]
         /\ hold'[p] = hold[p] /\ source'[p] = source[p]
         /\ shipped'[p] = shipped[p] /\ freed'[p] = freed[p]
<1> DEFINE Same == /\ life'[p] = "cancelled" /\ reason'[p] = reason[p]
                   /\ hold'[p] = hold[p] /\ source'[p] = source[p]
                   /\ shipped'[p] = shipped[p] /\ freed'[p] = freed[p]
<1> USE DEF orderVars, moneyVars, allocVars
<1>0. TypeOK /\ CancelledKeepsNothing
  BY DEF IInv
<1>1. \A S : HoldsReleased(S)[p] = hold[p]
  <2> TAKE S
  <2>1. \A i \in Items : hold[p][i] # "held"
    BY <1>0 DEF CancelledKeepsNothing
  <2>2. HoldsReleased(S)[p] = [i \in Items |-> hold[p][i]]
    BY <2>1 DEF HoldsReleased
  <2> QED
    BY <1>0, <2>2 DEF TypeOK
<1>2. ASSUME NEW o \in Orders, Place(o)
      PROVE  Same
  BY <1>0, <1>1, <1>2 DEF Place, HoldsReleased, TypeOK
<1>3. ASSUME NEW S, Settle(S)
      PROVE  Same
  BY <1>1, <1>3 DEF Settle, ReleaseHolds
<1>4. ASSUME NEW o \in Orders, NEW r \in PayRefs,
             ConvertPayment(o, r) \/ AllocatePayment(o, r) \/ UnallocatablePayment(o, r)
      PROVE  Same
  BY <1>0, <1>1, <1>4
     DEF ConvertPayment, AllocatePayment, UnallocatablePayment, ReleaseHolds, Payable, TypeOK
<1>5. ASSUME NEW o \in Orders, RetryAllocation(o)
      PROVE  Same
  BY <1>0, <1>5 DEF RetryAllocation, TypeOK
<1>6. ASSUME NEW o \in Orders, NEW why, CancelUnpaidOrder(o, why)
      PROVE  Same
  BY <1>0, <1>1, <1>6 DEF CancelUnpaidOrder, ReleaseHolds, Cancel, TypeOK
<1>7. ASSUME NEW o \in Orders, NEW c, NEW q, ReleaseAllocation(o, c, q) \/ CancelPaidOrder(o, c)
      PROVE  Same
  BY <1>0, <1>7 DEF ReleaseAllocation, CancelPaidOrder, ReleaseUnits, Cancel, TypeOK
<1>8. ASSUME NEW ref, NEW q \in [Orders -> [Items -> Quantity]], RecordHandover(ref, q)
      PROVE  Same
  <2>1. \A i \in Items : q[p][i] = 0
    BY <1>8, MaxStockAssumption DEF RecordHandover, Quantity
  <2>2. shipped'[p] = [i \in Items |-> shipped[p][i] + q[p][i]]
    BY <1>8 DEF RecordHandover
  <2>3. shipped[p] \in [Items -> Quantity] /\ \A i \in Items : shipped[p][i] \in Int
    BY <1>0, MaxStockAssumption DEF TypeOK, Quantity
  <2>4. shipped'[p] = shipped[p]
    BY <2>1, <2>2, <2>3
  <2> QED
    BY <1>8, <2>4 DEF RecordHandover
<1>9. CASE \/ Aside
           \/ \E o \in Orders, r \in PayRefs :
                \E fact \in {"match", "mismatch", "simulated"} : RecordUnappliedPayment(o, r, fact)
  BY <1>9 DEF Aside, RecordUnappliedPayment
<1> QED
  BY <1>2, <1>3, <1>4, <1>5, <1>6, <1>7, <1>8, <1>9, NextCases

\* A cancelled order is never touched again.
THEOREM CancellationFinal == Spec => CancelledIsFinal
<1>1. IInv /\ [Next]_vars =>
        [\A o \in Orders :
           life[o] = "cancelled" =>
             /\ life'[o] = "cancelled" /\ reason'[o] = reason[o]
             /\ hold'[o] = hold[o] /\ source'[o] = source[o]
             /\ shipped'[o] = shipped[o] /\ freed'[o] = freed[o]]_vars
  BY CancelledFinalStep
<1> QED
  BY <1>1, Invariance, PTL DEF Spec, CancelledIsFinal

\* Only a payment, or a person's cancellation, ends a hold that a retained paid
\* event of the order protects.
LEMMA ProtectedStep ==
  ASSUME IInv, Next, NEW p \in Orders,
         life[p] = "open", AllHeld(p), PaidEventPending(p)
  PROVE  \/ AllHeld(p)'
         \/ Allocated(p)'
         \/ reason'[p] \in {"buyer_cancelled", "seller_cancelled"}
<1> DEFINE Kept == \/ AllHeld(p)'
                   \/ Allocated(p)'
                   \/ reason'[p] \in {"buyer_cancelled", "seller_cancelled"}
<1> USE DEF orderVars, moneyVars, allocVars
<1>0. TypeOK /\ LineItems(p) \subseteq Items /\ LineItems(p) # {}
  BY LineAssumption DEF IInv, LineItems
<1>1. ASSUME hold'[p] = hold[p]
      PROVE  Kept
  BY <1>1 DEF AllHeld
<1>2. \A S : p \notin S => HoldsReleased(S)[p] = hold[p]
  BY <1>0 DEF HoldsReleased, TypeOK
<1>3. \A S : p \notin DueOrders(S)
  BY DEF DueOrders
<1>4. ASSUME NEW o \in Orders, Place(o)
      PROVE  Kept
  <2>1. p # o
    BY <1>4 DEF Place
  <2>2. hold'[p] = HoldsReleased(DueOrders(LineItems(o)))[p]
    BY <1>4, <2>1 DEF Place, HoldsReleased
  <2> QED
    BY <1>1, <1>2, <1>3, <2>2
<1>5. ASSUME NEW S \in SUBSET Items, SettleDueHolds(S)
      PROVE  Kept
  BY <1>1, <1>2, <1>3, <1>5 DEF SettleDueHolds, ReleaseHolds
<1>6. ASSUME NEW o \in Orders, SweepDueHolds(o)
      PROVE  Kept
  BY <1>1, <1>2, <1>3, <1>6 DEF SweepDueHolds, ReleaseHolds
<1>7. ASSUME NEW o \in Orders, NEW r \in PayRefs, ConvertPayment(o, r)
      PROVE  Kept
  <2>1. CASE p = o
    <3>1. \A i \in LineItems(p) : source'[p][i] = r
      BY <1>0, <1>7, <2>1 DEF ConvertPayment, TypeOK
    <3> QED
      BY <1>0, <3>1, PayRefsAssumption DEF Allocated
  <2>2. CASE p # o
    BY <1>1, <1>2, <1>7, <2>2 DEF ConvertPayment
  <2> QED
    BY <2>1, <2>2
<1>8. ASSUME NEW o \in Orders, NEW r \in PayRefs,
             AllocatePayment(o, r) \/ UnallocatablePayment(o, r)
      PROVE  Kept
  <2>1. p # o /\ hold' = HoldsReleased({o})
    BY <1>8 DEF AllocatePayment, UnallocatablePayment, ReleaseHolds
  <2> QED
    BY <1>1, <1>2, <2>1
<1>9. ASSUME NEW o \in Orders,
             NEW why \in {"buyer_cancelled", "seller_cancelled", "payment_not_completed"},
             CancelUnpaidOrder(o, why)
      PROVE  Kept
  <2>1. CASE p = o
    BY <1>0, <1>9, <2>1 DEF CancelUnpaidOrder, Cancel, TypeOK
  <2>2. CASE p # o
    BY <1>1, <1>2, <1>9, <2>2 DEF CancelUnpaidOrder, ReleaseHolds
  <2> QED
    BY <2>1, <2>2
<1>10. ASSUME UNCHANGED hold
       PROVE  Kept
  BY <1>1, <1>10
<1>11. ASSUME NEW o \in Orders, Expire(o) \/ AttemptsEnd(o) \/ Repay(o) \/ RetryAllocation(o)
       PROVE  Kept
  BY <1>10, <1>11 DEF Expire, AttemptsEnd, Repay, RetryAllocation
<1>12. ASSUME NEW o \in Orders, NEW r \in PayRefs,
              \/ RetainPaidEvent(o, r)
              \/ \E fact \in {"match", "mismatch", "simulated"} : RecordUnappliedPayment(o, r, fact)
       PROVE  Kept
  BY <1>10, <1>12 DEF RetainPaidEvent, RecordUnappliedPayment
<1>13. ASSUME NEW o \in Orders, NEW c \in CmdRefs, NEW q,
              ReleaseAllocation(o, c, q) \/ CancelPaidOrder(o, c)
       PROVE  Kept
  BY <1>10, <1>13 DEF ReleaseAllocation, CancelPaidOrder
<1>14. ASSUME NEW ref, NEW q, NEW o, NEW i, NEW n,
              RecordHandover(ref, q) \/ RestockReturn(ref, o, i, n) \/ EditStock(i, n)
       PROVE  Kept
  BY <1>10, <1>14 DEF RecordHandover, RestockReturn, EditStock
<1> QED
  BY <1>4, <1>5, <1>6, <1>7, <1>8, <1>9, <1>11, <1>12, <1>13, <1>14 DEF Next, PaymentStep

\* A retained paid event protects the units held for its order.
THEOREM PaidUnitsKept == Spec => PaidUnitsProtected
<1>1. IInv /\ [Next]_vars =>
        [\A o \in Orders :
           life[o] = "open" /\ AllHeld(o) /\ PaidEventPending(o) =>
             \/ AllHeld(o)'
             \/ Allocated(o)'
             \/ reason'[o] \in {"buyer_cancelled", "seller_cancelled"}]_vars
  BY ProtectedStep
<1> QED
  BY <1>1, Invariance, PTL DEF Spec, PaidUnitsProtected

\* An allocation in the journal names a payment whose order still has it: this
\* keeps a retry from spending a payment reference again.
AllocationsInJournal ==
  \A m \in moves : m.kind = "allocate" =>
    m.ref \in PayRefs /\ appOrder[m.ref] = m.order /\ Allocated(m.order)

\* The journal only grows by the movements of one action, under a reference
\* that action found unused.
LEMMA JournalStep ==
  ASSUME IInv, IInv', AllocationsInJournal, Next
  PROVE  /\ AllocationsInJournal'
         /\ \A m \in moves, n \in moves' \ moves :
              n.ref # None => n.kind # m.kind \/ n.ref # m.ref
<1> DEFINE Fresh == \A m \in moves, n \in moves' \ moves :
                      n.ref # None => n.kind # m.kind \/ n.ref # m.ref
<1> USE DEF orderVars, moneyVars, allocVars
<1>0. TypeOK /\ TypeOK' /\ AllocationIsPaid
  BY DEF IInv
<1>1. \A m \in moves : m.order \in Orders /\ m.kind = "allocate" => m.ref \in PayRefs
  BY <1>0 DEF TypeOK, Movement, AllocationsInJournal
<1>2. ASSUME \A r \in PayRefs : appOrder[r] # None => appOrder'[r] = appOrder[r],
             \A o \in Orders : Allocated(o) => Allocated(o)',
             \A n \in moves' \ moves : n.kind # "allocate",
             moves \subseteq moves'
      PROVE  AllocationsInJournal'
  <2> SUFFICES ASSUME NEW m \in moves', m.kind = "allocate"
               PROVE  m.ref \in PayRefs /\ appOrder'[m.ref] = m.order /\ Allocated(m.order)'
    BY DEF AllocationsInJournal
  <2>1. m \in moves
    BY <1>2
  <2>2. m.order \in Orders
    BY <1>0, <2>1 DEF TypeOK, Movement
  <2> QED
    BY <1>2, <2>1, <2>2, OrdersAssumption DEF AllocationsInJournal
<1>3. \A kind, ref, q : \A n \in Moves(kind, ref, q) : n.kind = kind /\ n.ref = ref
  BY DEF Moves
<1>4. \A o, q : \A kind, ref : \A n \in Moves(kind, ref, OnlyOrder(o, q)) : n.order = o
  <2> SUFFICES ASSUME NEW o, NEW q, NEW kind, NEW ref, NEW n \in Moves(kind, ref, OnlyOrder(o, q))
               PROVE  n.order = o
    OBVIOUS
  <2>1. PICK x \in Orders \X Items :
          /\ OnlyOrder(o, q)[x[1]][x[2]] > 0
          /\ n = [kind |-> kind, ref |-> ref, order |-> x[1], item |-> x[2],
                  qty |-> OnlyOrder(o, q)[x[1]][x[2]]]
    BY DEF Moves
  <2>2. x[1] = o
    <3> SUFFICES ASSUME x[1] # o PROVE FALSE
      OBVIOUS
    <3>1. OnlyOrder(o, q)[x[1]][x[2]] = 0
      BY DEF OnlyOrder
    <3> QED
      BY <2>1, <3>1
  <2> QED
    BY <2>1, <2>2
<1>5. ASSUME UNCHANGED moves
      PROVE  Fresh
  BY <1>5
<1>6. ASSUME NEW o \in Orders, NEW r \in PayRefs, NEW outcome, RecordPayment(o, r, outcome), appOrder[r] = None
      PROVE  \A s \in PayRefs : appOrder[s] # None => appOrder'[s] = appOrder[s]
  BY <1>0, <1>6 DEF RecordPayment, TypeOK
<1>7. ASSUME NEW o \in Orders, NEW r \in PayRefs,
             source' = [source EXCEPT ![o] =
                          [i \in Items |-> IF i \in LineItems(o) THEN r ELSE None]]
      PROVE  /\ \A p \in Orders : Allocated(p) => Allocated(p)'
             /\ Allocated(o)'
  <2>1. Allocated(o)'
    BY <1>0, <1>7, LineAssumption, PayRefsAssumption DEF Allocated, LineItems, TypeOK
  <2>2. \A p \in Orders \ {o} : source'[p] = source[p]
    BY <1>0, <1>7 DEF TypeOK
  <2> QED
    BY <2>1, <2>2 DEF Allocated
\* Stock is found for payment r of o, which has none yet.
<1>8. ASSUME NEW o \in Orders, NEW r \in PayRefs, ~Allocated(o),
             appOrder[r] \in {o, None}, appOrder'[r] = o,
             \A s \in PayRefs : appOrder[s] # None => appOrder'[s] = appOrder[s],
             source' = [source EXCEPT ![o] =
                          [i \in Items |-> IF i \in LineItems(o) THEN r ELSE None]],
             moves' = moves \cup Moves("allocate", r, OnlyOrder(o, Line[o]))
      PROVE  AllocationsInJournal' /\ Fresh
  <2>1. (\A p \in Orders : Allocated(p) => Allocated(p)') /\ Allocated(o)'
    BY <1>7, <1>8
  <2>2. AllocationsInJournal'
    <3> SUFFICES ASSUME NEW m \in moves', m.kind = "allocate"
                 PROVE  m.ref \in PayRefs /\ appOrder'[m.ref] = m.order /\ Allocated(m.order)'
      BY DEF AllocationsInJournal
    <3>1. CASE m \in moves
      <4>1. m.order \in Orders
        BY <1>0, <3>1 DEF TypeOK, Movement
      <4> QED
        BY <1>8, <2>1, <3>1, <4>1, OrdersAssumption DEF AllocationsInJournal
    <3>2. CASE m \in Moves("allocate", r, OnlyOrder(o, Line[o]))
      BY <1>3, <1>4, <1>8, <2>1, <3>2
    <3> QED
      BY <1>8, <3>1, <3>2
  <2>3. ASSUME NEW m \in moves, NEW n \in moves' \ moves, n.kind = m.kind, n.ref = m.ref
        PROVE  FALSE
    <3>1. n.kind = "allocate" /\ n.ref = r
      BY <1>3, <1>8, <2>3
    <3>2. m.order \in Orders /\ appOrder[r] = m.order /\ Allocated(m.order)
      BY <1>0, <2>3, <3>1 DEF TypeOK, Movement, AllocationsInJournal
    <3> QED
      BY <1>8, <3>2, OrdersAssumption
  <2> QED
    BY <2>2, <2>3
<1>9. \A o \in Orders, r \in PayRefs : Payable(o, r) => ~Allocated(o)
  BY <1>0 DEF AllocationIsPaid, Allocated, Payable, Confirmed, TypeOK
<1>10. ASSUME NEW o \in Orders, NEW r \in PayRefs, AllocatePayment(o, r)
       PROVE  AllocationsInJournal' /\ Fresh
  <2>1. appOrder[r] = None /\ ~Allocated(o)
    BY <1>9, <1>10 DEF AllocatePayment, Payable
  <2>2. appOrder'[r] = o /\ \A s \in PayRefs : appOrder[s] # None => appOrder'[s] = appOrder[s]
    BY <1>0, <1>6, <1>10, <2>1 DEF AllocatePayment, RecordPayment, TypeOK
  <2> QED
    BY <1>8, <1>10, <2>1, <2>2 DEF AllocatePayment
<1>11. ASSUME NEW o \in Orders, RetryAllocation(o)
       PROVE  AllocationsInJournal' /\ Fresh
  <2>1. PICK r \in PayRefs :
          /\ appOrder[r] = o /\ appOutcome[r] = "unallocatable"
          /\ source' = [source EXCEPT ![o] =
                          [i \in Items |-> IF i \in LineItems(o) THEN r ELSE None]]
          /\ moves' = moves \cup Moves("allocate", r, OnlyOrder(o, Line[o]))
    BY <1>11 DEF RetryAllocation
  <2>2. ~Allocated(o) /\ UNCHANGED appOrder
    BY <1>11 DEF RetryAllocation
  <2>3. appOrder'[r] = o /\ \A s \in PayRefs : appOrder[s] # None => appOrder'[s] = appOrder[s]
    BY <2>1, <2>2
  <2> QED
    BY <1>8, <2>1, <2>2, <2>3
<1>12. ASSUME NEW o \in Orders, NEW r \in PayRefs, ConvertPayment(o, r)
       PROVE  AllocationsInJournal' /\ Fresh
  <2>1. moves' = moves \cup Moves("convert", None, OnlyOrder(o, Line[o]))
    BY <1>12 DEF ConvertPayment
  <2>2. \A n \in moves' \ moves : n.kind = "convert" /\ n.ref = None
    BY <1>3, <2>1
  <2>3. \A s \in PayRefs : appOrder[s] # None => appOrder'[s] = appOrder[s]
    BY <1>6, <1>12 DEF ConvertPayment, Payable
  <2>4. \A p \in Orders : Allocated(p) => Allocated(p)'
    BY <1>7, <1>12 DEF ConvertPayment
  <2>5. AllocationsInJournal'
    BY <1>2, <2>1, <2>2, <2>3, <2>4
  <2> QED
    BY <2>2, <2>5
\* Movements of another kind, under a reference that kind has not used.
<1>13. ASSUME NEW kind \in Kinds \ {"allocate"}, NEW ref, NEW added, ~RefUsed(kind, ref),
              moves' = moves \cup added, \A n \in added : n.kind = kind /\ n.ref = ref,
              UNCHANGED <<source, appOrder>>
       PROVE  AllocationsInJournal' /\ Fresh
  <2>1. \A o \in Orders : Allocated(o) => Allocated(o)'
    BY <1>13 DEF Allocated
  <2>2. AllocationsInJournal'
    BY <1>2, <1>13, <2>1
  <2>3. Fresh
    BY <1>13 DEF RefUsed
  <2> QED
    BY <2>2, <2>3
<1>14. ASSUME NEW o \in Orders, NEW c \in CmdRefs, NEW q,
              ReleaseAllocation(o, c, q) \/ CancelPaidOrder(o, c)
       PROVE  AllocationsInJournal' /\ Fresh
  <2>1. /\ ~RefUsed("allocation_release", c) /\ UNCHANGED <<source, appOrder>>
        /\ \E x : moves' = moves \cup Moves("allocation_release", c, OnlyOrder(o, x))
    BY <1>14 DEF ReleaseAllocation, CancelPaidOrder, ReleaseUnits
  <2> QED
    BY <1>3, <1>13, <2>1 DEF Kinds
<1>15. ASSUME NEW ref, NEW q, RecordHandover(ref, q)
       PROVE  AllocationsInJournal' /\ Fresh
  <2>1. /\ ~RefUsed("ship", ref) /\ UNCHANGED <<source, appOrder>>
        /\ moves' = moves \cup Moves("ship", ref, q)
    BY <1>15 DEF RecordHandover
  <2> QED
    BY <1>3, <1>13, <2>1 DEF Kinds
<1>16. ASSUME NEW ref, NEW o, NEW i, NEW n, RestockReturn(ref, o, i, n)
       PROVE  AllocationsInJournal' /\ Fresh
  <2> DEFINE added == {[kind |-> "restock", ref |-> ref, order |-> o, item |-> i, qty |-> n]}
  <2>1. /\ ~RefUsed("restock", ref) /\ UNCHANGED <<source, appOrder>>
        /\ moves' = moves \cup added
    BY <1>16 DEF RestockReturn
  <2>2. \A m \in added : m.kind = "restock" /\ m.ref = ref
    OBVIOUS
  <2> HIDE DEF added
  <2> QED
    BY <1>13, <2>1, <2>2 DEF Kinds
<1>17. ASSUME UNCHANGED <<moves, source>>,
              \A s \in PayRefs : appOrder[s] # None => appOrder'[s] = appOrder[s]
       PROVE  AllocationsInJournal' /\ Fresh
  <2>1. \A o \in Orders : Allocated(o) => Allocated(o)'
    BY <1>17 DEF Allocated
  <2> QED
    BY <1>2, <1>5, <1>17, <2>1
<1>18. ASSUME NEW o \in Orders, NEW r \in PayRefs, NEW fact,
              UnallocatablePayment(o, r) \/ RecordUnappliedPayment(o, r, fact)
       PROVE  AllocationsInJournal' /\ Fresh
  <2>1. UNCHANGED <<moves, source>> /\ appOrder[r] = None
    BY <1>18 DEF UnallocatablePayment, RecordUnappliedPayment, Payable
  <2>2. \E outcome : RecordPayment(o, r, outcome)
    BY <1>18 DEF UnallocatablePayment, RecordUnappliedPayment
  <2> QED
    BY <1>6, <1>17, <2>1, <2>2
<1>19. ASSUME NEW o \in Orders,
              \/ Expire(o) \/ AttemptsEnd(o) \/ Repay(o) \/ Place(o) \/ SweepDueHolds(o)
              \/ (\E r \in PayRefs : RetainPaidEvent(o, r))
              \/ (\E why \in {"buyer_cancelled", "seller_cancelled", "payment_not_completed"} :
                    CancelUnpaidOrder(o, why))
       PROVE  AllocationsInJournal' /\ Fresh
  <2>1. UNCHANGED <<moves, source, appOrder>>
    BY <1>19 DEF Expire, AttemptsEnd, Repay, Place, SweepDueHolds, RetainPaidEvent, CancelUnpaidOrder
  <2> QED
    BY <1>17, <2>1
<1>20. ASSUME NEW S, NEW i, NEW n, SettleDueHolds(S) \/ EditStock(i, n)
       PROVE  AllocationsInJournal' /\ Fresh
  <2>1. UNCHANGED <<moves, source, appOrder>>
    BY <1>20 DEF SettleDueHolds, EditStock
  <2> QED
    BY <1>17, <2>1
<1> QED
  BY <1>10, <1>11, <1>12, <1>14, <1>15, <1>16, <1>18, <1>19, <1>20 DEF Next, PaymentStep

\* No release, handover or return moves units twice, and no payment is
\* allocated twice.
THEOREM ReferencesOnce == Spec => ReferencesSpentOnce
<1>1. Init => AllocationsInJournal
  BY DEF Init, AllocationsInJournal
<1>2. IInv /\ IInv' /\ AllocationsInJournal /\ [Next]_vars => AllocationsInJournal'
  <2> SUFFICES ASSUME IInv, IInv', AllocationsInJournal, [Next]_vars
               PROVE  AllocationsInJournal'
    OBVIOUS
  <2>1. CASE Next
    BY <2>1, JournalStep
  <2>2. CASE UNCHANGED vars
    BY <2>2 DEF vars, AllocationsInJournal, Allocated
  <2> QED
    BY <2>1, <2>2
<1>3. IInv /\ IInv' /\ AllocationsInJournal /\ [Next]_vars =>
        [\A m \in moves, n \in moves' \ moves :
           n.ref # None => n.kind # m.kind \/ n.ref # m.ref]_vars
  BY JournalStep
<1> QED
  BY <1>1, <1>2, <1>3, Invariance, PTL DEF Spec, ReferencesSpentOnce

-----------------------------------------------------------------------------
(* The movement journal explains the counters.                              *)

\* The movements of one kind of one line in M, and their units.
OfLine(M, kind, o, i) == {m \in M : m.kind = kind /\ m.order = o /\ m.item = i}
Pieces(M, kind, o, i) ==
  {u \in M \X (1..MaxStock) :
     /\ u[1].kind = kind /\ u[1].order = o /\ u[1].item = i
     /\ u[2] <= u[1].qty}

\* A line has moved a finite number of times.
LinesFinite ==
  \A kind \in Kinds, o \in Orders, i \in Items : IsFiniteSet(OfLine(moves, kind, o, i))

LEMMA MovedPieces ==
  ASSUME NEW kind, NEW o, NEW i
  PROVE  /\ Moved(kind, o, i) = Cardinality(Pieces(moves, kind, o, i))
         /\ Moved(kind, o, i)' = Cardinality(Pieces(moves', kind, o, i))
BY DEF Moved, MovedUnits, Pieces

\* A finite number of movements has moved a finite number of units.
LEMMA PiecesFinite ==
  ASSUME NEW M, NEW kind, NEW o, NEW i, IsFiniteSet(OfLine(M, kind, o, i))
  PROVE  /\ IsFiniteSet(Pieces(M, kind, o, i)) /\ Cardinality(Pieces(M, kind, o, i)) \in Nat
         /\ Cardinality(Pieces(M, kind, o, i)) = 0 => Pieces(M, kind, o, i) = {}
<1>1. IsFiniteSet(1..MaxStock)
  BY FS_Interval, MaxStockAssumption
<1>2. IsFiniteSet(OfLine(M, kind, o, i) \X (1..MaxStock))
  BY <1>1, FS_Product
<1>3. Pieces(M, kind, o, i) \subseteq OfLine(M, kind, o, i) \X (1..MaxStock)
  BY DEF Pieces, OfLine
<1>4. IsFiniteSet(Pieces(M, kind, o, i))
  BY <1>2, <1>3, FS_Subset
<1> QED
  BY <1>4, FS_CardinalityType, FS_EmptySet

\* One movement has as many units as its quantity.
LEMMA PiecesOfOne ==
  ASSUME NEW m \in Movement
  PROVE  LET W == {<<m, k>> : k \in 1..m.qty}
         IN  IsFiniteSet(W) /\ Cardinality(W) = m.qty
<1> DEFINE W == {<<m, k>> : k \in 1..m.qty}
           pair == [k \in 1..m.qty |-> <<m, k>>]
<1>1. m.qty \in Nat
  BY MaxStockAssumption DEF Movement, Quantity
<1>2. pair \in Bijection(1..m.qty, W)
  <2>1. pair \in [1..m.qty -> W]
    OBVIOUS
  <2>2. \A j, k \in 1..m.qty : pair[j] = pair[k] => j = k
    OBVIOUS
  <2>3. \A u \in W : \E k \in 1..m.qty : pair[k] = u
    OBVIOUS
  <2> QED
    BY <2>1, <2>2, <2>3 DEF Bijection, Injection, Surjection, IsInjective
<1>3. IsFiniteSet(1..m.qty) /\ Cardinality(1..m.qty) = m.qty
  <2> DEFINE n == m.qty
  <2>1. 1 \in Int /\ n \in Int /\ n >= 0
    BY <1>1
  <2> HIDE DEF n
  <2>2. IsFiniteSet(1..n) /\ Cardinality(1..n) = IF 1 > n THEN 0 ELSE n - 1 + 1
    BY <2>1, FS_Interval
  <2>3. IsFiniteSet(1..n) /\ Cardinality(1..n) = n
    BY <2>1, <2>2
  <2> QED
    BY <2>3 DEF n
<1>4. ExistsBijection(1..m.qty, W)
  BY <1>2 DEF ExistsBijection
<1> QED
  BY <1>3, <1>4, FS_Bijection

\* A new movement adds its quantity to its own line.
LEMMA PiecesAdd ==
  ASSUME NEW M \in SUBSET Movement, NEW N, NEW m \in Movement, m \notin M,
         OfLine(N, m.kind, m.order, m.item) = OfLine(M, m.kind, m.order, m.item) \cup {m},
         IsFiniteSet(OfLine(M, m.kind, m.order, m.item))
  PROVE  /\ IsFiniteSet(OfLine(N, m.kind, m.order, m.item))
         /\ Cardinality(Pieces(N, m.kind, m.order, m.item))
              = Cardinality(Pieces(M, m.kind, m.order, m.item)) + m.qty
<1> DEFINE W == {<<m, k>> : k \in 1..m.qty}
           P == Pieces(M, m.kind, m.order, m.item)
           Q == Pieces(N, m.kind, m.order, m.item)
<1>1. IsFiniteSet(OfLine(N, m.kind, m.order, m.item))
  BY FS_AddElement
<1>2. m.qty \in Nat /\ m.qty <= MaxStock /\ MaxStock \in Nat
  BY MaxStockAssumption DEF Movement, Quantity
<1>3. Q = P \cup W
  <2>1. \A u \in Q : u \in P \/ u \in W
    <3> SUFFICES ASSUME NEW u \in Q, u \notin P PROVE u \in W
      OBVIOUS
    <3>1. /\ u = <<u[1], u[2]>> /\ u[1] \in OfLine(N, m.kind, m.order, m.item)
          /\ u[2] \in 1..MaxStock /\ u[2] <= u[1].qty
      BY DEF Pieces, OfLine
    <3>2. u[1] = m
      BY <3>1 DEF Pieces, OfLine
    <3> QED
      BY <1>2, <3>1, <3>2
  <2>2. \A u \in P : u \in Q
    <3> SUFFICES ASSUME NEW u \in P PROVE u \in Q
      OBVIOUS
    <3>1. u[1] \in OfLine(N, m.kind, m.order, m.item)
      BY DEF Pieces, OfLine
    <3> QED
      BY <3>1 DEF Pieces, OfLine
  <2>3. \A u \in W : u \in Q
    <3>1. m \in N
      BY DEF OfLine
    <3> QED
      BY <1>2, <3>1 DEF Pieces
  <2> QED
    BY <2>1, <2>2, <2>3
<1>4. P \cap W = {}
  BY DEF Pieces
<1>5. IsFiniteSet(P) /\ IsFiniteSet(W) /\ Cardinality(W) = m.qty /\ Cardinality(P) \in Nat
  BY PiecesFinite, PiecesOfOne
<1>6. Cardinality(P \cup W) = Cardinality(P) + Cardinality(W) - Cardinality(P \cap W)
  BY <1>5, FS_Union
<1>7. Cardinality(P \cap W) = 0
  BY <1>4, FS_EmptySet
<1> QED
  BY <1>1, <1>2, <1>3, <1>5, <1>6, <1>7

\* What a transaction that journals q moves of each line, when none of its
\* movements is in the journal yet.
LEMMA MovedAfter ==
  ASSUME moves \subseteq Movement, LinesFinite, NEW kind \in Kinds,
         NEW ref \in PayRefs \cup CmdRefs \cup ShipRefs \cup ReturnRefs \cup {None},
         NEW q \in [Orders -> [Items -> Quantity]], moves' = moves \cup Moves(kind, ref, q),
         \A o \in Orders, i \in Items : \A m \in OfLine(moves, kind, o, i) :
           m.ref = ref => m.qty = 0 \/ q[o][i] = 0
  PROVE  /\ LinesFinite'
         /\ \A k \in Kinds, o \in Orders, i \in Items :
              /\ Moved(k, o, i) \in Nat
              /\ Moved(k, o, i)' = Moved(k, o, i) + IF k = kind THEN q[o][i] ELSE 0
<1>1. ASSUME NEW k \in Kinds, NEW o \in Orders, NEW i \in Items
      PROVE  /\ IsFiniteSet(OfLine(moves', k, o, i))
             /\ Moved(k, o, i) \in Nat
             /\ Moved(k, o, i)' = Moved(k, o, i) + IF k = kind THEN q[o][i] ELSE 0
  <2>1. IsFiniteSet(OfLine(moves, k, o, i)) /\ Moved(k, o, i) \in Nat
    BY MovedPieces, PiecesFinite DEF LinesFinite
  <2>2. q[o][i] \in Nat /\ q[o][i] \in Quantity
    BY MaxStockAssumption DEF Quantity
  <2> DEFINE m == [kind |-> kind, ref |-> ref, order |-> o, item |-> i, qty |-> q[o][i]]
  <2>3. CASE k = kind /\ q[o][i] > 0
    <3>1. m \in Movement /\ m.kind = k /\ m.order = o /\ m.item = i /\ m.qty = q[o][i]
      BY <2>2, <2>3 DEF Movement
    <3>2. m \notin moves
      BY <2>2, <2>3 DEF OfLine
    <3>3. OfLine(moves', k, o, i) = OfLine(moves, k, o, i) \cup {m}
      <4>1. OfLine(Moves(kind, ref, q), k, o, i) = {m}
        <5>1. ASSUME NEW n \in OfLine(Moves(kind, ref, q), k, o, i)
              PROVE  n = m
          <6>1. PICK x \in Orders \X Items :
                  n = [kind |-> kind, ref |-> ref, order |-> x[1], item |-> x[2], qty |-> q[x[1]][x[2]]]
            BY <5>1 DEF OfLine, Moves
          <6>2. x[1] = o /\ x[2] = i
            BY <5>1, <6>1 DEF OfLine
          <6> QED
            BY <6>1, <6>2
        <5>2. m \in Moves(kind, ref, q)
          <6>1. <<o, i>> \in {y \in Orders \X Items : q[y[1]][y[2]] > 0}
            BY <2>3
          <6> QED
            BY <6>1 DEF Moves
        <5> QED
          BY <3>1, <5>1, <5>2 DEF OfLine
      <4>2. OfLine(moves', k, o, i) = OfLine(moves, k, o, i) \cup OfLine(Moves(kind, ref, q), k, o, i)
        BY DEF OfLine
      <4> QED
        BY <4>1, <4>2
    <3> HIDE DEF m
    <3>4. /\ IsFiniteSet(OfLine(moves', k, o, i))
          /\ Cardinality(Pieces(moves', k, o, i)) = Cardinality(Pieces(moves, k, o, i)) + q[o][i]
      <4>1. /\ OfLine(moves', m.kind, m.order, m.item) = OfLine(moves, m.kind, m.order, m.item) \cup {m}
            /\ IsFiniteSet(OfLine(moves, m.kind, m.order, m.item))
        BY <2>1, <3>1, <3>3
      <4>2. /\ IsFiniteSet(OfLine(moves', m.kind, m.order, m.item))
            /\ Cardinality(Pieces(moves', m.kind, m.order, m.item))
                 = Cardinality(Pieces(moves, m.kind, m.order, m.item)) + m.qty
        BY <3>1, <3>2, <4>1, PiecesAdd
      <4> QED
        BY <3>1, <4>2
    <3> QED
      BY <2>1, <2>3, <3>4, MovedPieces
  <2>4. CASE ~(k = kind /\ q[o][i] > 0)
    <3>1. OfLine(moves', k, o, i) = OfLine(moves, k, o, i)
      <4>1. OfLine(Moves(kind, ref, q), k, o, i) = {}
        BY <2>4 DEF OfLine, Moves
      <4> QED
        BY <4>1 DEF OfLine
    <3>2. Pieces(moves', k, o, i) = Pieces(moves, k, o, i)
      <4>1. \A n : n \in OfLine(moves', k, o, i) <=> n \in OfLine(moves, k, o, i)
        BY <3>1
      <4> QED
        BY <4>1 DEF Pieces, OfLine
    <3>3. Moved(k, o, i)' = Moved(k, o, i)
      BY <3>2, MovedPieces
    <3> QED
      BY <2>1, <2>2, <2>4, <3>1, <3>3
  <2> QED
    BY <2>3, <2>4
<1> QED
  BY <1>1 DEF LinesFinite

\* A line that has moved no unit of one kind has no movement of that kind.
LEMMA NothingMoved ==
  ASSUME moves \subseteq Movement, LinesFinite, NEW kind \in Kinds, NEW o \in Orders, NEW i \in Items,
         Moved(kind, o, i) = 0, NEW m \in OfLine(moves, kind, o, i)
  PROVE  m.qty = 0
<1>1. Pieces(moves, kind, o, i) = {}
  BY MovedPieces, PiecesFinite DEF LinesFinite
<1>2. m.qty \in Nat /\ m.qty <= MaxStock /\ MaxStock \in Nat
  BY MaxStockAssumption DEF OfLine, Movement, Quantity
<1>3. m.qty > 0 => <<m, 1>> \in Pieces(moves, kind, o, i)
  BY <1>2 DEF OfLine, Pieces
<1> QED
  BY <1>1, <1>2, <1>3

\* The journal and the counters move together.
LEMMA CountersExplained ==
  ASSUME IInv, LinesFinite, JournalExplainsCounters, Next
  PROVE  LinesFinite' /\ JournalExplainsCounters'
<1> USE DEF orderVars, moneyVars, allocVars
<1>1. TypeOK /\ AllocationIsPaid /\ CountersWithinLine /\ moves \subseteq Movement
  BY DEF IInv, TypeOK
<1>2. "convert" \in Kinds /\ "allocate" \in Kinds /\ "allocation_release" \in Kinds
      /\ "ship" \in Kinds /\ "restock" \in Kinds
  BY DEF Kinds
<1>3. ASSUME NEW o \in Orders, NEW i \in Items
      PROVE  /\ Moved("convert", o, i) \in Nat /\ Moved("allocate", o, i) \in Nat
             /\ Moved("allocation_release", o, i) \in Nat /\ Moved("ship", o, i) \in Nat
             /\ Moved("restock", o, i) \in Nat
             /\ shipped[o][i] \in Nat /\ freed[o][i] \in Nat /\ Line[o][i] \in Nat
             /\ Line[o][i] \in Quantity
  <2>1. \A k \in Kinds : Moved(k, o, i) \in Nat
    BY MovedPieces, PiecesFinite DEF LinesFinite
  <2> QED
    BY <1>1, <1>2, <2>1, LineType, MaxStockAssumption DEF TypeOK, Quantity
\* Stock is found for an order that has none yet.
<1>4. ASSUME NEW o \in Orders, NEW r \in PayRefs, ~Allocated(o), NEW kind \in {"convert", "allocate"},
             NEW ref \in PayRefs \cup {None},
             source' = [source EXCEPT ![o] = [i \in Items |-> IF i \in LineItems(o) THEN r ELSE None]],
             moves' = moves \cup Moves(kind, ref, OnlyOrder(o, Line[o])),
             UNCHANGED <<shipped, freed>>
      PROVE  LinesFinite' /\ JournalExplainsCounters'
  <2> DEFINE q == OnlyOrder(o, Line[o])
  <2>1. q \in [Orders -> [Items -> Quantity]] /\ kind \in Kinds
    BY <1>2, <1>4, LineType, OnlyOrderType
  <2>2. \A p \in Orders, i \in Items : q[p][i] = IF p = o THEN Line[o][i] ELSE 0
    BY DEF OnlyOrder
  <2>3. ASSUME NEW p \in Orders, NEW i \in Items, NEW m \in OfLine(moves, kind, p, i)
        PROVE  m.qty = 0 \/ q[p][i] = 0
    <3>1. CASE p # o
      BY <2>2, <3>1
    <3>2. CASE p = o
      <4>1. source[o][i] = None
        BY <1>4 DEF Allocated
      <4>2. Moved("convert", o, i) + Moved("allocate", o, i) = 0
        BY <4>1 DEF JournalExplainsCounters
      <4>3. Moved(kind, o, i) = 0
        BY <1>3, <1>4, <4>2
      <4> QED
        BY <1>1, <2>1, <2>3, <3>2, <4>3, NothingMoved
    <3> QED
      BY <3>1, <3>2
  <2> HIDE DEF q
  <2>4. /\ LinesFinite'
        /\ \A k \in Kinds, p \in Orders, i \in Items :
             Moved(k, p, i)' = Moved(k, p, i) + IF k = kind THEN q[p][i] ELSE 0
    <3>1. moves' = moves \cup Moves(kind, ref, q)
      BY <1>4 DEF q
    <3>2. \A p \in Orders, i \in Items : \A m \in OfLine(moves, kind, p, i) :
            m.ref = ref => m.qty = 0 \/ q[p][i] = 0
      BY <2>3
    <3>3. ref \in PayRefs \cup CmdRefs \cup ShipRefs \cup ReturnRefs \cup {None}
      BY <1>4
    <3> QED
      BY <1>1, <2>1, <3>1, <3>2, <3>3, MovedAfter
  <2>5. ASSUME NEW p \in Orders, NEW i \in Items
        PROVE  /\ Moved("convert", p, i)' + Moved("allocate", p, i)'
                    = IF source'[p][i] = None THEN 0 ELSE Line[p][i]
               /\ Moved("allocation_release", p, i)' = freed'[p][i]
               /\ Moved("ship", p, i)' = shipped'[p][i]
               /\ Moved("restock", p, i)' <= shipped'[p][i]
    <3>1. /\ Moved("convert", p, i) + Moved("allocate", p, i)
               = IF source[p][i] = None THEN 0 ELSE Line[p][i]
          /\ Moved("allocation_release", p, i) = freed[p][i]
          /\ Moved("ship", p, i) = shipped[p][i]
          /\ Moved("restock", p, i) <= shipped[p][i]
      BY DEF JournalExplainsCounters
    <3>2. /\ Moved("allocation_release", p, i)' = freed'[p][i]
          /\ Moved("ship", p, i)' = shipped'[p][i]
          /\ Moved("restock", p, i)' <= shipped'[p][i]
      BY <1>2, <1>3, <1>4, <2>4, <3>1
    <3>3. Moved("convert", p, i)' + Moved("allocate", p, i)'
            = Moved("convert", p, i) + Moved("allocate", p, i) + q[p][i]
      <4>1. q[p][i] \in Nat
        BY <2>1, MaxStockAssumption DEF Quantity
      <4> QED
        BY <1>2, <1>3, <1>4, <2>4, <4>1
    <3>4. CASE p # o
      BY <1>1, <1>3, <1>4, <2>2, <3>1, <3>2, <3>3, <3>4 DEF TypeOK
    <3>5. CASE p = o
      <4>1. source[o][i] = None /\ source'[o][i] = IF Line[o][i] > 0 THEN r ELSE None
        BY <1>1, <1>4 DEF Allocated, TypeOK, LineItems
      <4>2. IF source'[o][i] = None THEN Line[o][i] = 0 ELSE TRUE
        BY <1>3, <4>1, PayRefsAssumption
      <4>3. Moved("convert", p, i)' + Moved("allocate", p, i)' = Line[o][i]
        BY <1>3, <2>2, <3>1, <3>3, <3>5, <4>1
      <4> QED
        BY <3>2, <3>5, <4>2, <4>3
    <3> QED
      BY <3>4, <3>5
  <2> QED
    BY <2>4, <2>5 DEF JournalExplainsCounters
\* Movements under a reference their kind has not used.
<1>5. ASSUME NEW kind \in Kinds, NEW ref \in PayRefs \cup CmdRefs \cup ShipRefs \cup ReturnRefs \cup {None},
             NEW q \in [Orders -> [Items -> Quantity]],
             ~RefUsed(kind, ref), moves' = moves \cup Moves(kind, ref, q)
      PROVE  /\ LinesFinite'
             /\ \A k \in Kinds, o \in Orders, i \in Items :
                  Moved(k, o, i)' = Moved(k, o, i) + IF k = kind THEN q[o][i] ELSE 0
  <2>1. \A o \in Orders, i \in Items : \A m \in OfLine(moves, kind, o, i) : m.ref # ref
    BY <1>5 DEF RefUsed, OfLine
  <2> QED
    BY <1>1, <1>5, <2>1, MovedAfter
<1>6. ASSUME NEW o \in Orders, NEW c \in CmdRefs, NEW q \in [Items -> Quantity],
             ~RefUsed("allocation_release", c), ReleaseUnits(o, c, q), UNCHANGED <<source, shipped>>
      PROVE  LinesFinite' /\ JournalExplainsCounters'
  <2>1. /\ LinesFinite'
        /\ \A k \in Kinds, p \in Orders, i \in Items :
             Moved(k, p, i)' = Moved(k, p, i)
                                 + IF k = "allocation_release" THEN OnlyOrder(o, q)[p][i] ELSE 0
    BY <1>2, <1>5, <1>6, OnlyOrderType DEF ReleaseUnits
  <2>2. \A p \in Orders, i \in Items : freed'[p][i] = freed[p][i] + OnlyOrder(o, q)[p][i]
    BY <1>1, <1>3, <1>6 DEF ReleaseUnits, OnlyOrder, TypeOK
  <2>3. \A p \in Orders, i \in Items :
          /\ Moved("convert", p, i)' = Moved("convert", p, i)
          /\ Moved("allocate", p, i)' = Moved("allocate", p, i)
          /\ Moved("ship", p, i)' = Moved("ship", p, i)
          /\ Moved("restock", p, i)' = Moved("restock", p, i)
          /\ Moved("allocation_release", p, i)'
               = Moved("allocation_release", p, i) + OnlyOrder(o, q)[p][i]
    BY <1>2, <1>3, <2>1
  <2> QED
    BY <1>6, <2>1, <2>2, <2>3 DEF JournalExplainsCounters
<1>7. ASSUME NEW o \in Orders, NEW c \in CmdRefs, NEW q \in [Items -> Quantity],
             ReleaseAllocation(o, c, q) \/ CancelPaidOrder(o, c)
      PROVE  LinesFinite' /\ JournalExplainsCounters'
  <2>1. CASE ReleaseAllocation(o, c, q)
    BY <1>6, <2>1 DEF ReleaseAllocation
  <2>2. CASE CancelPaidOrder(o, c)
    <3>1. [i \in Items |-> Remaining(o, i)] \in [Items -> Quantity]
      BY <1>1, RemainingType
    <3> QED
      BY <1>6, <2>2, <3>1 DEF CancelPaidOrder
  <2> QED
    BY <1>7, <2>1, <2>2
<1>8. ASSUME NEW ref \in ShipRefs, NEW q \in [Orders -> [Items -> Quantity]], RecordHandover(ref, q)
      PROVE  LinesFinite' /\ JournalExplainsCounters'
  <2>1. /\ LinesFinite'
        /\ \A k \in Kinds, p \in Orders, i \in Items :
             Moved(k, p, i)' = Moved(k, p, i) + IF k = "ship" THEN q[p][i] ELSE 0
    BY <1>2, <1>5, <1>8 DEF RecordHandover
  <2>2. /\ \A p \in Orders, i \in Items : shipped'[p][i] = shipped[p][i] + q[p][i]
        /\ UNCHANGED <<source, freed>>
    BY <1>8 DEF RecordHandover
  <2>3. ASSUME NEW p \in Orders, NEW i \in Items
        PROVE  /\ Moved("convert", p, i)' = Moved("convert", p, i)
               /\ Moved("allocate", p, i)' = Moved("allocate", p, i)
               /\ Moved("allocation_release", p, i)' = Moved("allocation_release", p, i)
               /\ Moved("ship", p, i)' = Moved("ship", p, i) + q[p][i]
               /\ Moved("restock", p, i)' <= shipped'[p][i]
    <3>1. q[p][i] \in Nat /\ Moved("restock", p, i) <= shipped[p][i]
      BY MaxStockAssumption DEF Quantity, JournalExplainsCounters
    <3> QED
      BY <1>2, <1>3, <2>1, <2>2, <3>1
  <2> QED
    BY <2>1, <2>2, <2>3 DEF JournalExplainsCounters
<1>9. ASSUME NEW ref \in ReturnRefs, NEW o \in Orders, NEW i \in Items, NEW n \in Quantity,
             RestockReturn(ref, o, i, n)
      PROVE  LinesFinite' /\ JournalExplainsCounters'
  <2> DEFINE back == [j \in Items |-> IF j = i THEN n ELSE 0]
             q == OnlyOrder(o, back)
  <2>1. n > 0 /\ n \in Nat /\ n <= shipped[o][i] - Moved("restock", o, i)
    BY <1>9, MaxStockAssumption DEF RestockReturn, Restocked, Quantity
  <2>2. q \in [Orders -> [Items -> Quantity]]
    BY MaxStockAssumption, OnlyOrderType DEF Quantity
  <2>3. \A p \in Orders, j \in Items : q[p][j] = IF p = o /\ j = i THEN n ELSE 0
    BY DEF OnlyOrder
  <2> HIDE DEF q
  <2>4. Moves("restock", ref, q)
          = {[kind |-> "restock", ref |-> ref, order |-> o, item |-> i, qty |-> n]}
    <3>1. {y \in Orders \X Items : q[y[1]][y[2]] > 0} = {<<o, i>>}
      BY <2>1, <2>3
    <3>2. q[o][i] = n
      BY <2>3
    <3>3. Moves("restock", ref, q) =
            {[kind |-> "restock", ref |-> ref, order |-> x[1], item |-> x[2],
              qty |-> q[x[1]][x[2]]] : x \in {<<o, i>>}}
      BY <3>1 DEF Moves
    <3> QED
      BY <3>2, <3>3
  <2>5. /\ LinesFinite'
        /\ \A k \in Kinds, p \in Orders, j \in Items :
             Moved(k, p, j)' = Moved(k, p, j) + IF k = "restock" THEN q[p][j] ELSE 0
    <3>1. ~RefUsed("restock", ref) /\ moves' = moves \cup Moves("restock", ref, q)
      BY <1>9, <2>4 DEF RestockReturn
    <3> QED
      BY <1>2, <1>5, <2>2, <3>1
  <2>6. ASSUME NEW p \in Orders, NEW j \in Items
        PROVE  /\ Moved("convert", p, j)' = Moved("convert", p, j)
               /\ Moved("allocate", p, j)' = Moved("allocate", p, j)
               /\ Moved("allocation_release", p, j)' = Moved("allocation_release", p, j)
               /\ Moved("ship", p, j)' = Moved("ship", p, j)
               /\ Moved("restock", p, j)' <= shipped[p][j]
    <3>1. Moved("restock", p, j) <= shipped[p][j]
      BY DEF JournalExplainsCounters
    <3> QED
      BY <1>2, <1>3, <2>1, <2>3, <2>5, <3>1
  <2>7. UNCHANGED <<source, shipped, freed>>
    BY <1>9 DEF RestockReturn
  <2> QED
    BY <2>5, <2>6, <2>7 DEF JournalExplainsCounters
<1>10. \A o \in Orders, r \in PayRefs : Payable(o, r) => ~Allocated(o)
  BY <1>1 DEF AllocationIsPaid, Allocated, Payable, Confirmed, TypeOK
<1>11. ASSUME NEW o \in Orders, NEW r \in PayRefs, ConvertPayment(o, r) \/ AllocatePayment(o, r)
       PROVE  LinesFinite' /\ JournalExplainsCounters'
  BY <1>4, <1>10, <1>11 DEF ConvertPayment, AllocatePayment
<1>12. ASSUME NEW o \in Orders, RetryAllocation(o)
       PROVE  LinesFinite' /\ JournalExplainsCounters'
  BY <1>4, <1>12 DEF RetryAllocation
<1>13. ASSUME UNCHANGED <<moves, source, shipped, freed>>
       PROVE  LinesFinite' /\ JournalExplainsCounters'
  BY <1>13 DEF LinesFinite, JournalExplainsCounters, Moved, MovedUnits
<1>14. ASSUME NEW o \in Orders,
              \/ Expire(o) \/ AttemptsEnd(o) \/ Repay(o) \/ Place(o) \/ SweepDueHolds(o)
              \/ (\E why \in {"buyer_cancelled", "seller_cancelled", "payment_not_completed"} :
                    CancelUnpaidOrder(o, why))
       PROVE  LinesFinite' /\ JournalExplainsCounters'
  BY <1>13, <1>14 DEF Expire, AttemptsEnd, Repay, Place, SweepDueHolds, CancelUnpaidOrder
<1>15. ASSUME NEW o \in Orders, NEW r \in PayRefs, NEW fact,
              RetainPaidEvent(o, r) \/ UnallocatablePayment(o, r) \/ RecordUnappliedPayment(o, r, fact)
       PROVE  LinesFinite' /\ JournalExplainsCounters'
  BY <1>13, <1>15 DEF RetainPaidEvent, UnallocatablePayment, RecordUnappliedPayment
<1>16. ASSUME NEW S, NEW i, NEW n, SettleDueHolds(S) \/ EditStock(i, n)
       PROVE  LinesFinite' /\ JournalExplainsCounters'
  BY <1>13, <1>16 DEF SettleDueHolds, EditStock
<1>17. ASSUME NEW o \in Orders, NEW c \in CmdRefs, CancelPaidOrder(o, c)
       PROVE  LinesFinite' /\ JournalExplainsCounters'
  <2>1. [i \in Items |-> 0] \in [Items -> Quantity]
    BY MaxStockAssumption DEF Quantity
  <2> QED
    BY <1>7, <1>17, <2>1
<1> QED
  BY <1>7, <1>8, <1>9, <1>11, <1>12, <1>14, <1>15, <1>16, <1>17 DEF Next, PaymentStep

\* The movements of a line add up to its allocation, its releases and its
\* handovers, and no line is returned beyond what it shipped (migration 168).
THEOREM JournalExplains == Spec => []JournalExplainsCounters
<1>1. Init => LinesFinite /\ JournalExplainsCounters
  <2> SUFFICES ASSUME Init PROVE LinesFinite /\ JournalExplainsCounters
    OBVIOUS
  <2>1. \A kind, o, i : OfLine(moves, kind, o, i) = {} /\ Pieces(moves, kind, o, i) = {}
    BY DEF Init, OfLine, Pieces
  <2>2. LinesFinite /\ \A kind, o, i : Moved(kind, o, i) = 0
    BY <2>1, FS_EmptySet, MovedPieces DEF LinesFinite
  <2>3. \A o \in Orders, i \in Items : source[o][i] = None /\ shipped[o][i] = 0 /\ freed[o][i] = 0
    BY DEF Init
  <2> QED
    BY <2>2, <2>3 DEF JournalExplainsCounters
<1>2. IInv /\ LinesFinite /\ JournalExplainsCounters /\ [Next]_vars =>
        LinesFinite' /\ JournalExplainsCounters'
  <2> SUFFICES ASSUME IInv, LinesFinite, JournalExplainsCounters, [Next]_vars
               PROVE  LinesFinite' /\ JournalExplainsCounters'
    OBVIOUS
  <2>1. CASE Next
    BY <2>1, CountersExplained
  <2>2. CASE UNCHANGED vars
    BY <2>2 DEF vars, allocVars, LinesFinite, JournalExplainsCounters, Moved, MovedUnits
  <2> QED
    BY <2>1, <2>2
<1> QED
  BY <1>1, <1>2, Invariance, PTL DEF Spec

-----------------------------------------------------------------------------
(* The conditions of the stock updates.  Each UPDATE of commerce_items asks  *)
(* again for the units it takes back or hands over and the transaction fails *)
(* when they are missing: the conditions in ReleaseHolds, ReleaseUnits and   *)
(* RecordHandover.  What the line counters allow, the item always has.       *)

HoldsCovered == \A S \in SUBSET Orders : Consistent(S)

ReleaseCovered ==
  \A o \in Orders, q \in [Items -> Quantity] :
    (\A i \in Items : q[i] <= Remaining(o, i)) => \A i \in Items : q[i] <= reserved[i]

HandoverCovered ==
  \A q \in [Orders -> [Items -> Quantity]] :
    (\A o \in Orders, i \in Items : q[o][i] <= Remaining(o, i)) =>
      \A i \in Items : LET out == Total([o \in Orders |-> q[o][i]])
                       IN  out <= reserved[i] /\ out <= stock[i]

\* Whatever part of an item's claims leaves it, the item has reserved it.
LEMMA ClaimedPart ==
  ASSUME IInv, NEW i \in Items, NEW f \in Claim,
         \A o \in Orders : f[o] <= IF hold[o][i] = "held" THEN Line[o][i] ELSE Remaining(o, i)
  PROVE  Total(f) \in Nat /\ Total(f) <= reserved[i] /\ Total(f) <= stock[i]
<1>1. /\ Claims(i) \in Claim
      /\ \A o \in Orders : f[o] <= Claims(i)[o]
  BY ClaimsType DEF IInv
<1>2. Total(f) <= Total(Claims(i)) /\ Total(f) \in Nat
  BY <1>1, TotalPart, TotalType
<1>3. reserved[i] = Total(Claims(i)) /\ reserved[i] <= stock[i]
  BY DEF IInv, Balance, NoOversell
<1>4. reserved[i] \in Nat /\ stock[i] \in Nat
  BY MaxStockAssumption DEF IInv, TypeOK, Quantity
<1> QED
  BY <1>2, <1>3, <1>4

\* The invariant covers every update.
LEMMA UpdatesCovered ==
  ASSUME IInv
  PROVE  HoldsCovered /\ ReleaseCovered /\ HandoverCovered
<1>1. TypeOK /\ CountersWithinLine /\ HeldUnitsUnpaid
  BY DEF IInv
<1>2. ASSUME NEW o \in Orders, NEW i \in Items
      PROVE  Remaining(o, i) <= IF hold[o][i] = "held" THEN Line[o][i] ELSE Remaining(o, i)
  <2>1. Remaining(o, i) \in Int /\ Remaining(o, i) <= Line[o][i]
    BY <1>1, RemainingType, MaxStockAssumption DEF Quantity
  <2> QED
    BY <2>1
<1>3. HoldsCovered
  <2> SUFFICES ASSUME NEW S \in SUBSET Orders, NEW i \in Items
               PROVE  Total(HeldBy(S, i)) <= reserved[i]
    BY DEF HoldsCovered, Consistent
  <2>1. ASSUME NEW o \in Orders
        PROVE  HeldBy(S, i)[o] <= IF hold[o][i] = "held" THEN Line[o][i] ELSE Remaining(o, i)
    <3>1. Line[o][i] \in Nat /\ Remaining(o, i) \in Nat
      BY <1>1, LineType, RemainingType, MaxStockAssumption DEF Quantity
    <3>2. HeldBy(S, i)[o] = IF o \in S /\ hold[o][i] = "held" THEN Line[o][i] ELSE 0
      BY DEF HeldBy
    <3> QED
      BY <3>1, <3>2
  <2> QED
    BY <1>1, <2>1, HeldType, ClaimedPart
<1>4. ReleaseCovered
  <2> SUFFICES ASSUME NEW o \in Orders, NEW q \in [Items -> Quantity],
                      \A i \in Items : q[i] <= Remaining(o, i),
                      NEW i \in Items
               PROVE  q[i] <= reserved[i]
    BY DEF ReleaseCovered
  <2>1. q[i] \in Quantity /\ One(o, q[i]) \in Claim /\ Total(One(o, q[i])) = q[i]
    BY OneType
  <2>2. ASSUME NEW p \in Orders
        PROVE  One(o, q[i])[p] <= IF hold[p][i] = "held" THEN Line[p][i] ELSE Remaining(p, i)
    <3>1. Line[p][i] \in Nat /\ Remaining(p, i) \in Nat /\ Remaining(p, i) <= Line[p][i]
      BY <1>1, LineType, RemainingType, MaxStockAssumption DEF Quantity
    <3>2. One(o, q[i])[p] = IF p = o THEN q[i] ELSE 0
      BY DEF One
    <3>3. q[i] <= Remaining(o, i) /\ q[i] \in Int
      BY <2>1, MaxStockAssumption DEF Quantity
    <3> QED
      BY <3>1, <3>2, <3>3
  <2> QED
    BY <2>1, <2>2, ClaimedPart
<1>5. HandoverCovered
  <2> SUFFICES ASSUME NEW q \in [Orders -> [Items -> Quantity]],
                      \A o \in Orders, i \in Items : q[o][i] <= Remaining(o, i),
                      NEW i \in Items
               PROVE  LET out == Total([o \in Orders |-> q[o][i]])
                      IN  out <= reserved[i] /\ out <= stock[i]
    BY DEF HandoverCovered
  <2> DEFINE f == [o \in Orders |-> q[o][i]]
  <2>1. f \in Claim
    BY DEF Claim
  <2>2. ASSUME NEW o \in Orders
        PROVE  f[o] <= IF hold[o][i] = "held" THEN Line[o][i] ELSE Remaining(o, i)
    <3>1. Line[o][i] \in Nat /\ Remaining(o, i) \in Nat /\ Remaining(o, i) <= Line[o][i]
      BY <1>1, LineType, RemainingType, MaxStockAssumption DEF Quantity
    <3>2. q[o][i] <= Remaining(o, i) /\ q[o][i] \in Int
      BY MaxStockAssumption DEF Quantity
    <3> QED
      BY <3>1, <3>2
  <2> HIDE DEF f
  <2>3. Total(f) <= reserved[i] /\ Total(f) <= stock[i]
    BY <2>1, <2>2, ClaimedPart
  <2> QED
    BY <2>3 DEF f
<1> QED
  BY <1>3, <1>4, <1>5

\* A release of holds, a release of allocated units and a handover that the
\* order's lines allow never fail on the item's counters: no interleaving of
\* transactions leaves a placement, a sweep or a shipment stuck on them.
THEOREM UpdatesNeverRefused == Spec => [](HoldsCovered /\ ReleaseCovered /\ HandoverCovered)
<1>1. IInv => HoldsCovered /\ ReleaseCovered /\ HandoverCovered
  BY UpdatesCovered
<1> QED
  BY <1>1, Invariance, PTL

=============================================================================
