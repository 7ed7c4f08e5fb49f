SPECIFICATION FairSpec
CONSTANTS
  o1 = o1
  o2 = o2
  i1 = i1
  i2 = i2
  k1 = k1
  k2 = k2
  Orders = {o1, o2}
  Items = {i1, i2}
  Checkouts = {k1, k2}
  None = None
  Line <- ScarceLine
  CheckoutOf <- SameCheckout
  PayRefs = {p1, p2}
  CmdRefs = {c1}
  ShipRefs = {}
  ReturnRefs = {}
  MaxStock = 1
INVARIANTS
  NoOversell
  Balance
  AllocationIsPaid
PROPERTIES
  KeepsMoney
  ExpiredHoldsEnd
  PaidUnitsProtected
CHECK_DEADLOCK FALSE
