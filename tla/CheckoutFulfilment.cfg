SPECIFICATION Spec
CONSTANTS
  o1 = o1
  o2 = o2
  i1 = i1
  i2 = i2
  k1 = k1
  k2 = k2
  Orders = {o1, o2}
  Items = {i1}
  Checkouts = {k1, k2}
  None = None
  Line <- FulfilLine
  CheckoutOf <- OwnCheckout
  PayRefs = {p1, p2}
  CmdRefs = {c1}
  ShipRefs = {s1, s2}
  ReturnRefs = {t1}
  MaxStock = 2
INVARIANTS
  IInv
  JournalExplainsCounters
PROPERTIES
  KeepsLedger
  ReferencesSpentOnce
CHECK_DEADLOCK FALSE
