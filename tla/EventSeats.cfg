SPECIFICATION FairSpec
CONSTANTS
  m1 = m1
  m2 = m2
  g1 = g1
  g2 = g2
  Members = {m1}
  Guests = {g1, g2}
  Capacities = {1, 2}
  Starts = {2}
  Hold = 1
  Window = 1
  MaxLate = 1
INVARIANTS
  IInv
  InvitedAreFirst
  NothingLeftBehind
PROPERTIES
  GrowsWithinCapacity
  SeatOffered
  OffersEnd
CHECK_DEADLOCK FALSE
