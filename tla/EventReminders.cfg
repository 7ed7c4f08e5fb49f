SPECIFICATION FairSpec
CONSTANTS
  m1 = m1
  g1 = g1
  r1 = r1
  r2 = r2
  Members = {m1}
  Guests = {g1}
  Runners = {r1, r2}
  Starts = {1, 2}
  Leads = {1}
  Channels <- OneEach
  Limit = 1
  Horizon = 2
  MaxCrashes = 1
INVARIANTS
  IInv
  HandedOnce
PROPERTIES
  HandedIsCurrent
  PendingEnds
CHECK_DEADLOCK FALSE
