SPECIFICATION Spec
CONSTANTS
  m1 = m1
  m2 = m2
  g1 = g1
  g2 = g2
  Members = {m1}
  Guests = {g1, g2}
  Capacities = {2, 6}
  Starts = {1}
  Hold = 1
  Window = 1
  MaxLate = 0
INVARIANTS
  NeverOverbooked
SYMMETRY PeopleSymmetry
CHECK_DEADLOCK FALSE
