SPECIFICATION Spec
CONSTANTS
  q1 = q1
  q2 = q2
  Queries = {q1, q2}
  MaxAttempts = 1
  MaxQueue = 2
  Notifications = {"paid", "wrong_amount", "failed"}
  Answers = {"paid", "trade_no_mismatch", "unpaid"}
  None = None
INVARIANTS
  JournalBeforeHandoff
  MoneyAccountedFor
  NothingForgotten
  NoFalseContradiction
PROPERTIES
  LegalTransitions
  NoPaidOrderGivenUp
  LeaseKept
SYMMETRY QuerySymmetry
CHECK_DEADLOCK FALSE
