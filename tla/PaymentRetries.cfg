SPECIFICATION Spec
CONSTANTS
  q1 = q1
  q2 = q2
  Queries = {q1}
  MaxAttempts = 2
  MaxQueue = 1
  Notifications = {"paid"}
  Answers = {"unpaid"}
  None = None
INVARIANTS
  IInv
PROPERTIES
  RetryOnlyUnpaid
  KeepsMoney
CHECK_DEADLOCK FALSE
