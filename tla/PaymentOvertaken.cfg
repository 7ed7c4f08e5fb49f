SPECIFICATION Spec
CONSTANTS
  q1 = q1
  q2 = q2
  Queries = {q1}
  MaxAttempts = 1
  MaxQueue = 2
  Notifications = {"paid", "failed"}
  Answers = {"paid"}
  None = None
INVARIANTS
  AppliedInReceiptOrder
CHECK_DEADLOCK FALSE
