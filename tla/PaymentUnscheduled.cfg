SPECIFICATION FairSpec
CONSTANTS
  q1 = q1
  q2 = q2
  Queries = {q1}
  MaxAttempts = 1
  MaxQueue = 1
  Notifications = {"paid", "failed"}
  Answers = {"paid"}
  None = None
PROPERTIES
  PaymentEnds
CHECK_DEADLOCK FALSE
