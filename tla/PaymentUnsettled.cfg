SPECIFICATION FairSpec
CONSTANTS
  q1 = q1
  q2 = q2
  Queries = {q1}
  MaxAttempts = 1
  MaxQueue = 1
  Notifications = {"failed", "pending"}
  Answers = {"failed"}
  None = None
PROPERTIES
  UnpaidOrderEnds
CHECK_DEADLOCK FALSE
