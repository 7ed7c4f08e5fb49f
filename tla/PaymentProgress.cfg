SPECIFICATION FairSpec
CONSTANTS
  q1 = q1
  q2 = q2
  Queries = {q1}
  MaxAttempts = 1
  MaxQueue = 2
  Notifications = {"paid", "failed"}
  Answers = {"paid", "amount_mismatch", "unpaid", "error"}
  None = None
PROPERTIES
  HandedEnds
  ScheduledPaymentEnds
  ToldPaymentApplied
CHECK_DEADLOCK FALSE
