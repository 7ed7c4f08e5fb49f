SPECIFICATION FairSpec
CONSTANTS
  e1 = e1
  e2 = e2
  r1 = r1
  r2 = r2
  Emails = {e1}
  Runners = {r1, r2}
  ClaimLease = 3
  SendLease = 2
  FailDelay = 1
  Delay <- TwoDelays
  ExpireAfter = 4
  RetainFor = 2
  MaxCalls = 1
  Nobody = Nobody
INVARIANTS
  TypeOK
  QueuedHasWork
  JournalBeforeSend
  LeaseProtectsSend
  OneLiveSender
PROPERTIES
  KeepsPromise
  EmailsEnd
CHECK_DEADLOCK FALSE
