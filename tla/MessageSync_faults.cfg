SPECIFICATION Spec
CONSTANTS
  t1 = t1
  t2 = t2
  t3 = t3
  NoTxn = NoTxn
  Txn <- OneTxn
  Listing <- OneListed
  Active <- FirstActive
  Callers = {"service", "clear"}
  Faults = {"fail", "timeout", "crash"}
  Retention = TRUE
  PerPage = 2
  ScanPages = 1
  SyncPages = 2
  MaxPages = 2
  PollBatch = 1
  ServiceBatch = 2
  MaxMessages = 6
INVARIANT TypeOK
INVARIANT NoGap
INVARIANT ClearIsFinal
PROPERTY NothingLost
