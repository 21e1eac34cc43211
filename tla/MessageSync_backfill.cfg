SPECIFICATION FairSpec
CONSTANTS
  t1 = t1
  t2 = t2
  t3 = t3
  NoTxn = NoTxn
  Txn <- ThreeTxns
  Listing <- ThreeListed
  Active <- FirstActive
  Callers = {}
  Faults = {}
  Retention = FALSE
  PerPage = 1
  ScanPages = 2
  SyncPages = 2
  MaxPages = 4
  PollBatch = 1
  ServiceBatch = 1
  MaxMessages = 3
INVARIANT NothingSkipped
PROPERTY EventuallyArchived
