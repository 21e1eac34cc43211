SPECIFICATION Spec
CONSTANTS
  t1 = t1
  t2 = t2
  t3 = t3
  NoTxn = NoTxn
  Txn <- TwoTxns
  Listing <- TwoListed
  Active <- FirstActive
  Callers = {}
  Faults = {"fail"}
  Retention = FALSE
  PerPage = 1
  ScanPages = 2
  SyncPages = 3
  MaxPages = 5
  PollBatch = 1
  ServiceBatch = 1
  MaxMessages = 4
INVARIANT NothingSkipped
