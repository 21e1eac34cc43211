SPECIFICATION FairSpec
CONSTANTS
  Txn = {t1}
  NoTxn = NoTxn
  Enabled = TRUE
  EarlyRefresh = FALSE
  Faults = {"lost"}
  MaxAttempts = 3
  MaxAge = 1
INVARIANTS
  TypeOK
PROPERTIES
  BackoffKept
  EventuallyReviewed
