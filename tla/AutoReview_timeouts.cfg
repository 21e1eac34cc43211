SPECIFICATION Spec
CONSTANTS
  Txn = {t1}
  NoTxn = NoTxn
  Enabled = TRUE
  EarlyRefresh = FALSE
  Faults = {"timeout"}
  MaxAttempts = 3
  MaxAge = 1
PROPERTY BackoffKept
