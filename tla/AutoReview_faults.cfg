SPECIFICATION Spec
CONSTANTS
  Txn = {t1}
  NoTxn = NoTxn
  Enabled = TRUE
  EarlyRefresh = TRUE
  Faults = {"crash", "lost", "timeout", "reconfirm"}
  MaxAttempts = 3
  MaxAge = 1
INVARIANTS
  RecordsAreTrue

  
VIEW Observed
