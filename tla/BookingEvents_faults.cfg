SPECIFICATION Spec
CONSTANTS
  Txn = {t1}
  Gen = {g1, g2}
  NoGen = NoGen
  NoTxn = NoTxn
  Callers = {"provider"}
  EarlyRefresh = TRUE
  Faults = {"crash", "cancel", "overlap"}
  MaxAt = 2
  MaxPending = 1
  MaxCount = 1
INVARIANTS
  NoMissedConfirmation
  NoMissedRequest
PROPERTY NotifiesAtLeastOnce
SYMMETRY Symmetry
