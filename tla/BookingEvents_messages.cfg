SPECIFICATION Spec
CONSTANTS
  Txn = {t1}
  Gen = {g1}
  NoGen = NoGen
  NoTxn = NoTxn
  Callers = {"automation"}
  EarlyRefresh = FALSE
  Faults = {}
  MaxAt = 2
  MaxPending = 2
  MaxCount = 2
PROPERTY NoSendAfterMark
