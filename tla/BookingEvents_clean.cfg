SPECIFICATION FairSpec
CONSTANTS
  Txn = {t1}
  Gen = {g1}
  NoGen = NoGen
  NoTxn = NoTxn
  Callers = {"automation", "provider"}
  EarlyRefresh = FALSE
  Faults = {}
  MaxAt = 3
  MaxPending = 2
  MaxCount = 2
INVARIANTS
  TypeOK
  AnnouncedOnce
PROPERTIES
  MarksSurvive
  QuietOnceMarked
  RuntimeForEvents
  EventuallyAnnounced
