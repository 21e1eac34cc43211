SPECIFICATION EntrySpec
CONSTANTS
  LastPlatform = 2
  Faults = {"crash", "stuck", "overlap"}
  Txn = {t1}
  Customer = {c1}
  CustomerOf <- OneCustomer
  Gen = {g1, g2}
  NoGen = NoGen
  Retentions = {"forever", "limited"}
  MaxWork = 1
  Installs = {TRUE}
INVARIANTS
  TypeOK
  FileAgrees
  ConsentKept
  ReferencesKept
  OnlyStuckRemain
PROPERTIES
  EverythingOrNothing
  AdoptedDataKept
  SetupEnds
