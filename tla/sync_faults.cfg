SPECIFICATION FairSpec
CONSTANTS
  p1 = p1 p2 = p2 p3 = p3 d1 = d1 d2 = d2 t1 = t1 t2 = t2 t3 = t3
  None = None
  Projects = {p1}
  Devices = {d1, d2}
  Tabs = {t1, t2}
  Synced = {d1, d2}
  UndoWindow = 1
  DeviceOf <- OneTabEach
  Seed <- SavedA
  Imported <- NoImport
  MaxEdits <- Three
  MaxFaults = 1
  MaxNow = 2
CHECK_DEADLOCK FALSE
INVARIANT ConflictIsForeign
INVARIANT RefusedOnlyForDeadline
PROPERTY ImplementsLedger
PROPERTY ConvergesOrStranded
