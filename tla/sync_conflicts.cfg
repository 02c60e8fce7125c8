SPECIFICATION Spec
CONSTANTS
  p1 = p1 p2 = p2 p3 = p3 d1 = d1 d2 = d2 t1 = t1 t2 = t2 t3 = t3
  None = None
  Projects = {p1, p2}
  Devices = {d1, d2}
  Tabs = {t1, t2}
  Synced = {d1, d2}
  UndoWindow = 1
  DeviceOf <- OneTabEach
  Seed <- SavedA
  Imported <- NoImport
  MaxEdits <- CopyOnly
  MaxFaults = 0
  MaxNow = 0
CHECK_DEADLOCK FALSE
INVARIANT NoLostEdit
PROPERTY NoSilentOverwrite
INVARIANT CopyPublishedWithOriginal
SYMMETRY Swaps
