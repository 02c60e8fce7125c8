SPECIFICATION Spec
CONSTANTS
  d1 = d1 d2 = d2 t1 = t1 t2 = t2 x1 = x1 x2 = x2
  None = None
  Devices = {d1}
  Tabs = {t1, t2}
  DeviceOf <- TwoTabs
  Docs = {x1}
  BatchLimit = 1
  MaxGenerations = 2
  MaxLate = 1
  Originals = {}
CHECK_DEADLOCK FALSE
SYMMETRY Swaps
INVARIANT Drained
