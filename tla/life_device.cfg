SPECIFICATION Spec
CONSTANTS
  d1 = d1 d2 = d2 t1 = t1 t2 = t2 x1 = x1 x2 = x2
  None = None
  Devices = {d1}
  Tabs = {t1}
  DeviceOf <- OneTab
  Docs = {x1, x2}
  BatchLimit = 1
  MaxGenerations = 3
  MaxLate = 1
  Originals = {d1}
CHECK_DEADLOCK FALSE
PROPERTY MarkedAfterErased
