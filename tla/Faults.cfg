SPECIFICATION Spec
CONSTANTS
  None = None
  g1 = g1
  g2 = g2
  s1 = s1
  s2 = s2
  s3 = s3
  k1 = k1
  k2 = k2
  k3 = k3
  d1 = d1
  Groups <- OneGroup
  Sets <- OneSet
  Disks <- TwoDisks
  Datasets = {d1}
  Cycle <- CycleOfOne
  Members <- OneDataset
  DisksOf <- BothDisks
  Copies <- OneCopy
  Recycling = {g1}
  StaysMounted = {k2}
  Faults = {"crash", "death", "unmount", "busy", "list"}
  MaxSessions = 2
  MaxCrashes = 1
INVARIANTS TypeOK
PROPERTIES FinishedRunsKept
CHECK_DEADLOCK FALSE
