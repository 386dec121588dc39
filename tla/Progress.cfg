SPECIFICATION FairSpec
CONSTANTS
  None = None
  g1 = g1
  g2 = g2
  s1 = s1
  s2 = s2
  s3 = s3
  k1 = k1
  k2 = k2
  k3 = k3
  d1 = d1
  Groups <- TwoGroups
  Sets <- TwoSets
  Disks <- TwoDisks
  Datasets = {d1}
  Cycle <- CycleEach
  Members <- OneDataset
  DisksOf <- DiskEach
  Copies <- OneCopy
  Recycling = {}
  StaysMounted = {}
  Faults = {"crash"}
  MaxSessions = 2
  MaxCrashes = 1
INVARIANTS RunningIsDriven
PROPERTIES SessionEnds
CHECK_DEADLOCK FALSE
