SPECIFICATION Spec
CONSTANTS
  None = None
  g1 = g1
  g2 = g2
  s1 = s1
  s2 = s2
  s3 = s3
  k1 = k1
  k2 = k2
  k3 = k3
  d1 = d1
  Groups <- OneGroup
  Sets <- ThreeSets
  Disks <- ThreeDisks
  Datasets = {d1}
  Cycle <- CycleOfThree
  Members <- OneDataset
  DisksOf <- DiskEach
  Copies <- TwoCopies
  Recycling = {}
  StaysMounted = {}
  Faults = {"crash", "death", "list"}
  MaxSessions = 2
  MaxCrashes = 1
INVARIANTS RotationIsLRU ReferencedKept LeftoversPruned
CHECK_DEADLOCK FALSE
