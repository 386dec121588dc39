SPECIFICATION Spec
CONSTANTS
  None = None
  g1 = g1
  g2 = g2
  Groups <- TwoGroups
  Disks = {1, 2, 3}
  Copies <- OneCopy
  MaxSets = 3
  MaxPosition = 2
SYMMETRY SameGroups
CONSTRAINTS OneLeaves FewAtATime
INVARIANTS TypeOK PlanIntact HealedInSession
PROPERTIES CycleOrderKept ActiveDiskKept RealignedOnLoss
