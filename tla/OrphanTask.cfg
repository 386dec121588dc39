SPECIFICATION Spec
CONSTANTS
  None = None
  g1 = g1
  g2 = g2
  nightly = nightly
  never = never
  Groups <- TwoGroups
  Crons = {nightly, never}
  BadCrons = {never}
  MaxCrashes = 1
  MaxChanges = 4
CHECK_DEADLOCK FALSE
INVARIANT GoneGroupHasNoTask
SYMMETRY Alike
