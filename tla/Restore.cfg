SPECIFICATION Spec
CONSTANTS
  None = None
  v1 = v1
  v2 = v2
  d1 = d1
  d2 = d2
  s1 = s1
  s2 = s2
  q1 = q1
  q2 = q2
  Volumes = {v1, v2}
  Datasets = {d1, d2}
  Sets = {s1, s2}
  Histories <- AllHistories
  Requests = {q1}
  p1 = p1
  p2 = p2
  Slots = {p1, p2}
  MaxDevices = 2
  MaxStarts = 2
  MaxEvents = 1
  Faults = {"mount", "receive"}
CHECK_DEADLOCK FALSE
INVARIANTS TypeOK SuccessHoldsChain FailureHasCause RunningIsWorked MappingIsSound
SYMMETRY SameVolumes

