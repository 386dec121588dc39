SPECIFICATION Spec
CONSTANTS
  None = None
  first = first
  second = second
  v1 = v1
  Streams <- TwoStreams
  Visitors <- OneVisitor
  Retention = 1
  MaxBundles = 2
  MaxCrashes = 1
SYMMETRY Alike
INVARIANTS TypeOK RecordedFound NewestBundleKept
PROPERTIES SavesListAll
CHECK_DEADLOCK FALSE
