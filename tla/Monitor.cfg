SPECIFICATION FairSpec
CONSTANTS
  tank = tank
  c1 = c1
  None = None
  Pools = {tank}
  Callers = {c1}
  Buckets = {90}
  Cooldown = 1
  JournalSize = 2
  FlushEvery = 2
  MaxClock = 1
  MaxSamples = 3
  MaxIds = 4
  MaxEvents = 4
CHECK_DEADLOCK FALSE
INVARIANTS TypeOK NoSampleLost JournalKeepsNewest
PROPERTIES TroubleIsReported
