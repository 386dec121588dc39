SPECIFICATION Spec
CONSTANTS
  None = None
  d1 = d1
  d2 = d2
  sda = sda
  sdb = sdb
  tank = tank
  t1 = t1
  t2 = t2
  Disks = {d1, d2}
  Paths = {sda, sdb}
  Pools = {tank}
  Tasks = {t1, t2}
  MaxFs = 1
  MaxPlugs = 2
  MaxEvents = 1
CHECK_DEADLOCK FALSE
INVARIANTS TypeOK PendingIsWorked
PROPERTIES HeldIsIntact ScannedIsErased
SYMMETRY Alike
