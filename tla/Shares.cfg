CONSTANTS
  tank = tank  data = data  sub = sub
  None = None
  Root = tank
  Children <- TwoChildren
  Parent <- Nested
  Tasks = {t1, t2}
  MaxFaults = 1
  MaxClients = 1
  MaxAsks = 4
SPECIFICATION Spec
SYMMETRY Alike
CHECK_DEADLOCK FALSE
INVARIANTS TypeOK ServedIsConfigured
PROPERTIES PoolTakesShares
