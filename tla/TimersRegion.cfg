SPECIFICATION Spec
CONSTANTS
  MaxTimers = 2
  Machine = machine
  Nobody = nobody
  PoolSize = 2
  CollectorFails = FALSE
INVARIANTS CollectorAlone
