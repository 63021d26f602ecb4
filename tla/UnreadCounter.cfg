SPECIFICATION FairSpec
CONSTANTS
  Tasks = {t1, t2}
  MessageBound = 3
  PoolSize = 2
  Faults = {"crash", "error", "lapse"}
INVARIANTS TypeOK CounterIsExact NeverMoreThanStored
PROPERTIES RequestsEnd
