SPECIFICATION FairSpec
CONSTANTS
  Reqs = {r1, r2}
  worker = worker
  Things = {l1, l2}
  PoolSize = 2
  None = None
INVARIANTS
  TypeOK
  NoDeadlock
PROPERTY
  EveryRequestEnds
