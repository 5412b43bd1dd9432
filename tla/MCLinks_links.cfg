SPECIFICATION FairSpec
CONSTANTS
  Ids = {i1, i2}
  Codes = {a}
  Reqs = {r1, r2}
  Users = {u}
  Admins = {}
  MaxRetries = 1
  MaxNow = 0
  None = None
INVARIANTS
  TypeOK
  CodeResolvesUniquely
  OnlyActiveCached
  StaleOnlyByOverlap
PROPERTIES
  HitsServeTheRow
  EveryRequestEnds
