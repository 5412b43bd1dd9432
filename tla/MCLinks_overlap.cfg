SPECIFICATION Spec
CONSTANTS
  Ids = {i1}
  Codes = {a}
  Reqs = {r1, r2, r3}
  Users = {u, v}
  Admins = {v}
  MaxRetries = 0
  MaxNow = 1
  None = None
SYMMETRY Symmetry
INVARIANTS
  StaleOnlyByOverlap
PROPERTIES
  HitsServeTheRow
  ImplementsRegistry
