SPECIFICATION Spec
CONSTANTS
  Ids = {i1}
  Codes = {a}
  Reqs = {r1, r2}
  Users = {u}
  Admins = {}
  MaxRetries = 1
  MaxNow = 0
  None = None
SYMMETRY Symmetry
INVARIANT
  UpdatesServedAtOnce
