SPECIFICATION Spec
CONSTANTS
  Ids = {u1, u2}
  Emails = {e}
  Reqs = {r1, r2}
  Lifetime = 1
  MaxNow = 2
  None = None
SYMMETRY Symmetry
INVARIANTS
  TypeOK
  OneAccountPerEmail
  OneValidTokenPerFamily
  HeirsReplaceTheirParents
PROPERTY
  RevokedByLogoutOrExchange
