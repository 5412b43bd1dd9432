SPECIFICATION Spec
CONSTANTS
  Reqs = {r1, r2, r3, r4, r5}
  Limit = 2
  Window = 2
  MaxNow = 3
  MaxRestarts = 1
SYMMETRY Symmetry
INVARIANTS
  TypeOK
  AdmissionsBounded
  DenialsJustified
CHECK_DEADLOCK FALSE
