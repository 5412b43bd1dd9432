SPECIFICATION Spec
CONSTANTS
  Reqs = {r1, r2}
  Ttl = 2
  Window = 2
  Threshold = 2
  MaxCount = 3
  MaxNow = 4
  MaxRestores = 1
  None = None
SYMMETRY Symmetry
INVARIANTS
  TypeOK
  PopularLinksStay
  ProlongationEarned
  CountersRoll
