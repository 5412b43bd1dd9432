SPECIFICATION Spec
CONSTANTS
  Links = {l1, l2, l3, l4}
  Size = 2
  MaxNow = 3
SYMMETRY Symmetry
INVARIANTS
  TypeOK
  RepeatsBounded
  MissesBounded
PROPERTY
  TotalsAgree
