SPECIFICATION Spec
CONSTANTS
  c1 = c1
  c2 = c2
  c3 = c3
  Links = {l1}
  Clicks = {c1, c2, c3}
  Reqs = {r1}
  Periods = {1}
  Default = 1
  Dimensions <- AllDimensions
  Value <- ThreeClicks
  Limit = 1
  TTL = 2
  MaxNow = 2
  None = None
INVARIANTS
  TypeOK
  PartsGrow
  PartsInPeriod
  GoneLinksFade
