SPECIFICATION Spec
CONSTANTS
  c1 = c1
  c2 = c2
  c3 = c3
  Links = {l1}
  Clicks = {c1}
  Reqs = {r1, r2}
  Periods = {1, 2}
  Default = 2
  Dimensions <- TwoDimensions
  Value <- OneClick
  Limit = 1
  TTL = 1
  MaxNow = 2
  None = None
SYMMETRY Symmetry
INVARIANT
  DefaultPeriodServed
