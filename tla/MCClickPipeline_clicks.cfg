SPECIFICATION FairSpec
CONSTANTS
  Clicks = {c1, c2, x}
  Links = {l1, l2}
  Oversized = {x}
  BatchSize = 2
  MaxFaults = 2
  MaxRestores = 1
  None = None
INVARIANTS
  TypeOK
  CountAgrees
  CopiesBounded
PROPERTIES
  ImplementsLedger
  ClicksSettle
