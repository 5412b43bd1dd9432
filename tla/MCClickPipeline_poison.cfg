SPECIFICATION FairSpec
CONSTANTS
  Clicks = {c1, c2}
  Links = {l1, l2}
  Oversized = {}
  BatchSize = 2
  MaxFaults = 0
  MaxRestores = 0
  None = None
PROPERTY
  BadEventsDroppedAlone
