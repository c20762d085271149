CONSTANTS
  Location = {l1, l2}
  NoLocation = none
  MaxId = 3
  MaxContent = 1
  Kinds = {"ingest"}
  Depths = {1}
  Faults = {}
  Apart = TRUE
SPECIFICATION Spec
INVARIANT LocalServes
