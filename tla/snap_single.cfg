CONSTANTS
  Location = {l1}
  NoLocation = none
  MaxId = 5
  MaxContent = 1
  Kinds <- AllKinds
  Depths = {2, 3}
  Faults <- AllFaults
  Apart = TRUE
SPECIFICATION Spec
INVARIANT LocalServes
PROPERTY RollbackKept
