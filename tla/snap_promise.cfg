CONSTANTS
  Location = {l1, l2}
  NoLocation = none
  MaxId = 4
  MaxContent = 2
  Kinds = {"ingest", "apply"}
  Depths = {1, 2}
  Faults <- AllFaults
  Apart = TRUE
SPECIFICATION Spec
INVARIANTS TypeOK CentralServes EvidencePresent PointersAgree
PROPERTIES KeepsPromise SelectedKept PruneSparesPointers
SYMMETRY Symmetric
