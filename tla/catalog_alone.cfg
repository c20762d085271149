CONSTANTS
  Directory = {d1, d2}
  Nowhere = none
  Worker = {w1}
  MaxProject = 2
  Operations <- AllOperations
  Alone = {}
  Faults <- AllFaults
SPECIFICATION Spec
INVARIANTS TypeOK IndexBacked OneOwner KeepsIdentity
SYMMETRY Symmetric
