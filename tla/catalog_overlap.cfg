CONSTANTS
  Directory = {d1, d2}
  Nowhere = none
  Worker = {w1, w2}
  MaxProject = 3
  Operations = {"ingest"}
  Alone = {}
  Faults = {}
SPECIFICATION Spec
INVARIANT OwnTreeKeepsIdentity
SYMMETRY Symmetric
