SPECIFICATION CursorSpec
CONSTANTS
  k1 = k1
  k2 = k2
  k3 = k3
  Project = {"P", "Q"}
  Composer = {k1, k2, k3}
  Owner <- MCOwner
  NoProject = "none"
  None = None
  Attempts = 2
  MaxWrites = 2
  Started <- MCStarted
  Options <- MCOptions
SYMMETRY MCSymmetry
INVARIANTS CursorTypeOK NeverOlder CachedMarksHold
PROPERTIES DropsOnlyAbsent
