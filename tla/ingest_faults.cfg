SPECIFICATION Spec
CONSTANTS
  Source = {"t", "c"}
  Vendor = {"cc", "cursor"}
  VendorOf <- MCVendorOf
  NoSource = "none"
  EarlyMark = {"c"}
  MaxRev = 2
  LiveAppend = TRUE
  Modes <- AllModes
  Faults = {"source", "commit", "identity", "abandon"}
INVARIANTS TypeOK MarkTrailsRows
PROPERTIES NoRegress
