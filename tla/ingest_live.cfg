SPECIFICATION FairSpec
CONSTANTS
  Source = {"t", "c"}
  Vendor = {"cc", "cursor"}
  VendorOf <- MCVendorOf
  NoSource = "none"
  EarlyMark = {"c"}
  MaxRev = 2
  LiveAppend = TRUE
  Modes <- UpdateMode
  Faults = {"source", "commit"}
PROPERTIES EventuallyPublished
INVARIANTS EvidenceCoversRows
