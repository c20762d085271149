SPECIFICATION FairSpec
CONSTANTS
  Source = {"t", "c"}
  Vendor = {"cc", "cursor"}
  VendorOf <- MCVendorOf
  NoSource = "none"
  EarlyMark = {"c"}
  MaxRev = 2
  LiveAppend = FALSE
  Modes <- UpdateMode
  Faults = {"identity"}
PROPERTIES EventuallyPublished
