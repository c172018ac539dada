SPECIFICATION FairSpec
CONSTANTS
  Requests <- MCRequests
  MaxUploads = 2
  TTL = 3
  MaxFaults = 2
  Faults = {"crash", "redis"}
INVARIANTS NoPhantomSlots WithinMax CountHasExpiry
PROPERTIES ImplementsSlots KeyOutlivesUploads QuietUserHeals
