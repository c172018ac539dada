SPECIFICATION FairSpec
CONSTANTS
  Uploads = {u1, u2}
  Deletes = {d1, d2}
  Contents = {c1}
  Thumbs = {"good"}
  Faults = {"db", "redis"}
  NoMedia = NoMedia
INVARIANTS ActiveHasBlob NoOrphan
PROPERTIES ImplementsCatalog DeletedIsReclaimed
CHECK_DEADLOCK FALSE
