SPECIFICATION Spec
CONSTANTS
  Uploads = {u1, u2}
  Deletes = {d1, d2}
  Contents = {c1, c2}
  Thumbs <- AllThumbs
  Faults = {"db", "commit", "s3", "redis", "crash"}
  NoMedia = NoMedia
SYMMETRY Symmetry
INVARIANTS DedupIsSound RetractedIsGone NeverUnderCounted
PROPERTIES ImplementsAccount
CHECK_DEADLOCK FALSE
