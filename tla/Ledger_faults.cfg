SPECIFICATION Spec
CONSTANTS
  Uploads = {u1, u2}
  Deletes = {d1}
  Replicas = {r1, r2}
  Sizes = {2}
  StorageLimit = 5
  FilesLimit = 9
  DailyLimit = 9
  Thresholds = {40, 80}
  MaxInFlight = 2
  MaxDay = 1
  Faults = {"db", "commit", "redis", "crash"}
  NoRow = NoRow
SYMMETRY Symmetry
INVARIANTS NeverUnderCharged LedgerInv AlertInv
PROPERTIES ImplementsAccount
CHECK_DEADLOCK FALSE
