SPECIFICATION FairSpec
CONSTANTS
  Uploads = {u1, u2}
  Deletes = {d1}
  Replicas = {r1, r2}
  Sizes = {1}
  StorageLimit = 1
  FilesLimit = 1
  DailyLimit = 1
  Thresholds = {80}
  MaxInFlight = 2
  MaxDay = 1
  Faults = {}
  NoRow = NoRow
INVARIANT SerialWithinLimits
PROPERTIES DailyLockoutEnds SerialAlertsMissNone
CHECK_DEADLOCK FALSE
