SPECIFICATION FairSpec
CONSTANTS
  MaxAttempts = 10
  InitialDelay = 1
  DelayCap = 30
  Requests = {r1}
  t1 = t1 forged = forged phone = phone
  Tokens <- MCTokens
  Genuine = {t1}
  Devices = {phone}
  DeviceOf <- MCDeviceOf
  Probes = {p1}
  Outages = {"redis", "database", "cache", "minio"}
INVARIANTS ServedAfterReady RevokedIsRefused
PROPERTIES NoFetchAfterDestroy KeyIsLoaded
