SPECIFICATION FairSpec
CONSTANTS
  Owner = Owner
  a = a b = b
  Others <- MCOthers
  Reads = {r1}
  Merges = {m1, m2}
  Additions <- MCAdditions
  Faults = {"db", "s3", "redis", "crash"}
  NoUser = NoUser
INVARIANTS AccessInv SerialAclIsUnion
PROPERTY DeletedIsForgotten
