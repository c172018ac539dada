SPECIFICATION Spec
CONSTANTS
  Uploads = {u1, u2}
  ada = ada
  g1 = g1
  Users = {ada}
  Groups = {g1}
  Admins <- MCAdmins
  TTL = 2
  Timeout = 1
  Settle = 1
  Faults = {"messaging", "groups", "redis"}
  Types <- MCTypes
  Headers <- MCHeaders
  Sizes <- MCSizes
  Areas <- MCAreas
  Scripts <- MCScripts
SYMMETRY Symmetry
INVARIANTS RecentInv OnlyFitIsStored
PROPERTY VerdictIsRecent
