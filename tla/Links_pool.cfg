SPECIFICATION Spec
CONSTANTS
  Requests = {r1, r2}
  Conns = {c1, c2}
  Owner = ada
  Recipients = {bob}
  Strangers = {eve}
  Second = 3
  Expiry = 2
  MaxWait = 2
  NoUser = NoUser
  NoConn = NoConn
SYMMETRY Symmetry
INVARIANTS IdentityInv LinkIsHonest
