SPECIFICATION MonthsSpec
CONSTANTS
  Replicas = {a, b}
  Slots = {s1, s2}
  Migrated = {0, 1}
  MaxMonth = 3
  Faults = {"db", "stop"}
SYMMETRY Symmetry
INVARIANTS LockInv NoneInDefault
CHECK_DEADLOCK FALSE
