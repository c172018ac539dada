SPECIFICATION RulesSpec
CONSTANTS
  Replicas = {r1, r2, r3}
  Ids = {messages, thumbnails}
  Days = {1, 2}
  Others = {admin}
SYMMETRY Symmetry
INVARIANTS ChangeIsApplied OthersAreKept
