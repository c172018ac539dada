SPECIFICATION Spec
CONSTANTS
  Media = {m1, m2, m3, m4}
  MaxLimit = 3
  DefaultLimit = 2
  Asked <- MCAsked
  NaN = NaN
SYMMETRY Symmetry
INVARIANTS NoneMissed NoneTwice
