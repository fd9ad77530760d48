SPECIFICATION Spec
CONSTANTS
  Workers = {w1, w2}
  Calls = {c1, c2}
  OldSizes = {0, 2}
  GivenSize = 1
  MaxSize = 3
  SizeMod = 8
SYMMETRY Symmetry
INVARIANTS TypeOK ServedWhole ListedOnce LookupAgrees
