SPECIFICATION Spec
CONSTANTS
  Workers = {w1}
  Calls = {c1}
  OldSizes = {0}
  GivenSize = 1
  MaxSize = 2
  SizeMod = 8
PROPERTIES TruncatesOnOpen
