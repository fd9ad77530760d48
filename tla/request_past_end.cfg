SPECIFICATION Spec
CONSTANTS
  Ios = {i1, i2}
  Reqs = {u1, u2}
  NoReq = NoReq
  Messages <- PastEndMessages
  Faults = {}
  InHeader = 2
  WriteIn = 1
  ScratchSize = 4
  FileSize = 2
  SizeMod = 8
INVARIANTS ReadsLess
