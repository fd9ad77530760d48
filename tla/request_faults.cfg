SPECIFICATION Spec
CONSTANTS
  Ios = {i1, i2}
  Reqs = {u1, u2}
  NoReq = NoReq
  Messages <- FaultMessages
  Faults = {"short_read", "backing_read", "backing_write", "unmount"}
  InHeader = 2
  WriteIn = 1
  ScratchSize = 4
  FileSize = 2
  SizeMod = 8
SYMMETRY Symmetry
INVARIANTS IInv PoolPipesEmpty HeaderWhole OneSlotPerRequest
PROPERTIES AnsweredByHolder SuccessIsWhole RefinesSession
