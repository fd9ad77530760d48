SPECIFICATION FairSpec
CONSTANTS
  i1 = i1
  i2 = i2
  i3 = i3
  Ios = {i1, i2, i3}
  NoIo = NoIo
  Rings <- Workers
INVARIANTS TypeOK ChainTogether PeekHolds Accounted WaitNeverBusy
PROPERTIES BusyForGood FailureStops
