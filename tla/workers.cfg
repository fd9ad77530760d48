SPECIFICATION FairSpec
CONSTANTS
  Commands <- TwoCommands
  MaxFd = 13
INVARIANTS TypeOK SlotWiring DescriptorsKept
PROPERTIES UnmountEnds
