CONSTANTS
  N = 3
  MaxFrames = 5
SPECIFICATION FairSpec
INVARIANTS
  TypeOK
  NoCorruption
  PayloadFollowsOwnership
  FramesAccountedFor
  NoLostWakeup
PROPERTIES
  ReadsInOrder
  ImplementsChannel
  ServedSleepersReturn
