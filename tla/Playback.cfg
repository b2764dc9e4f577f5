CONSTANTS
  Modes = {"file", "fileLoop", "fileDropLate", "live"}
  Capacity = 2
  Length = 4
  Passes = 3
  Gestures = {"pause", "step", "seek", "zoom", "close"}
  MaxGestures = 3
  Failures = {"decode", "render"}
  None = None
  Empty = Empty
SPECIFICATION FairSpec
INVARIANTS
  TypeOK
  ErrorReported
PROPERTIES
  FramesInOrder
  LoopRestartsClock
  RunEnds
  PlaysOn
  SeekCompletes
