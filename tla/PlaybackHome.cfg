CONSTANTS
  Modes = {"file"}
  Capacity = 4
  Length = 5
  Passes = 3
  Gestures = {"seek"}
  MaxGestures = 1
  Failures = {}
  None = None
  Empty = Empty
SPECIFICATION FairSpec
PROPERTY HomeRestarts
