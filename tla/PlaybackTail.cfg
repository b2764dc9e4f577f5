CONSTANTS
  Modes = {"file"}
  Capacity = 4
  Length = 5
  Passes = 1
  Gestures = {}
  MaxGestures = 0
  Failures = {}
  None = None
  Empty = Empty
SPECIFICATION Spec
INVARIANT TailIsShown
