CONSTANTS
  Length = 10
  Keys <- EveryFourth
  Untimed <- SomeUntimed
  Delay = 1
  MaxErrors = 2
  MaxRejected = 3
  MaxSeeks = 2
  Requests <- AllRequests
  None = None
  EndOfFile = EndOfFile
SPECIFICATION Spec
INVARIANTS
  ReadsWholeInput
  GivenUpOnKeyframes
  PictureMatchesReport
