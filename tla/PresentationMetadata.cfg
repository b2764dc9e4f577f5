CONSTANTS
  Flights = 2
  Images = 3
  MaxPictures = 3
  MaxCaptures = 1
  None = None
SPECIFICATION Spec
INVARIANT CapturesShowTheirFrame
