CONSTANTS
  Flights = 2
  Images = 3
  MaxPictures = 3
  MaxCaptures = 2
  None = None
SPECIFICATION Spec
INVARIANTS
  SemaphoresReusable
  FencesServed
  FlightBuffersStable
  CapturesSurvive
