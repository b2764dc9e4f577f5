CONSTANTS
  Slots = 1
  Flights = 2
  MaxPictures = 6
  MaxRings = 2
  None = None
  Empty = Empty
SPECIFICATION ImportsSpec
INVARIANTS
  TypeOK
  RingNeverExhausted
  SampledPicturesStable
  WaitsAreServed
  NothingLeasedAtRelease
  ImportsOutliveSubmissions
  ImportedOnce
