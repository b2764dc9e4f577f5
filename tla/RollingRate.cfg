SPECIFICATION Spec
CONSTANTS
  Scenarios <- MCScenarios
  Period = 2
  Length = 3
  TooLate = 1
  SampleEvery = 2
  RateWindow = 4
  History = 2
  Monitor <- MCMonitor
  None = None
INVARIANT RateCountsIntervals
