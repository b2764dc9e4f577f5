CONSTANT None = None
SPECIFICATION Spec
INVARIANTS
  CommandsOrdered
  ShowsChosenModes
  TimingsMatch
