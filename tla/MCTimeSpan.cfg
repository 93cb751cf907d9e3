SPECIFICATION Spec
CONSTANTS
  MilisPerSecond = 3
  NanosPerMili = 2
  Unsigned = 8
  Rates = {1, 4, 7}
  MaxFrames = 8
  MaxTime = 16
INVARIANTS
  TotalsAreExact
  TimesFitTheClock
  PositionIsExact
CHECK_DEADLOCK FALSE
