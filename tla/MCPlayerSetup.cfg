SPECIFICATION Spec
CONSTANTS
  Kilo = 2
  Mili = 10
  SizeT = 1000000
  Unsigned = 30000
  UShort = 256
  Configs <- MCConfigs
  Specs <- MCSpecs
  Devices <- MCDevices
INVARIANTS
  PeriodFits
  NothingIsDividedByZero
  ReadsFitIntoPeriod
  RingHoldsSixteen
CHECK_DEADLOCK FALSE
