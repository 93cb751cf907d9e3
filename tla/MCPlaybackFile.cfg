CONSTANTS
  FileSizes <- MCFileSizes
  SrcAlloc = 6
  MaxRead = 4
  Fifo = FALSE
  Period = 2
  RingFrames = 4
  HeaderSize = 3
  DestAlloc = 8
  Frame = 2
  BlockSize = 2
  FaultKinds = {"read", "again", "prepare", "resume", "suspend"}
  MaxFaults = 2
SPECIFICATION Spec
INVARIANTS TypeOK ConservesBytes
PROPERTIES ReportedNeverGoesBack KeepsPromise
