CONSTANTS
  FileSizes = {2, 8, 14}
  SrcAlloc = 6
  MaxRead = 4
  Fifo = TRUE
  Period = 2
  RingFrames = 4
  HeaderSize = 3
  DestAlloc = 8
  Frame = 2
  BlockSize = 2
  FaultKinds = {"read", "again"}
  MaxFaults = 1
SPECIFICATION FairSpec
INVARIANTS EofMeansEverythingRead AssertionsHold
PROPERTY EndsOrStarves
