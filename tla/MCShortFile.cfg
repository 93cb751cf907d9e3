CONSTANTS
  FileSizes = {5}
  SrcAlloc = 6
  MaxRead = 4
  Fifo = FALSE
  Period = 2
  RingFrames = 4
  HeaderSize = 3
  DestAlloc = 8
  Frame = 2
  BlockSize = 2
  FaultKinds = {}
  MaxFaults = 0
SPECIFICATION FairSpec
PROPERTY Ends
