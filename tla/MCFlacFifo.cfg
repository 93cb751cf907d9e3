CONSTANTS
  FileSizes = {1, 5, 9, 14, 15}
  SrcAlloc = 6
  MaxRead = 4
  Fifo = TRUE
  DestAlloc = 8
  Frame = 2
  BlockSize = 6
  MetaSize = 2
  EncodedSize = 3
  LibAlloc = 4
  Sample = 1
  Period = 2
SPECIFICATION FairSpec
INVARIANTS TypeOK BlocksAccountedFor BlocksFit OnlyReadAheadIsLost OnlyRemainderCrashes
PROPERTY EndsUnlessBetween
