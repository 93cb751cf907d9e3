SPECIFICATION Spec
CONSTANTS
  ByteBits = 2
  HalfByte = 2
  Values <- MCValues
  Digit = 32
  SrcAlloc = 64
  DestAlloc = 9
  MaxFrames = 2
  Files <- MCFiles
INVARIANTS
  ProperIsAccepted
  AcceptedIsConsistent
  HeardIsAudible
  OnlyOddFilesCrash
CHECK_DEADLOCK FALSE
