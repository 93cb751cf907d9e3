CONSTANTS
  Byte <- MCByte
  ZeroByte = 0
  Capacity = 4
  Writes <- MCWrites
  ItemSizes = {1, 2, 3}
  MaxCounts = {1, 2, 9}
  MaxRead = 3
SPECIFICATION Spec
INVARIANT TypeOK
PROPERTY ImplementsByteQueue
