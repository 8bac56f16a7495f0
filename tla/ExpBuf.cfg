SPECIFICATION FairSpec
CONSTANTS
  a = a
  Byte = {a}
  Junk = Junk
  BlkSize = 2
  MaxBlocks = 2
  MaxLen = 3
INVARIANTS
  TypeOK
  PointersOK
  DataWritten
  NoUninitialisedRead
PROPERTY CallReturns
