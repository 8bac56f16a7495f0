SPECIFICATION SSpec
CONSTANTS
  a = a
  b1 = b1
  Byte = {a, b1}
  Junk = Junk
  MaxSize = 3
  MaxLen = 3
INVARIANTS
  TypeOK
  PointersOK
  OnlyWrittenBytesAreRead
PROPERTY ImplementsStream
