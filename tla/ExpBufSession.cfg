SPECIFICATION SSpec
CONSTANTS
  a = a
  b = b
  Byte = {a, b}
  Junk = Junk
  BlkSize = 2
  MaxBlocks = 2
  MaxLen = 3
SYMMETRY ByteSymmetry
PROPERTY ImplementsStream
