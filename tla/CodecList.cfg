CONSTANTS
  TL_STK_SIZE = 4
  Catalogue <- ListTypes
  CxxTypes = {}
  Junk <- JunkOctets
SPECIFICATION Spec
INVARIANT GenDecodesBer
