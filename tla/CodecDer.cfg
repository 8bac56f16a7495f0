CONSTANTS
  TL_STK_SIZE = 4
  Catalogue <- SetOfTypes
  CxxTypes = {}
  Junk <- JunkOctets
SPECIFICATION Spec
INVARIANT DerIsCanonical
