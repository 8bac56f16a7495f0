CONSTANTS
  TL_STK_SIZE = 4
  Catalogue <- Types
  CxxTypes <- AllButTaggedMembers
  Junk <- JunkOctets
SPECIFICATION Spec
INVARIANTS
  TypeOK
  GenEncodesBer
  GenDecodesBer
  DerIsCanonical
  TblEncodesAsGenerated
  TblDecodesBer
