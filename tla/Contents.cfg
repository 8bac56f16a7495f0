SPECIFICATION MCSpec
CONSTANTS
  Words <- WordsAtEdges
  TagCodes <- CodesAtEdges
  Lengths <- LengthsAtEdges
  OctetStrings <- SomeOctets
  BitStrings <- SomeBits
  Arcs2 <- FirstArcs
  ArcsAfter <- MoreArcs
  Texts <- TextsAtEdges
  TextsInPieces <- Pieced
  BadTexts <- NotTexts
  l_16k = 136
  PerItems <- SomeItems
  MaxValues = 2
  List = {"l1", "l2"}
  Node = {"n1", "n2", "n3", "n4"}
  Data = {"d1", "d2"}
  NULL = "NULL"
INVARIANTS
  TypeOK
  IntegersRoundTrip
  StringsRoundTrip
  ShortReadNoticed
  ArcsAndCharacters
  TagsAndLengths
  PerRoundTrip
  ListsAreSequences
