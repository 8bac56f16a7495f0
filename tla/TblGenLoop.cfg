SPECIFICATION FairSpec
CONSTANTS
  Type <- MCType
  Def <- MCDef
  Root = "Strict"
  Octet <- MCOctet
  Input <- MixedInput
  StkSize = 4
CHECK_DEADLOCK FALSE
PROPERTY Terminates
