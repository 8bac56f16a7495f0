SPECIFICATION FairSpec
CONSTANTS
  Type <- MCType
  Def <- MCDef
  Root = "Root"
  Octet <- MCOctet
  Input <- MixedInput
  StkSize = 4
CHECK_DEADLOCK FALSE
INVARIANTS
  TypeOK
  StackMatchesCalls
  NotRewindingAtEndOfTag
  ConsumedAsReported
  DecodesValid
PROPERTY Terminates
