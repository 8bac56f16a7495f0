SPECIFICATION MCSpec
CONSTANTS
  Module <- MCModule
  Target <- MCTarget
  Programs <- MCPrograms
  None = "none"
CHECK_DEADLOCK FALSE
INVARIANTS
  TypeOK
  EnteredIsPath
  RecursiveFound
  InfinityWarned
  NothingLost
  TakenInOrder
  ReferredFirst
  ByValueFirst
  NamesAreLinked
PROPERTY Terminates
