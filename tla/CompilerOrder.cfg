SPECIFICATION MCSpec
CONSTANTS
  Module <- Four
  Target <- MCTarget
  Programs <- NoPrograms
  None = "none"
CHECK_DEADLOCK FALSE
INVARIANT DeclaredBeforeUse
