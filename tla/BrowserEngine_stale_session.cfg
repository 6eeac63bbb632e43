SPECIFICATION Spec
CONSTANTS
  MaxSearches = 2
INVARIANTS NextStartsClean
CHECK_DEADLOCK FALSE
