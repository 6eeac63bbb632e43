SPECIFICATION FairSpec
CONSTANTS
  MaxSearches = 3
INVARIANTS WorkersAccounted
PROPERTIES ServesTheLatest AnswersAreOwn OnlyBusyIsKilled EverySearchSettles
CHECK_DEADLOCK FALSE
