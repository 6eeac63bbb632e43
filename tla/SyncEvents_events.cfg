SPECIFICATION FairSpec
CONSTANTS
  j1 = j1
  j2 = j2
  NoJob = NoJob
  Jobs = {j1, j2}
  Mine = {j1}
  MaxFaults = 1
  LoadedFirst = TRUE
INVARIANTS QuietMeansShown FramesAreOwn NeverForgotten
PROPERTIES SettlementShown
CHECK_DEADLOCK FALSE
