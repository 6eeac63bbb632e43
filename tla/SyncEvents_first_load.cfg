SPECIFICATION Spec
CONSTANTS
  j1 = j1
  j2 = j2
  NoJob = NoJob
  Jobs = {j1}
  Mine = {j1}
  MaxFaults = 0
  LoadedFirst = FALSE
INVARIANTS QuietMeansShown
CHECK_DEADLOCK FALSE
