SPECIFICATION FairSpec
CONSTANTS
  t1 = t1
  t2 = t2
  g1 = g1
  p1 = p1
  p2 = p2
  None = None
  Tabs = {t1, t2}
  Departing = {t1}
  Analysable = {g1}
  Passes = {p1, p2}
  Ended = {g1}
  Plies <- MCPlies
  Build <- MCBuild
INVARIANTS
  ShownGradeIsOwn
  StoredReportIsWhole
  ErasedTabWritesNothing
PROPERTIES
  EraseCarriedOut
