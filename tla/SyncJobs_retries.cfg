SPECIFICATION Spec
CONSTANTS
  x1 = x1
  x2 = x2
  Accounts = {x1, x2}
  NoAccount = NoAccount
  Provider <- MCProvider
  MaxJobs = 2
  RetryLimit = 1
  MaxRevivals = 0
  LastMonth = 2
  Outlive = TRUE
CONSTRAINT LoneRetries
INVARIANTS NeverOvercounted NothingOutlivesAccount
PROPERTIES KeepsArchive SupersededWritesNothing CursorNeverMovesBack
  DepartsOnlyLate OvertakenOnlyLate AnnouncedAsSettled
