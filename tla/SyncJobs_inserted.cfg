SPECIFICATION Spec
CONSTANTS
  x1 = x1
  x2 = x2
  Accounts = {x1}
  NoAccount = NoAccount
  Provider <- MCProvider
  MaxJobs = 1
  RetryLimit = 1
  MaxRevivals = 0
  LastMonth = 1
  Outlive = FALSE
INVARIANTS InsertedIsExact
