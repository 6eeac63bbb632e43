SPECIFICATION FairSpec
CONSTANTS
  x1 = x1
  x2 = x2
  Accounts = {x1}
  NoAccount = NoAccount
  Provider <- MCProvider
  MaxJobs = 2
  RetryLimit = 0
  MaxRevivals = 0
  LastMonth = 1
  Outlive = TRUE
PROPERTIES ActiveSettles
