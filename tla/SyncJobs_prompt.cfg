SPECIFICATION FairSpec
CONSTANTS
  x1 = x1
  x2 = x2
  Accounts = {x1}
  NoAccount = NoAccount
  Provider <- MCProvider
  MaxJobs = 2
  RetryLimit = 1
  MaxRevivals = 1
  LastMonth = 0
  Outlive = FALSE
PROPERTIES FollowsLifecycle ActiveSettles
