SPECIFICATION AllSpec
CONSTANTS
  Nothing = Nothing
  Length = 2
  Moves = {a}
  MaxLine = 1
  Evaluators = {e1, e2}
  MaxSearches = 2
  Handles = {h1, h2}
  Typed = {h1}
  MaxAccounts = 2
  ImportStep = 1
  Nobody = Nobody
  Unknown = Unknown
  People = {1, 2}
  MaxSessions = 3
  Unread = Unread
  MaxPicks = 1
  MaxCrops = 3
  MaxRequests = 2
  f1 = f1
  f2 = f2
  pasted = pasted
  Files = {f1, f2}
  Pasted = {pasted}
  Content <- MCContent
  Blank = Blank
  BatchSize = 2
  MaxImports = 2
  MaxGames = 3
  MaxMonths = 3
  Bootstrap = 2
  PageSize = 2
  typed = typed
  padded = padded
  Drafts = {typed, padded, NoTerm}
  TermOf <- MCTermOf
  NoTerm = NoTerm
  Off = Off
  MaxPage = 2
  MaxEntries = 2
  Instances = {i1, i2}
  Emails = {m1, m2}
  NoOne = NoOne
  MaxUsers = 2
  Tracked = {x1}
  ApiMax = 2
  ImportMax = 1
  Window = 2
  Steps = 2
  MaxWaiting = 1
  q1 = q1
  q2 = q2
  q3 = q3
  Squares = {q1, q2, q3}
  BoardMoves <- MCBoardMoves
  MaxTrial = 3
  MaxLines = 4
  Cps <- MCCps
  Ceiling = 10
  Curve <- MCCurve
  MaxPlies = 2
PROPERTIES
  SignedOutStaysOut
