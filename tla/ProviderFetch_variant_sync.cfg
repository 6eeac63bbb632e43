SPECIFICATION Spec
CONSTANTS
  MaxGames = 3
  MaxMonths = 3
  Bootstrap = 2
  PageSize = 2
INVARIANT VariantIsNoPartialFailure
