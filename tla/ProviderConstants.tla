--------------------------- MODULE ProviderConstants ---------------------------
\* The instance ProviderFetch is about.
EXTENDS Integers

CONSTANTS
  MaxGames,   \* bound: games played
  MaxMonths,  \* bound: months that begin
  Bootstrap,  \* the most months a first sync reads
  PageSize    \* the games of one Lichess page

ASSUME ProviderAssumption ==
  /\ MaxGames \in Nat /\ MaxMonths \in Nat \ {0}
  /\ Bootstrap \in Nat \ {0} /\ PageSize \in Nat \ {0}
=============================================================================
