----------------------------- MODULE ReviewConstants -----------------------------
\* The instance Review is about.
EXTENDS Integers

CONSTANTS
  Nothing,
  Length,        \* legal moves of the game
  Moves,         \* trial moves the board allows
  MaxLine,       \* bound: the longest line of them
  Evaluators,    \* bound: evaluators that have a search to answer
  MaxSearches    \* bound: searches that have not settled

ASSUME ReviewAssumption ==
  /\ Length \in Nat /\ MaxLine \in Nat /\ MaxSearches \in Nat
  /\ Nothing \notin Evaluators
=============================================================================
