---------------------------- MODULE GradingConstants ----------------------------
\* The instance Grading is about.
EXTENDS Integers

CONSTANTS
  Cps,      \* scores an engine reports, in pawns
  Ceiling,  \* CP_CEILING
  Curve,    \* win chance of a score from 0 to the ceiling, in thousandths
  MaxPlies  \* bound: plies of the game

\* The logistic curve is even at 0 and never falls.
ASSUME GradingAssumption ==
  /\ Cps \subseteq Int /\ Ceiling \in Nat /\ MaxPlies \in Nat
  /\ Curve \in [0..Ceiling -> Nat]
  /\ Curve[0] = 0
  /\ \A m, n \in 0..Ceiling : m <= n => Curve[m] <= Curve[n]
=============================================================================
