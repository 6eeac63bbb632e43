-------------------------------- MODULE Grading --------------------------------
(***************************************************************************)
(* What each move of a game was worth.  The engine reports on a position   *)
(* from the side to move; the report is turned into white's point of view  *)
(* once, the position a game ended in is scored from the rules, and a ply  *)
(* is classified by the win chance its mover lost between the two          *)
(* evaluations around it.                                                  *)
(*                                                                         *)
(* Abstractions.  Win chances are in thousandths, read off a curve that is *)
(* a parameter.  The moves are whether they were the engine's choice.      *)
(***************************************************************************)
EXTENDS GradingConstants, Sequences

VARIABLES
  mover,    \* the side to move
  said,     \* what the engine said of the position, to the side to move
  current,  \* the evaluation kept of it, for white
  judged,   \* the plies classified so far
  over      \* the rules ended the game

vars == <<mover, said, current, judged, over>>

-----------------------------------------------------------------------------
Sides  == {"white", "black"}
Scores == [mate : {FALSE}, n : Int] \cup [mate : {TRUE}, n : Int \ {0}]
Plain(n) == [mate |-> FALSE, n |-> n]
Mate(n)  == [mate |-> TRUE, n |-> n]
Other(side) == IF side = "white" THEN "black" ELSE "white"
Categories == {"best", "good", "inaccuracy", "mistake", "blunder"}

TypeOK ==
  /\ mover \in Sides /\ said \in Scores /\ current \in Scores /\ over \in BOOLEAN
  /\ \A k \in 1..Len(judged) :
       /\ judged[k].category \in Categories /\ judged[k].winChanceLoss \in Nat
       /\ judged[k].heard \in Scores /\ judged[k].answered \in Scores

\* Fault: a mate keeps the sign the engine gave it.
ToWhitePovPlainOnly(s, side) ==
  IF side = "white" \/ s.mate THEN s ELSE [s EXCEPT !.n = -s.n]

ToWhitePov(s, side) == IF side = "white" THEN s ELSE [s EXCEPT !.n = -s.n]

\* A search that ended before any line has no score, which counts as even.
Reports == {Plain(n) : n \in Cps} \cup {Plain(0), Mate(1), Mate(-1), Mate(-2)}

\* cp, ceiled before the curve.
WinChance(cp) ==
  IF cp < 0 THEN -Curve[IF cp < -Ceiling THEN Ceiling ELSE -cp]
            ELSE Curve[IF cp > Ceiling THEN Ceiling ELSE cp]

ScoreToWinChance(s) ==
  IF s.mate THEN WinChance(IF s.n > 0 THEN Ceiling ELSE -Ceiling) ELSE WinChance(s.n)

Lost(before, after, side) ==
  LET fall == ScoreToWinChance(before) - ScoreToWinChance(after)
      loss == IF side = "white" THEN fall ELSE -fall
  IN  IF loss > 0 THEN loss ELSE 0

Category(loss, best) ==
  IF best THEN "best"
  ELSE IF loss >= 300 THEN "blunder"
  ELSE IF loss >= 200 THEN "mistake"
  ELSE IF loss >= 100 THEN "inaccuracy" ELSE "good"

\* heard, answered: what the engine said before the move and after it.
ClassifyPly(next, best, answer) ==
  LET loss == Lost(current, next, mover)
  IN  [category |-> Category(loss, best), winChanceLoss |-> loss,
       heard |-> said, answered |-> answer]

\* The side that moved last is the one that mates.
TerminalScoreOf(winner) ==
  IF winner = "white" THEN Mate(1) ELSE IF winner = "black" THEN Mate(-1) ELSE Plain(0)

-----------------------------------------------------------------------------
Init ==
  /\ mover \in Sides /\ said \in Reports
  /\ current = ToWhitePov(said, mover)
  /\ judged = <<>> /\ over = FALSE

\* Another game, from whichever position it was set up in.
NextGame ==
  /\ over \/ Len(judged) = MaxPlies
  /\ mover' \in Sides /\ said' \in Reports
  /\ current' = ToWhitePov(said', mover')
  /\ judged' = <<>> /\ over' = FALSE

\* The engine is asked about the position after the move.
Graded(best, answer) ==
  /\ ~over /\ Len(judged) < MaxPlies
  /\ judged' = Append(judged, ClassifyPly(ToWhitePov(answer, Other(mover)), best, answer))
  /\ said' = answer
  /\ current' = ToWhitePov(answer, Other(mover))
  /\ mover' = Other(mover)
  /\ UNCHANGED over

\* The move ended the game: nobody is asked.
GradedByTheRules(best, mates) ==
  /\ ~over /\ Len(judged) < MaxPlies
  /\ LET score == TerminalScoreOf(IF mates THEN mover ELSE "nobody")
         heard == IF mates THEN Mate(-1) ELSE Plain(0)
     IN  /\ judged' = Append(judged, ClassifyPly(score, best, heard))
         /\ said' = heard /\ current' = score
  /\ mover' = Other(mover)
  /\ over' = TRUE

Next ==
  \/ \E best \in BOOLEAN, answer \in Reports : Graded(best, answer)
  \/ \E best \in BOOLEAN, mates \in BOOLEAN : GradedByTheRules(best, mates)
  \/ NextGame

Spec == Init /\ [][Next]_vars

-----------------------------------------------------------------------------
\* What a ply cost by what was said to each side in turn, with no point of
\* view to get wrong: what the mover had, and what the opponent has now.
Cost(ply) ==
  LET sum == ScoreToWinChance(ply.heard) + ScoreToWinChance(ply.answered)
  IN  IF sum > 0 THEN sum ELSE 0

\* Every ply is judged by its own mover's chances, whichever colour that is and
\* whoever scored the positions around it, and a move that mates or forces mate
\* is no mistake, however high the score before it (classifyMove, toWhitePov,
\* terminalScoreOf).
JudgedFairly ==
  \A k \in 1..Len(judged) :
    LET ply == judged[k]
    IN  /\ ply.winChanceLoss = Cost(ply)
        /\ ply.answered.mate /\ ply.answered.n < 0 =>
             ply.winChanceLoss = 0 /\ ply.category \in {"best", "good"}

=============================================================================
