-------------------------------- MODULE Review --------------------------------
(***************************************************************************)
(* The review of a game: the reader steps through the plies, leaves the    *)
(* game for a line of trial moves and returns, and the bar beside the      *)
(* board shows what the report or the engine says of the position on the   *)
(* board.  useVariationEvaluation asks the engine in an effect, which runs *)
(* some time after the state changed, and its answers come in any order.   *)
(*                                                                         *)
(* Abstractions.  A position is the ply it was reached from and the trial  *)
(* moves after it.  An evaluation is the position it is of.  The report is *)
(* the number of plies graded so far.  Sounds are left out.                *)
(***************************************************************************)
EXTENDS ReviewConstants, Sequences, FiniteSets

VARIABLES
  ply,          \* 0 is the position before anyone moved
  variation,    \* the trial moves and how many are on the board, or Nothing
  showBestMove,
  revealedAt,   \* the ply at which the best move was asked for last
  graded,       \* plies the report has graded
  \* useVariationEvaluation
  mounted,
  evaluating,   \* the position its effect last ran for, or Nothing
  evaluatorRef,
  evaluators,   \* those not disposed of
  searches,     \* searches that have not settled
  answered      \* the last answer taken, or Nothing

storeVars == <<ply, variation, showBestMove, revealedAt>>
hookVars  == <<mounted, evaluating, evaluatorRef, evaluators, searches, answered>>
vars      == <<storeVars, graded, hookVars>>

-----------------------------------------------------------------------------
Positions == (0..Length) \X Seq(Moves)
Variations == [moves : Seq(Moves) \ {<<>>}, cursor : Nat \ {0}]
Searches == [fen : Positions, on : Evaluators, asked : BOOLEAN]
Answers  == [fen : Positions, score : Positions]

TypeOK ==
  /\ ply \in 0..Length /\ revealedAt \in 0..Length /\ graded \in 0..Length
  /\ variation \in Variations \cup {Nothing}
  /\ showBestMove \in BOOLEAN /\ mounted \in BOOLEAN
  /\ evaluating \in Positions \cup {Nothing}
  /\ evaluatorRef \in Evaluators \cup {Nothing}
  /\ evaluators \subseteq Evaluators
  /\ searches \subseteq Searches
  /\ answered \in Answers \cup {Nothing}

Init ==
  /\ ply = 0 /\ variation = Nothing /\ showBestMove = FALSE /\ revealedAt = 0
  /\ graded = 0
  /\ mounted = TRUE /\ evaluating = Nothing /\ evaluatorRef = Nothing
  /\ evaluators = {} /\ searches = {} /\ answered = Nothing

InVariation == variation # Nothing
\* The trial moves on the board.
Line == IF InVariation THEN SubSeq(variation.moves, 1, variation.cursor) ELSE <<>>
\* selectFen, and variationFen.
Fen          == <<ply, Line>>
VariationFen == IF InVariation THEN Fen ELSE Nothing

-----------------------------------------------------------------------------
\* Fault: nothing stops at the last ply.
ClampedBelow(target) == IF target < 0 THEN 0 ELSE target
Clamped(target) == IF target < 0 THEN 0 ELSE IF target > Length THEN Length ELSE target

\* Nothing happens unless the ply changes or a variation is left.
GoToPly(target) ==
  /\ mounted
  /\ Clamped(target) # ply \/ InVariation
  /\ ply' = Clamped(target)
  /\ variation' = Nothing
  /\ showBestMove' = FALSE
  /\ UNCHANGED <<revealedAt, graded, hookVars>>

\* A variation freezes the game's timeline.
Step(by) == ~InVariation /\ GoToPly(ply + by)

PlayMove(m) ==
  /\ mounted
  /\ Len(Line) < MaxLine
  /\ variation' = [moves |-> Append(Line, m), cursor |-> Len(Line) + 1]
  /\ UNCHANGED <<ply, showBestMove, revealedAt, graded, hookVars>>

\* The insight of a graded ply offers the engine's move; a variation hides it.
RevealBestMove ==
  /\ mounted /\ ~InVariation /\ ply \in 1..graded
  /\ showBestMove' = TRUE
  /\ revealedAt' = ply
  /\ UNCHANGED <<ply, variation, graded, hookVars>>

\* The pass grades another ply; a cache that was emptied starts again.
ReportChanges ==
  /\ graded' \in {0} \cup ((graded + 1)..(graded + 1) \cap 0..Length)
  /\ UNCHANGED <<storeVars, hookVars>>

-----------------------------------------------------------------------------
\* The cleanup of the previous run: its search is cancelled and its answer
\* no longer wanted, whenever it comes.
Cancelled == {[s EXCEPT !.asked = FALSE] : s \in searches}

\* The effect runs after the position changed, and again after a remount.
RunEffect ==
  /\ mounted /\ evaluating # VariationFen
  /\ evaluating' = VariationFen
  /\ IF InVariation
     THEN /\ Cardinality(Cancelled) < MaxSearches
          /\ evaluatorRef' \in IF evaluatorRef # Nothing THEN {evaluatorRef}
                               ELSE Evaluators \ {s.on : s \in searches}
          /\ evaluators' = IF evaluatorRef # Nothing THEN evaluators
                           ELSE evaluators \cup {evaluatorRef'}
          /\ searches' = Cancelled \cup {[fen |-> Fen, on |-> evaluatorRef', asked |-> TRUE]}
     ELSE searches' = Cancelled /\ UNCHANGED <<evaluatorRef, evaluators>>
  /\ UNCHANGED <<storeVars, graded, mounted, answered>>

\* A result may beat the cancellation of its own search.
Settles(s) ==
  /\ searches' = searches \ {s}
  /\ answered' = IF s.asked THEN [fen |-> s.fen, score |-> s.fen] ELSE answered
  /\ UNCHANGED <<storeVars, graded, mounted, evaluating, evaluatorRef, evaluators>>

\* A stop, a superseded search or a dead engine: no number.
Dies(s) ==
  /\ searches' = searches \ {s}
  /\ UNCHANGED <<storeVars, graded, mounted, evaluating, evaluatorRef, evaluators, answered>>

\* Fault: the evaluator is forgotten, not disposed of.
UnmountLeaking ==
  /\ mounted
  /\ mounted' = FALSE
  /\ evaluatorRef' = Nothing
  /\ searches' = Cancelled
  /\ evaluating' = Nothing
  /\ UNCHANGED <<storeVars, graded, answered, evaluators>>

\* The reference is cleared before the evaluator is disposed of.
Unmount ==
  /\ mounted
  /\ mounted' = FALSE
  /\ evaluatorRef' = Nothing
  /\ evaluators' = evaluators \ {evaluatorRef}
  /\ searches' = Cancelled
  /\ evaluating' = Nothing
  /\ UNCHANGED <<storeVars, graded, answered>>

\* The screen is opened anew, or its effects run again over the state it had.
Mount ==
  /\ ~mounted
  /\ mounted' = TRUE
  /\ \/ UNCHANGED <<storeVars, answered>>
     \/ /\ ply' = 0 /\ variation' = Nothing /\ showBestMove' = FALSE /\ revealedAt' = 0
        /\ answered' = Nothing
  /\ UNCHANGED <<graded, evaluating, evaluatorRef, evaluators, searches>>

Next ==
  \/ \E target \in -1..(Length + 1) : GoToPly(target)
  \/ Step(1) \/ Step(-1)
  \/ \E m \in Moves : PlayMove(m)
  \/ RevealBestMove \/ ReportChanges
  \/ RunEffect
  \/ \E s \in searches : Settles(s) \/ Dies(s)
  \/ Unmount \/ Mount

Spec == Init /\ [][Next]_vars

-----------------------------------------------------------------------------
\* Fault: the last answer, whichever position it is of.
LastScore == IF answered # Nothing THEN answered.score ELSE Nothing

\* What the hook returns: an answer for another position is none.
VariationScore == IF answered # Nothing /\ answered.fen = VariationFen
                  THEN answered.score ELSE Nothing

\* The report answers for the game's own moves, the engine for a line.
BarReading ==
  IF InVariation THEN VariationScore
  ELSE IF ply \in 1..graded THEN <<ply, <<>>>> ELSE Nothing

\* The move suggested is the one that was asked for at this ply.
Suggestion == IF ~InVariation /\ showBestMove THEN revealedAt ELSE Nothing

\* Whatever is beside the board is about the position on it, in the moments
\* before the effect runs as well, and however late an answer comes
\* (board-evaluation, use-variation-evaluation, use-board-review).
ShownIsOfTheBoard ==
  /\ BarReading \in {Fen, Nothing}
  /\ Suggestion \in {ply, Nothing}

\* The hook asks no evaluator that was disposed of and leaves none behind: the
\* evaluators alive are the one it refers to (use-variation-evaluation).
NoEvaluatorLeft == evaluators = {evaluatorRef} \ {Nothing}
=============================================================================
