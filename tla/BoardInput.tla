------------------------------- MODULE BoardInput -------------------------------
(***************************************************************************)
(* The gestures on the board of a review: clicking a piece and then a      *)
(* square, or dragging one, plays a trial move, while the keys and the     *)
(* scoresheet change the position under the gesture.  The board keeps the  *)
(* square that was picked, scoped to the position it was picked in; the    *)
(* store rules on every move with the position it has then.                *)
(*                                                                         *)
(* Abstractions.  A position is the ply and the trial moves after it; which *)
(* moves it allows depends on whose turn it is.  A square may hold a piece *)
(* or not.  Evaluations are in Review.                                     *)
(***************************************************************************)
EXTENDS ReviewConstants, Sequences

CONSTANTS
  Squares,
  MaxTrial,   \* bound: trial moves in a row
  BoardMoves  \* [from, to, by]: what a piece may do when it is the turn of by

VARIABLES
  place,   \* the ply on the board
  trial,   \* the trial moves after it
  picked,  \* the square picked and the position it was picked in, or Nothing
  dragged  \* the square a piece in the hand came from, or Nothing

vars == <<place, trial, picked, dragged>>

-----------------------------------------------------------------------------
Position == <<place, trial>>
Turn     == (place + Len(trial)) % 2
Legal    == {m \in BoardMoves : m.by = Turn}

TypeOK ==
  /\ place \in 0..Length /\ trial \in Seq(BoardMoves)
  /\ picked \in {Nothing} \cup [fen : (0..Length) \X Seq(BoardMoves), square : Squares]
  /\ dragged \in Squares \cup {Nothing}

Init == place = 0 /\ trial = <<>> /\ picked = Nothing /\ dragged = Nothing

\* Fault: a pick outlives its position.
SelectedAnywhere == IF picked # Nothing THEN picked.square ELSE Nothing

\* A pick made in another position is none, and is one again back there.
Selected == IF picked # Nothing /\ picked.fen = Position THEN picked.square ELSE Nothing

Hints == {m.to : m \in {m \in Legal : m.from = Selected}}

\* The store plays what its position allows, and nothing else.
PlayMove(from, to) ==
  IF \E m \in Legal : m.from = from /\ m.to = to
  THEN /\ Len(trial) < MaxTrial
       /\ \E m \in Legal : m.from = from /\ m.to = to /\ trial' = Append(trial, m)
  ELSE UNCHANGED trial

-----------------------------------------------------------------------------
\* A key, a control or the scoresheet; a trial line freezes the first two.
GoToPly(target) ==
  /\ target # place \/ trial # <<>>
  /\ place' = target /\ trial' = <<>>
  /\ UNCHANGED <<picked, dragged>>

SelectOrMove(s, piece) ==
  /\ dragged = Nothing
  /\ IF Selected # Nothing /\ s \in Hints
     THEN PlayMove(Selected, s) /\ picked' = Nothing
     ELSE /\ picked' = IF piece THEN [fen |-> Position, square |-> s] ELSE Nothing
          /\ UNCHANGED trial
  /\ UNCHANGED <<place, dragged>>

PieceDrag(s) ==
  /\ dragged = Nothing
  /\ dragged' = s
  /\ picked' = [fen |-> Position, square |-> s]
  /\ UNCHANGED <<place, trial>>

PieceDrop(s) ==
  /\ dragged # Nothing
  /\ dragged' = Nothing /\ picked' = Nothing
  /\ PlayMove(dragged, s)
  /\ UNCHANGED place

\* Cancelled, or dropped beside the board.
PieceDragCancel ==
  /\ dragged # Nothing
  /\ dragged' = Nothing /\ picked' = Nothing
  /\ UNCHANGED <<place, trial>>

Next ==
  \/ \E target \in 0..Length : GoToPly(target)
  \/ \E s \in Squares : \/ \E piece \in BOOLEAN : SelectOrMove(s, piece)
                        \/ PieceDrag(s) \/ PieceDrop(s)
  \/ PieceDragCancel

Spec == Init /\ [][Next]_vars

-----------------------------------------------------------------------------
LastMove == trial'[Len(trial')]

\* However the position changes between the two halves of a gesture: a move
\* that is played is one the position on the board allows, and two clicks play
\* it only from a piece that was picked in that very position
\* (libs/ui/src/chess/board.tsx, playVariationMove).
PlaysWhatIsShown ==
  [][ Len(trial') > Len(trial) =>
        /\ LastMove \in Legal
        /\ dragged = Nothing => picked = [fen |-> Position, square |-> LastMove.from] ]_vars

=============================================================================
