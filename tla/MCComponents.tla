------------------------------ MODULE MCComponents ------------------------------
(***************************************************************************)
(* The components that share no state, each explored on its own: part,     *)
(* the one that runs, is chosen once and every other one stays as it is.   *)
(***************************************************************************)
EXTENDS ReviewConstants, GradingConstants, ProviderConstants, FirstUserConstants,
        IdentityConstants, Integers, Sequences, FiniteSets

CONSTANTS
  q1, q2, q3,
  Handles, Typed, MaxAccounts, ImportStep, Unknown,
  MaxPicks, MaxCrops, MaxRequests,
  f1, f2, pasted, Files, Pasted, Content, Blank, BatchSize, MaxImports,
  typed, padded, Drafts, TermOf, NoTerm, Off, MaxPage, MaxEntries,
  Tracked, ApiMax, ImportMax, Window, Steps, MaxWaiting,
  Squares, BoardMoves, MaxTrial, MaxLines

ASSUME BoundsAssumption ==
  /\ MaxLines \in Nat
  /\ MaxPicks \in Nat /\ MaxCrops \in Nat \ {0} /\ MaxRequests \in Nat
  /\ ApiMax \in Nat \ {0} /\ ImportMax \in Nat \ {0}
  /\ Window \in Nat \ {0} /\ Steps \in Nat \ {0} /\ MaxWaiting \in Nat

MCContent ==
  [t \in Files \cup Pasted |->
     IF t = f1 THEN <<1, 2, 1>> ELSE IF t = pasted THEN <<3, 2>> ELSE <<>>]
MCTermOf == [d \in Drafts |-> IF d = padded THEN typed ELSE d]
MCBoardMoves ==
  {[from |-> q1, to |-> q2, by |-> 0], [from |-> q2, to |-> q1, by |-> 0],
   [from |-> q3, to |-> q2, by |-> 1]}
MCCps == {-15, -6, -3, -1, 0, 1, 3, 6, 15}
MCCurve == [n \in 0..Ceiling |-> <<0, 182, 352, 502, 627, 726, 802, 859, 900, 930, 951>>[n + 1]]

VARIABLES
  part,
  ply, variation, showBestMove, revealedAt, graded,
  mounted, evaluating, evaluatorRef, evaluators, searches, answered,
  account, made, onboarded, archive, query, awaiting, watching, connect,
  removal, resync, page, refused, opened, confirming, step,
  owner, live, cookie, screen, nav, session, data, request, signingIn, leaving,
  row, object, gone, sent, overlapped, source, picks, latest, encoding, cropped,
  save, remove,
  open, text, file, reading, side, pending, imports, library,
  provider, kind, ended, now, cursor, from, stored, walk, overtaken,
  draft, timer, asked, entries, at, search, cached, previous, fetching, failed,
  boot, env, founded, users, holder, ids, broken, cutOff,
  redis, hits, left, waiting, watched, passed, told,
  place, trial, picked, dragged,
  task, settled, queue, finished, wake, reader, got,
  mover, said, current, judged, over

Board    == INSTANCE Review
Slot     == INSTANCE ChessAccounts
Person   == INSTANCE Identity
Picture  == INSTANCE Avatar
Manual   == INSTANCE PgnImport
Provider == INSTANCE ProviderFetch
List     == INSTANCE GamesList
Startup  == INSTANCE FirstUser WITH made <- founded
Budgets  == INSTANCE RateLimit
Input    == INSTANCE BoardInput
Stream   == INSTANCE SearchStream
Judging  == INSTANCE Grading

\* The dialog has a slide before its form, and no row is "nobody" or "unread".
ASSUME SlotAssumption ==
  /\ Typed \subseteq Handles /\ MaxAccounts \in Nat /\ ImportStep \in Nat \ {0}
  /\ Nobody # Unknown /\ Nobody \notin Slot!Rows /\ Unknown \notin Slot!Rows
  /\ Unknown \notin BOOLEAN /\ Nobody \notin Slot!Accounts

\* A text holds games; trimming a term twice is trimming it once, and "off"
\* is no term.
ASSUME TextsAssumption ==
  /\ \A t \in Manual!Texts : Content[t] \in Seq(Manual!Games)
  /\ BatchSize \in Nat \ {0} /\ MaxImports \in Nat

ASSUME FieldAssumption ==
  /\ NoTerm \in Drafts /\ TermOf[NoTerm] = NoTerm
  /\ \A d \in Drafts : TermOf[d] \in Drafts /\ TermOf[TermOf[d]] = TermOf[d]
  /\ Off \notin Drafts /\ Off \notin List!Searches
  /\ MaxPage \in Nat \ {0} /\ MaxEntries \in Nat \ {0}

reviewVars == <<ply, variation, showBestMove, revealedAt, graded, mounted,
                evaluating, evaluatorRef, evaluators, searches, answered>>
slotVars == <<account, made, onboarded, archive, query, awaiting, watching,
              connect, removal, resync, page, refused, opened, confirming, step>>
personVars == <<owner, live, cookie, screen, nav, session, data, request,
                signingIn, leaving>>
avatarVars == <<row, object, gone, sent, overlapped, source, picks, latest,
                encoding, cropped, save, remove>>
pgnVars == <<open, text, file, reading, side, pending, imports, library>>
providerVars == <<provider, kind, ended, now, cursor, from, stored, walk, overtaken>>
listVars == <<draft, timer, asked, entries, at, search, cached, previous,
              fetching, failed>>
startupVars == <<boot, env, founded, users, holder, ids, broken, cutOff>>
budgetVars == <<redis, hits, left, waiting, watched, passed, told>>
inputVars == <<place, trial, picked, dragged>>
streamVars == <<task, settled, queue, finished, wake, reader, got>>
gradingVars == <<mover, said, current, judged, over>>
allVars == <<part, reviewVars, slotVars, personVars, avatarVars,
          pgnVars, providerVars, listVars, startupVars, budgetVars, inputVars,
          streamVars, gradingVars>>

Parts == {"review", "slot", "person", "avatar", "pgn", "provider", "list",
          "startup", "budgets", "input", "stream", "grading"}

\* The part that runs keeps its types; the others stay as they are.
AllTyped ==
  /\ part = "review" => Board!TypeOK
  /\ part = "slot" => Slot!TypeOK
  /\ part = "person" => Person!TypeOK
  /\ part = "avatar" => Picture!TypeOK
  /\ part = "pgn" => Manual!TypeOK
  /\ part = "provider" => Provider!TypeOK
  /\ part = "list" => List!TypeOK
  /\ part = "startup" => Startup!TypeOK
  /\ part = "budgets" => Budgets!TypeOK
  /\ part = "input" => Input!TypeOK
  /\ part = "stream" => Stream!TypeOK
  /\ part = "grading" => Judging!TypeOK

\* The part that runs starts anywhere it may, the others at one place.
Starts ==
  /\ part \in Parts
  /\ Board!Init /\ Slot!Init /\ Person!Init
  /\ Picture!Init /\ Manual!Init /\ Provider!Init /\ List!Init
  /\ Startup!Init /\ Budgets!Init /\ Input!Init /\ Stream!Init
  /\ Judging!Init
  /\ part # "slot" => onboarded /\ page = "connections"
  /\ part # "budgets" => watched = "api"
  /\ part # "grading" => mover = "white" /\ said = [mate |-> FALSE, n |-> 0]
  /\ part # "provider" => provider = "lichess" /\ kind = [g \in 1..MaxGames |-> "standard"]

Alone(p) ==
  /\ part = p /\ UNCHANGED part
  /\ p # "review" => UNCHANGED reviewVars
  /\ p # "slot" => UNCHANGED slotVars
  /\ p # "person" => UNCHANGED personVars
  /\ p # "avatar" => UNCHANGED avatarVars
  /\ p # "pgn" => UNCHANGED pgnVars
  /\ p # "provider" => UNCHANGED providerVars
  /\ p # "list" => UNCHANGED listVars
  /\ p # "startup" => UNCHANGED startupVars
  /\ p # "budgets" => UNCHANGED budgetVars
  /\ p # "input" => UNCHANGED inputVars
  /\ p # "stream" => UNCHANGED streamVars
  /\ p # "grading" => UNCHANGED gradingVars

AnyStep ==
  \/ Alone("review") /\ Board!Next
  \/ Alone("slot") /\ Slot!Next
  \/ Alone("person") /\ Person!Next
  \/ Alone("avatar") /\ Picture!Next
  \/ Alone("pgn") /\ Manual!Next
  \/ Alone("provider") /\ Provider!Next
  \/ Alone("list") /\ List!Next
  \/ Alone("startup") /\ Startup!Next
  \/ Alone("budgets") /\ Budgets!Next
  \/ Alone("input") /\ Input!Next
  \/ Alone("stream") /\ Stream!Next
  \/ Alone("grading") /\ Judging!Next

AllSpec == Starts /\ [][AnyStep]_allVars

ShownIsOfTheBoard == Board!ShownIsOfTheBoard
NoEvaluatorLeft == Board!NoEvaluatorLeft
LeavesOnFresh == Slot!LeavesOnFresh
ShownIsOfTheSession == Person!ShownIsOfTheSession
ThrownOutByOwnSession == Person!ThrownOutByOwnSession
SignedOutStaysOut == Person!SignedOutStaysOut
RowAndBytesAgree == Picture!RowAndBytesAgree
CropNeverGoesBack == Picture!CropNeverGoesBack
EveryRowCountedOnce == Manual!EveryRowCountedOnce
CursorSkipsNothing == Provider!CursorSkipsNothing
RowsAnswerTheField == List!RowsAnswerTheField
OneFirstUser == Startup!OneFirstUser
WaitIsEnough == Budgets!WaitIsEnough
TwiceTheBudgetAtMost == Budgets!TwiceTheBudgetAtMost
PlaysWhatIsShown == Input!PlaysWhatIsShown
ReaderMissesNothing == Stream!ReaderMissesNothing
JudgedFairly == Judging!JudgedFairly
=============================================================================
