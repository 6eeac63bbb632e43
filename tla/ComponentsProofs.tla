--------------------------- MODULE ComponentsProofs ---------------------------
(***************************************************************************)
(* What holds of all the parts of MCComponents together: each behaves as   *)
(* it is specified, and keeps its types.                                   *)
(***************************************************************************)
EXTENDS UsersProofs, ReviewProofs, LibraryProofs

\* Whichever part a behaviour of the composition lets run, what it does to the
\* variables of any part is a behaviour of that part: what is proved of the
\* parts holds of the composition, and the run of the composition checks the
\* parts as they are specified.
THEOREM EveryPartIsItself ==
  AllSpec =>
    /\ Board!Spec /\ Slot!Spec /\ Person!Spec /\ Picture!Spec /\ Manual!Spec /\ Provider!Spec
    /\ List!Spec /\ Startup!Spec /\ Budgets!Spec /\ Input!Spec /\ Stream!Spec /\ Judging!Spec
BY ReviewPart, SlotPart, PersonPart, PicturePart, PgnPart, ProviderPart, ListPart,
   StartupPart, BudgetPart, InputPart, StreamPart, GradingPart

\* Of the parts whose inductive invariant has their types.
LEMMA UsersTyped ==
  AllSpec => [](Person!TypeOK /\ Startup!TypeOK /\ Picture!TypeOK /\ Budgets!TypeOK)
<1>1. /\ PersonTyped => Person!TypeOK
      /\ StartupTyped => Startup!TypeOK
      /\ PictureInv => Picture!TypeOK
      /\ BudgetInv => Budgets!TypeOK
  BY DEF PersonTyped, StartupTyped, PictureInv, CropInv, BudgetInv
<1>2. AllSpec => []PersonTyped
  BY PersonPart, PersonTypedInit, PersonTypedNext, PTL DEF Person!Spec
<1>3. AllSpec => []StartupTyped
  BY StartupPart, StartupTypedInit, StartupTypedNext, PTL DEF Startup!Spec
<1>4. AllSpec => []PictureInv
  BY PicturePart, PictureInit, PictureNext, PTL DEF Picture!Spec
<1>5. AllSpec => []BudgetInv
  BY BudgetPart, BudgetInit, BudgetNext, PTL DEF Budgets!Spec
<1>6. QED BY <1>1, <1>2, <1>3, <1>4, <1>5, PTL

LEMMA ReviewTyped ==
  AllSpec => [](Board!TypeOK /\ Input!TypeOK /\ Stream!TypeOK)
<1>1. /\ ReviewInv => Board!TypeOK
      /\ StreamInv => Stream!TypeOK
  BY DEF ReviewInv, StreamInv
<1>2. AllSpec => []ReviewInv
  BY ReviewPart, ReviewInit, ReviewNext, PTL DEF Board!Spec
<1>3. AllSpec => []Input!TypeOK
  BY InputPart, InputInit, InputNext, PTL DEF Input!Spec
<1>4. AllSpec => []StreamInv
  BY StreamPart, StreamInit, StreamNext, PTL DEF Stream!Spec
<1>5. QED BY <1>1, <1>2, <1>3, <1>4, PTL

LEMMA LibraryTyped ==
  AllSpec => [](Slot!TypeOK /\ Manual!TypeOK /\ List!TypeOK)
<1>1. /\ SlotInv => Slot!TypeOK
      /\ PgnInv => Manual!TypeOK
      /\ ListInv => List!TypeOK
  BY DEF SlotInv, PgnInv, ListInv
<1>2. AllSpec => []SlotInv
  BY SlotPart, SlotInit, SlotNext, PTL DEF Slot!Spec
<1>3. AllSpec => []PgnInv
  BY PgnPart, PgnInit, PgnNext, PTL DEF Manual!Spec
<1>4. AllSpec => []ListInv
  BY ListPart, ListInit, ListNext, PTL DEF List!Spec
<1>5. QED BY <1>1, <1>2, <1>3, <1>4, PTL

\* Every variable of every part keeps its type.
THEOREM EveryPartIsTyped == AllSpec => []AllTyped
<1>1. /\ Person!TypeOK /\ Startup!TypeOK /\ Picture!TypeOK /\ Budgets!TypeOK
      /\ Board!TypeOK /\ Input!TypeOK /\ Stream!TypeOK /\ Judging!TypeOK
      /\ Slot!TypeOK /\ Manual!TypeOK /\ List!TypeOK /\ Provider!TypeOK
      => AllTyped
  BY DEF AllTyped
<1>2. QED
  BY <1>1, UsersTyped, ReviewTyped, LibraryTyped, ProviderStaysTyped, GradingStaysTyped, PTL
=============================================================================
