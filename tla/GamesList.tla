------------------------------ MODULE GamesList ------------------------------
(***************************************************************************)
(* The list of games and what narrows it: the search box, which holds the  *)
(* typed text and commits it to the URL after a pause; the filters and the *)
(* pager, which change the URL at once; the way back and forward; and the  *)
(* query for the search of the URL, whose rows give way to the previous    *)
(* page's while they load.                                                 *)
(*                                                                         *)
(* Abstractions.  The filters are one that is on or off.  Rows are known by*)
(* the search they answer.  The router shows a new URL some renders after  *)
(* it was pushed.                                                          *)
(***************************************************************************)
EXTENDS Naturals, Sequences

CONSTANTS
  Drafts,      \* what the field may hold
  TermOf,      \* of each of them, the term it is trimmed to
  NoTerm,      \* the empty field, and no term
  Off,         \* nothing is waiting, or awaited
  MaxPage,     \* bound: pages of a search
  MaxEntries   \* bound: history steps

VARIABLES
  draft,     \* the text in the field
  timer,     \* the commit waiting for the pause to end
  asked,     \* the term this box committed and awaits
  entries, at,   \* the URLs of the history, and the current one
  search,    \* the URL the screen shows
  cached,    \* the rows of the search shown are cached
  previous,  \* the last search whose own rows were shown
  fetching,  \* the search shown is being read
  failed     \* it was read last without success

boxVars == <<draft, timer, asked>>
urlVars == <<entries, at>>
queryVars == <<cached, previous, fetching, failed>>
vars == <<boxVars, urlVars, search, queryVars>>

-----------------------------------------------------------------------------
Terms    == {TermOf[d] : d \in Drafts}
Searches == [term : Terms, narrowed : BOOLEAN, page : 1..MaxPage]
\* A commit knows whether the render it was asked in showed a term to refine.
Waits    == [term : Terms, refines : BOOLEAN]
Narrowing(s) == <<s.term, s.narrowed>>
First    == [term |-> NoTerm, narrowed |-> FALSE, page |-> 1]

TypeOK ==
  /\ draft \in Drafts /\ timer \in Waits \cup {Off} /\ asked \in Terms \cup {Off}
  /\ entries \in Seq(Searches) /\ Len(entries) <= MaxEntries /\ at \in 1..Len(entries)
  /\ search \in Searches
  /\ cached \in BOOLEAN /\ previous \in Searches \cup {Off}
  /\ fetching \in BOOLEAN /\ failed \in BOOLEAN

Init ==
  /\ draft = NoTerm /\ timer = Off /\ asked = Off
  /\ entries = <<First>> /\ at = 1 /\ search = First
  /\ cached = FALSE /\ previous = Off /\ fetching = TRUE /\ failed = FALSE

-----------------------------------------------------------------------------
\* The box.  A render that finds the awaited term awaits no more; one that
\* awaits nothing, with nothing waiting, takes the URL's term over.
Render(text, wait, term, shown) ==
  LET still == IF term = shown.term THEN Off ELSE term
  IN /\ asked' = still
     /\ timer' = wait
     /\ draft' = IF still = Off /\ wait = Off THEN shown.term ELSE text

\* The history forgets what lay ahead; replacing keeps the step.
Push(s)    == entries' = Append(SubSeq(entries, 1, at), s) /\ at' = at + 1
Replace(s) == entries' = [entries EXCEPT ![at] = s] /\ UNCHANGED at
Goes(s) ==
  IF s = entries[at] THEN UNCHANGED urlVars
  ELSE at < MaxEntries /\ Push(s)
Refines == search.term # NoTerm
Commits(c) ==
  LET s == [entries[at] EXCEPT !.term = c.term, !.page = 1]
  IN IF c.refines THEN Replace(s) ELSE Goes(s)

Type(text) ==
  /\ text # draft
  /\ Render(text, [term |-> TermOf[text], refines |-> Refines], asked, search)
  /\ UNCHANGED <<urlVars, search, queryVars>>

PauseEnds ==
  /\ timer # Off
  /\ Commits(timer)
  /\ Render(draft, Off, timer.term, search)
  /\ UNCHANGED <<search, queryVars>>

Clear ==
  /\ draft # NoTerm
  /\ Commits([term |-> NoTerm, refines |-> Refines])
  /\ Render(NoTerm, Off, NoTerm, search)
  /\ UNCHANGED <<search, queryVars>>

-----------------------------------------------------------------------------
\* Everything else that moves the URL; each change of a filter shows page 1.
Narrow ==
  /\ Goes([entries[at] EXCEPT !.narrowed = ~@, !.page = 1])
  /\ UNCHANGED <<boxVars, search, queryVars>>

Move(to) ==
  /\ to \in 1..Len(entries)
  /\ at' = to
  /\ UNCHANGED <<boxVars, entries, search, queryVars>>

-----------------------------------------------------------------------------
(* What the screen shows.                                                 *)

\* Fault: the rows shown last stand in for any other.
HeldRows == previous

\* The rows of a page of the same narrowing stand in while another loads.
StandIn ==
  IF previous # Off /\ Narrowing(previous) = Narrowing(search) THEN previous ELSE Off

Rows ==
  IF failed THEN Off
  ELSE IF cached THEN search
  ELSE StandIn

\* The pager turns from the page the rows are of.
TurnPage(page) ==
  /\ Rows # Off /\ page # Rows.page
  /\ Goes([entries[at] EXCEPT !.page = page])
  /\ UNCHANGED <<boxVars, search, queryVars>>

\* The router shows the current URL: the box renders, and the query of the
\* search left behind is aborted.  The rows of the new one may be cached, and
\* may be too old to be trusted.
Arrive ==
  /\ search # entries[at]
  /\ search' = entries[at]
  /\ Render(draft, timer, asked, search')
  /\ previous' = IF cached THEN search ELSE previous
  /\ cached' \in BOOLEAN
  /\ fetching' \in {TRUE, ~cached'}
  /\ failed' = FALSE
  /\ UNCHANGED urlVars

\* An import or a finished sync made the rows old.
Invalidate ==
  /\ ~fetching
  /\ fetching' = TRUE
  /\ failed' = (failed /\ cached)
  /\ UNCHANGED <<boxVars, urlVars, search, cached, previous>>

Load ==
  /\ fetching
  /\ fetching' = FALSE /\ failed' = FALSE
  /\ cached' = TRUE
  /\ UNCHANGED <<boxVars, urlVars, search, previous>>

LoadFails ==
  /\ fetching
  /\ fetching' = FALSE /\ failed' = TRUE
  /\ UNCHANGED <<boxVars, urlVars, search, cached, previous>>

-----------------------------------------------------------------------------
Next ==
  \/ \E text \in Drafts : Type(text)
  \/ PauseEnds \/ Clear \/ Narrow
  \/ Move(at - 1) \/ Move(at + 1)
  \/ \E page \in 1..MaxPage : TurnPage(page)
  \/ Arrive \/ Invalidate \/ Load \/ LoadFails

Spec == Init /\ [][Next]_vars

-----------------------------------------------------------------------------
\* Whatever was typed, cleared, narrowed, gone back to or turned meanwhile,
\* once nothing waits or is awaited the rows are of the term in the field and
\* of the filters shown (queries: "the previous filter's are not").
RowsAnswerTheField ==
  timer = Off /\ asked = Off /\ Rows # Off =>
    Narrowing(Rows) = <<TermOf[draft], search.narrowed>>
=============================================================================
