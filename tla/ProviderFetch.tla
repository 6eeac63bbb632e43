---------------------------- MODULE ProviderFetch ----------------------------
(***************************************************************************)
(* How one account's games are read from its provider: the pass that walks *)
(* Chess.com's months, committing each as a checkpoint, or reads one page  *)
(* of Lichess, and the cursor from which the next pass goes on.  SyncJobs  *)
(* has the jobs, attempts and deliveries around a pass; here is what of the*)
(* archive a pass reads, and in which months and pages the games lie.      *)
(*                                                                         *)
(* Abstractions.  Games start in the order of their numbers, and a number  *)
(* stands for the time of the start, which is what the Lichess cursor      *)
(* counts.  They end in any order; ended maps each to the month it ended   *)
(* in, which is what the Chess.com cursor counts.  What a payload says is  *)
(* one of three kinds.  A pass that throws leaves nothing but its          *)
(* checkpoints.                                                            *)
(***************************************************************************)
EXTENDS ProviderConstants, FiniteSets, FiniteSetsExt

VARIABLES
  provider,  \* whose account this is
  kind,      \* of each game, what its payload is
  ended,     \* the month each game ended in; 0 is not yet
  now,       \* the current month
  cursor,    \* the stored cursor; 0 is none
  from,      \* the first month of the archive that a first sync read
  stored,    \* the games stored
  walk,      \* the pass under way
  overtaken  \* history: the games of Lichess that ended when the cursor, stored
             \* or of the pass under way, was past their start already, and
             \* that no page has listed since

archiveVars == <<provider, kind, ended, now>>
storedVars == <<cursor, from, stored>>
vars == <<archiveVars, storedVars, walk, overtaken>>

-----------------------------------------------------------------------------
Games  == 1..MaxGames
Months == 1..MaxMonths
Kinds  == {"standard", "variant", "garbled"}
Reasons == {"http-error", "invalid-response", "unsupported-variant", "parse-error"}

Idle == [pc |-> "idle", months |-> {}, last |-> 0, next |-> 0, got |-> {},
         advancing |-> TRUE, failures |-> {}]

TypeOK ==
  /\ provider \in {"chess_com", "lichess"}
  /\ kind \in [Games -> Kinds] /\ ended \in [Games -> 0..MaxMonths] /\ now \in Months
  /\ cursor \in 0..(MaxGames + MaxMonths + 1) /\ from \in 0..MaxMonths
  /\ stored \subseteq Games
  /\ walk.pc \in {"idle", "month", "page", "commit"}
  /\ walk.months \subseteq Months /\ walk.last \in 0..MaxMonths
  /\ walk.next \in 0..(MaxGames + MaxMonths + 1) /\ walk.got \subseteq Games
  /\ walk.advancing \in BOOLEAN /\ walk.failures \subseteq Reasons
  /\ overtaken \subseteq Games /\ (provider = "chess_com" => overtaken = {})

Init ==
  /\ provider \in {"chess_com", "lichess"} /\ kind \in [Games -> Kinds]
  /\ ended = [g \in Games |-> 0] /\ now = 1
  /\ cursor = 0 /\ from = 0 /\ stored = {}
  /\ walk = Idle /\ overtaken = {}

-----------------------------------------------------------------------------
\* The provider: games end, a correspondence game long after others that
\* started later, and months begin.  Chess.com is asked by the month, so its
\* games may as well be numbered in the order of their ends, and at Lichess no
\* month makes a difference.
EndGame(g) ==
  /\ ended[g] = 0
  /\ provider = "lichess" \/ \A h \in Games : h < g => ended[h] # 0
  /\ ended' = [ended EXCEPT ![g] = now]
  /\ overtaken' = IF provider = "lichess" /\ (g < cursor \/ g < walk.next)
                    THEN overtaken \cup {g} ELSE overtaken
  /\ UNCHANGED <<provider, kind, now, storedVars, walk>>

BeginMonth ==
  /\ provider = "chess_com" /\ now < MaxMonths
  /\ now' = now + 1
  /\ UNCHANGED <<provider, kind, ended, storedVars, walk, overtaken>>

Archive(m) == {g \in Games : ended[g] = m}

-----------------------------------------------------------------------------
\* What normalizing a set of games reports.
Standard(games) == {g \in games : kind[g] = "standard"}
Reported(games) ==
  {CASE kind[g] = "variant" -> "unsupported-variant" [] OTHER -> "parse-error" :
     g \in games \ Standard(games)}

\* fetchChessCom: the archives index lists the months with games, and the
\* current one before it has an archive.  Later syncs go on at the cursor's
\* month, the first takes the newest months.
Newest(months) == {m \in months : Cardinality({n \in months : n > m}) < Bootstrap}

ReadIndex ==
  /\ provider = "chess_com" /\ walk = Idle
  /\ \E current \in {{}, {now}} :
       LET listed == {m \in Months : Archive(m) # {}} \cup current
           months == IF cursor = 0 THEN Newest(listed)
                                   ELSE {m \in listed : m >= cursor}
       IN /\ walk' = [Idle EXCEPT !.pc = IF months = {} THEN "commit" ELSE "month",
                                  !.months = months, !.next = cursor,
                                  !.last = Max({0} \cup listed)]
          /\ from' = IF cursor = 0 THEN Min(months \cup {now}) ELSE from
  /\ UNCHANGED <<archiveVars, cursor, stored, overtaken>>

Month == Min(walk.months)
Walked(p) ==
  [p EXCEPT !.months = @ \ {Month}, !.pc = IF p.months = {Month} THEN "commit" ELSE @]

\* The newest month answers 404 before it has an archive.
Unpublished ==
  /\ walk.pc = "month" /\ Month = walk.last /\ Archive(Month) = {}
  /\ walk' = Walked(walk)
  /\ UNCHANGED <<archiveVars, storedVars, overtaken>>

\* Fault: a month that failed does not hold the cursor.
HoldNothing(p, reasons) == [p EXCEPT !.failures = @ \cup reasons]

Hold(p, reasons) == [p EXCEPT !.failures = @ \cup reasons, !.advancing = FALSE]

MonthFails ==
  /\ walk.pc = "month"
  /\ \E reason \in {"http-error", "invalid-response"} :
       walk' = Walked(Hold(walk, {reason}))
  /\ UNCHANGED <<archiveVars, storedVars, overtaken>>

\* A month read whole is committed with the cursor at it; a variant is a
\* failure that holds nothing.
ReadMonth ==
  /\ walk.pc = "month"
  /\ LET games   == Archive(Month)
         reasons == Reported(games)
         read    == [walk EXCEPT !.got = @ \cup Standard(games),
                                 !.failures = @ \cup reasons]
     IN IF walk.advancing /\ "parse-error" \notin reasons
        THEN /\ walk' = Walked([read EXCEPT !.next = Month])
             /\ cursor' = Month
             /\ stored' = stored \cup Standard(games)
             /\ UNCHANGED <<archiveVars, from, overtaken>>
        ELSE /\ walk' = Walked(Hold(read, {}))
             /\ UNCHANGED <<archiveVars, storedVars, overtaken>>

-----------------------------------------------------------------------------
\* fetchLichess: one page from the cursor, in the order of the starts; a game
\* under way is not exported.
AskPage ==
  /\ provider = "lichess" /\ walk = Idle
  /\ walk' = [Idle EXCEPT !.pc = "page", !.next = cursor]
  /\ UNCHANGED <<archiveVars, storedVars, overtaken>>

Page ==
  LET newer == {g \in Games : ended[g] # 0 /\ g >= cursor}
  IN {g \in newer : Cardinality({h \in newer : h < g}) < PageSize}

\* The cursor goes past the games before the first that could not be read.
ReadPage ==
  /\ walk.pc = "page"
  /\ LET garbled == {g \in Page : kind[g] = "garbled"}
         before  == {g \in Standard(Page) : \A h \in garbled : g < h}
     IN walk' = [walk EXCEPT !.pc = "commit", !.got = Standard(Page),
                             !.failures = Reported(Page),
                             !.next = Max({cursor} \cup {g + 1 : g \in before})]
  /\ overtaken' = overtaken \ Page
  /\ UNCHANGED <<archiveVars, storedVars>>

PageFails ==
  /\ walk.pc = "page"
  /\ \E reason \in {"http-error", "invalid-response"} :
       walk' = [walk EXCEPT !.pc = "commit", !.failures = {reason}]
  /\ UNCHANGED <<archiveVars, storedVars, overtaken>>

-----------------------------------------------------------------------------
Complete == walk.failures = {}

\* syncAccount: what no checkpoint stored yet, and the cursor of a complete
\* pass only.
Commit ==
  /\ walk.pc = "commit"
  /\ stored' = stored \cup walk.got
  /\ cursor' = IF Complete THEN walk.next ELSE cursor
  /\ walk' = Idle
  /\ UNCHANGED <<archiveVars, from, overtaken>>

\* The handle is unknown, a request throws, the pass is cancelled, or the
\* worker dies.
Abort ==
  /\ walk # Idle
  /\ walk' = Idle
  /\ UNCHANGED <<archiveVars, storedVars, overtaken>>

-----------------------------------------------------------------------------
Next ==
  \/ \E g \in Games : EndGame(g)
  \/ BeginMonth
  \/ ReadIndex \/ Unpublished \/ MonthFails \/ ReadMonth
  \/ AskPage \/ ReadPage \/ PageFails
  \/ Commit \/ Abort

Spec == Init /\ [][Next]_vars

-----------------------------------------------------------------------------
Position(g) == IF provider = "chess_com" THEN ended[g] ELSE g

\* Whatever failed, in whichever pass, no game that can be read lies before
\* the cursor without being stored: the next pass would never look there
\* (chess-com: "skipping it would advance the cursor past games nobody
\* fetched").  One case is not covered, because there the code does skip: the
\* cursor of Lichess is the start of the newest game seen, so a correspondence
\* game that ends after a later one was read lies before it.
CursorSkipsNothing ==
  \A g \in Games :
    ended[g] # 0 /\ kind[g] = "standard" /\ from <= Position(g) /\ Position(g) < cursor
      => g \in stored \cup overtaken

\* A pass whose only failures are unsupported variants is not an incomplete
\* one (ingestion.md: "unsupported variant, and partial failure are distinct
\* outcomes").
VariantIsNoPartialFailure ==
  walk.pc = "commit" /\ ~Complete => walk.failures # {"unsupported-variant"}
=============================================================================
