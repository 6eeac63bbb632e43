------------------------------ MODULE GameAnalysis ------------------------------
(***************************************************************************)
(* The whole-game analysis in the browser: a pass reads the report stored  *)
(* in IndexedDB, else searches the game position by position, grades each  *)
(* ply from the evaluations on both sides of it, stores the report and     *)
(* announces it.  The events of a pass are folded into the entry of the    *)
(* query cache, found by its key.  Every tab has a cache of its own and    *)
(* all tabs share the database, which the deletion of an account erases.   *)
(*                                                                         *)
(* Abstractions.  An evaluation is the position it is of (BrowserEngine    *)
(* shows that an answer is the answer to its own search); a grade names    *)
(* the two evaluations it was made from.  Opening the database belongs to  *)
(* the step that needed it.  A request that is queued when its tab reloads *)
(* is dropped.                                                             *)
(***************************************************************************)
EXTENDS Integers, Sequences, FiniteSets

CONSTANTS
  Tabs,        \* tabs of one browser that have the application open
  Departing,   \* bound: those where one signs out, deletes the account or reloads
  Analysable,  \* the games there are
  Passes,      \* bound: passes that run at once
  Plies,       \* the legal moves of each game
  Ended,       \* the games whose last move ended them by the rules
  Build,       \* ANALYSIS_IDENTITY of the code each tab runs
  None

ASSUME AnalysisAssumption ==
  /\ Tabs # {} /\ Analysable # {} /\ Departing \subseteq Tabs
  /\ Plies \in [Analysable -> Nat]
  /\ Ended \subseteq {g \in Analysable : Plies[g] > 0}
  /\ DOMAIN Build = Tabs
  /\ None \notin Passes

VARIABLES
  store,     \* the stored report of each game
  conn,      \* the tabs with an open connection to the database
  erasure,   \* each tab's deletion of the database; "no" until it asks
  entry,     \* the cache entry of each game, per tab
  pass

dbVars == <<store, conn, erasure>>
vars   == <<dbVars, entry, pass>>

-----------------------------------------------------------------------------
Builds  == {Build[t] : t \in Tabs}
Grades  == [ply : Nat, before : Nat, after : Nat, build : Builds]
\* by: the tab that wrote the report.
Reports == [build : Builds, grades : Seq(Grades), by : Tabs]
\* owner: the pass the query itself waits for; live: a search is shown.
Entries == [grades : Seq(Grades), live : BOOLEAN, complete : BOOLEAN,
            owner : Passes \cup {None}, failed : BOOLEAN]
Queued  == {"asked", "blocked"}
Erasures == Queued \cup {"erased", "failed"}
Stages  == {"idle", "reading", "searching", "saving", "writing", "ending"}
PassStates == [pc : Stages, tab : Tabs, game : Analysable, at : Nat, current : Nat,
               grades : Seq(Grades)]

TypeOK ==
  /\ store \in [Analysable -> Reports \cup {None}]
  /\ conn \subseteq Tabs
  /\ erasure \in [Tabs -> {"no"} \cup Erasures]
  /\ entry \in [Tabs -> [Analysable -> Entries \cup {None}]]
  /\ pass \in [Passes -> PassStates]

EmptyEntry == [grades |-> <<>>, live |-> FALSE, complete |-> FALSE, owner |-> None,
               failed |-> FALSE]
NewPass(t, g) == [pc |-> "reading", tab |-> t, game |-> g, at |-> 0,
                  current |-> 0, grades |-> <<>>]
NoPass == [NewPass(CHOOSE t \in Tabs : TRUE, CHOOSE g \in Analysable : TRUE) EXCEPT !.pc = "idle"]

Init ==
  /\ store = [g \in Analysable |-> None]
  /\ conn = {}
  /\ erasure = [t \in Tabs |-> "no"]
  /\ entry = [t \in Tabs |-> [g \in Analysable |-> None]]
  /\ pass = [p \in Passes |-> NoPass]

Running(p)    == pass[p].pc # "idle"
Idle(p)       == [pass EXCEPT ![p] = NoPass]
Deleting      == \E t \in Tabs : erasure[t] \in Queued
\* Fault: storage is not turned off by the erasure.
OpensErased(t) == t \in conn \/ ~Deleting

\* openAnalysisDb in tab t: refused once the tab erased, queued behind a deletion;
\* the browser may refuse it too.
Opens(t)      == erasure[t] = "no" /\ (t \in conn \/ ~Deleting)
OpensDb(t)    == Opens(t) /\ conn' = conn \cup {t}
RefusesDb(t)  == (erasure[t] # "no" \/ t \in conn \/ ~Deleting) /\ UNCHANGED conn

-----------------------------------------------------------------------------
\* reduceAnalysis, on the entry as it is when the event arrives.
Known(t, g) == IF entry[t][g] = None THEN EmptyEntry ELSE entry[t][g]
PositionUpdate(e)       == [e EXCEPT !.live = TRUE]
PlyGraded(e, grade)     == [e EXCEPT !.grades = Append(@, grade), !.live = FALSE,
                                     !.complete = FALSE]
Completed(e, grades)    == [e EXCEPT !.grades = grades, !.live = FALSE, !.complete = TRUE]
Reduced(p, e)  == [entry EXCEPT ![pass[p].tab][pass[p].game] = e]
Entry(p)       == Known(pass[p].tab, pass[p].game)
HasData(e)     == e.complete \/ e.live \/ e.grades # <<>>

\* Fault: the grade at that place, whichever ply it is of.
GradeAtUnchecked(grades, ply) == IF ply \in DOMAIN grades THEN grades[ply] ELSE None

\* What a consumer reads for a ply: gradeAtPly.
GradeAt(grades, ply) ==
  IF ply \in DOMAIN grades /\ grades[ply].ply = ply THEN grades[ply] ELSE None

-----------------------------------------------------------------------------
Start(p, t, g) ==
  /\ ~Running(p)
  /\ pass' = [pass EXCEPT ![p] = NewPass(t, g)]
  /\ entry' = [entry EXCEPT ![t][g] = [EmptyEntry EXCEPT !.owner = p]]
  /\ UNCHANGED dbVars

\* The route's loader or a screen asks for the analysis.  Data never goes
\* stale, and a pass under way is shared.
Load(p, t, g) ==
  /\ \/ entry[t][g] = None
     \/ Known(t, g).failed /\ ~HasData(Known(t, g))
  /\ Start(p, t, g)

\* "Try again", offered for a failed pass only.
Restart(p, t, g) ==
  /\ Known(t, g).failed
  /\ Start(p, t, g)

\* An entry nobody looks at and no fetch is filling is collected.
Collect(t, g) ==
  /\ entry[t][g] # None /\ entry[t][g].owner = None
  /\ entry' = [entry EXCEPT ![t][g] = None]
  /\ UNCHANGED <<dbVars, pass>>

\* Signing out empties the cache.  No pass is stopped by it.
Cleared(t) == [entry EXCEPT ![t] = [g \in Analysable |-> None]]
SignOut(t) ==
  /\ t \in Departing
  /\ entry' = Cleared(t)
  /\ UNCHANGED <<dbVars, pass>>

\* COMPLETED reaches the consumer, the pass is about to return.
Announce(p, grades) ==
  /\ pass' = [pass EXCEPT ![p].pc = "ending"]
  /\ entry' = Reduced(p, Completed(Entry(p), grades))

\* A stored report answers only for the build that made it.
Usable(p) == LET r == store[pass[p].game]
             IN r # None /\ r.build = Build[pass[p].tab]

FindReport(p) ==
  /\ pass[p].pc = "reading"
  /\ OpensDb(pass[p].tab) /\ Usable(p)
  /\ Announce(p, store[pass[p].game].grades)
  /\ UNCHANGED <<store, erasure>>

FindNothing(p) ==
  /\ pass[p].pc = "reading"
  /\ \/ OpensDb(pass[p].tab) /\ ~Usable(p)
     \/ RefusesDb(pass[p].tab)
  /\ pass' = [pass EXCEPT ![p].pc = IF Plies[pass[p].game] = 0 THEN "saving" ELSE "searching"]
  /\ UNCHANGED <<store, erasure, entry>>

\* The position being searched: at = 0 is the one before the first move.  The
\* one a game ended in is scored from the rules.
ByTheRules(p) == pass[p].game \in Ended /\ pass[p].at = Plies[pass[p].game]

SearchReports(p) ==
  /\ pass[p].pc = "searching" /\ ~ByTheRules(p)
  /\ entry' = Reduced(p, PositionUpdate(Entry(p)))
  /\ UNCHANGED <<dbVars, pass>>

\* The evaluation after a move is the one before the next.
GradeOf(p) == [ply |-> pass[p].at, before |-> pass[p].current, after |-> pass[p].at,
               build |-> Build[pass[p].tab]]
\* Fault: the last move is left out.
EvaluatedShort(p) ==
  LET last == pass[p].at + 1 >= Plies[pass[p].game]
      more == IF pass[p].at = 0 THEN <<>> ELSE <<GradeOf(p)>>
  IN [pass EXCEPT ![p] =
        [pass[p] EXCEPT !.pc = IF last THEN "saving" ELSE "searching",
                        !.at = IF last THEN pass[p].at ELSE pass[p].at + 1,
                        !.current = pass[p].at,
                        !.grades = pass[p].grades \o more]]

Evaluated(p) ==
  LET last == pass[p].at = Plies[pass[p].game]
      more == IF pass[p].at = 0 THEN <<>> ELSE <<GradeOf(p)>>
  IN [pass EXCEPT ![p] =
        [pass[p] EXCEPT !.pc = IF last THEN "saving" ELSE "searching",
                        !.at = IF last THEN pass[p].at ELSE pass[p].at + 1,
                        !.current = pass[p].at,
                        !.grades = pass[p].grades \o more]]

Evaluate(p) ==
  /\ pass[p].pc = "searching"
  /\ pass' = Evaluated(p)
  /\ entry' = IF pass[p].at = 0 THEN entry
              ELSE Reduced(p, PlyGraded(Entry(p), GradeOf(p)))
  /\ UNCHANGED dbVars

\* The stream throws.  The query fails if it is still waiting for this pass.
Failed(p) ==
  LET e == Entry(p)
  IN IF e.owner = p THEN Reduced(p, [e EXCEPT !.owner = None, !.failed = TRUE]) ELSE entry
SearchFails(p) ==
  /\ pass[p].pc = "searching" /\ ~ByTheRules(p)
  /\ pass' = Idle(p)
  /\ entry' = Failed(p)
  /\ UNCHANGED dbVars

\* saveReport.  It is awaited before the news, and never fails the pass.
StartSave(p) ==
  /\ pass[p].pc = "saving"
  /\ \/ /\ OpensDb(pass[p].tab)
        /\ pass' = [pass EXCEPT ![p].pc = "writing"]
        /\ UNCHANGED entry
     \/ RefusesDb(pass[p].tab) /\ Announce(p, pass[p].grades)
  /\ UNCHANGED <<store, erasure>>

ReportOf(p) == [build |-> Build[pass[p].tab], grades |-> pass[p].grades, by |-> pass[p].tab]
FinishWrite(p) ==
  /\ pass[p].pc = "writing"
  /\ store' \in {store, [store EXCEPT ![pass[p].game] = ReportOf(p)]}
  /\ Announce(p, pass[p].grades)
  /\ UNCHANGED <<conn, erasure>>

\* The evaluator is disposed of, the stream ends.
End(p) ==
  /\ pass[p].pc = "ending"
  /\ pass' = Idle(p)
  /\ entry' = IF Entry(p).owner = p THEN Reduced(p, [Entry(p) EXCEPT !.owner = None]) ELSE entry
  /\ UNCHANGED dbVars

-----------------------------------------------------------------------------
\* The account was deleted: the cache is emptied, the tab closes its connection
\* and stores nothing from here on, and asks for the database's deletion.
Erase(t) ==
  /\ t \in Departing /\ erasure[t] = "no"
  /\ erasure' = [erasure EXCEPT ![t] = "asked"]
  /\ conn' = conn \ {t}
  /\ entry' = Cleared(t)
  /\ UNCHANGED <<store, pass>>

\* Fault: nobody listens.
BlockingUnheard(t) == Deleting /\ t \in conn /\ UNCHANGED vars

\* Every other open connection hears of a deletion and closes; a write under
\* way is finished first.
Blocking(t) ==
  /\ Deleting /\ t \in conn
  /\ conn' = conn \ {t}
  /\ UNCHANGED <<store, erasure, entry, pass>>

InUse == conn # {} \/ \E p \in Passes : pass[p].pc = "writing"

\* The caller has its answer, the deletion stays queued.
Blocked(t) ==
  /\ erasure[t] = "asked" /\ InUse
  /\ erasure' = [erasure EXCEPT ![t] = "blocked"]
  /\ UNCHANGED <<store, conn, entry, pass>>

DeleteStore(t) ==
  /\ erasure[t] \in Queued /\ ~InUse
  /\ erasure' = [erasure EXCEPT ![t] = "erased"]
  /\ store' = [g \in Analysable |-> None]
  /\ UNCHANGED <<conn, entry, pass>>

DeleteFails(t) ==
  /\ erasure[t] \in Queued
  /\ erasure' = [erasure EXCEPT ![t] = "failed"]
  /\ UNCHANGED <<store, conn, entry, pass>>

\* The tab is reloaded or closed: nothing of it is left but what it stored.
Reload(t) ==
  /\ t \in Departing
  /\ conn' = conn \ {t}
  /\ erasure' = [erasure EXCEPT ![t] = "no"]
  /\ entry' = Cleared(t)
  /\ pass' = [p \in Passes |-> IF pass[p].tab = t THEN NoPass ELSE pass[p]]
  /\ UNCHANGED store

-----------------------------------------------------------------------------
PassStep(p) ==
  \/ FindReport(p) \/ FindNothing(p)
  \/ SearchReports(p) \/ Evaluate(p) \/ SearchFails(p)
  \/ StartSave(p) \/ FinishWrite(p) \/ End(p)

TabStep(t) ==
  \/ \E g \in Analysable : Collect(t, g)
  \/ \E p \in Passes, g \in Analysable : Load(p, t, g) \/ Restart(p, t, g)
  \/ SignOut(t) \/ Erase(t) \/ Reload(t)
  \/ Blocking(t) \/ Blocked(t) \/ DeleteStore(t) \/ DeleteFails(t)

Next == (\E p \in Passes : PassStep(p)) \/ (\E t \in Tabs : TabStep(t))

Spec == Init /\ [][Next]_vars

\* The database finishes the writes it accepted and tells open connections of
\* a deletion, which it carries out once it can.
Fairness ==
  /\ \A p \in Passes : WF_vars(FinishWrite(p))
  /\ \A t \in Tabs : WF_vars(Blocking(t)) /\ WF_vars(DeleteStore(t))

FairSpec == Spec /\ Fairness

-----------------------------------------------------------------------------
\* A grade of ply n was made from the positions before and after it.
IsOwn(grade, n, b) == grade = [ply |-> n, before |-> n - 1, after |-> n, build |-> b]

\* What a screen shows at a ply is the grade of that ply, made by this build,
\* even when two passes fill one entry (game-analysis-query, gradeAtPly).
ShownGradeIsOwn ==
  \A t \in Tabs, g \in Analysable : entry[t][g] # None =>
    \A n \in 1..Plies[g] : LET shown == GradeAt(entry[t][g].grades, n)
                           IN shown # None => IsOwn(shown, n, Build[t])

\* A stored report grades the whole game, each ply from its own positions: a
\* pass that fails or is abandoned leaves none (analyzeGameInBrowser).
StoredReportIsWhole ==
  \A g \in Analysable : store[g] # None =>
    /\ Len(store[g].grades) = Plies[g]
    /\ \A n \in 1..Plies[g] : IsOwn(store[g].grades[n], n, store[g].build)

\* Once its deletion was carried out a tab's passes write nothing back, however
\* far they were (eraseAnalysisReports).
ErasedTabWritesNothing ==
  \A g \in Analysable : store[g] # None => erasure[store[g].by] # "erased"

\* A deletion other tabs are in the way of is carried out in the end, or fails
\* (analysis-db, blocking).
EraseCarriedOut == \A t \in Departing : erasure[t] \in Queued ~> erasure[t] \notin Queued
=============================================================================
