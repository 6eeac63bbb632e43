--------------------------- MODULE GameAnalysisProofs ---------------------------
(***************************************************************************)
(* Proofs about GameAnalysis, for any tabs, games of any length and any    *)
(* number of passes at once.                                               *)
(***************************************************************************)
EXTENDS GameAnalysis, TLAPS

\* The first grades of a game, each in its place.
Whole(grades, b) == \A n \in 1..Len(grades) : IsOwn(grades[n], n, b)

\* Grades in any order, each made from the positions around its own ply.
Honest(grades, b) == \A k \in 1..Len(grades) : IsOwn(grades[k], grades[k].ply, b)

\* How far a pass is tells what it has graded.
Graded(s) ==
  /\ s.pc = "reading" => s.at = 0 /\ s.grades = <<>>
  /\ s.pc = "searching" =>
       /\ s.at \in 0..Plies[s.game] /\ Whole(s.grades, Build[s.tab])
       /\ Len(s.grades) = IF s.at = 0 THEN 0 ELSE s.at - 1
       /\ s.at > 0 => s.current = s.at - 1
  /\ s.pc \in {"saving", "writing"} =>
       Whole(s.grades, Build[s.tab]) /\ Len(s.grades) = Plies[s.game]

Passing == pass \in [Passes -> PassStates] /\ \A p \in Passes : Graded(pass[p])

Stored ==
  /\ store \in [Analysable -> Reports \cup {None}]
  /\ \A g \in Analysable : store[g] # None =>
       Whole(store[g].grades, store[g].build) /\ Len(store[g].grades) = Plies[g]

Shown ==
  /\ entry \in [Tabs -> [Analysable -> Entries \cup {None}]]
  /\ \A t \in Tabs, g \in Analysable :
       entry[t][g] # None => Honest(entry[t][g].grades, Build[t])

\* A tab whose deletion was carried out has no write under way either.
Silent ==
  \A t \in Tabs : erasure[t] = "erased" =>
    /\ \A p \in Passes : pass[p].pc = "writing" => pass[p].tab # t
    /\ \A g \in Analysable : store[g] # None => store[g].by # t

Open == conn \subseteq Tabs /\ erasure \in [Tabs -> {"no"} \cup Erasures]

-----------------------------------------------------------------------------
LEMMA WholeIsHonest ==
  ASSUME NEW grades, NEW b, Whole(grades, b)
  PROVE  Honest(grades, b)
<1>1. ASSUME NEW n \in 1..Len(grades) PROVE IsOwn(grades[n], grades[n].ply, b)
  <2>1. IsOwn(grades[n], n, b)
    BY DEF Whole
  <2>2. grades[n].ply = n
    BY <2>1 DEF IsOwn
  <2>3. QED BY <2>1, <2>2
<1>2. QED BY <1>1 DEF Honest

LEMMA Extended ==
  ASSUME NEW b \in Builds, NEW n \in Nat \ {0}
  PROVE  LET grade == [ply |-> n, before |-> n - 1, after |-> n, build |-> b]
         IN  /\ grade \in Grades
             /\ \A s \in Seq(Grades) : Honest(s, b) => Honest(Append(s, grade), b)
             /\ \A s \in Seq(Grades) : Whole(s, b) /\ Len(s) = n - 1 => Whole(Append(s, grade), b)
<1> DEFINE grade == [ply |-> n, before |-> n - 1, after |-> n, build |-> b]
<1>1. grade \in Grades
  BY DEF Grades
<1>2. IsOwn(grade, n, b) /\ grade.ply = n
  BY DEF IsOwn
<1> HIDE DEF grade
<1>3. ASSUME NEW s \in Seq(Grades), Honest(s, b)
      PROVE  Honest(Append(s, grade), b)
  BY <1>1, <1>2, <1>3 DEF Honest
<1>4. ASSUME NEW s \in Seq(Grades), Whole(s, b), Len(s) = n - 1
      PROVE  Whole(Append(s, grade), b)
  BY <1>1, <1>2, <1>4 DEF Whole
<1>5. QED BY <1>1, <1>3, <1>4 DEF grade

LEMMA NoPassIdle == NoPass \in PassStates /\ Graded(NoPass) /\ NoPass.pc = "idle"
<1>1. PICK t \in Tabs, g \in Analysable : NoPass = [NewPass(t, g) EXCEPT !.pc = "idle"]
  <2>1. (CHOOSE t \in Tabs : TRUE) \in Tabs /\ (CHOOSE g \in Analysable : TRUE) \in Analysable
    BY AnalysisAssumption
  <2>2. QED BY <2>1 DEF NoPass
<1>2. NoPass = [pc |-> "idle", tab |-> t, game |-> g, at |-> 0, current |-> 0, grades |-> <<>>]
  BY <1>1 DEF NewPass
<1>3. <<>> \in Seq(Grades)
  OBVIOUS
<1>4. QED BY <1>2, <1>3 DEF PassStates, Stages, Graded

LEMMA NewPassGraded ==
  ASSUME NEW t \in Tabs, NEW g \in Analysable
  PROVE  NewPass(t, g) \in PassStates /\ Graded(NewPass(t, g)) /\ NewPass(t, g).pc = "reading"
<1>1. <<>> \in Seq(Grades)
  OBVIOUS
<1>2. QED BY <1>1 DEF NewPass, PassStates, Stages, Graded

LEMMA PassSet ==
  ASSUME Passing, NEW p \in Passes, NEW s \in PassStates, Graded(s), pass' = [pass EXCEPT ![p] = s]
  PROVE  Passing' /\ pass'[p] = s /\ \A q \in Passes \ {p} : pass'[q] = pass[q]
<1>1. pass' \in [Passes -> PassStates] /\ pass'[p] = s /\ \A q \in Passes \ {p} : pass'[q] = pass[q]
  BY DEF Passing
<1>2. \A q \in Passes : Graded(pass'[q])
  BY <1>1 DEF Passing
<1>3. (\A q \in Passes : Graded(pass[q]))'
  BY <1>2 DEF Graded, Whole, IsOwn
<1>4. QED BY <1>1, <1>3 DEF Passing

LEMMA EntrySet ==
  ASSUME Shown, NEW t \in Tabs, NEW g \in Analysable, NEW e \in Entries \cup {None},
         e # None => Honest(e.grades, Build[t]), entry' = [entry EXCEPT ![t][g] = e]
  PROVE  Shown'
<1>1. entry' \in [Tabs -> [Analysable -> Entries \cup {None}]]
  BY DEF Shown
<1>2. ASSUME NEW t1 \in Tabs, NEW g1 \in Analysable, entry'[t1][g1] # None
      PROVE  Honest(entry'[t1][g1].grades, Build[t1])
  <2>1. CASE t1 = t /\ g1 = g
    BY <1>2, <2>1 DEF Shown
  <2>2. CASE t1 # t \/ g1 # g
    <3>1. entry'[t1][g1] = entry[t1][g1]
      BY <2>2 DEF Shown
    <3>2. QED BY <1>2, <3>1 DEF Shown
  <2>3. QED BY <2>1, <2>2
<1>3. (\A t1 \in Tabs, g1 \in Analysable :
         entry[t1][g1] # None => Honest(entry[t1][g1].grades, Build[t1]))'
  BY <1>2 DEF Honest, IsOwn
<1>4. QED BY <1>1, <1>3 DEF Shown

LEMMA EntryKept == ASSUME Shown, UNCHANGED entry PROVE Shown'
BY DEF Shown, Honest, IsOwn

LEMMA KnownHonest ==
  ASSUME Shown, NEW t \in Tabs, NEW g \in Analysable
  PROVE  Known(t, g) \in Entries /\ Honest(Known(t, g).grades, Build[t])
<1>1. EmptyEntry \in Entries /\ EmptyEntry.grades = <<>>
  <2>1. <<>> \in Seq(Grades)
    OBVIOUS
  <2>2. QED BY <2>1 DEF EmptyEntry, Entries
<1>2. QED BY <1>1 DEF Known, Shown, Honest

LEMMA ClearedHonest ==
  ASSUME Shown, NEW t \in Tabs, entry' = Cleared(t)
  PROVE  Shown'
<1>1. entry' \in [Tabs -> [Analysable -> Entries \cup {None}]]
  BY DEF Shown, Cleared
<1>2. \A t1 \in Tabs, g1 \in Analysable : entry'[t1][g1] = None \/ entry'[t1][g1] = entry[t1][g1]
  BY DEF Shown, Cleared
<1>3. QED BY <1>1, <1>2 DEF Shown, Honest, IsOwn

-----------------------------------------------------------------------------
\* What reduceAnalysis makes of an entry.
LEMMA Reductions ==
  ASSUME NEW e \in Entries, NEW b \in Builds, Honest(e.grades, b)
  PROVE  /\ PositionUpdate(e) \in Entries /\ Honest(PositionUpdate(e).grades, b)
         /\ \A s \in Seq(Grades) : Honest(s, b) =>
              Completed(e, s) \in Entries /\ Honest(Completed(e, s).grades, b)
         /\ \A d \in Grades : Honest(Append(e.grades, d), b) =>
              PlyGraded(e, d) \in Entries /\ Honest(PlyGraded(e, d).grades, b)
         /\ \A f \in BOOLEAN :
              LET r == [e EXCEPT !.owner = None, !.failed = f]
              IN  r \in Entries /\ Honest(r.grades, b)
         /\ LET r == [e EXCEPT !.owner = None] IN r \in Entries /\ Honest(r.grades, b)
<1>1. e.grades \in Seq(Grades)
  BY DEF Entries
<1>2. PositionUpdate(e) \in Entries /\ PositionUpdate(e).grades = e.grades
  BY DEF PositionUpdate, Entries
<1>3. ASSUME NEW s \in Seq(Grades)
      PROVE  Completed(e, s) \in Entries /\ Completed(e, s).grades = s
  BY <1>3 DEF Completed, Entries
<1>4. ASSUME NEW d \in Grades
      PROVE  PlyGraded(e, d) \in Entries /\ PlyGraded(e, d).grades = Append(e.grades, d)
  <2>1. Append(e.grades, d) \in Seq(Grades)
    BY <1>1
  <2>2. QED BY <2>1 DEF PlyGraded, Entries
<1>5. ASSUME NEW f \in BOOLEAN
      PROVE  LET r == [e EXCEPT !.owner = None, !.failed = f]
             IN  r \in Entries /\ r.grades = e.grades
  BY DEF Entries
<1>6. LET r == [e EXCEPT !.owner = None] IN r \in Entries /\ r.grades = e.grades
  BY DEF Entries
<1>7. QED BY <1>2, <1>3, <1>4, <1>5, <1>6

IInv == Passing /\ Stored /\ Shown /\ Silent /\ Open

LEMMA StoredKept == ASSUME Stored, UNCHANGED store PROVE Stored'
BY DEF Stored, Whole, IsOwn

LEMMA PassesKept == ASSUME Passing, UNCHANGED pass PROVE Passing'
BY DEF Passing, Graded, Whole, IsOwn

\* A step that writes nothing and carries out no deletion.
LEMMA StaysSilent ==
  ASSUME Silent, UNCHANGED store,
         \A p \in Passes : pass'[p].pc = "writing" => pass[p].pc = "writing" /\ pass'[p].tab = pass[p].tab,
         \A t \in Tabs : erasure'[t] = "erased" => erasure[t] = "erased"
  PROVE  Silent'
BY DEF Silent

LEMMA AnalysisInit == Init => IInv
<1> SUFFICES ASSUME Init PROVE IInv
  OBVIOUS
<1>1. Passing
  BY NoPassIdle DEF Init, Passing
<1>2. Stored /\ Shown
  BY DEF Init, Stored, Shown
<1>3. Silent /\ Open
  BY DEF Init, Silent, Open
<1>4. QED BY <1>1, <1>2, <1>3 DEF IInv

-----------------------------------------------------------------------------
\* The parts of a step of a pass that many steps share.
LEMMA Here ==
  ASSUME IInv, NEW p \in Passes
  PROVE  /\ pass[p] \in PassStates /\ Graded(pass[p])
         /\ pass[p].tab \in Tabs /\ pass[p].game \in Analysable
         /\ Build[pass[p].tab] \in Builds /\ Plies[pass[p].game] \in Nat
         /\ Entry(p) \in Entries /\ Honest(Entry(p).grades, Build[pass[p].tab])
<1>1. pass[p] \in PassStates /\ Graded(pass[p])
  BY DEF IInv, Passing
<1>2. pass[p].tab \in Tabs /\ pass[p].game \in Analysable
  BY <1>1 DEF PassStates
<1>3. Build[pass[p].tab] \in Builds
  BY <1>2 DEF Builds
<1>4. Plies[pass[p].game] \in Nat
  BY <1>2, AnalysisAssumption
<1>5. Entry(p) \in Entries /\ Honest(Entry(p).grades, Build[pass[p].tab])
  BY <1>2, KnownHonest DEF Entry, IInv
<1>6. QED BY <1>1, <1>2, <1>3, <1>4, <1>5

LEMMA ReducedShown ==
  ASSUME IInv, NEW p \in Passes, NEW e \in Entries, Honest(e.grades, Build[pass[p].tab]),
         entry' = Reduced(p, e)
  PROVE  Shown'
<1>1. pass[p].tab \in Tabs /\ pass[p].game \in Analysable
  BY Here
<1>2. QED BY <1>1, EntrySet DEF IInv, Reduced

\* Only the stage of a pass changes.
LEMMA Staged ==
  ASSUME IInv, NEW p \in Passes, NEW c \in Stages, pass' = [pass EXCEPT ![p].pc = c],
         Graded([pass[p] EXCEPT !.pc = c])
  PROVE  /\ Passing' /\ pass'[p].pc = c /\ pass'[p].tab = pass[p].tab
         /\ \A q \in Passes \ {p} : pass'[q] = pass[q]
<1> DEFINE s == [pass[p] EXCEPT !.pc = c]
<1>1. pass[p] \in PassStates
  BY Here
<1>2. s \in PassStates /\ s.pc = c /\ s.tab = pass[p].tab
  BY <1>1 DEF PassStates
<1>3. pass' = [pass EXCEPT ![p] = s]
  BY DEF IInv, Passing
<1> HIDE DEF s
<1>4. Graded(s)
  BY DEF s
<1>5. Passing' /\ pass'[p] = s /\ \A q \in Passes \ {p} : pass'[q] = pass[q]
  BY <1>2, <1>3, <1>4, PassSet DEF IInv
<1>6. QED BY <1>2, <1>5

LEMMA AnnounceKeeps ==
  ASSUME IInv, NEW p \in Passes, NEW grades \in Seq(Grades), Honest(grades, Build[pass[p].tab]),
         Announce(p, grades)
  PROVE  /\ Passing' /\ Shown' /\ pass'[p].pc = "ending"
         /\ \A q \in Passes \ {p} : pass'[q] = pass[q]
<1>1. Graded([pass[p] EXCEPT !.pc = "ending"]) /\ "ending" \in Stages
  <2>1. [pass[p] EXCEPT !.pc = "ending"].pc = "ending"
    BY Here DEF PassStates
  <2>2. QED BY <2>1 DEF Graded, Stages
<1>2. /\ Passing' /\ pass'[p].pc = "ending"
      /\ \A q \in Passes \ {p} : pass'[q] = pass[q]
  BY <1>1, Staged DEF Announce
<1>3. Completed(Entry(p), grades) \in Entries
      /\ Honest(Completed(Entry(p), grades).grades, Build[pass[p].tab])
  BY Here, Reductions
<1>4. Shown'
  BY <1>3, ReducedShown DEF Announce
<1>5. QED BY <1>2, <1>4

\* The database is opened, or not.
LEMMA Opened ==
  ASSUME IInv, NEW p \in Passes,
         OpensDb(pass[p].tab) \/ RefusesDb(pass[p].tab), UNCHANGED erasure
  PROVE  Open'
<1>1. pass[p].tab \in Tabs
  BY Here
<1>2. QED BY <1>1 DEF OpensDb, RefusesDb, IInv, Open

-----------------------------------------------------------------------------
LEMMA FindReportKeeps ==
  ASSUME IInv, NEW p \in Passes, FindReport(p)
  PROVE  IInv'
<1> DEFINE r == store[pass[p].game]
<1>1. r \in Reports /\ r.build = Build[pass[p].tab] /\ Whole(r.grades, r.build)
  BY Here DEF FindReport, Usable, IInv, Stored
<1>2. r.grades \in Seq(Grades) /\ Honest(r.grades, Build[pass[p].tab])
  BY <1>1, WholeIsHonest DEF Reports
<1>3. /\ Passing' /\ Shown' /\ pass'[p].pc = "ending"
      /\ \A q \in Passes \ {p} : pass'[q] = pass[q]
  BY <1>2, AnnounceKeeps DEF FindReport
<1>4. Stored' /\ Open'
  BY StoredKept, Opened DEF IInv, FindReport
<1>5. Silent'
  BY <1>3, StaysSilent DEF IInv, FindReport
<1>6. QED BY <1>3, <1>4, <1>5 DEF IInv

LEMMA FindNothingKeeps ==
  ASSUME IInv, NEW p \in Passes, FindNothing(p)
  PROVE  IInv'
<1>1. PICK c \in {"saving", "searching"} :
        /\ pass' = [pass EXCEPT ![p].pc = c]
        /\ c = "saving" <=> Plies[pass[p].game] = 0
  BY DEF FindNothing
<1>2. Graded([pass[p] EXCEPT !.pc = c])
  <2> DEFINE s == [pass[p] EXCEPT !.pc = c]
  <2>1. s.pc = c /\ s.at = pass[p].at /\ s.grades = pass[p].grades /\ s.game = pass[p].game
    BY Here DEF PassStates
  <2>2. s.at = 0 /\ s.grades = <<>> /\ Plies[s.game] \in Nat
    BY <2>1, Here DEF FindNothing, Graded
  <2> HIDE DEF s
  <2>3. Graded(s)
    BY <1>1, <2>1, <2>2 DEF Graded, Whole
  <2>4. QED BY <2>3 DEF s
<1>3. /\ Passing' /\ pass'[p].pc = c
      /\ \A q \in Passes \ {p} : pass'[q] = pass[q]
  BY <1>1, <1>2, Staged DEF Stages
<1>4. Stored' /\ Open' /\ Shown'
  BY StoredKept, Opened, EntryKept DEF IInv, FindNothing
<1>5. Silent'
  BY <1>3, StaysSilent DEF IInv, FindNothing
<1>6. QED BY <1>3, <1>4, <1>5 DEF IInv

LEMMA SearchReportsKeeps ==
  ASSUME IInv, NEW p \in Passes, SearchReports(p)
  PROVE  IInv'
<1>1. PositionUpdate(Entry(p)) \in Entries
      /\ Honest(PositionUpdate(Entry(p)).grades, Build[pass[p].tab])
  BY Here, Reductions
<1>2. Shown'
  BY <1>1, ReducedShown DEF SearchReports
<1>3. UNCHANGED <<store, conn, erasure, pass>>
  BY DEF SearchReports, dbVars
<1>4. QED BY <1>2, <1>3, StoredKept, PassesKept, StaysSilent DEF IInv, Open

LEMMA GradeOfOwn ==
  ASSUME IInv, NEW p \in Passes, pass[p].pc = "searching", pass[p].at # 0
  PROVE  /\ pass[p].at \in Nat \ {0}
         /\ GradeOf(p) = [ply |-> pass[p].at, before |-> pass[p].at - 1, after |-> pass[p].at,
                          build |-> Build[pass[p].tab]]
<1>1. pass[p].at \in 0..Plies[pass[p].game] /\ Graded(pass[p])
  BY Here DEF Graded
<1>2. pass[p].at \in Nat \ {0}
  BY <1>1, Here
<1>3. pass[p].current = pass[p].at - 1
  BY <1>1, <1>2 DEF Graded
<1>4. QED BY <1>2, <1>3 DEF GradeOf

LEMMA EvaluateKeeps ==
  ASSUME IInv, NEW p \in Passes, Evaluate(p)
  PROVE  IInv'
<1> DEFINE last == pass[p].at = Plies[pass[p].game]
           more == IF pass[p].at = 0 THEN <<>> ELSE <<GradeOf(p)>>
           c == IF last THEN "saving" ELSE "searching"
           n == IF last THEN pass[p].at ELSE pass[p].at + 1
           s == [pass[p] EXCEPT !.pc = c, !.at = n, !.current = pass[p].at,
                                !.grades = pass[p].grades \o more]
           b == Build[pass[p].tab]
<1>1. /\ pass[p] \in PassStates /\ pass[p].pc = "searching"
      /\ pass[p].at \in 0..Plies[pass[p].game] /\ Whole(pass[p].grades, b)
      /\ Len(pass[p].grades) = IF pass[p].at = 0 THEN 0 ELSE pass[p].at - 1
      /\ pass[p].grades \in Seq(Grades)
  BY Here DEF Evaluate, Graded, PassStates
<1>2. /\ pass[p].grades \o more \in Seq(Grades) /\ Whole(pass[p].grades \o more, b)
      /\ Len(pass[p].grades \o more) = pass[p].at
  <2>1. CASE pass[p].at = 0
    <3>1. more = <<>> /\ pass[p].grades \o more = pass[p].grades
      BY <1>1, <2>1
    <3>2. QED BY <1>1, <2>1, <3>1
  <2>2. CASE pass[p].at # 0
    <3>1. GradeOf(p) \in Grades /\ Whole(Append(pass[p].grades, GradeOf(p)), b)
      BY <1>1, <2>2, GradeOfOwn, Extended, Here
    <3>2. more = <<GradeOf(p)>> /\ pass[p].grades \o more = Append(pass[p].grades, GradeOf(p))
      BY <1>1, <2>2, <3>1
    <3>3. Len(Append(pass[p].grades, GradeOf(p))) = pass[p].at
      BY <1>1, <2>2, <3>1, Here
    <3>4. Append(pass[p].grades, GradeOf(p)) \in Seq(Grades)
      BY <1>1, <3>1
    <3> HIDE DEF more
    <3>5. QED BY <3>1, <3>2, <3>3, <3>4
  <2>3. QED BY <2>1, <2>2
<1> HIDE DEF more
<1>3. /\ s.pc = c /\ s.at = n /\ s.current = pass[p].at /\ s.grades = pass[p].grades \o more
      /\ s.tab = pass[p].tab /\ s.game = pass[p].game
  BY <1>1 DEF PassStates
<1>4. n \in Nat /\ c \in Stages /\ pass[p].at \in Nat /\ Plies[pass[p].game] \in Nat
  BY <1>1, Here DEF Stages
<1>5. s \in PassStates
  BY <1>1, <1>2, <1>4 DEF PassStates
<1>6. Graded(s)
  <2>1. CASE last
    BY <1>2, <1>3, <2>1 DEF Graded
  <2>2. CASE ~last
    <3>1. n \in 1..Plies[pass[p].game] /\ n - 1 = pass[p].at /\ n # 0
      BY <1>1, <1>4, <2>2
    <3>2. s.pc = "searching" /\ s.at = n
      BY <1>3, <2>2
    <3>3. /\ Whole(s.grades, Build[s.tab]) /\ Len(s.grades) = pass[p].at
          /\ s.current = pass[p].at /\ s.at # 0 /\ s.at - 1 = pass[p].at
          /\ s.at \in 0..Plies[s.game]
      BY <1>2, <1>3, <3>1
    <3> HIDE DEF s
    <3>4. QED BY <3>2, <3>3 DEF Graded
  <2>3. QED BY <2>1, <2>2
<1>7. pass' = [pass EXCEPT ![p] = s]
  <2>1. pass' = Evaluated(p)
    BY DEF Evaluate
  <2>2. QED BY <1>1, <2>1 DEF Evaluated, more
<1> HIDE DEF s
<1>8. Passing' /\ pass'[p] = s /\ \A q \in Passes \ {p} : pass'[q] = pass[q]
  BY <1>5, <1>6, <1>7, PassSet DEF IInv
<1>9. Shown'
  <2>1. CASE pass[p].at = 0
    BY <2>1, EntryKept DEF Evaluate, IInv
  <2>2. CASE pass[p].at # 0
    <3>1. GradeOf(p) \in Grades /\ Honest(Append(Entry(p).grades, GradeOf(p)), b)
      <4>1. Entry(p).grades \in Seq(Grades)
        BY Here DEF Entries
      <4>2. QED BY <1>1, <2>2, <4>1, GradeOfOwn, Extended, Here
    <3>2. PlyGraded(Entry(p), GradeOf(p)) \in Entries
          /\ Honest(PlyGraded(Entry(p), GradeOf(p)).grades, b)
      BY <3>1, Here, Reductions
    <3>3. QED BY <2>2, <3>2, ReducedShown DEF Evaluate
  <2>3. QED BY <2>1, <2>2
<1>10. UNCHANGED <<store, conn, erasure>>
  BY DEF Evaluate, dbVars
<1>11. Silent'
  <2>1. pass'[p].pc # "writing"
    BY <1>3, <1>8
  <2>2. QED BY <1>8, <1>10, <2>1, StaysSilent DEF IInv
<1>12. QED BY <1>8, <1>9, <1>10, <1>11, StoredKept DEF IInv, Open

\* A pass ends, with or without an answer.
LEMMA IdleKeeps ==
  ASSUME IInv, NEW p \in Passes, pass' = Idle(p)
  PROVE  /\ Passing' /\ pass'[p].pc = "idle" /\ \A q \in Passes \ {p} : pass'[q] = pass[q]
BY NoPassIdle, PassSet DEF IInv, Idle

LEMMA SearchFailsKeeps ==
  ASSUME IInv, NEW p \in Passes, SearchFails(p)
  PROVE  IInv'
<1>1. Passing' /\ pass'[p].pc = "idle" /\ \A q \in Passes \ {p} : pass'[q] = pass[q]
  BY IdleKeeps DEF SearchFails
<1>2. Shown'
  <2> DEFINE r == [Entry(p) EXCEPT !.owner = None, !.failed = TRUE]
  <2>1. r \in Entries /\ Honest(r.grades, Build[pass[p].tab])
    BY Here, Reductions
  <2>2. entry' = entry \/ entry' = Reduced(p, r)
    BY DEF SearchFails, Failed
  <2> HIDE DEF r
  <2>3. QED BY <2>1, <2>2, EntryKept, ReducedShown DEF IInv
<1>3. UNCHANGED <<store, conn, erasure>>
  BY DEF SearchFails, dbVars
<1>4. QED BY <1>1, <1>2, <1>3, StoredKept, StaysSilent DEF IInv, Open

LEMMA EndKeeps ==
  ASSUME IInv, NEW p \in Passes, End(p)
  PROVE  IInv'
<1>1. Passing' /\ pass'[p].pc = "idle" /\ \A q \in Passes \ {p} : pass'[q] = pass[q]
  BY IdleKeeps DEF End
<1>2. Shown'
  <2> DEFINE r == [Entry(p) EXCEPT !.owner = None]
  <2>1. r \in Entries /\ Honest(r.grades, Build[pass[p].tab])
    BY Here, Reductions
  <2>2. entry' = entry \/ entry' = Reduced(p, r)
    BY DEF End
  <2> HIDE DEF r
  <2>3. QED BY <2>1, <2>2, EntryKept, ReducedShown DEF IInv
<1>3. UNCHANGED <<store, conn, erasure>>
  BY DEF End, dbVars
<1>4. QED BY <1>1, <1>2, <1>3, StoredKept, StaysSilent DEF IInv, Open

LEMMA StartSaveKeeps ==
  ASSUME IInv, NEW p \in Passes, StartSave(p)
  PROVE  IInv'
<1>1. /\ pass[p].pc = "saving" /\ UNCHANGED <<store, erasure>>
      /\ Whole(pass[p].grades, Build[pass[p].tab]) /\ pass[p].grades \in Seq(Grades)
      /\ Len(pass[p].grades) = Plies[pass[p].game] /\ pass[p].tab \in Tabs
  BY Here DEF StartSave, Graded, PassStates
<1>2. Stored'
  BY <1>1, StoredKept DEF IInv
<1>3. CASE OpensDb(pass[p].tab) /\ pass' = [pass EXCEPT ![p].pc = "writing"] /\ UNCHANGED entry
  <2> DEFINE s == [pass[p] EXCEPT !.pc = "writing"]
  <2>1. /\ s.pc = "writing" /\ s.tab = pass[p].tab /\ s.game = pass[p].game
        /\ s.grades = pass[p].grades
    BY Here DEF PassStates
  <2> HIDE DEF s
  <2>2. Graded(s)
    BY <1>1, <2>1 DEF Graded
  <2>3. /\ Passing' /\ pass'[p].pc = "writing" /\ pass'[p].tab = pass[p].tab
        /\ \A q \in Passes \ {p} : pass'[q] = pass[q]
    BY <1>3, <2>2, Staged DEF Stages, s
  <2>4. erasure[pass[p].tab] = "no"
    BY <1>3 DEF OpensDb, Opens
  <2>5. Silent'
    BY <1>1, <2>3, <2>4 DEF IInv, Silent
  <2>6. QED BY <1>1, <1>2, <1>3, <2>3, <2>5, EntryKept, Opened DEF IInv
<1>4. CASE RefusesDb(pass[p].tab) /\ Announce(p, pass[p].grades)
  <2>1. /\ Passing' /\ Shown' /\ pass'[p].pc = "ending"
        /\ \A q \in Passes \ {p} : pass'[q] = pass[q]
    BY <1>1, <1>4, WholeIsHonest, AnnounceKeeps
  <2>2. Silent'
    BY <1>1, <2>1, StaysSilent DEF IInv
  <2>3. QED BY <1>1, <1>2, <1>4, <2>1, <2>2, Opened DEF IInv
<1>5. QED BY <1>3, <1>4 DEF StartSave

LEMMA FinishWriteKeeps ==
  ASSUME IInv, NEW p \in Passes, FinishWrite(p)
  PROVE  IInv'
<1> DEFINE r == ReportOf(p)
           h == pass[p].game
<1>1. /\ pass[p].pc = "writing" /\ UNCHANGED <<conn, erasure>>
      /\ Whole(pass[p].grades, Build[pass[p].tab]) /\ pass[p].grades \in Seq(Grades)
      /\ Len(pass[p].grades) = Plies[h] /\ pass[p].tab \in Tabs /\ h \in Analysable
  BY Here DEF FinishWrite, Graded, PassStates
<1>2. /\ Passing' /\ Shown' /\ pass'[p].pc = "ending"
      /\ \A q \in Passes \ {p} : pass'[q] = pass[q]
  BY <1>1, WholeIsHonest, AnnounceKeeps DEF FinishWrite
<1>3. CASE UNCHANGED store
  <2>1. Silent'
    BY <1>1, <1>2, <1>3, StaysSilent DEF IInv
  <2>2. QED BY <1>1, <1>2, <1>3, <2>1, StoredKept DEF IInv, Open
<1>4. CASE store' = [store EXCEPT ![h] = r]
  <2>1. /\ r \in Reports /\ r.build = Build[pass[p].tab] /\ r.grades = pass[p].grades
        /\ r.by = pass[p].tab
    BY <1>1, Here DEF ReportOf, Reports
  <2> HIDE DEF r
  <2>2. /\ store' \in [Analysable -> Reports \cup {None}] /\ store'[h] = r
        /\ \A g \in Analysable \ {h} : store'[g] = store[g]
    BY <1>1, <1>4, <2>1 DEF IInv, Stored
  <2>3. ASSUME NEW g \in Analysable, store'[g] # None
        PROVE  Whole(store'[g].grades, store'[g].build) /\ Len(store'[g].grades) = Plies[g]
    <3>1. CASE g = h
      BY <1>1, <2>1, <2>2, <3>1
    <3>2. CASE g # h
      BY <2>2, <2>3, <3>2 DEF IInv, Stored
    <3>3. QED BY <3>1, <3>2
  <2>4. Stored'
    BY <2>2, <2>3 DEF Stored, Whole, IsOwn
  <2>5. erasure[pass[p].tab] # "erased"
    BY <1>1 DEF IInv, Silent
  <2>6. Silent'
    BY <1>1, <1>2, <2>1, <2>2, <2>5 DEF IInv, Silent
  <2>7. QED BY <1>1, <1>2, <2>4, <2>6 DEF IInv, Open
<1>5. QED BY <1>3, <1>4 DEF FinishWrite

-----------------------------------------------------------------------------
LEMMA StartKeeps ==
  ASSUME IInv, NEW p \in Passes, NEW t \in Tabs, NEW g \in Analysable, Start(p, t, g)
  PROVE  IInv'
<1> DEFINE e == [EmptyEntry EXCEPT !.owner = p]
<1>1. /\ pass' = [pass EXCEPT ![p] = NewPass(t, g)] /\ entry' = [entry EXCEPT ![t][g] = e]
      /\ UNCHANGED <<store, conn, erasure>>
  BY DEF Start, dbVars
<1>2. /\ Passing' /\ pass'[p] = NewPass(t, g)
      /\ \A q \in Passes \ {p} : pass'[q] = pass[q]
  BY <1>1, NewPassGraded, PassSet DEF IInv
<1>3. e \in Entries /\ e.grades = <<>>
  <2>1. <<>> \in Seq(Grades)
    OBVIOUS
  <2>2. QED BY <2>1 DEF EmptyEntry, Entries
<1>4. Honest(e.grades, Build[t])
  BY <1>3 DEF Honest
<1> HIDE DEF e
<1>5. Shown'
  BY <1>1, <1>3, <1>4, EntrySet DEF IInv
<1>6. Silent'
  BY <1>1, <1>2, NewPassGraded, StaysSilent DEF IInv
<1>7. QED BY <1>1, <1>2, <1>5, <1>6, StoredKept DEF IInv, Open

\* A step of a tab that runs no pass, writes nothing and deletes nothing.
LEMMA TabKeeps ==
  ASSUME IInv, Shown', Open', UNCHANGED <<store, pass>>,
         \A t \in Tabs : erasure'[t] = "erased" => erasure[t] = "erased"
  PROVE  IInv'
<1>1. Silent'
  BY StaysSilent DEF IInv
<1>2. QED BY <1>1, StoredKept, PassesKept DEF IInv

LEMMA DeleteStoreKeeps ==
  ASSUME IInv, NEW t \in Tabs, DeleteStore(t)
  PROVE  IInv'
<1>1. /\ \A p \in Passes : pass[p].pc # "writing"
      /\ erasure' = [erasure EXCEPT ![t] = "erased"]
      /\ store' = [g \in Analysable |-> None] /\ UNCHANGED <<conn, entry, pass>>
  BY DEF DeleteStore, InUse
<1>2. Stored' /\ Silent'
  BY <1>1 DEF Stored, Silent
<1>3. Open'
  BY <1>1 DEF IInv, Open, Erasures
<1>4. QED BY <1>1, <1>2, <1>3, PassesKept, EntryKept DEF IInv

LEMMA ReloadKeeps ==
  ASSUME IInv, NEW t \in Tabs, Reload(t)
  PROVE  IInv'
<1>1. /\ conn' = conn \ {t} /\ erasure' = [erasure EXCEPT ![t] = "no"] /\ entry' = Cleared(t)
      /\ pass' = [p \in Passes |-> IF pass[p].tab = t THEN NoPass ELSE pass[p]]
      /\ UNCHANGED store
  BY DEF Reload
<1>2. /\ pass' \in [Passes -> PassStates]
      /\ \A p \in Passes : pass'[p] = NoPass \/ pass'[p] = pass[p]
  BY <1>1, NoPassIdle DEF IInv, Passing
<1>3. \A p \in Passes : Graded(pass'[p])
  BY <1>2, NoPassIdle DEF IInv, Passing
<1>4. Passing'
  BY <1>2, <1>3 DEF Passing, Graded, Whole, IsOwn
<1>5. /\ erasure' \in [Tabs -> {"no"} \cup Erasures]
      /\ \A u \in Tabs : erasure'[u] = "erased" => erasure[u] = "erased"
  BY <1>1 DEF IInv, Open
<1>6. Open'
  BY <1>1, <1>5 DEF IInv, Open
<1>7. Silent'
  BY <1>1, <1>2, <1>5, NoPassIdle, StaysSilent DEF IInv
<1>8. QED BY <1>1, <1>4, <1>6, <1>7, StoredKept, ClearedHonest DEF IInv

LEMMA TabStepKeeps ==
  ASSUME IInv, NEW t \in Tabs, TabStep(t)
  PROVE  IInv'
<1>1. ASSUME NEW g \in Analysable, Collect(t, g) PROVE IInv'
  <2>1. entry' = [entry EXCEPT ![t][g] = None] /\ UNCHANGED <<store, conn, erasure, pass>>
    BY <1>1 DEF Collect, dbVars
  <2>2. Shown' /\ Open'
    BY <2>1, EntrySet DEF IInv, Open
  <2>3. QED BY <2>1, <2>2, TabKeeps
<1>2. ASSUME NEW p \in Passes, NEW g \in Analysable, Load(p, t, g) \/ Restart(p, t, g)
      PROVE  IInv'
  BY <1>2, StartKeeps DEF Load, Restart
<1>3. CASE SignOut(t)
  <2>1. entry' = Cleared(t) /\ UNCHANGED <<store, conn, erasure, pass>>
    BY <1>3 DEF SignOut, dbVars
  <2>2. Shown' /\ Open'
    BY <2>1, ClearedHonest DEF IInv, Open
  <2>3. QED BY <2>1, <2>2, TabKeeps
<1>4. CASE Erase(t)
  <2>1. /\ entry' = Cleared(t) /\ UNCHANGED <<store, pass>> /\ conn' = conn \ {t}
        /\ erasure' = [erasure EXCEPT ![t] = "asked"]
    BY <1>4 DEF Erase
  <2>2. Shown' /\ Open'
    BY <2>1, ClearedHonest DEF IInv, Open, Erasures, Queued
  <2>3. \A u \in Tabs : erasure'[u] = "erased" => erasure[u] = "erased"
    BY <2>1 DEF IInv, Open
  <2>4. QED BY <2>1, <2>2, <2>3, TabKeeps
<1>5. CASE Reload(t)
  BY <1>5, ReloadKeeps
<1>6. CASE Blocking(t)
  <2>1. conn' = conn \ {t} /\ UNCHANGED <<store, erasure, entry, pass>>
    BY <1>6 DEF Blocking
  <2>2. Shown' /\ Open'
    BY <2>1, EntryKept DEF IInv, Open
  <2>3. QED BY <2>1, <2>2, TabKeeps
<1>7. CASE Blocked(t) \/ DeleteFails(t)
  <2>1. PICK o \in {"blocked", "failed"} : erasure' = [erasure EXCEPT ![t] = o]
    BY <1>7 DEF Blocked, DeleteFails
  <2>2. UNCHANGED <<store, conn, entry, pass>>
    BY <1>7 DEF Blocked, DeleteFails
  <2>3. /\ Open'
        /\ \A u \in Tabs : erasure'[u] = "erased" => erasure[u] = "erased"
    BY <2>1, <2>2 DEF IInv, Open, Erasures, Queued
  <2>4. QED BY <2>2, <2>3, EntryKept, TabKeeps DEF IInv
<1>8. CASE DeleteStore(t)
  BY <1>8, DeleteStoreKeeps
<1>9. QED
  BY <1>1, <1>2, <1>3, <1>4, <1>5, <1>6, <1>7, <1>8 DEF TabStep

LEMMA AnalysisNext ==
  ASSUME IInv, [Next]_vars
  PROVE  IInv'
<1>1. ASSUME NEW p \in Passes, PassStep(p) PROVE IInv'
  BY <1>1, FindReportKeeps, FindNothingKeeps, SearchReportsKeeps, EvaluateKeeps,
     SearchFailsKeeps, StartSaveKeeps, FinishWriteKeeps, EndKeeps DEF PassStep
<1>2. ASSUME NEW t \in Tabs, TabStep(t) PROVE IInv'
  BY <1>2, TabStepKeeps
<1>3. ASSUME UNCHANGED vars PROVE IInv'
  <2>1. UNCHANGED <<store, conn, erasure, entry, pass>>
    BY <1>3 DEF vars, dbVars
  <2>2. QED BY <2>1, EntryKept, TabKeeps DEF IInv, Open
<1>4. QED BY <1>1, <1>2, <1>3 DEF Next

LEMMA AnalysisInvariant == Spec => []IInv
BY AnalysisInit, AnalysisNext, PTL DEF Spec

-----------------------------------------------------------------------------
\* Every value stays of its kind: the database, the connections, the cache
\* entries and the passes of every tab.
THEOREM AnalysisTyped == Spec => []TypeOK
<1>1. IInv => TypeOK
  BY DEF IInv, Passing, Stored, Shown, Open, TypeOK
<1>2. QED BY <1>1, AnalysisInvariant, PTL

\* What a screen shows at a ply is the grade of that ply, made by this build,
\* however many passes fill one entry (game-analysis-query, gradeAtPly).
THEOREM GradesAreOwn == Spec => []ShownGradeIsOwn
<1>1. ASSUME IInv PROVE ShownGradeIsOwn
  <2> SUFFICES ASSUME NEW t \in Tabs, NEW g \in Analysable, entry[t][g] # None,
                      NEW n \in 1..Plies[g], GradeAt(entry[t][g].grades, n) # None
               PROVE  IsOwn(GradeAt(entry[t][g].grades, n), n, Build[t])
    BY DEF ShownGradeIsOwn
  <2> DEFINE s == entry[t][g].grades
  <2>1. s \in Seq(Grades) /\ Honest(s, Build[t])
    BY <1>1 DEF IInv, Shown, Entries
  <2> HIDE DEF s
  <2>2. n \in DOMAIN s /\ s[n].ply = n /\ GradeAt(s, n) = s[n]
    BY DEF GradeAt, s
  <2>3. IsOwn(s[n], s[n].ply, Build[t])
    BY <2>1, <2>2 DEF Honest
  <2>4. QED BY <2>2, <2>3 DEF s
<1>2. QED BY <1>1, AnalysisInvariant, PTL

\* A stored report grades the whole game, each ply from its own positions, in
\* whatever order passes and tabs write (analyzeGameInBrowser).
THEOREM ReportsAreWhole == Spec => []StoredReportIsWhole
<1>1. IInv => StoredReportIsWhole
  BY DEF IInv, Stored, Whole, StoredReportIsWhole
<1>2. QED BY <1>1, AnalysisInvariant, PTL

\* Once its deletion was carried out a tab's passes write nothing back
\* (eraseAnalysisReports).
THEOREM ErasedStaysErased == Spec => []ErasedTabWritesNothing
<1>1. ASSUME IInv PROVE ErasedTabWritesNothing
  <2>1. \A g \in Analysable : store[g] # None => store[g].by \in Tabs
    BY <1>1 DEF IInv, Stored, Reports
  <2>2. QED BY <1>1, <2>1 DEF IInv, Silent, ErasedTabWritesNothing
<1>2. QED BY <1>1, AnalysisInvariant, PTL
=============================================================================
