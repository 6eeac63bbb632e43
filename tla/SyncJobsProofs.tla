--------------------------- MODULE SyncJobsProofs ---------------------------
(***************************************************************************)
(* Theorems about SyncJobs, for every set of accounts, number of jobs,     *)
(* retry limit and archive, whether or not attempts outlive their          *)
(* deliveries.                                                             *)
(***************************************************************************)
EXTENDS SyncJobs, TLAPS

\* The bound on deliveries is a positive number.
LEMMA DeliveriesBound == MaxDeliveries \in Nat /\ MaxDeliveries > 0
  BY ConstantsAssumption DEF MaxDeliveries

\* A function keeps its type when a value of it changes to one of the type.
LEMMA ExceptTyped ==
  ASSUME NEW S, NEW T, NEW f \in [S -> T], NEW x, NEW v \in T
  PROVE  [f EXCEPT ![x] = v] \in [S -> T]
  OBVIOUS

\* A row is inserted under an id that is a job's, and comes after the others.
LEMMA NewJobIsJob ==
  ASSUME made \in 0 .. MaxJobs, made < MaxJobs
  PROVE  NewJob \in Jobs /\ NewJob \in 0 .. MaxJobs
  BY ConstantsAssumption DEF NewJob, Jobs

\* A delivery and its number name an attempt, and an attempt names both.
LEMMA AttemptParts ==
  /\ \A j \in Jobs, n \in 1 .. MaxDeliveries : <<j, n>> \in Attempts
  /\ \A a \in Attempts : /\ a[1] \in Jobs
                         /\ a[2] \in 1 .. MaxDeliveries
                         /\ a = <<a[1], a[2]>>
  BY DEF Attempts

\* Where an attempt is sent, it stays an attempt.
LEMMA StageTyped ==
  ASSUME TypeOK, NEW a, NEW s \in RunningStage \cup {"idle", "gone"}, Stage(a, s)
  PROVE  /\ stage' \in [Attempts -> RunningStage \cup {"idle", "gone"}]
         /\ next' \in [Attempts -> 1 .. LastMonth + 1]
         /\ added' \in [Attempts -> SUBSET Months]
<1>1. stage' \in [Attempts -> RunningStage \cup {"idle", "gone"}]
  BY DEF TypeOK, Stage
<1>2. next' \in [Attempts -> 1 .. LastMonth + 1]
  <2>1. next \in [Attempts -> 1 .. LastMonth + 1] /\ 1 \in 1 .. LastMonth + 1
    BY ConstantsAssumption DEF TypeOK
  <2>2. QED
    BY <2>1, ExceptTyped DEF Stage
<1>3. added' \in [Attempts -> SUBSET Months]
  BY DEF TypeOK, Stage
<1>4. QED
  BY <1>1, <1>2, <1>3

\* The outcome of a pass keeps the row in its types.
LEMMA FinishedTyped ==
  ASSUME TypeOK, NEW j \in Jobs, NEW outcome \in ActiveStatus \cup SettledStatus,
         NEW error \in ErrorCode, NEW counted \in SUBSET Months,
         Finished(j, outcome, error, counted)
  PROVE  /\ status' \in [Jobs -> ActiveStatus \cup SettledStatus \cup {"absent"}]
         /\ errorCode' \in [Jobs -> ErrorCode]
         /\ inserted' \in [Jobs -> SUBSET Months]
         /\ announced' \in [Jobs -> Nat]
  BY DEF TypeOK, Finished

\* So does closing the dead rows.
LEMMA ClosedTyped ==
  ASSUME TypeOK, NEW D \in SUBSET Jobs, Closed(D)
  PROVE  /\ StatusClosed(D) \in [Jobs -> ActiveStatus \cup SettledStatus \cup {"absent"}]
         /\ errorCode' \in [Jobs -> ErrorCode]
         /\ announced' \in [Jobs -> Nat]
  BY DEF TypeOK, Closed, StatusClosed, SettledStatus, ErrorCode

-----------------------------------------------------------------------------
\* Every step leaves the variables in their types.
LEMMA TypeStep == TypeOK /\ Numbered /\ [Next]_vars => TypeOK'
<1> SUFFICES ASSUME TypeOK, Numbered, [Next]_vars PROVE TypeOK'
  OBVIOUS
<1> USE ConstantsAssumption DEF rowVars, queueVars, attemptVars, accountVars
<1>1. ASSUME NEW x \in Accounts, Connect(x) PROVE TypeOK'
  <2>1. NewJob \in Jobs /\ NewJob \in 0 .. MaxJobs
    BY <1>1, NewJobIsJob DEF TypeOK, Connect
  <2>2. QED
    BY <1>1, <2>1 DEF TypeOK, Connect, Created, ActiveStatus, DeliveryState, LiveState
<1>2. ASSUME NEW x \in Accounts, RequestSync(x) PROVE TypeOK'
  <2>1. Dead(x) \in SUBSET Jobs
    BY DEF Dead, Latest
  <2>2. /\ StatusClosed(Dead(x)) \in [Jobs -> ActiveStatus \cup SettledStatus \cup {"absent"}]
        /\ errorCode' \in [Jobs -> ErrorCode]
        /\ announced' \in [Jobs -> Nat]
    BY <1>2, <2>1, ClosedTyped DEF RequestSync
  <2>3. CASE UNCHANGED made
    BY <1>2, <2>2, <2>3 DEF TypeOK, RequestSync, Created, NewJob
  <2>4. CASE made < MaxJobs /\ Created(x) /\ status' = [StatusClosed(Dead(x)) EXCEPT ![NewJob] = "queued"]
    <3>1. NewJob \in Jobs /\ NewJob \in 0 .. MaxJobs
      BY <2>4, NewJobIsJob DEF TypeOK
    <3>2. status' \in [Jobs -> ActiveStatus \cup SettledStatus \cup {"absent"}]
      BY <2>2, <2>4 DEF ActiveStatus
    <3>3. QED
      BY <1>2, <2>2, <2>4, <3>1, <3>2 DEF TypeOK, RequestSync, Created, DeliveryState, LiveState
  <2>5. QED
    BY <1>2, <2>3, <2>4 DEF RequestSync
<1>3. ASSUME NEW x \in Accounts, Disconnect(x) PROVE TypeOK'
  BY <1>3 DEF TypeOK, Disconnect
<1>4. CASE ReconcileList
  BY <1>4 DEF TypeOK, ReconcileList
<1>5. ASSUME NEW j \in Jobs, ReconcileClose(j) PROVE TypeOK'
  BY <1>5, ClosedTyped DEF TypeOK, ReconcileClose
<1>6. ASSUME NEW j \in Jobs, Deliver(j) PROVE TypeOK'
  BY <1>6, AttemptParts, StageTyped DEF TypeOK, Deliver, RunningStage, DeliveryState, LiveState
<1>7. ASSUME NEW j \in Jobs, NEW d \in DeliveryState,
             delivery' = [delivery EXCEPT ![j] = d], Orphaned(j),
             UNCHANGED <<rowVars, tries, revived, accountVars, sweep>>
      PROVE  TypeOK'
  <2>1. /\ stage' \in [Attempts -> RunningStage \cup {"idle", "gone"}]
        /\ next' \in [Attempts -> 1 .. LastMonth + 1]
        /\ added' \in [Attempts -> SUBSET Months]
    BY <1>7, StageTyped DEF Orphaned, TypeOK
  <2>2. QED
    BY <1>7, <2>1 DEF TypeOK
<1>8. ASSUME NEW j \in Jobs, DeliveryLost(j) PROVE TypeOK'
  BY <1>7, <1>8 DEF DeliveryLost, AfterFailure, DeliveryState, LiveState
<1>9. ASSUME NEW j \in Jobs, OperatorCancel(j) PROVE TypeOK'
  BY <1>7, <1>9 DEF OperatorCancel, DeliveryState
<1>10. ASSUME NEW j \in Jobs, OperatorRetry(j) PROVE TypeOK'
  BY <1>10 DEF TypeOK, OperatorRetry, DeliveryState, LiveState
<1>11. ASSUME NEW a \in Attempts, MarkSyncRunning(a) PROVE TypeOK'
  <2>1. a[1] \in Jobs /\ a[2] \in 0 .. MaxDeliveries
    BY AttemptParts
  <2>2. /\ stage' \in [Attempts -> RunningStage \cup {"idle", "gone"}]
        /\ next' \in [Attempts -> 1 .. LastMonth + 1]
        /\ added' \in [Attempts -> SUBSET Months]
    BY <1>11, StageTyped DEF MarkSyncRunning, Marked, RunningStage
  <2>3. QED
    BY <1>11, <2>1, <2>2 DEF TypeOK, MarkSyncRunning, Marked, ActiveStatus, ErrorCode
<1>12. ASSUME NEW a \in Attempts, ReadAccount(a) PROVE TypeOK'
  <2>1. CASE account[owner[a[1]]] = "tracked"
    <3>1. owner[a[1]] \in Accounts
      BY <1>12, AttemptParts DEF Numbered, ReadAccount
    <3>2. StartMonth(owner[a[1]]) \in 1 .. LastMonth + 1
      BY <3>1 DEF TypeOK, StartMonth
    <3>3. QED
      BY <1>12, <2>1, <3>2 DEF TypeOK, ReadAccount, Stage, RunningStage
  <2>2. CASE account[owner[a[1]]] # "tracked"
    BY <1>12, <2>2, StageTyped DEF TypeOK, ReadAccount, RunningStage
  <2>3. QED
    BY <2>1, <2>2
<1>13. ASSUME NEW a \in Attempts, Checkpoint(a) PROVE TypeOK'
  <2>1. a[1] \in Jobs
    BY AttemptParts
  <2>2. /\ next[a] \in Months
        /\ next[a] \in 0 .. LastMonth
        /\ next[a] + 1 \in 1 .. LastMonth + 1
        /\ NewGames(owner[a[1]], {next[a]}) \in SUBSET Months
    BY <1>13 DEF Checkpoint, NewGames, Months
  <2>3. QED
    BY <1>13, <2>1, <2>2 DEF TypeOK, Checkpoint
<1>14. ASSUME NEW a \in Attempts, FetchThrew(a) PROVE TypeOK'
  <2>1. a[1] \in Jobs
    BY AttemptParts
  <2>2. /\ stage' \in [Attempts -> RunningStage \cup {"idle", "gone"}]
        /\ next' \in [Attempts -> 1 .. LastMonth + 1]
        /\ added' \in [Attempts -> SUBSET Months]
    BY <1>14, StageTyped DEF FetchThrew, RunningStage
  <2>3. /\ status' \in [Jobs -> ActiveStatus \cup SettledStatus \cup {"absent"}]
        /\ errorCode' \in [Jobs -> ErrorCode]
        /\ inserted' \in [Jobs -> SUBSET Months]
        /\ announced' \in [Jobs -> Nat]
    <3>1. CASE Finished(a[1], "retrying", "internal", {})
      <4>1. /\ "retrying" \in ActiveStatus \cup SettledStatus
            /\ "internal" \in ErrorCode /\ {} \in SUBSET Months
        BY DEF ActiveStatus, ErrorCode
      <4>2. QED
        BY <2>1, <3>1, <4>1, FinishedTyped
    <3>2. CASE NotFinished
      BY <3>2 DEF TypeOK, NotFinished
    <3>3. QED
      BY <1>14, <3>1, <3>2 DEF FetchThrew
  <2>4. QED
    BY <1>14, <2>2, <2>3 DEF TypeOK, FetchThrew
<1>15. ASSUME NEW a \in Attempts, FetchNotFound(a) PROVE TypeOK'
  <2>1. a[1] \in Jobs
    BY AttemptParts
  <2>2. /\ stage' \in [Attempts -> RunningStage \cup {"idle", "gone"}]
        /\ next' \in [Attempts -> 1 .. LastMonth + 1]
        /\ added' \in [Attempts -> SUBSET Months]
    BY <1>15, StageTyped DEF FetchNotFound, RunningStage
  <2>3. /\ status' \in [Jobs -> ActiveStatus \cup SettledStatus \cup {"absent"}]
        /\ errorCode' \in [Jobs -> ErrorCode]
        /\ inserted' \in [Jobs -> SUBSET Months]
        /\ announced' \in [Jobs -> Nat]
    <3>1. CASE Finished(a[1], "failed", "not-found", {})
      <4>1. /\ "failed" \in ActiveStatus \cup SettledStatus
            /\ "not-found" \in ErrorCode /\ {} \in SUBSET Months
        BY DEF SettledStatus, ErrorCode
      <4>2. QED
        BY <2>1, <3>1, <4>1, FinishedTyped
    <3>2. CASE NotFinished
      BY <3>2 DEF TypeOK, NotFinished
    <3>3. QED
      BY <1>15, <3>1, <3>2 DEF FetchNotFound
  <2>4. QED
    BY <1>15, <2>2, <2>3 DEF TypeOK, FetchNotFound
<1>16. ASSUME NEW a \in Attempts, NEW got \in SUBSET Months,
              NEW complete \in BOOLEAN, FinalCommit(a, got, complete)
       PROVE  TypeOK'
  <2> DEFINE j == a[1]
             new == NewGames(owner[j], got)
  <2>1. j \in Jobs /\ new \in SUBSET Months
    BY AttemptParts DEF NewGames
  <2>2. added[a] \cup new \in SUBSET Months
    BY <2>1 DEF TypeOK
  <2>3. /\ stage' \in [Attempts -> RunningStage \cup {"idle", "gone"}]
        /\ next' \in [Attempts -> 1 .. LastMonth + 1]
        /\ added' \in [Attempts -> SUBSET Months]
    BY <1>16, StageTyped DEF FinalCommit, RunningStage
  <2>4. CASE NotFinished /\ UNCHANGED <<landed, games, cursor, synced>>
    BY <1>16, <2>3, <2>4 DEF TypeOK, FinalCommit, NotFinished
  <2>5. CASE /\ \/ Finished(j, "succeeded", "none", added[a] \cup new)
                \/ Finished(j, "retrying", "incomplete", added[a] \cup new)
             /\ landed' = [landed EXCEPT ![j] = @ \cup new]
             /\ games' = [games EXCEPT ![owner[j]] = @ \cup got]
             /\ cursor' = [cursor EXCEPT ![owner[j]] = CursorAfter(owner[j], complete)]
             /\ synced' = [synced EXCEPT ![owner[j]] = @ \/ complete]
    <3>1. /\ status' \in [Jobs -> ActiveStatus \cup SettledStatus \cup {"absent"}]
          /\ errorCode' \in [Jobs -> ErrorCode]
          /\ inserted' \in [Jobs -> SUBSET Months]
          /\ announced' \in [Jobs -> Nat]
      <4>1. PICK outcome \in ActiveStatus \cup SettledStatus, error \in ErrorCode :
              Finished(j, outcome, error, added[a] \cup new)
        BY <2>5 DEF ActiveStatus, SettledStatus, ErrorCode
      <4>2. QED
        BY <2>1, <2>2, <4>1, FinishedTyped
    <3>2. landed' \in [Jobs -> SUBSET Months]
      BY <2>1, <2>5 DEF TypeOK
    <3>3. games' \in [Accounts -> SUBSET Months]
      BY <2>5 DEF TypeOK
    <3>4. cursor' \in [Accounts -> 0 .. LastMonth]
      <4>1. cursor' = IF complete THEN [cursor EXCEPT ![owner[j]] = LastMonth] ELSE cursor
        <5>1. CASE complete
          BY <2>5, <5>1 DEF CursorAfter
        <5>2. CASE ~complete
          BY <2>5, <5>2 DEF TypeOK, CursorAfter
        <5>3. QED
          BY <5>1, <5>2
      <4>2. QED
        <5>1. cursor \in [Accounts -> 0 .. LastMonth] /\ LastMonth \in 0 .. LastMonth
          BY DEF TypeOK
        <5>2. QED
          BY <4>1, <5>1, ExceptTyped
    <3>5. synced' \in [Accounts -> BOOLEAN]
      BY <2>5, Zenon DEF TypeOK
    <3>6. QED
      BY <1>16, <2>3, <3>1, <3>2, <3>3, <3>4, <3>5 DEF TypeOK, FinalCommit
  <2>6. QED
    BY <1>16, <2>4, <2>5 DEF FinalCommit
<1>17. ASSUME NEW a \in Attempts, DatabaseThrew(a) PROVE TypeOK'
  BY <1>17, StageTyped DEF TypeOK, DatabaseThrew, RunningStage
<1>18. ASSUME NEW a \in Attempts, HandlerEnded(a) PROVE TypeOK'
  BY <1>18, AttemptParts, StageTyped
     DEF TypeOK, HandlerEnded, AfterFailure, DeliveryState, LiveState
<1>19. ASSUME NEW a \in Attempts, WorkerCrash(a) PROVE TypeOK'
  BY <1>19, StageTyped DEF TypeOK, WorkerCrash
<1>20. CASE UNCHANGED vars
  BY <1>20 DEF TypeOK, vars
<1>21. QED
  BY <1>1, <1>2, <1>3, <1>4, <1>5, <1>6, <1>8, <1>9, <1>10, <1>11, <1>12,
     <1>13, <1>14, <1>15, <1>16, <1>17, <1>18, <1>19, <1>20
     DEF Next, AttemptStep

-----------------------------------------------------------------------------
\* No step takes an id, a status, a delivery or an attempt out of turn.
LEMMA NumberedStep == TypeOK /\ Numbered /\ [Next]_vars => Numbered'
<1> SUFFICES ASSUME TypeOK, Numbered, [Next]_vars PROVE Numbered'
  OBVIOUS
<1> USE ConstantsAssumption DEF rowVars, queueVars, attemptVars, accountVars, Exists
<1> DEFINE Old == /\ UNCHANGED <<made, owner>>
                  /\ \A j \in Jobs : status'[j] # "absent" => status[j] # "absent"
                  /\ \A j \in Jobs : delivery'[j] # "none" => delivery[j] # "none"
                  /\ \A a \in Attempts : stage'[a] # "idle" => a[1] <= made
           New == \E x \in Accounts :
                  /\ made < MaxJobs
                  /\ Created(x)
                  /\ \A j \in Jobs \ {NewJob} : status'[j] # "absent" => status[j] # "absent"
                  /\ UNCHANGED attemptVars
<1>1. ASSUME Old PROVE Numbered'
  BY <1>1, AttemptParts DEF Numbered
<1>2. ASSUME New PROVE Numbered'
  <2>1. PICK x \in Accounts : Created(x)
    BY <1>2
  <2>2. \A j \in Jobs : j <= NewJob <=> j <= made \/ j = NewJob
    BY <1>2 DEF TypeOK, NewJob, Jobs
  <2>3. NewJob \in Jobs
    BY <1>2, NewJobIsJob DEF TypeOK
  <2>4. \A j \in Jobs : j <= made' <=> owner'[j] \in Accounts
    BY <2>1, <2>2, <2>3 DEF Created, Numbered, TypeOK
  <2>5. \A j \in Jobs : status'[j] # "absent" \/ delivery'[j] # "none" => j <= made'
    BY <1>2, <2>1, <2>2, <2>3 DEF Created, Numbered, TypeOK
  <2>6. \A a \in Attempts : stage'[a] # "idle" => a[1] <= made'
    BY <1>2, <2>1, <2>2, AttemptParts DEF Created, Numbered
  <2>7. QED
    BY <2>4, <2>5, <2>6 DEF Numbered
<1>3. ASSUME NEW x \in Accounts, Connect(x) PROVE New
  BY <1>3 DEF Connect, TypeOK
<1>4. ASSUME NEW x \in Accounts, RequestSync(x) PROVE Old \/ New
  <2>1. \A j \in Jobs : StatusClosed(Dead(x))[j] # "absent" => status[j] # "absent"
    BY DEF StatusClosed, Dead, IsActive, ActiveStatus
  <2>2. CASE UNCHANGED <<owner, made, queueVars>> /\ status' = StatusClosed(Dead(x))
    BY <1>4, <2>1, <2>2 DEF RequestSync, Numbered
  <2>3. CASE made < MaxJobs /\ Created(x) /\ status' = [StatusClosed(Dead(x)) EXCEPT ![NewJob] = "queued"]
    <3>1. \A j \in Jobs \ {NewJob} : status'[j] # "absent" => status[j] # "absent"
      BY <2>1, <2>3 DEF StatusClosed
    <3>2. QED
      BY <1>4, <2>3, <3>1 DEF RequestSync
  <2>4. QED
    BY <1>4, <2>2, <2>3 DEF RequestSync
<1>5. ASSUME NEW x \in Accounts, Disconnect(x) PROVE Old
  BY <1>5 DEF Disconnect, Numbered, TypeOK
<1>6. CASE ReconcileList
  BY <1>1, <1>6 DEF ReconcileList, Numbered
<1>7. ASSUME NEW j \in Jobs, ReconcileClose(j) PROVE Old
  BY <1>7 DEF ReconcileClose, StatusClosed, Dead, IsActive, ActiveStatus, Numbered
<1>8. ASSUME NEW j \in Jobs, Deliver(j) PROVE Old
  <2>1. j <= made
    BY <1>8 DEF Deliver, Numbered
  <2>2. \A a \in Attempts : stage'[a] # "idle" => a[1] <= made
    BY <1>8, <2>1 DEF Deliver, Stage, Numbered, TypeOK
  <2>3. QED
    BY <1>8, <2>2 DEF Deliver, TypeOK
<1>9. ASSUME NEW j \in Jobs, Orphaned(j)
      PROVE  \A a \in Attempts : stage'[a] # "idle" => a[1] <= made
  BY <1>9 DEF Orphaned, Stage, Numbered, TypeOK, DeliveryState, LiveState
<1>10. ASSUME NEW j \in Jobs, DeliveryLost(j) PROVE Old
  BY <1>9, <1>10 DEF DeliveryLost, TypeOK
<1>11. ASSUME NEW j \in Jobs, OperatorCancel(j) PROVE Old
  BY <1>9, <1>11 DEF OperatorCancel, IsLive, LiveState, TypeOK
<1>12. ASSUME NEW j \in Jobs, OperatorRetry(j) PROVE Old
  BY <1>12 DEF OperatorRetry, Numbered, TypeOK
<1>13. ASSUME NEW a \in Attempts, AttemptStep(a) PROVE Old
  <2>1. stage[a] # "idle" /\ UNCHANGED <<made, owner>>
    BY <1>13 DEF AttemptStep, MarkSyncRunning, ReadAccount, Checkpoint, FetchThrew,
                 FetchNotFound, FinalCommit, DatabaseThrew, HandlerEnded, WorkerCrash,
                 RunningStage
  <2>2. \A b \in Attempts \ {a} : stage'[b] = stage[b]
    <3> DEFINE Staged == \E s \in RunningStage \cup {"gone"} : Stage(a, s)
    <3>1. CASE Staged
      BY <3>1 DEF Stage, TypeOK
    <3>2. CASE MarkSyncRunning(a) \/ ReadAccount(a) \/ Checkpoint(a)
      BY <3>2 DEF MarkSyncRunning, Marked, ReadAccount, Checkpoint, Stage, TypeOK
    <3>3. CASE \E got \in SUBSET Months, complete \in BOOLEAN : FinalCommit(a, got, complete)
      BY <3>1, <3>3 DEF FinalCommit, RunningStage
    <3>4. CASE FetchThrew(a) \/ FetchNotFound(a)
      <4>1. Stage(a, "threw") \/ Stage(a, "returned")
        BY <3>4 DEF FetchThrew, FetchNotFound
      <4>2. QED
        BY <3>1, <4>1 DEF RunningStage
    <3>5. CASE DatabaseThrew(a) \/ HandlerEnded(a) \/ WorkerCrash(a)
      BY <3>1, <3>5 DEF DatabaseThrew, HandlerEnded, WorkerCrash, RunningStage
    <3>6. QED
      BY <1>13, <3>2, <3>3, <3>4, <3>5 DEF AttemptStep
  <2>3. \A k \in Jobs : delivery'[k] # "none" => delivery[k] # "none"
    BY <1>13 DEF AttemptStep, MarkSyncRunning, ReadAccount, Checkpoint, FetchThrew,
                 FetchNotFound, FinalCommit, DatabaseThrew, HandlerEnded, WorkerCrash,
                 Holds, TypeOK
  <2> DEFINE NoRowAppears == \A k \in Jobs : status'[k] # "absent" => status[k] # "absent"
  <2>4. NoRowAppears
    <3>1. CASE MarkSyncRunning(a)
      BY <3>1 DEF MarkSyncRunning, Marked, IsActive, ActiveStatus, TypeOK
    <3>2. CASE FetchThrew(a)
      BY <3>2 DEF FetchThrew, Finished, NotFinished, OwnedBy, TypeOK
    <3>3. CASE FetchNotFound(a)
      BY <3>3 DEF FetchNotFound, Finished, NotFinished, OwnedBy, TypeOK
    <3>4. ASSUME NEW got \in SUBSET Months, NEW complete \in BOOLEAN,
                 FinalCommit(a, got, complete)
          PROVE  NoRowAppears
      BY <3>4 DEF FinalCommit, Finished, NotFinished, OwnedBy, TypeOK
    <3>5. CASE \/ ReadAccount(a) \/ Checkpoint(a) \/ DatabaseThrew(a)
               \/ HandlerEnded(a) \/ WorkerCrash(a)
      BY <3>5 DEF ReadAccount, Checkpoint, DatabaseThrew, HandlerEnded, WorkerCrash
    <3>6. QED
      BY <1>13, <3>1, <3>2, <3>3, <3>4, <3>5 DEF AttemptStep
  <2>5. QED
    BY <2>1, <2>2, <2>3, <2>4 DEF Numbered
<1>14. CASE UNCHANGED vars
  BY <1>1, <1>14 DEF vars, Numbered
<1>15. QED
  BY <1>1, <1>2, <1>3, <1>4, <1>5, <1>6, <1>7, <1>8, <1>10, <1>11, <1>12, <1>13, <1>14
     DEF Next

-----------------------------------------------------------------------------
\* What the attempts do to the rows and the accounts.

\* Reading, failing at the database, ending and dying write nothing.
LEMMA QuietStep ==
  ASSUME NEW a \in Attempts,
         ReadAccount(a) \/ DatabaseThrew(a) \/ HandlerEnded(a) \/ WorkerCrash(a)
  PROVE  UNCHANGED <<rowVars, accountVars>>
  BY DEF ReadAccount, DatabaseThrew, HandlerEnded, WorkerCrash

\* A pass that ends without the row writes nothing.
LEMMA UnownedStep ==
  ASSUME NEW a \in Attempts, ~OwnedBy(a), AttemptStep(a), ~MarkSyncRunning(a)
  PROVE  UNCHANGED <<rowVars, accountVars>>
<1> USE DEF rowVars, accountVars, NotFinished
<1>1. CASE ReadAccount(a) \/ DatabaseThrew(a) \/ HandlerEnded(a) \/ WorkerCrash(a)
  BY <1>1, QuietStep
<1>2. CASE Checkpoint(a)
  BY <1>2 DEF Checkpoint
<1>3. CASE FetchThrew(a)
  BY <1>3 DEF FetchThrew
<1>4. CASE FetchNotFound(a)
  BY <1>4 DEF FetchNotFound
<1>5. ASSUME NEW got \in SUBSET Months, NEW complete \in BOOLEAN,
             FinalCommit(a, got, complete)
      PROVE  UNCHANGED <<rowVars, accountVars>>
  BY <1>5 DEF FinalCommit
<1>6. QED
  BY <1>1, <1>2, <1>3, <1>4, <1>5 DEF AttemptStep

\* The fence holds: an attempt whose stamp another one replaced, or whose row
\* left with its account, changes no row, cursor or game however it ends.
THEOREM FenceHolds == Spec => SupersededWritesNothing
<1> DEFINE Fenced == \A a \in Attempts : Superseded(a) /\ AttemptStep(a) =>
                       UNCHANGED <<rowVars, accountVars>>
<1>1. Fenced
  <2> SUFFICES ASSUME NEW a \in Attempts, Superseded(a), AttemptStep(a)
               PROVE  UNCHANGED <<rowVars, accountVars>>
    OBVIOUS
  <2>1. ~OwnedBy(a) /\ ~MarkSyncRunning(a)
    BY DEF Superseded, OwnedBy, MarkSyncRunning
  <2>2. QED
    BY <2>1, UnownedStep
<1>2. QED
  BY <1>1, PTL DEF SupersededWritesNothing

-----------------------------------------------------------------------------
\* No step makes a second active job: one that ends a pass for now asks the
\* unique index, one that creates closes what it found dead.
LEMMA OneActiveStep ==
  TypeOK /\ Numbered /\ NothingOutlivesAccount /\ OneActivePerAccount /\ [Next]_vars
    => OneActivePerAccount'
<1> SUFFICES ASSUME TypeOK, Numbered, NothingOutlivesAccount, OneActivePerAccount, [Next]_vars
             PROVE  OneActivePerAccount'
  OBVIOUS
<1> USE ConstantsAssumption DEF rowVars, queueVars, attemptVars, accountVars, IsActive
<1> DEFINE Fewer == /\ UNCHANGED owner
                    /\ \A j \in Jobs : status'[j] \in ActiveStatus => status[j] \in ActiveStatus
           Back(j) == /\ UNCHANGED owner
                      /\ SlotFree(owner[j], j)
                      /\ \A k \in Jobs \ {j} : status'[k] = status[k]
           New(x) == /\ made < MaxJobs
                     /\ Created(x)
                     /\ \A k \in Jobs \ {NewJob} :
                          status'[k] \in ActiveStatus => status[k] \in ActiveStatus /\ owner[k] # x
<1>1. ASSUME Fewer PROVE OneActivePerAccount'
  BY <1>1 DEF OneActivePerAccount
<1>2. ASSUME NEW j \in Jobs, Back(j) PROVE OneActivePerAccount'
  BY <1>2 DEF OneActivePerAccount, SlotFree
<1>3. ASSUME NEW x \in Accounts, New(x) PROVE OneActivePerAccount'
  <2>1. NewJob \in Jobs
    BY <1>3, NewJobIsJob DEF TypeOK
  <2>2. \A k \in Jobs \ {NewJob} : owner'[k] = owner[k]
    BY <1>3, <2>1 DEF Created, TypeOK
  <2>3. owner'[NewJob] = x
    BY <1>3, <2>1 DEF Created, TypeOK
  <2>4. QED
    BY <1>3, <2>1, <2>2, <2>3 DEF OneActivePerAccount
<1>4. ASSUME NEW x \in Accounts, Connect(x) PROVE New(x)
  <2>1. \A k \in Jobs : status[k] \in ActiveStatus => owner[k] # x
    BY <1>4 DEF Connect, NothingOutlivesAccount, Exists, ActiveStatus
  <2>2. QED
    BY <1>4, <2>1 DEF Connect, TypeOK
<1>5. ASSUME NEW x \in Accounts, RequestSync(x) PROVE OneActivePerAccount'
  <2>1. \A k \in Jobs : StatusClosed(Dead(x))[k] \in ActiveStatus
                          => status[k] \in ActiveStatus /\ k \notin Dead(x)
    BY DEF StatusClosed, ActiveStatus
  <2>2. CASE UNCHANGED owner /\ status' = StatusClosed(Dead(x))
    BY <1>1, <2>1, <2>2
  <2>3. CASE /\ ~\E k \in Jobs \ Dead(x) : owner[k] = x /\ IsActive(k)
             /\ made < MaxJobs
             /\ Created(x)
             /\ status' = [StatusClosed(Dead(x)) EXCEPT ![NewJob] = "queued"]
    <3>1. \A k \in Jobs \ {NewJob} : status'[k] = StatusClosed(Dead(x))[k]
      BY <2>3 DEF StatusClosed
    <3>2. New(x)
      BY <2>1, <2>3, <3>1
    <3>3. QED
      BY <1>3, <3>2
  <2>4. QED
    BY <1>5, <2>2, <2>3 DEF RequestSync
<1>6. ASSUME NEW x \in Accounts, Disconnect(x) PROVE Fewer
  BY <1>6 DEF Disconnect, ActiveStatus
<1>7. ASSUME NEW j \in Jobs, ReconcileClose(j) PROVE Fewer
  BY <1>7 DEF ReconcileClose, StatusClosed, ActiveStatus
<1>8. CASE \/ ReconcileList
           \/ \E j \in Jobs : Deliver(j) \/ DeliveryLost(j) \/ OperatorCancel(j) \/ OperatorRetry(j)
           \/ UNCHANGED vars
  BY <1>1, <1>8 DEF ReconcileList, Deliver, DeliveryLost, OperatorCancel, OperatorRetry, vars
<1>9. ASSUME NEW a \in Attempts, AttemptStep(a) PROVE OneActivePerAccount'
  <2>1. a[1] \in Jobs
    BY AttemptParts
  <2>2. CASE ReadAccount(a) \/ DatabaseThrew(a) \/ HandlerEnded(a) \/ WorkerCrash(a)
    BY <1>1, <2>2, QuietStep
  <2>3. CASE MarkSyncRunning(a)
    BY <1>1, <2>1, <2>3 DEF MarkSyncRunning, Marked, TypeOK
  <2>4. CASE Checkpoint(a)
    BY <1>1, <2>4 DEF Checkpoint
  <2>5. CASE FetchThrew(a)
    BY <1>1, <1>2, <2>1, <2>5 DEF FetchThrew, Finished, NotFinished, TypeOK
  <2>6. CASE FetchNotFound(a)
    BY <1>1, <2>1, <2>6 DEF FetchNotFound, Finished, NotFinished, TypeOK, ActiveStatus
  <2>7. ASSUME NEW got \in SUBSET Months, NEW complete \in BOOLEAN,
               FinalCommit(a, got, complete)
        PROVE  OneActivePerAccount'
    <3>1. UNCHANGED owner
      BY <2>7 DEF FinalCommit
    <3>2. CASE NotFinished
      BY <1>1, <3>1, <3>2 DEF NotFinished
    <3>3. CASE complete /\ ~NotFinished
      <4>1. status' = [status EXCEPT ![a[1]] = "succeeded"]
        BY <2>7, <3>3 DEF FinalCommit, Finished
      <4>2. Fewer
        BY <2>1, <3>1, <4>1 DEF TypeOK, ActiveStatus
      <4>3. QED
        BY <1>1, <4>2
    <3>4. CASE ~complete /\ ~NotFinished
      <4>1. SlotFree(owner[a[1]], a[1]) /\ status' = [status EXCEPT ![a[1]] = "retrying"]
        BY <2>7, <3>4 DEF FinalCommit, Finished
      <4>2. QED
        BY <1>2, <2>1, <3>1, <4>1 DEF TypeOK
    <3>5. QED
      BY <3>2, <3>3, <3>4
  <2>8. QED
    BY <1>9, <2>2, <2>3, <2>4, <2>5, <2>6, <2>7 DEF AttemptStep
<1>10. QED
  BY <1>1, <1>3, <1>4, <1>5, <1>6, <1>7, <1>8, <1>9 DEF Next

-----------------------------------------------------------------------------
\* No step brings back anything of an account that left, or makes something
\* of one that was never connected.
LEMMA NothingOutlivesStep ==
  TypeOK /\ Numbered /\ NothingOutlivesAccount /\ [Next]_vars => NothingOutlivesAccount'
<1> SUFFICES ASSUME TypeOK, Numbered, NothingOutlivesAccount, [Next]_vars
             PROVE  NothingOutlivesAccount'
  OBVIOUS
<1> USE ConstantsAssumption DEF rowVars, queueVars, attemptVars, accountVars, Exists
<1> DEFINE NoneAppear == /\ UNCHANGED <<owner, account>>
                         /\ \A j \in Jobs : status'[j] # "absent" => status[j] # "absent"
           Created1(x) == /\ made < MaxJobs
                          /\ Created(x)
                          /\ account'[x] = "tracked"
                          /\ \A y \in Accounts \ {x} : account'[y] = account[y]
                          /\ \A k \in Jobs \ {NewJob} : status'[k] # "absent" => status[k] # "absent"
                          /\ UNCHANGED <<cursor, games, synced>>
<1>1. ASSUME NoneAppear, UNCHANGED <<cursor, games, synced>> PROVE NothingOutlivesAccount'
  BY <1>1 DEF NothingOutlivesAccount
<1>2. ASSUME NEW x \in Accounts, Created1(x) PROVE NothingOutlivesAccount'
  <2>1. NewJob \in Jobs
    BY <1>2, NewJobIsJob DEF TypeOK
  <2>2. owner' = [owner EXCEPT ![NewJob] = x]
    BY <1>2 DEF Created
  <2>3. \A y \in Accounts : account[y] = "tracked" => account'[y] = "tracked"
    BY <1>2
  <2>4. \A j \in Jobs : status'[j] # "absent" => owner'[j] \in Accounts /\ account'[owner'[j]] = "tracked"
    BY <1>2, <2>1, <2>2, <2>3 DEF NothingOutlivesAccount, TypeOK
  <2>5. \A y \in Accounts : account'[y] # "tracked" => games'[y] = {} /\ cursor'[y] = 0 /\ ~synced'[y]
    BY <1>2 DEF NothingOutlivesAccount
  <2>6. QED
    BY <2>4, <2>5 DEF NothingOutlivesAccount
<1>3. ASSUME NEW x \in Accounts, Connect(x) PROVE Created1(x)
  BY <1>3 DEF Connect, TypeOK
<1>4. ASSUME NEW x \in Accounts, RequestSync(x) PROVE NothingOutlivesAccount'
  <2>1. \A k \in Jobs : StatusClosed(Dead(x))[k] # "absent" => status[k] # "absent"
    BY DEF StatusClosed, Dead, IsActive, ActiveStatus
  <2>2. CASE UNCHANGED owner /\ status' = StatusClosed(Dead(x))
    BY <1>1, <1>4, <2>1, <2>2 DEF RequestSync
  <2>3. CASE made < MaxJobs /\ Created(x) /\ status' = [StatusClosed(Dead(x)) EXCEPT ![NewJob] = "queued"]
    <3>1. \A k \in Jobs \ {NewJob} : status'[k] = StatusClosed(Dead(x))[k]
      BY <2>3 DEF StatusClosed
    <3>2. Created1(x)
      BY <1>4, <2>1, <2>3, <3>1 DEF RequestSync
    <3>3. QED
      BY <1>2, <3>2
  <2>4. QED
    BY <1>4, <2>2, <2>3 DEF RequestSync
<1>5. ASSUME NEW x \in Accounts, Disconnect(x) PROVE NothingOutlivesAccount'
  BY <1>5 DEF Disconnect, NothingOutlivesAccount, TypeOK
<1>6. ASSUME NEW j \in Jobs, ReconcileClose(j) PROVE NothingOutlivesAccount'
  <2>1. NoneAppear
    BY <1>6 DEF ReconcileClose, StatusClosed, Dead, IsActive, ActiveStatus
  <2>2. QED
    BY <1>1, <1>6, <2>1 DEF ReconcileClose
<1>7. CASE \/ ReconcileList
           \/ \E j \in Jobs : Deliver(j) \/ DeliveryLost(j) \/ OperatorCancel(j) \/ OperatorRetry(j)
           \/ UNCHANGED vars
  BY <1>1, <1>7 DEF ReconcileList, Deliver, DeliveryLost, OperatorCancel, OperatorRetry, vars
<1>8. ASSUME NEW a \in Attempts, AttemptStep(a) PROVE NothingOutlivesAccount'
  <2>1. a[1] \in Jobs
    BY AttemptParts
  <2>2. CASE MarkSyncRunning(a)
    BY <1>1, <2>1, <2>2 DEF MarkSyncRunning, Marked, IsActive, ActiveStatus, TypeOK
  <2>3. CASE ~OwnedBy(a) /\ ~MarkSyncRunning(a)
    BY <1>1, <1>8, <2>3, UnownedStep
  <2>4. CASE OwnedBy(a) /\ ~MarkSyncRunning(a)
    <3>1. owner[a[1]] \in Accounts /\ account[owner[a[1]]] = "tracked" /\ status[a[1]] # "absent"
      BY <2>1, <2>4 DEF OwnedBy, NothingOutlivesAccount
    <3>2. /\ UNCHANGED <<owner, account>>
          /\ \A y \in Accounts \ {owner[a[1]]} : /\ games'[y] = games[y]
                                                 /\ cursor'[y] = cursor[y]
                                                 /\ synced'[y] = synced[y]
      <4>1. CASE Checkpoint(a)
        BY <4>1 DEF Checkpoint, TypeOK
      <4>2. CASE \E got \in SUBSET Months, complete \in BOOLEAN : FinalCommit(a, got, complete)
        BY <4>2 DEF FinalCommit, TypeOK
      <4>3. CASE \/ ReadAccount(a) \/ FetchThrew(a) \/ FetchNotFound(a)
                 \/ DatabaseThrew(a) \/ HandlerEnded(a) \/ WorkerCrash(a)
        BY <4>3 DEF ReadAccount, FetchThrew, FetchNotFound, DatabaseThrew, HandlerEnded,
                    WorkerCrash
      <4>4. QED
        BY <1>8, <2>4, <4>1, <4>2, <4>3 DEF AttemptStep
    <3>3. \A k \in Jobs \ {a[1]} : status'[k] = status[k]
      <4>1. CASE NotFinished \/ UNCHANGED rowVars \/ UNCHANGED status
        BY <4>1 DEF NotFinished
      <4>2. ASSUME NEW st, NEW err, NEW more, Finished(a[1], st, err, more)
            PROVE  \A k \in Jobs \ {a[1]} : status'[k] = status[k]
        BY <2>1, <4>2 DEF Finished, TypeOK
      <4>3. CASE \/ ReadAccount(a) \/ FetchThrew(a) \/ FetchNotFound(a)
                 \/ Checkpoint(a) \/ DatabaseThrew(a) \/ HandlerEnded(a) \/ WorkerCrash(a)
        BY <4>1, <4>2, <4>3 DEF ReadAccount, FetchThrew, FetchNotFound, Checkpoint,
                                DatabaseThrew, HandlerEnded, WorkerCrash
      <4>4. CASE \E got \in SUBSET Months, complete \in BOOLEAN : FinalCommit(a, got, complete)
        BY <4>1, <4>2, <4>4 DEF FinalCommit
      <4>5. QED
        BY <1>8, <2>4, <4>3, <4>4 DEF AttemptStep
    <3>4. QED
      BY <3>1, <3>2, <3>3 DEF NothingOutlivesAccount
  <2>5. QED
    BY <2>2, <2>3, <2>4
<1>9. QED
  BY <1>2, <1>3, <1>4, <1>5, <1>6, <1>7, <1>8 DEF Next

-----------------------------------------------------------------------------
\* The games and the cursor.

\* What a step may do to the games: they only grow, but for the account that
\* is disconnected, and that one's rows are gone.
LEMMA GamesGrow ==
  ASSUME TypeOK, [Next]_vars
  PROVE  \A x \in Accounts : \/ games[x] \subseteq games'[x]
                             \/ \A j \in Jobs : owner'[j] = x => status'[j] = "absent"
<1> USE DEF rowVars, queueVars, attemptVars, accountVars
<1>1. ASSUME NEW y \in Accounts, Disconnect(y)
      PROVE  \A x \in Accounts : \/ games[x] \subseteq games'[x]
                                 \/ \A j \in Jobs : owner'[j] = x => status'[j] = "absent"
  BY <1>1 DEF Disconnect, TypeOK
<1>2. ASSUME NEW a \in Attempts, AttemptStep(a)
      PROVE  \A x \in Accounts : games[x] \subseteq games'[x]
  <2>1. CASE Checkpoint(a)
    BY <2>1 DEF Checkpoint, TypeOK
  <2>2. ASSUME NEW got \in SUBSET Months, NEW complete \in BOOLEAN,
               FinalCommit(a, got, complete)
        PROVE  \A x \in Accounts : games[x] \subseteq games'[x]
    <3>1. UNCHANGED games \/ games' = [games EXCEPT ![owner[a[1]]] = @ \cup got]
      BY <2>2 DEF FinalCommit
    <3>2. QED
      BY <3>1 DEF TypeOK
  <2>3. QED
    BY <1>2, <2>1, <2>2
       DEF AttemptStep, MarkSyncRunning, ReadAccount, FetchThrew, FetchNotFound,
           DatabaseThrew, HandlerEnded, WorkerCrash
<1>3. CASE \/ \E x \in Accounts : Connect(x) \/ RequestSync(x)
           \/ ReconcileList
           \/ \E j \in Jobs : \/ ReconcileClose(j) \/ Deliver(j) \/ DeliveryLost(j)
                              \/ OperatorCancel(j) \/ OperatorRetry(j)
           \/ UNCHANGED vars
  BY <1>3 DEF Connect, RequestSync, ReconcileList, ReconcileClose, Deliver, DeliveryLost,
              OperatorCancel, OperatorRetry, vars
<1>4. QED
  BY <1>1, <1>2, <1>3 DEF Next

\* Rows do not come back, and an owner is for ever.
LEMMA RowsStay ==
  ASSUME TypeOK, Numbered, [Next]_vars
  PROVE  \A j \in Jobs : j <= made => /\ owner'[j] = owner[j]
                                      /\ status'[j] # "absent" => status[j] # "absent"
<1> USE DEF rowVars, queueVars, attemptVars, accountVars, Exists
<1> SUFFICES ASSUME NEW j \in Jobs, j <= made
             PROVE  /\ owner'[j] = owner[j]
                    /\ status'[j] # "absent" => status[j] # "absent"
  OBVIOUS
<1>1. j # NewJob
  BY DEF NewJob, TypeOK, Jobs
<1>2. ASSUME NEW x \in Accounts, Connect(x) PROVE owner'[j] = owner[j] /\ status'[j] = status[j]
  BY <1>1, <1>2 DEF Connect, Created, TypeOK
<1>3. ASSUME NEW x \in Accounts, RequestSync(x)
      PROVE  owner'[j] = owner[j] /\ status'[j] = StatusClosed(Dead(x))[j]
  <2>1. CASE UNCHANGED owner /\ status' = StatusClosed(Dead(x))
    BY <2>1
  <2>2. CASE Created(x) /\ status' = [StatusClosed(Dead(x)) EXCEPT ![NewJob] = "queued"]
    BY <1>1, <2>2 DEF Created, StatusClosed, TypeOK
  <2>3. QED
    BY <1>3, <2>1, <2>2 DEF RequestSync
<1>4. ASSUME NEW x \in Accounts PROVE StatusClosed(Dead(x))[j] # "absent" => status[j] # "absent"
  BY DEF StatusClosed, Dead, IsActive, ActiveStatus
<1>5. CASE \/ \E x \in Accounts : Disconnect(x)
           \/ \E k \in Jobs : ReconcileClose(k)
  BY <1>5 DEF Disconnect, ReconcileClose, StatusClosed, Dead, IsActive, ActiveStatus
<1>6. CASE \/ ReconcileList
           \/ \E k \in Jobs : Deliver(k) \/ DeliveryLost(k) \/ OperatorCancel(k) \/ OperatorRetry(k)
           \/ UNCHANGED vars
  BY <1>6 DEF ReconcileList, Deliver, DeliveryLost, OperatorCancel, OperatorRetry, vars
<1>7. ASSUME NEW a \in Attempts, AttemptStep(a)
      PROVE  owner'[j] = owner[j] /\ (status'[j] # "absent" => status[j] # "absent")
  <2>1. UNCHANGED owner
    BY <1>7 DEF AttemptStep, MarkSyncRunning, ReadAccount, Checkpoint, FetchThrew,
                FetchNotFound, FinalCommit, DatabaseThrew, HandlerEnded, WorkerCrash
  <2>2. CASE MarkSyncRunning(a)
    BY <2>1, <2>2 DEF MarkSyncRunning, Marked, IsActive, ActiveStatus, TypeOK
  <2>3. CASE ~OwnedBy(a) /\ ~MarkSyncRunning(a)
    BY <1>7, <2>3, UnownedStep
  <2>4. CASE OwnedBy(a) /\ ~MarkSyncRunning(a)
    BY <1>7, <2>1, <2>4
       DEF AttemptStep, ReadAccount, Checkpoint, FetchThrew, FetchNotFound, FinalCommit,
           DatabaseThrew, HandlerEnded, WorkerCrash, Finished, NotFinished, OwnedBy, TypeOK
  <2>5. QED
    BY <2>1, <2>2, <2>3, <2>4
<1>8. QED
  BY <1>2, <1>3, <1>4, <1>5, <1>6, <1>7 DEF Next

\* An attempt that is fetching after a step was, and stands where it stood,
\* or it has just begun, or it has just stored a month.
LEMMA FetchingStep ==
  ASSUME TypeOK, [Next]_vars, NEW a \in Attempts, stage'[a] = "fetching"
  PROVE  \/ stage[a] = "fetching" /\ next'[a] = next[a] /\ added'[a] = added[a]
         \/ ReadAccount(a)
         \/ Checkpoint(a)
<1> USE DEF rowVars, queueVars, attemptVars, accountVars
<1> DEFINE Stays == stage[a] = "fetching" /\ next'[a] = next[a] /\ added'[a] = added[a]
<1>1. ASSUME NEW b, NEW s, s # "fetching", Stage(b, s) PROVE Stays
  BY <1>1 DEF Stage, TypeOK
<1>2. ASSUME NEW j \in Jobs, Deliver(j) PROVE Stays
  BY <1>1, <1>2 DEF Deliver
<1>3. ASSUME NEW j \in Jobs, DeliveryLost(j) \/ OperatorCancel(j) PROVE Stays
  BY <1>1, <1>3 DEF DeliveryLost, OperatorCancel, Orphaned
<1>4. CASE \/ \E x \in Accounts : Connect(x) \/ RequestSync(x) \/ Disconnect(x)
           \/ ReconcileList
           \/ \E j \in Jobs : ReconcileClose(j) \/ OperatorRetry(j)
           \/ UNCHANGED vars
  BY <1>4 DEF Connect, RequestSync, Disconnect, ReconcileList, ReconcileClose,
              OperatorRetry, vars
<1>5. ASSUME NEW b \in Attempts, AttemptStep(b), ~ReadAccount(b), ~Checkpoint(b) PROVE Stays
  <2>1. CASE MarkSyncRunning(b)
    BY <1>1, <2>1 DEF MarkSyncRunning, Marked
  <2>2. CASE FetchThrew(b) \/ FetchNotFound(b)
    BY <1>1, <2>2 DEF FetchThrew, FetchNotFound
  <2>3. ASSUME NEW got \in SUBSET Months, NEW complete \in BOOLEAN,
               FinalCommit(b, got, complete)
        PROVE  Stays
    BY <1>1, <2>3 DEF FinalCommit
  <2>4. CASE DatabaseThrew(b) \/ HandlerEnded(b) \/ WorkerCrash(b)
    BY <1>1, <2>4 DEF DatabaseThrew, HandlerEnded, WorkerCrash
  <2>5. QED
    BY <1>5, <2>1, <2>2, <2>3, <2>4 DEF AttemptStep
<1>6. ASSUME NEW b \in Attempts, b # a, ReadAccount(b) \/ Checkpoint(b) PROVE Stays
  BY <1>1, <1>6 DEF ReadAccount, Checkpoint, TypeOK
<1>7. QED
  BY <1>2, <1>3, <1>4, <1>5, <1>6 DEF Next

\* A pass that fetches on has left no month behind it, after any step.
LEMMA PrefixStep ==
  TypeOK /\ Numbered /\ NothingOutlivesAccount /\ CursorCoversGames /\ PrefixWalked /\ [Next]_vars
    => PrefixWalked'
<1> SUFFICES ASSUME TypeOK, Numbered, NothingOutlivesAccount, CursorCoversGames, PrefixWalked,
                    [Next]_vars, NEW a \in Attempts, stage'[a] = "fetching", Exists(a[1])'
             PROVE  1 .. next'[a] - 1 \subseteq games'[owner'[a[1]]]
  BY DEF PrefixWalked
<1> USE ConstantsAssumption DEF rowVars, queueVars, attemptVars, accountVars
<1>1. a[1] \in Jobs /\ a[1] <= made
  <2>1. stage[a] # "idle"
    BY FetchingStep DEF ReadAccount, Checkpoint
  <2>2. QED
    BY <2>1, AttemptParts DEF Numbered
<1>2. owner'[a[1]] = owner[a[1]] /\ Exists(a[1])
  BY <1>1, RowsStay DEF Exists
<1>3. owner[a[1]] \in Accounts
  BY <1>1, <1>2 DEF NothingOutlivesAccount
<1>4. CASE stage[a] = "fetching" /\ next'[a] = next[a]
  <2>1. games[owner[a[1]]] \subseteq games'[owner[a[1]]]
    BY <1>1, <1>2, <1>3, GamesGrow DEF Exists
  <2>2. 1 .. next[a] - 1 \subseteq games[owner[a[1]]]
    BY <1>2, <1>4 DEF PrefixWalked
  <2>3. QED
    BY <1>2, <1>4, <2>1, <2>2
<1>5. CASE ReadAccount(a)
  <2>1. next'[a] = StartMonth(owner[a[1]]) /\ UNCHANGED games
    BY <1>5 DEF ReadAccount, Stage, TypeOK
  <2>2. 1 .. StartMonth(owner[a[1]]) - 1 \subseteq 1 .. cursor[owner[a[1]]]
    BY <1>3 DEF StartMonth, TypeOK
  <2>3. QED
    BY <1>2, <1>3, <2>1, <2>2 DEF CursorCoversGames
<1>6. CASE Checkpoint(a)
  <2>1. next'[a] = next[a] + 1 /\ next[a] \in Nat
    BY <1>6 DEF Checkpoint, TypeOK
  <2>2. games'[owner[a[1]]] = games[owner[a[1]]] \cup {next[a]}
    BY <1>3, <1>6 DEF Checkpoint, TypeOK
  <2>3. 1 .. next[a] - 1 \subseteq games[owner[a[1]]]
    BY <1>2, <1>6 DEF PrefixWalked, Checkpoint
  <2>4. QED
    BY <1>2, <2>1, <2>2, <2>3
<1>7. QED
  BY <1>4, <1>5, <1>6, FetchingStep

\* The cursor is never ahead of the games, after any step.
LEMMA CursorStep ==
  TypeOK /\ NothingOutlivesAccount /\ CursorCoversGames /\ PrefixWalked /\ [Next]_vars
    => CursorCoversGames'
<1> SUFFICES ASSUME TypeOK, NothingOutlivesAccount, CursorCoversGames, PrefixWalked, [Next]_vars,
                    NEW x \in Accounts
             PROVE  1 .. cursor'[x] \subseteq games'[x] /\ (synced'[x] => games'[x] = Months)
  BY DEF CursorCoversGames
<1> USE ConstantsAssumption DEF rowVars, queueVars, attemptVars, accountVars
<1> DEFINE Goal == 1 .. cursor'[x] \subseteq games'[x] /\ (synced'[x] => games'[x] = Months)
<1>1. ASSUME UNCHANGED <<cursor, games, synced>> PROVE Goal
  BY <1>1 DEF CursorCoversGames
<1>2. ASSUME NEW y \in Accounts, Disconnect(y) PROVE Goal
  <2>1. CASE x = y
    BY <1>2, <2>1 DEF Disconnect, TypeOK
  <2>2. CASE x # y
    BY <1>1, <1>2, <2>2 DEF Disconnect, TypeOK, CursorCoversGames
  <2>3. QED
    BY <2>1, <2>2
<1>3. ASSUME NEW a \in Attempts, Checkpoint(a) PROVE Goal
  <2>1. CASE x # owner[a[1]]
    BY <1>3, <2>1 DEF Checkpoint, TypeOK, CursorCoversGames
  <2>2. CASE x = owner[a[1]]
    <3>1. 1 .. next[a] - 1 \subseteq games[x]
      BY <1>3, <2>2 DEF Checkpoint, OwnedBy, PrefixWalked
    <3>2. /\ cursor'[x] = next[a]
          /\ games'[x] = games[x] \cup {next[a]}
          /\ next[a] \in Months
          /\ UNCHANGED synced
      BY <1>3, <2>2 DEF Checkpoint, TypeOK
    <3>3. 1 .. next[a] \subseteq games'[x]
      BY <3>1, <3>2 DEF Months
    <3>4. synced'[x] => games'[x] = Months
      BY <3>2 DEF CursorCoversGames
    <3>5. QED
      BY <3>2, <3>3, <3>4
  <2>3. QED
    BY <2>1, <2>2
<1>4. ASSUME NEW a \in Attempts, NEW got \in SUBSET Months, NEW complete \in BOOLEAN,
             FinalCommit(a, got, complete)
      PROVE  Goal
  <2>1. CASE UNCHANGED <<games, cursor, synced>>
    BY <1>1, <2>1
  <2>2. CASE x # owner[a[1]]
    <3>1. cursor'[x] = cursor[x] /\ games'[x] = games[x] /\ synced'[x] = synced[x]
      BY <1>4, <2>2 DEF FinalCommit, TypeOK
    <3>2. QED
      BY <3>1 DEF CursorCoversGames
  <2>3. CASE /\ x = owner[a[1]]
             /\ OwnedBy(a)
             /\ games' = [games EXCEPT ![x] = @ \cup got]
             /\ cursor' = [cursor EXCEPT ![x] = CursorAfter(x, complete)]
             /\ synced' = [synced EXCEPT ![x] = @ \/ complete]
    <3>1. games'[x] = games[x] \cup got
      BY <2>3 DEF TypeOK
    <3>2. CASE complete
      <4>1. 1 .. next[a] - 1 \subseteq games[x] /\ got = next[a] .. LastMonth
        BY <1>4, <2>3, <3>2 DEF FinalCommit, OwnedBy, PrefixWalked
      <4>2. next[a] \in 1 .. LastMonth + 1 /\ games[x] \subseteq Months
        BY DEF TypeOK
      <4>3. games'[x] = Months
        BY <3>1, <4>1, <4>2 DEF Months
      <4>4. cursor'[x] \in 0 .. LastMonth
        BY <2>3, <3>2 DEF CursorAfter, TypeOK
      <4>5. QED
        BY <4>3, <4>4 DEF Months
    <3>3. CASE ~complete
      <4>1. cursor'[x] = cursor[x]
        BY <2>3, <3>3 DEF CursorAfter, TypeOK
      <4>2. synced'[x] = synced[x]
        BY <2>3, <3>3, Zenon DEF TypeOK
      <4>3. games[x] \subseteq Months
        BY DEF TypeOK
      <4>4. QED
        BY <3>1, <4>1, <4>2, <4>3 DEF CursorCoversGames
    <3>4. QED
      BY <3>2, <3>3
  <2>4. QED
    BY <1>4, <2>1, <2>2, <2>3 DEF FinalCommit
<1>5. CASE \/ \E y \in Accounts : Connect(y) \/ RequestSync(y)
           \/ ReconcileList
           \/ \E j \in Jobs : \/ ReconcileClose(j) \/ Deliver(j) \/ DeliveryLost(j)
                              \/ OperatorCancel(j) \/ OperatorRetry(j)
           \/ UNCHANGED vars
  BY <1>1, <1>5 DEF Connect, RequestSync, ReconcileList, ReconcileClose, Deliver, DeliveryLost,
                    OperatorCancel, OperatorRetry, vars
<1>6. ASSUME NEW a \in Attempts,
             \/ MarkSyncRunning(a) \/ ReadAccount(a) \/ FetchThrew(a) \/ FetchNotFound(a)
             \/ DatabaseThrew(a) \/ HandlerEnded(a) \/ WorkerCrash(a)
      PROVE  Goal
  BY <1>1, <1>6 DEF MarkSyncRunning, ReadAccount, FetchThrew, FetchNotFound, DatabaseThrew,
                    HandlerEnded, WorkerCrash
<1>7. QED
  BY <1>2, <1>3, <1>4, <1>5, <1>6 DEF Next, AttemptStep

-----------------------------------------------------------------------------
\* What is counted.

\* An attempt that is not fetching after a step has forgotten what it added.
LEMMA NotFetchingStep ==
  ASSUME TypeOK, [Next]_vars, NEW a \in Attempts, stage'[a] # "fetching"
  PROVE  \/ stage[a] # "fetching" /\ added'[a] = added[a]
         \/ added'[a] = {}
<1> USE DEF rowVars, queueVars, attemptVars, accountVars
<1> DEFINE Forgot == \/ stage[a] # "fetching" /\ added'[a] = added[a]
                     \/ added'[a] = {}
<1>1. ASSUME NEW b, NEW s, Stage(b, s) PROVE Forgot
  BY <1>1 DEF Stage, TypeOK
<1>2. CASE UNCHANGED attemptVars
  BY <1>2
<1>3. CASE \E x \in Accounts : Connect(x) \/ RequestSync(x) \/ Disconnect(x)
  BY <1>2, <1>3 DEF Connect, RequestSync, Disconnect
<1>4. CASE \/ ReconcileList
           \/ \E j \in Jobs : ReconcileClose(j) \/ OperatorRetry(j)
           \/ UNCHANGED vars
  BY <1>2, <1>4 DEF ReconcileList, ReconcileClose, OperatorRetry, vars
<1>5. ASSUME NEW j \in Jobs, Deliver(j) \/ DeliveryLost(j) \/ OperatorCancel(j) PROVE Forgot
  BY <1>1, <1>2, <1>5 DEF Deliver, DeliveryLost, OperatorCancel, Orphaned
<1>6. ASSUME NEW b \in Attempts, ReadAccount(b) PROVE Forgot
  <2>1. CASE Stage(b, "returned")
    BY <1>1, <2>1
  <2>2. CASE stage' = [stage EXCEPT ![b] = "fetching"] /\ UNCHANGED added
    BY <2>2 DEF TypeOK
  <2>3. QED
    BY <1>6, <2>1, <2>2 DEF ReadAccount
<1>7. ASSUME NEW b \in Attempts, Checkpoint(b) PROVE Forgot
  BY <1>7 DEF Checkpoint, TypeOK
<1>8. ASSUME NEW b \in Attempts, AttemptStep(b), ~ReadAccount(b), ~Checkpoint(b) PROVE Forgot
  BY <1>1, <1>8 DEF AttemptStep, MarkSyncRunning, Marked, FetchThrew, FetchNotFound, FinalCommit,
                    DatabaseThrew, HandlerEnded, WorkerCrash
<1>9. QED
  BY <1>3, <1>4, <1>5, <1>6, <1>7, <1>8 DEF Next

\* What a step may insert: the new games of the attempt's job, out of those
\* that land in its account.
Lands(a) ==
  LET j == a[1]
      x == owner[j] IN
  /\ OwnedBy(a)
  /\ stage[a] = "fetching"
  /\ \E got \in SUBSET Months :
       /\ landed' = [landed EXCEPT ![j] = @ \cup NewGames(x, got)]
       /\ games' = [games EXCEPT ![x] = @ \cup got]
  /\ UNCHANGED <<owner, startedAt, made>>
  /\ \A k \in Jobs \ {j} : status'[k] = status[k] /\ inserted'[k] = inserted[k]

LEMMA LandingStep ==
  ASSUME TypeOK, [Next]_vars
  PROVE  UNCHANGED landed \/ \E a \in Attempts : Lands(a)
<1> USE DEF rowVars, queueVars, attemptVars, accountVars
<1>1. ASSUME NEW a \in Attempts, Checkpoint(a) PROVE Lands(a)
  <2>1. {next[a]} \in SUBSET Months
    BY <1>1 DEF Checkpoint
  <2>2. QED
    BY <1>1, <2>1 DEF Checkpoint, Lands
<1>2. ASSUME NEW a \in Attempts, NEW got \in SUBSET Months, NEW complete \in BOOLEAN,
             FinalCommit(a, got, complete), landed' # landed
      PROVE  Lands(a)
  <2>1. \A k \in Jobs \ {a[1]} : status'[k] = status[k] /\ inserted'[k] = inserted[k]
    BY <1>2 DEF FinalCommit, Finished, NotFinished, TypeOK
  <2>2. QED
    BY <1>2, <2>1 DEF FinalCommit, Lands
<1>3. CASE \E x \in Accounts : Connect(x) \/ RequestSync(x) \/ Disconnect(x)
  BY <1>3 DEF Connect, RequestSync, Created, Disconnect
<1>4. CASE \/ ReconcileList
           \/ \E j \in Jobs : \/ ReconcileClose(j) \/ Deliver(j) \/ DeliveryLost(j)
                              \/ OperatorCancel(j) \/ OperatorRetry(j)
           \/ UNCHANGED vars
  BY <1>4 DEF ReconcileList, ReconcileClose, Deliver, DeliveryLost,
              OperatorCancel, OperatorRetry, vars
<1>5. ASSUME NEW a \in Attempts,
             \/ MarkSyncRunning(a) \/ ReadAccount(a) \/ FetchThrew(a) \/ FetchNotFound(a)
             \/ DatabaseThrew(a) \/ HandlerEnded(a) \/ WorkerCrash(a)
      PROVE  UNCHANGED landed
  BY <1>5 DEF MarkSyncRunning, ReadAccount, FetchThrew, FetchNotFound, DatabaseThrew,
              HandlerEnded, WorkerCrash
<1>6. QED
  BY <1>1, <1>2, <1>3, <1>4, <1>5 DEF Next, AttemptStep

\* A pass keeps counting nothing that it did not insert.
LEMMA AddedStep == TypeOK /\ AddedLanded /\ [Next]_vars => AddedLanded'
<1> SUFFICES ASSUME TypeOK, AddedLanded, [Next]_vars, NEW a \in Attempts
             PROVE  IF stage'[a] = "fetching" THEN added'[a] \subseteq landed'[a[1]]
                    ELSE added'[a] = {}
  BY DEF AddedLanded
<1>1. a[1] \in Jobs
  BY AttemptParts
<1>2. landed[a[1]] \subseteq landed'[a[1]]
  BY <1>1, LandingStep DEF Lands, TypeOK
<1>3. CASE stage'[a] # "fetching"
  BY <1>3, NotFetchingStep DEF AddedLanded
<1>4. CASE stage'[a] = "fetching"
  <2>1. CASE stage[a] = "fetching" /\ added'[a] = added[a]
    BY <1>2, <1>4, <2>1 DEF AddedLanded
  <2>2. CASE ReadAccount(a)
    BY <1>4, <2>2 DEF AddedLanded, ReadAccount, Stage, TypeOK
  <2>3. CASE Checkpoint(a)
    BY <1>1, <1>4, <2>3 DEF AddedLanded, Checkpoint, TypeOK
  <2>4. QED
    BY <1>4, <2>1, <2>2, <2>3, FetchingStep
<1>5. QED
  BY <1>3, <1>4

\* Numbers are not given back.
LEMMA MadeGrows == ASSUME TypeOK, [Next]_vars PROVE made' \in Nat /\ made' >= made
<1> USE DEF rowVars, queueVars, attemptVars, accountVars
<1>1. CASE \E x \in Accounts : Connect(x) \/ RequestSync(x) \/ Disconnect(x)
  BY <1>1 DEF Connect, RequestSync, Disconnect, Created, NewJob, TypeOK
<1>2. CASE \/ ReconcileList
           \/ \E j \in Jobs : \/ ReconcileClose(j) \/ Deliver(j) \/ DeliveryLost(j)
                              \/ OperatorCancel(j) \/ OperatorRetry(j)
           \/ UNCHANGED vars
  <2>1. UNCHANGED made
    BY <1>2 DEF ReconcileList, ReconcileClose, Deliver, DeliveryLost,
                OperatorCancel, OperatorRetry, vars
  <2>2. QED
    BY <2>1 DEF TypeOK
<1>3. ASSUME NEW a \in Attempts, AttemptStep(a) PROVE made' \in Nat /\ made' >= made
  <2>1. UNCHANGED made
    BY <1>3 DEF AttemptStep, MarkSyncRunning, ReadAccount, Checkpoint, FetchThrew, FetchNotFound,
                FinalCommit, DatabaseThrew, HandlerEnded, WorkerCrash
  <2>2. QED
    BY <2>1 DEF TypeOK
<1>4. QED
  BY <1>1, <1>2, <1>3 DEF Next

\* What a job inserted stays as long as its row, after any step.
LEMMA KeptStep ==
  TypeOK /\ Numbered /\ NothingOutlivesAccount /\ LandedKept /\ [Next]_vars => LandedKept'
<1> SUFFICES ASSUME TypeOK, Numbered, NothingOutlivesAccount, LandedKept, [Next]_vars,
                    NEW j \in Jobs
             PROVE  /\ Exists(j)' => landed'[j] \subseteq games'[owner'[j]]
                    /\ j > made' => landed'[j] = {}
  BY DEF LandedKept
<1>1. made' \in Nat /\ made' >= made /\ made \in Nat /\ j \in Nat
  <2>1. made' \in Nat /\ made' >= made
    BY MadeGrows
  <2>2. made \in Nat
    BY DEF TypeOK
  <2>3. j \in Nat
    BY ConstantsAssumption DEF Jobs
  <2>4. QED
    BY <2>1, <2>2, <2>3
<1>2. CASE j > made
  <2>1. landed[j] = {}
    BY <1>2 DEF LandedKept
  <2>2. ASSUME NEW a \in Attempts, Lands(a) PROVE landed'[j] = landed[j]
    <3>1. a[1] <= made /\ a[1] \in Jobs
      BY <2>2, AttemptParts DEF Lands, Numbered
    <3>2. a[1] # j
      BY <1>1, <1>2, <3>1 DEF Jobs
    <3>3. QED
      BY <2>2, <3>2 DEF Lands, TypeOK
  <2>3. landed'[j] = {}
    BY <2>1, <2>2, LandingStep
  <2>4. QED
    BY <2>3
<1>3. CASE j <= made
  <2>1. ~(j > made')
    BY <1>1, <1>3
  <2>2. ASSUME Exists(j)' PROVE landed'[j] \subseteq games'[owner'[j]]
    <3>1. owner'[j] = owner[j] /\ Exists(j)
      BY <1>3, <2>2, RowsStay DEF Exists
    <3>2. owner[j] \in Accounts /\ landed[j] \subseteq games[owner[j]]
      BY <3>1 DEF NothingOutlivesAccount, LandedKept
    <3>3. games[owner[j]] \subseteq games'[owner[j]]
      BY <2>2, <3>1, <3>2, GamesGrow DEF Exists
    <3>4. ASSUME NEW a \in Attempts, Lands(a), a[1] = j PROVE landed'[j] \subseteq games'[owner[j]]
      <4>1. PICK got \in SUBSET Months :
              /\ landed' = [landed EXCEPT ![j] = @ \cup NewGames(owner[j], got)]
              /\ games' = [games EXCEPT ![owner[j]] = @ \cup got]
        BY <3>4 DEF Lands
      <4>2. landed'[j] = landed[j] \cup NewGames(owner[j], got)
        BY <4>1 DEF TypeOK
      <4>3. games'[owner[j]] = games[owner[j]] \cup got
        BY <3>2, <4>1 DEF TypeOK
      <4>4. QED
        BY <3>2, <4>2, <4>3 DEF NewGames
    <3>5. ASSUME NEW a \in Attempts, Lands(a), a[1] # j PROVE landed'[j] = landed[j]
      BY <3>5 DEF Lands, TypeOK
    <3>6. QED
      BY <3>1, <3>2, <3>3, <3>4, <3>5, LandingStep
  <2>3. QED
    BY <2>1, <2>2
<1>4. QED
  BY <1>1, <1>2, <1>3

-----------------------------------------------------------------------------
\* The end of a pass that is counted: it adds what the pass inserted, and the
\* pass does not fetch on.
Counts(a) ==
  LET j == a[1]
      x == owner[j] IN
  /\ OwnedBy(a)
  /\ stage[a] = "fetching"
  /\ stage'[a] # "fetching"
  /\ \E got \in SUBSET Months :
       /\ landed' = [landed EXCEPT ![j] = @ \cup NewGames(x, got)]
       /\ inserted' = [inserted EXCEPT ![j] = @ \cup (added[a] \cup NewGames(x, got))]

LEMMA CountingStep ==
  ASSUME TypeOK, [Next]_vars
  PROVE  UNCHANGED inserted \/ \E a \in Attempts : Counts(a)
<1> USE DEF rowVars, queueVars, attemptVars, accountVars
<1>1. ASSUME NEW a \in Attempts, NEW got \in SUBSET Months, NEW complete \in BOOLEAN,
             FinalCommit(a, got, complete)
      PROVE  UNCHANGED inserted \/ Counts(a)
  <2>1. stage'[a] # "fetching"
    BY <1>1 DEF FinalCommit, Stage, TypeOK
  <2>2. CASE NotFinished
    BY <2>2 DEF NotFinished
  <2>3. CASE ~NotFinished
    <3>1. /\ OwnedBy(a)
          /\ stage[a] = "fetching"
          /\ landed' = [landed EXCEPT ![a[1]] = @ \cup NewGames(owner[a[1]], got)]
      BY <1>1, <2>3 DEF FinalCommit
    <3>2. inserted' = [inserted EXCEPT ![a[1]] = @ \cup (added[a] \cup NewGames(owner[a[1]], got))]
      BY <1>1, <2>3 DEF FinalCommit, Finished
    <3>3. QED
      BY <2>1, <3>1, <3>2 DEF Counts
  <2>4. QED
    BY <2>2, <2>3
<1>2. ASSUME NEW a \in Attempts, FetchThrew(a) \/ FetchNotFound(a) PROVE UNCHANGED inserted
  <2>1. UNCHANGED inserted \/ inserted' = [inserted EXCEPT ![a[1]] = @ \cup {}]
    BY <1>2 DEF FetchThrew, FetchNotFound, Finished, NotFinished
  <2>2. QED
    BY <2>1 DEF TypeOK
<1>3. ASSUME NEW a \in Attempts,
             \/ MarkSyncRunning(a) \/ ReadAccount(a) \/ Checkpoint(a)
             \/ DatabaseThrew(a) \/ HandlerEnded(a) \/ WorkerCrash(a)
      PROVE  UNCHANGED inserted
  BY <1>3 DEF MarkSyncRunning, ReadAccount, Checkpoint, DatabaseThrew, HandlerEnded, WorkerCrash
<1>4. CASE \E x \in Accounts : Connect(x) \/ RequestSync(x) \/ Disconnect(x)
  BY <1>4 DEF Connect, RequestSync, Created, Disconnect
<1>5. CASE \/ ReconcileList
           \/ \E j \in Jobs : \/ ReconcileClose(j) \/ Deliver(j) \/ DeliveryLost(j)
                              \/ OperatorCancel(j) \/ OperatorRetry(j)
           \/ UNCHANGED vars
  BY <1>5 DEF ReconcileList, ReconcileClose, Deliver, DeliveryLost,
              OperatorCancel, OperatorRetry, vars
<1>6. QED
  BY <1>1, <1>2, <1>3, <1>4, <1>5 DEF Next, AttemptStep

\* A stamp is given by marking alone, and an attempt that marks is not yet
\* fetching: one that fetches and owns its row after a step owned it before.
LEMMA StampStep ==
  ASSUME TypeOK, Numbered, [Next]_vars, NEW a \in Attempts,
         stage[a] = "fetching", stage'[a] = "fetching", OwnedBy(a)'
  PROVE  OwnedBy(a)
<1> USE DEF rowVars, queueVars, attemptVars, accountVars
<1>1. a[1] \in Jobs /\ a[1] <= made
  BY AttemptParts DEF Numbered
<1>2. Exists(a[1])
  BY <1>1, RowsStay DEF OwnedBy, Exists
<1>3. ASSUME UNCHANGED startedAt PROVE OwnedBy(a)
  BY <1>2, <1>3 DEF OwnedBy
<1>4. ASSUME NEW b \in Attempts, MarkSyncRunning(b) PROVE OwnedBy(a)
  <2>1. a # b
    BY <1>4 DEF MarkSyncRunning
  <2>2. CASE UNCHANGED startedAt
    BY <1>3, <2>2
  <2>3. CASE startedAt' = [startedAt EXCEPT ![b[1]] = b[2]]
    <3>1. CASE a[1] = b[1]
      <4>1. a[2] = b[2]
        BY <1>1, <2>3, <3>1 DEF OwnedBy, TypeOK
      <4>2. QED
        BY <2>1, <3>1, <4>1, AttemptParts
    <3>2. CASE a[1] # b[1]
      BY <1>1, <1>2, <2>3, <3>2 DEF OwnedBy, TypeOK
    <3>3. QED
      BY <3>1, <3>2
  <2>4. QED
    BY <1>4, <2>2, <2>3 DEF MarkSyncRunning, Marked
<1>5. ASSUME NEW b \in Attempts, AttemptStep(b), ~MarkSyncRunning(b) PROVE UNCHANGED startedAt
  BY <1>5 DEF AttemptStep, ReadAccount, Checkpoint, FetchThrew, FetchNotFound, FinalCommit,
              DatabaseThrew, HandlerEnded, WorkerCrash
<1>6. CASE \E x \in Accounts : Connect(x) \/ RequestSync(x) \/ Disconnect(x)
  BY <1>3, <1>6 DEF Connect, RequestSync, Created, Disconnect
<1>7. CASE \/ ReconcileList
           \/ \E j \in Jobs : \/ ReconcileClose(j) \/ Deliver(j) \/ DeliveryLost(j)
                              \/ OperatorCancel(j) \/ OperatorRetry(j)
           \/ UNCHANGED vars
  BY <1>3, <1>7 DEF ReconcileList, ReconcileClose, Deliver, DeliveryLost,
              OperatorCancel, OperatorRetry, vars
<1>8. QED
  BY <1>3, <1>4, <1>5, <1>6, <1>7 DEF Next

\* An attempt's row is one attempt's.
LEMMA OneOwner ==
  ASSUME NEW a \in Attempts, NEW b \in Attempts, a[1] = b[1], OwnedBy(a), OwnedBy(b)
  PROVE  a = b
  BY AttemptParts DEF OwnedBy

\* No step counts a game twice: a pass adds games that were new, to a count
\* that holds only games its job inserted.
LEMMA CountStep ==
  /\ TypeOK /\ Numbered /\ NothingOutlivesAccount
  /\ AddedLanded /\ LandedKept /\ NeverOvercounted
  /\ [Next]_vars
  => NeverOvercounted'
<1> SUFFICES ASSUME TypeOK, Numbered, NothingOutlivesAccount, AddedLanded, LandedKept,
                    NeverOvercounted, [Next]_vars
             PROVE  NeverOvercounted'
  OBVIOUS
<1> USE ConstantsAssumption
<1>1. ASSUME NEW j \in Jobs PROVE inserted'[j] \subseteq landed'[j]
  <2>1. landed[j] \subseteq landed'[j]
    BY LandingStep DEF Lands, TypeOK
  <2>2. CASE UNCHANGED inserted
    BY <2>1, <2>2 DEF NeverOvercounted
  <2>3. ASSUME NEW a \in Attempts, Counts(a) PROVE inserted'[j] \subseteq landed'[j]
    <3>1. CASE a[1] = j
      <4>1. PICK got \in SUBSET Months :
              /\ landed' = [landed EXCEPT ![j] = @ \cup NewGames(owner[j], got)]
              /\ inserted' = [inserted EXCEPT ![j] = @ \cup (added[a] \cup NewGames(owner[j], got))]
        BY <2>3, <3>1 DEF Counts
      <4>2. /\ landed'[j] = landed[j] \cup NewGames(owner[j], got)
            /\ inserted'[j] = inserted[j] \cup (added[a] \cup NewGames(owner[j], got))
        BY <4>1 DEF TypeOK
      <4>3. inserted[j] \subseteq landed[j] /\ added[a] \subseteq landed[j]
        BY <2>3, <3>1 DEF Counts, AddedLanded, NeverOvercounted
      <4>4. QED
        BY <4>2, <4>3
    <3>2. CASE a[1] # j
      <4>1. inserted'[j] = inserted[j]
        BY <2>3, <3>2 DEF Counts, TypeOK
      <4>2. QED
        BY <2>1, <4>1 DEF NeverOvercounted
    <3>3. QED
      BY <3>1, <3>2
  <2>4. QED
    BY <2>2, <2>3, CountingStep
<1>2. ASSUME NEW a \in Attempts, stage'[a] = "fetching", OwnedBy(a)'
      PROVE  added'[a] \cap inserted'[a[1]] = {}
  <2>1. a[1] \in Jobs
    BY AttemptParts
  <2>2. CASE stage[a] = "fetching" /\ added'[a] = added[a]
    <3>1. OwnedBy(a) /\ added[a] \cap inserted[a[1]] = {}
      BY <1>2, <2>2, StampStep DEF NeverOvercounted
    <3>2. ASSUME NEW b \in Attempts, Counts(b) PROVE inserted'[a[1]] = inserted[a[1]]
      <4>1. a # b
        BY <1>2, <3>2 DEF Counts
      <4>2. a[1] # b[1]
        BY <3>1, <3>2, <4>1, OneOwner DEF Counts
      <4>3. QED
        BY <2>1, <3>2, <4>2 DEF Counts, TypeOK
    <3>3. QED
      BY <2>2, <3>1, <3>2, CountingStep
  <2>3. CASE ReadAccount(a)
    <3>1. added'[a] = {}
      BY <1>2, <2>3 DEF ReadAccount, Stage, AddedLanded, TypeOK
    <3>2. QED
      BY <3>1
  <2>4. CASE Checkpoint(a)
    <3>1. /\ added'[a] = added[a] \cup NewGames(owner[a[1]], {next[a]})
          /\ UNCHANGED inserted
          /\ OwnedBy(a)
          /\ stage[a] = "fetching"
      BY <2>4 DEF Checkpoint, TypeOK
    <3>2. inserted[a[1]] \subseteq games[owner[a[1]]]
      BY <2>1, <3>1 DEF NeverOvercounted, LandedKept, OwnedBy
    <3>3. added[a] \cap inserted[a[1]] = {}
      BY <3>1 DEF NeverOvercounted
    <3>4. QED
      BY <3>1, <3>2, <3>3 DEF NewGames
  <2>5. QED
    BY <1>2, <2>2, <2>3, <2>4, FetchingStep
<1>3. ASSUME NEW j \in Jobs, NEW k \in Jobs,
             Exists(j)', Exists(k)', owner'[j] = owner'[k], j # k
      PROVE  landed'[j] \cap landed'[k] = {}
  <2>1. ASSUME NEW i \in Jobs, ~(i <= made) PROVE landed'[i] = {}
    <3>1. landed[i] = {}
      BY <2>1 DEF LandedKept, Jobs, TypeOK
    <3>2. ASSUME NEW a \in Attempts, Lands(a) PROVE landed'[i] = landed[i]
      <4>1. a[1] # i
        BY <2>1, <3>2 DEF Lands, Numbered
      <4>2. QED
        BY <3>2, <4>1 DEF Lands, TypeOK
    <3>3. QED
      BY <3>1, <3>2, LandingStep
  <2>2. CASE ~(j <= made) \/ ~(k <= made)
    BY <2>1, <2>2
  <2>3. CASE j <= made /\ k <= made
    <3>1. Exists(j) /\ Exists(k) /\ owner[j] = owner[k] /\ owner[j] \in Accounts
      BY <1>3, <2>3, RowsStay DEF Exists, NothingOutlivesAccount
    <3>2. landed[j] \cap landed[k] = {}
      BY <1>3, <3>1 DEF NeverOvercounted
    <3>3. landed[j] \subseteq games[owner[j]] /\ landed[k] \subseteq games[owner[j]]
      BY <3>1 DEF LandedKept
    <3>4. ASSUME NEW a \in Attempts, Lands(a), a[1] = j
          PROVE  landed'[j] \cap landed'[k] = {}
      <4>1. PICK got \in SUBSET Months :
              landed' = [landed EXCEPT ![j] = @ \cup NewGames(owner[j], got)]
        BY <3>4 DEF Lands
      <4>2. landed'[j] = landed[j] \cup NewGames(owner[j], got) /\ landed'[k] = landed[k]
        BY <1>3, <4>1 DEF TypeOK
      <4>3. QED
        BY <3>2, <3>3, <4>2 DEF NewGames
    <3>5. ASSUME NEW a \in Attempts, Lands(a), a[1] = k
          PROVE  landed'[j] \cap landed'[k] = {}
      <4>1. PICK got \in SUBSET Months :
              landed' = [landed EXCEPT ![k] = @ \cup NewGames(owner[k], got)]
        BY <3>5 DEF Lands
      <4>2. landed'[k] = landed[k] \cup NewGames(owner[k], got) /\ landed'[j] = landed[j]
        BY <1>3, <4>1 DEF TypeOK
      <4>3. QED
        BY <3>1, <3>2, <3>3, <4>2 DEF NewGames
    <3>6. ASSUME NEW a \in Attempts, Lands(a), a[1] # j, a[1] # k
          PROVE  landed'[j] = landed[j] /\ landed'[k] = landed[k]
      BY <3>6 DEF Lands, TypeOK
    <3>7. QED
      BY <3>2, <3>4, <3>5, <3>6, LandingStep
  <2>4. QED
    BY <2>2, <2>3
<1>4. QED
  BY <1>1, <1>2, <1>3 DEF NeverOvercounted

-----------------------------------------------------------------------------
\* The invariants feed each other: none is inductive without the ones before
\* it, and their induction is one.
THEOREM InductiveHolds == Spec => []Inductive
<1>1. Init => Inductive
  <2> SUFFICES ASSUME Init PROVE Inductive
    OBVIOUS
  <2>1. TypeOK
    BY ConstantsAssumption, DeliveriesBound
       DEF Init, TypeOK, ErrorCode, DeliveryState, RunningStage
  <2>2. Numbered
    BY ConstantsAssumption DEF Init, Numbered, Exists, Jobs
  <2>3. /\ NothingOutlivesAccount
        /\ OneActivePerAccount
        /\ CursorCoversGames
        /\ PrefixWalked
    BY DEF Init, NothingOutlivesAccount, OneActivePerAccount, CursorCoversGames,
           PrefixWalked, Exists, IsActive, ActiveStatus
  <2>4. /\ AddedLanded
        /\ LandedKept
        /\ NeverOvercounted
    BY DEF Init, AddedLanded, LandedKept, NeverOvercounted, Exists
  <2>5. QED
    BY <2>1, <2>2, <2>3, <2>4 DEF Inductive
<1>2. Inductive /\ [Next]_vars => Inductive'
  BY TypeStep, NumberedStep, NothingOutlivesStep, OneActiveStep, PrefixStep, CursorStep,
     AddedStep, KeptStep, CountStep
     DEF Inductive
<1>3. QED
  BY <1>1, <1>2, PTL DEF Spec

\* Type correctness: no step of the API, the queue or an attempt, in any
\* order, leaves a row, delivery or account outside its type.
THEOREM TypeCorrect == Spec => []TypeOK
  BY InductiveHolds, PTL DEF Inductive

\* Two requests, a reconciliation and attempts that write late never leave an
\* account with two active jobs.
THEOREM OneActive == Spec => []OneActivePerAccount
  BY InductiveHolds, PTL DEF Inductive

\* An attempt still fetching when its account is disconnected brings back no
\* row, game or cursor of it.
THEOREM NothingOutlives == Spec => []NothingOutlivesAccount
  BY InductiveHolds, PTL DEF Inductive

\* Whatever is retried, restarted or crashes, a later pass that starts at the
\* cursor skips no game that was not imported.
THEOREM CursorCovers == Spec => []CursorCoversGames
  BY InductiveHolds, PTL DEF Inductive

\* Over the passes of a job, those still running and the jobs beside it,
\* gamesInserted counts no game that was not inserted, and none twice.
THEOREM CountIsHonest == Spec => []NeverOvercounted
  BY InductiveHolds, PTL DEF Inductive

-----------------------------------------------------------------------------
\* What a close may do.

\* A row failed by a step that is no attempt's was active, and its delivery
\* was dead; such a step closes the set it computed.
Closes == \E x \in Accounts \cup {NoAccount} : \E D \in SUBSET Dead(x) :
            /\ Closed(D)
            /\ \A j \in Jobs : status'[j] = "failed" => StatusClosed(D)[j] = "failed"

LEMMA FailedStep ==
  ASSUME TypeOK, [Next]_vars, NEW j \in Jobs, IsActive(j), status'[j] = "failed"
  PROVE  \/ Closes
         \/ \E a \in Attempts : FetchNotFound(a) /\ a[1] = j
<1> USE DEF rowVars, queueVars, attemptVars, accountVars
<1>1. status[j] # "failed"
  BY DEF IsActive, ActiveStatus
<1>2. ASSUME NEW x \in Accounts, Connect(x) PROVE FALSE
  BY <1>1, <1>2 DEF Connect, TypeOK
<1>3. ASSUME NEW x \in Accounts, RequestSync(x) PROVE Closes
  <2>1. Closed(Dead(x)) /\ Dead(x) \in SUBSET Dead(x)
    BY <1>3 DEF RequestSync
  <2>2. \A k \in Jobs : status'[k] = "failed" => StatusClosed(Dead(x))[k] = "failed"
    BY <1>3 DEF RequestSync, StatusClosed
  <2>3. QED
    BY <2>1, <2>2 DEF Closes
<1>4. ASSUME NEW x \in Accounts, Disconnect(x) PROVE FALSE
  BY <1>1, <1>4 DEF Disconnect
<1>5. ASSUME NEW k \in Jobs, ReconcileClose(k) PROVE Closes
  BY <1>5 DEF ReconcileClose, Closes, TypeOK
<1>6. CASE \/ ReconcileList
           \/ \E k \in Jobs : Deliver(k) \/ DeliveryLost(k) \/ OperatorCancel(k) \/ OperatorRetry(k)
           \/ UNCHANGED vars
  BY <1>1, <1>6 DEF ReconcileList, Deliver, DeliveryLost, OperatorCancel, OperatorRetry, vars
<1>7. ASSUME NEW a \in Attempts, AttemptStep(a) PROVE FetchNotFound(a) /\ a[1] = j
  <2>1. CASE MarkSyncRunning(a)
    BY <1>1, <2>1 DEF MarkSyncRunning, Marked, TypeOK
  <2>2. CASE \/ ReadAccount(a) \/ Checkpoint(a) \/ DatabaseThrew(a) \/ HandlerEnded(a)
             \/ WorkerCrash(a)
    BY <1>1, <2>2 DEF ReadAccount, Checkpoint, DatabaseThrew, HandlerEnded, WorkerCrash
  <2>3. CASE FetchThrew(a)
    BY <1>1, <2>3 DEF FetchThrew, Finished, NotFinished, TypeOK
  <2>4. CASE FetchNotFound(a)
    BY <1>1, <2>4 DEF FetchNotFound, Finished, NotFinished, TypeOK
  <2>5. ASSUME NEW got \in SUBSET Months, NEW complete \in BOOLEAN,
               FinalCommit(a, got, complete)
        PROVE  FALSE
    <3>1. \/ UNCHANGED status
          \/ status' = [status EXCEPT ![a[1]] = "succeeded"]
          \/ status' = [status EXCEPT ![a[1]] = "retrying"]
      BY <2>5 DEF FinalCommit, Finished, NotFinished
    <3>2. QED
      BY <1>1, <3>1 DEF TypeOK
  <2>6. QED
    BY <1>7, <2>1, <2>2, <2>3, <2>4, <2>5 DEF AttemptStep
<1>8. QED
  BY <1>2, <1>3, <1>4, <1>5, <1>6, <1>7 DEF Next

\* Neither a request nor a reconciliation fails a job that the queue will
\* still run: isLive is asked on the locked row of the same transaction.
THEOREM LiveStays == Spec => LiveIsNotClosed
<1> DEFINE Live == \A j \in Jobs : IsActive(j) /\ IsLive(j) /\ status'[j] = "failed" =>
                     \E a \in Attempts : a[1] = j /\ stage[a] = "fetching" /\ stage'[a] # "fetching"
<1>1. TypeOK /\ [Next]_vars => Live
  <2> SUFFICES ASSUME TypeOK, [Next]_vars, NEW j \in Jobs,
                      IsActive(j), IsLive(j), status'[j] = "failed"
               PROVE  \E a \in Attempts : a[1] = j /\ stage[a] = "fetching" /\ stage'[a] # "fetching"
    OBVIOUS
  <2>1. CASE Closes
    BY <2>1 DEF Closes, StatusClosed, Dead, IsActive, ActiveStatus
  <2>2. ASSUME NEW a \in Attempts, FetchNotFound(a), a[1] = j
        PROVE  stage[a] = "fetching" /\ stage'[a] # "fetching"
    BY <2>2 DEF FetchNotFound, Stage, TypeOK
  <2>3. QED
    BY <2>1, <2>2, FailedStep
<1>2. QED
  BY <1>1, TypeCorrect, PTL DEF LiveIsNotClosed, Spec

\* A close leaves the reason of the last pass on the row.
THEOREM ReasonStays == Spec => KeepsReason
<1> DEFINE Keeps == \A j \in Jobs :
                      /\ IsActive(j)
                      /\ status'[j] = "failed"
                      /\ errorCode[j] # "none"
                      /\ UNCHANGED stage
                      => errorCode'[j] = errorCode[j]
<1>1. TypeOK /\ [Next]_vars => Keeps
  <2> SUFFICES ASSUME TypeOK, [Next]_vars, NEW j \in Jobs, IsActive(j),
                      status'[j] = "failed", errorCode[j] # "none", UNCHANGED stage
               PROVE  errorCode'[j] = errorCode[j]
    OBVIOUS
  <2>1. CASE Closes
    BY <2>1 DEF Closes, Closed
  <2>2. ASSUME NEW a \in Attempts, FetchNotFound(a) PROVE FALSE
    BY <2>2 DEF FetchNotFound, Stage, TypeOK
  <2>3. QED
    BY <2>1, <2>2, FailedStep
<1>2. QED
  BY <1>1, TypeCorrect, PTL DEF KeepsReason, Spec

-----------------------------------------------------------------------------
(* A pass that runs under the delivery pg-boss is waiting for, and has its *)
(* stamp on the row, runs on a row nobody closed: what it ends was active  *)
(* until then.  A late pass may have lost its row's activity to a close.   *)

HeldRowRuns == \A a \in Attempts :
  stage[a] \in {"marked", "fetching"} /\ OwnedBy(a) /\ Holds(a) => status[a[1]] = "running"

\* As long as no attempt outlives its delivery, every one runs under it.
RunsAsHeld == \A a \in Attempts : stage[a] \in RunningStage => Holds(a)

\* A delivery has one attempt that holds it.
LEMMA OneHolder ==
  ASSUME NEW a \in Attempts, NEW b \in Attempts, a[1] = b[1], Holds(a), Holds(b)
  PROVE  a = b
  BY AttemptParts DEF Holds

LEMMA HeldStep ==
  ~Outlive /\ TypeOK /\ Numbered /\ RunsAsHeld /\ [Next]_vars => RunsAsHeld'
<1> SUFFICES ASSUME ~Outlive, TypeOK, Numbered, RunsAsHeld, [Next]_vars PROVE RunsAsHeld'
  OBVIOUS
<1> USE ConstantsAssumption DEF rowVars, queueVars, attemptVars, accountVars
<1>0. /\ delivery \in [Jobs -> DeliveryState] /\ tries \in [Jobs -> 0 .. MaxDeliveries]
      /\ stage \in [Attempts -> RunningStage \cup {"idle", "gone"}]
      /\ \A a \in Attempts : a[1] \in Jobs
  BY AttemptParts DEF TypeOK
<1>1. ASSUME UNCHANGED <<delivery, tries>>,
             \A a \in Attempts : stage'[a] \in RunningStage => stage[a] \in RunningStage
      PROVE  RunsAsHeld'
  BY <1>1 DEF RunsAsHeld, Holds
<1>2. ASSUME NEW x \in Accounts, made < MaxJobs, Created(x), UNCHANGED stage PROVE RunsAsHeld'
  <2>1. NewJob \in Jobs /\ NewJob > made
    BY <1>2, NewJobIsJob DEF TypeOK, NewJob
  <2>2. \A a \in Attempts : stage[a] \in RunningStage => a[1] # NewJob
    BY <2>1, <1>0 DEF Numbered, RunningStage, Jobs, TypeOK
  <2>3. \A k \in Jobs : k # NewJob => delivery'[k] = delivery[k] /\ tries'[k] = tries[k]
    BY <1>2, <1>0 DEF Created
  <2>4. QED
    BY <1>0, <1>2, <2>2, <2>3 DEF RunsAsHeld, Holds
<1>3. ASSUME NEW x \in Accounts, Connect(x) PROVE RunsAsHeld'
  BY <1>2, <1>3 DEF Connect
<1>4. ASSUME NEW x \in Accounts, RequestSync(x) PROVE RunsAsHeld'
  <2>1. CASE made < MaxJobs /\ Created(x)
    BY <1>2, <1>4, <2>1 DEF RequestSync
  <2>2. CASE UNCHANGED queueVars
    BY <1>1, <1>4, <2>2 DEF RequestSync
  <2>3. QED
    BY <1>4, <2>1, <2>2 DEF RequestSync
<1>5. CASE \/ \E x \in Accounts : Disconnect(x)
           \/ ReconcileList
           \/ \E j \in Jobs : ReconcileClose(j)
           \/ UNCHANGED vars
  BY <1>1, <1>5 DEF Disconnect, ReconcileList, ReconcileClose, vars
<1>6. ASSUME NEW j \in Jobs, Deliver(j) PROVE RunsAsHeld'
  <2>0. PICK a \in Attempts : a = <<j, tries[j] + 1>>
    BY <1>6 DEF Deliver
  <2>1. delivery[j] # "active" /\ Stage(a, "delivered")
    BY <1>6, <2>0 DEF Deliver
  <2>2. \A b \in Attempts : stage[b] \in RunningStage => b[1] # j
    BY <2>1 DEF RunsAsHeld, Holds
  <2>3. /\ delivery'[j] = "active" /\ tries'[j] = tries[j] + 1
        /\ \A k \in Jobs : k # j => delivery'[k] = delivery[k] /\ tries'[k] = tries[k]
    BY <1>0, <1>6 DEF Deliver
  <2>4. \A b \in Attempts : b # a => stage'[b] = stage[b]
    BY <1>0, <2>1 DEF Stage
  <2>5. Holds(a)'
    <3>1. a[1] = j /\ a[2] = tries[j] + 1
      BY <2>0
    <3>2. QED
      BY <2>3, <3>1 DEF Holds
  <2>6. ASSUME NEW b \in Attempts, b # a, stage'[b] \in RunningStage PROVE Holds(b)'
    BY <1>0, <2>2, <2>3, <2>4, <2>6 DEF RunsAsHeld, Holds
  <2>7. QED
    BY <2>5, <2>6 DEF RunsAsHeld
<1>7. ASSUME NEW j \in Jobs, DeliveryLost(j) \/ OperatorCancel(j) PROVE RunsAsHeld'
  <2>1. /\ Orphaned(j) /\ UNCHANGED tries
        /\ \A k \in Jobs : k # j => delivery'[k] = delivery[k]
    BY <1>0, <1>7 DEF DeliveryLost, OperatorCancel
  <2>2. ASSUME NEW b \in Attempts, stage'[b] \in RunningStage
        PROVE  b[1] # j /\ stage[b] = stage'[b]
    <3>1. CASE delivery[j] # "active"
      BY <2>1, <2>2, <3>1 DEF Orphaned, RunsAsHeld, Holds
    <3>2. CASE delivery[j] = "active"
      <4>1. Stage(<<j, tries[j]>>, "gone")
        BY <2>1, <3>2 DEF Orphaned
      <4>2. b # <<j, tries[j]>> /\ stage'[b] = stage[b]
        BY <1>0, <2>2, <4>1 DEF Stage, RunningStage
      <4>3. QED
        BY <2>2, <4>2, AttemptParts DEF RunsAsHeld, Holds
    <3>3. QED
      BY <3>1, <3>2
  <2>3. QED
    BY <1>0, <2>1, <2>2 DEF RunsAsHeld, Holds
<1>8. ASSUME NEW j \in Jobs, OperatorRetry(j) PROVE RunsAsHeld'
  <2>1. /\ UNCHANGED <<tries, stage>> /\ delivery[j] = "failed"
        /\ \A k \in Jobs : k # j => delivery'[k] = delivery[k]
    BY <1>0, <1>8 DEF OperatorRetry
  <2>2. QED
    BY <1>0, <2>1 DEF RunsAsHeld, Holds
<1>9. ASSUME NEW a \in Attempts, AttemptStep(a) PROVE RunsAsHeld'
  <2>1. CASE HandlerEnded(a)
    <3>1. /\ stage[a] \in RunningStage /\ Stage(a, "gone") /\ UNCHANGED tries
          /\ \A k \in Jobs : k # a[1] => delivery'[k] = delivery[k]
      BY <1>0, <2>1 DEF HandlerEnded, RunningStage
    <3>2. ASSUME NEW b \in Attempts, stage'[b] \in RunningStage PROVE Holds(b)'
      <4>1. b # a /\ stage[b] \in RunningStage
        BY <1>0, <3>1, <3>2 DEF Stage, RunningStage
      <4>2. b[1] # a[1]
        BY <3>1, <4>1, OneHolder DEF RunsAsHeld
      <4>3. QED
        BY <1>0, <3>1, <4>1, <4>2 DEF RunsAsHeld, Holds
    <3>3. QED
      BY <3>2 DEF RunsAsHeld
  <2>2. CASE ~HandlerEnded(a)
    <3>1. UNCHANGED <<delivery, tries>>
      BY <1>9, <2>2 DEF AttemptStep, MarkSyncRunning, ReadAccount, Checkpoint, FetchThrew,
                        FetchNotFound, FinalCommit, DatabaseThrew, WorkerCrash
    <3>2. stage[a] \in RunningStage
      BY <1>9, <2>2 DEF AttemptStep, MarkSyncRunning, ReadAccount, Checkpoint, FetchThrew,
                        FetchNotFound, FinalCommit, DatabaseThrew, WorkerCrash, RunningStage
    <3>3. \A b \in Attempts : b # a => stage'[b] = stage[b]
      BY <1>0, <1>9, <2>2 DEF AttemptStep, MarkSyncRunning, Marked, ReadAccount, Checkpoint,
                        FetchThrew, FetchNotFound, FinalCommit, DatabaseThrew, WorkerCrash, Stage
    <3>4. QED
      BY <1>1, <3>1, <3>2, <3>3
  <2>3. QED
    BY <2>1, <2>2
<1>10. QED
  BY <1>3, <1>4, <1>5, <1>6, <1>7, <1>8, <1>9 DEF Next

-----------------------------------------------------------------------------
\* What a step may make of a row, and the one way it makes a new one.
Fate(j) ==
  \/ status'[j] = status[j] /\ announced'[j] = announced[j]
  \/ IsActive(j) /\ status'[j] \in ActiveStatus /\ announced'[j] = announced[j]
  \/ IsActive(j) /\ status'[j] \in SettledStatus /\ announced'[j] = announced[j] + 1
  \/ status'[j] = "absent" /\ announced'[j] = announced[j]

LateFate(j) ==
  /\ LateEnd(j)
  /\ status[j] \in SettledStatus
  /\ \/ status'[j] = "retrying" /\ announced'[j] = announced[j]
     \/ status'[j] \in SettledStatus /\ announced'[j] = announced[j] + 1

NewRow(x) ==
  /\ made < MaxJobs /\ Created(x)
  /\ status'[NewJob] = "queued" /\ announced'[NewJob] = announced[NewJob]
  /\ \A k \in Jobs \ {NewJob} : Fate(k) /\ (status'[k] \in ActiveStatus => owner[k] # x)

\* A close settles what was active.
LEMMA ClosedFate ==
  ASSUME TypeOK, NEW x, NEW D \in SUBSET Dead(x), Closed(D), NEW k \in Jobs
  PROVE  /\ announced'[k] = IF k \in D THEN announced[k] + 1 ELSE announced[k]
         /\ StatusClosed(D)[k] = IF k \in D THEN "failed" ELSE status[k]
         /\ k \in D => IsActive(k) /\ ~IsLive(k)
  BY DEF Closed, StatusClosed, Dead

LEMMA RowFate ==
  ASSUME TypeOK, Numbered, NothingOutlivesAccount, HeldRowRuns, [Next]_vars
  PROVE  \/ UNCHANGED <<owner, made>> /\ \A j \in Jobs : Fate(j) \/ LateFate(j)
         \/ \E x \in Accounts : NewRow(x)
<1> USE ConstantsAssumption DEF rowVars, queueVars, attemptVars, accountVars
<1> DEFINE Goes == UNCHANGED <<owner, made>> /\ \A j \in Jobs : Fate(j) \/ LateFate(j)
<1>0. /\ status \in [Jobs -> ActiveStatus \cup SettledStatus \cup {"absent"}]
      /\ announced \in [Jobs -> Nat] /\ made \in Nat
      /\ \A a \in Attempts : a[1] \in Jobs
  BY AttemptParts DEF TypeOK
<1>1. ASSUME NEW x \in Accounts, Connect(x) PROVE NewRow(x)
  <2>1. NewJob \in Jobs
    BY <1>1, NewJobIsJob DEF Connect, TypeOK
  <2>2. /\ made < MaxJobs /\ Created(x) /\ UNCHANGED announced /\ status'[NewJob] = "queued"
        /\ \A k \in Jobs \ {NewJob} : status'[k] = status[k]
    BY <1>0, <1>1, <2>1 DEF Connect
  <2>3. \A k \in Jobs : status[k] \in ActiveStatus => owner[k] # x
    BY <1>1 DEF Connect, NothingOutlivesAccount, Exists, ActiveStatus
  <2>4. QED
    BY <2>2, <2>3 DEF NewRow, Fate
<1>2. ASSUME NEW x \in Accounts, RequestSync(x) PROVE Goes \/ NewRow(x)
  <2>1. \A k \in Jobs :
          /\ announced'[k] = IF k \in Dead(x) THEN announced[k] + 1 ELSE announced[k]
          /\ StatusClosed(Dead(x))[k] = IF k \in Dead(x) THEN "failed" ELSE status[k]
          /\ k \in Dead(x) => IsActive(k)
    BY <1>2, ClosedFate DEF RequestSync
  <2>2. ASSUME NEW k \in Jobs, status'[k] = StatusClosed(Dead(x))[k] PROVE Fate(k)
    BY <2>1, <2>2 DEF Fate, SettledStatus
  <2>3. CASE UNCHANGED <<owner, made>> /\ status' = StatusClosed(Dead(x))
    BY <2>2, <2>3
  <2>4. CASE /\ ~\E k \in Jobs \ Dead(x) : owner[k] = x /\ IsActive(k)
             /\ made < MaxJobs
             /\ Created(x)
             /\ status' = [StatusClosed(Dead(x)) EXCEPT ![NewJob] = "queued"]
    <3>1. NewJob \in Jobs /\ NewJob > made
      BY <1>0, <2>4, NewJobIsJob DEF TypeOK, NewJob
    <3>2. ~IsActive(NewJob)
      BY <1>0, <3>1 DEF Numbered, Exists, IsActive, ActiveStatus, Jobs
    <3>3. NewJob \notin Dead(x)
      BY <2>1, <3>1, <3>2
    <3>4. status'[NewJob] = "queued" /\ announced'[NewJob] = announced[NewJob]
      BY <2>1, <2>4, <3>1, <3>3 DEF StatusClosed
    <3>5. \A k \in Jobs \ {NewJob} : status'[k] = StatusClosed(Dead(x))[k]
      BY <2>4 DEF StatusClosed
    <3>6. ASSUME NEW k \in Jobs \ {NewJob}
          PROVE  Fate(k) /\ (status'[k] \in ActiveStatus => owner[k] # x)
      <4>1. Fate(k)
        BY <2>2, <3>5
      <4>2. ASSUME status'[k] \in ActiveStatus PROVE owner[k] # x
        BY <2>1, <2>4, <3>5, <4>2 DEF IsActive, ActiveStatus
      <4>3. QED
        BY <4>1, <4>2
    <3>7. QED
      BY <2>4, <3>4, <3>6 DEF NewRow
  <2>5. QED
    BY <1>2, <2>3, <2>4 DEF RequestSync
<1>3. ASSUME NEW x \in Accounts, Disconnect(x) PROVE Goes
  BY <1>0, <1>3 DEF Disconnect, Fate
<1>4. ASSUME NEW j \in Jobs, ReconcileClose(j) PROVE Goes
  <2> DEFINE D == {j} \cap Dead(owner[j])
  <2>1. D \in SUBSET Dead(owner[j]) /\ Closed(D) /\ status' = StatusClosed(D)
        /\ UNCHANGED <<owner, made>>
    BY <1>4 DEF ReconcileClose
  <2>2. ASSUME NEW k \in Jobs PROVE Fate(k)
    <3> HIDE DEF D
    <3>1. /\ announced'[k] = IF k \in D THEN announced[k] + 1 ELSE announced[k]
          /\ status'[k] = IF k \in D THEN "failed" ELSE status[k]
          /\ k \in D => IsActive(k)
      BY <2>1, ClosedFate
    <3>2. QED
      BY <3>1 DEF Fate, SettledStatus
  <2>3. QED
    BY <2>1, <2>2
<1>5. CASE \/ ReconcileList
           \/ \E k \in Jobs : Deliver(k) \/ DeliveryLost(k) \/ OperatorCancel(k) \/ OperatorRetry(k)
           \/ UNCHANGED vars
  <2>1. UNCHANGED <<status, announced, owner, made>>
    BY <1>5 DEF ReconcileList, Deliver, DeliveryLost, OperatorCancel, OperatorRetry, vars
  <2>2. QED
    BY <2>1 DEF Fate
<1>6. ASSUME NEW a \in Attempts, AttemptStep(a) PROVE Goes
  <2>1. UNCHANGED <<owner, made>>
    BY <1>6 DEF AttemptStep, MarkSyncRunning, ReadAccount, Checkpoint, FetchThrew,
                FetchNotFound, FinalCommit, DatabaseThrew, HandlerEnded, WorkerCrash
  <2>2. ASSUME UNCHANGED <<status, announced>> PROVE Goes
    BY <2>1, <2>2 DEF Fate
  <2>3. ASSUME NEW outcome \in {"retrying", "succeeded", "failed"}, NEW e, NEW c,
               stage[a] = "fetching", stage'[a] # "fetching", OwnedBy(a),
               Finished(a[1], outcome, e, c)
        PROVE  Goes
    <3>1. /\ a[1] \in Jobs
          /\ IsActive(a[1]) \/ status[a[1]] \in SettledStatus
          /\ ~IsActive(a[1]) => LateEnd(a[1])
      BY <1>0, <2>3 DEF HeldRowRuns, OwnedBy, Exists, IsActive, ActiveStatus, LateEnd
    <3>2. /\ status'[a[1]] = outcome
          /\ announced'[a[1]] = IF outcome = "retrying" THEN announced[a[1]] ELSE announced[a[1]] + 1
          /\ \A k \in Jobs : k # a[1] => status'[k] = status[k] /\ announced'[k] = announced[k]
      BY <1>0, <2>3, <3>1 DEF Finished
    <3>3. Fate(a[1]) \/ LateFate(a[1])
      BY <2>3, <3>1, <3>2 DEF Fate, LateFate, ActiveStatus, SettledStatus
    <3>4. \A k \in Jobs : Fate(k) \/ LateFate(k)
      BY <3>2, <3>3 DEF Fate
    <3>5. QED
      BY <2>1, <3>4
  <2>4. CASE MarkSyncRunning(a)
    <3>1. CASE IsActive(a[1]) /\ Marked(a)
      <4>1. /\ status'[a[1]] = "running" /\ UNCHANGED announced
            /\ \A k \in Jobs : k # a[1] => status'[k] = status[k]
        BY <1>0, <2>4, <3>1 DEF MarkSyncRunning, Marked
      <4>2. \A k \in Jobs : Fate(k)
        BY <3>1, <4>1 DEF Fate, ActiveStatus
      <4>3. QED
        BY <2>1, <4>2
    <3>2. CASE UNCHANGED status
      BY <2>2, <2>4, <3>2 DEF MarkSyncRunning
    <3>3. QED
      BY <2>4, <3>1, <3>2 DEF MarkSyncRunning
  <2>5. CASE \/ ReadAccount(a) \/ Checkpoint(a) \/ DatabaseThrew(a) \/ HandlerEnded(a)
             \/ WorkerCrash(a)
    BY <2>2, <2>5 DEF ReadAccount, Checkpoint, DatabaseThrew, HandlerEnded, WorkerCrash
  <2>6. CASE FetchThrew(a)
    <3>1. stage[a] = "fetching" /\ stage'[a] # "fetching"
      BY <2>6 DEF FetchThrew, Stage, TypeOK
    <3>2. QED
      BY <2>2, <2>3, <2>6, <3>1 DEF FetchThrew, NotFinished
  <2>7. CASE FetchNotFound(a)
    <3>1. stage[a] = "fetching" /\ stage'[a] # "fetching"
      BY <2>7 DEF FetchNotFound, Stage, TypeOK
    <3>2. QED
      BY <2>2, <2>3, <2>7, <3>1 DEF FetchNotFound, NotFinished
  <2>8. ASSUME NEW got \in SUBSET Months, NEW complete \in BOOLEAN,
               FinalCommit(a, got, complete)
        PROVE  Goes
    <3>1. CASE NotFinished
      BY <2>2, <3>1 DEF NotFinished
    <3>2. CASE ~NotFinished
      <4> DEFINE c == added[a] \cup NewGames(owner[a[1]], got)
      <4>1. stage[a] = "fetching" /\ stage'[a] # "fetching" /\ OwnedBy(a)
        BY <2>8, <3>2 DEF FinalCommit, Stage, TypeOK
      <4>2. IF complete THEN Finished(a[1], "succeeded", "none", c)
            ELSE Finished(a[1], "retrying", "incomplete", c)
        BY <2>8, <3>2 DEF FinalCommit
      <4>3. QED
        BY <2>3, <4>1, <4>2
    <3>3. QED
      BY <3>1, <3>2
  <2>9. QED
    BY <1>6, <2>4, <2>5, <2>6, <2>7, <2>8 DEF AttemptStep
<1>7. QED
  BY <1>1, <1>2, <1>3, <1>4, <1>5, <1>6 DEF Next

LEMMA HeldRowStep == TypeOK /\ Numbered /\ HeldRowRuns /\ [Next]_vars => HeldRowRuns'
<1> SUFFICES ASSUME TypeOK, Numbered, HeldRowRuns, [Next]_vars, NEW b \in Attempts,
                    stage'[b] \in {"marked", "fetching"}, OwnedBy(b)', Holds(b)'
             PROVE  status'[b[1]] = "running"
  BY DEF HeldRowRuns
<1> USE ConstantsAssumption DEF rowVars, queueVars, attemptVars, accountVars
<1>0. /\ stage \in [Attempts -> RunningStage \cup {"idle", "gone"}]
      /\ delivery \in [Jobs -> DeliveryState] /\ tries \in [Jobs -> 0 .. MaxDeliveries]
      /\ startedAt \in [Jobs -> 0 .. MaxDeliveries]
      /\ status \in [Jobs -> ActiveStatus \cup SettledStatus \cup {"absent"}]
      /\ b[1] \in Jobs /\ b[2] \in 1 .. MaxDeliveries
      /\ \A a \in Attempts : a[1] \in Jobs /\ (a[1] = b[1] /\ a[2] = b[2] => a = b)
  BY AttemptParts DEF TypeOK
<1> DEFINE Untouched == /\ status'[b[1]] = status[b[1]] /\ startedAt'[b[1]] = startedAt[b[1]]
                        /\ delivery'[b[1]] = delivery[b[1]] /\ tries'[b[1]] = tries[b[1]]
<1>1. ASSUME stage[b] \in {"marked", "fetching"}, Untouched PROVE status'[b[1]] = "running"
  BY <1>1 DEF HeldRowRuns, OwnedBy, Holds, Exists
<1>2. ASSUME UNCHANGED stage PROVE stage[b] \in {"marked", "fetching"} /\ b[1] <= made
  BY <1>2 DEF Numbered
<1>3. delivery'[b[1]] = "active" /\ tries'[b[1]] = b[2] /\ startedAt'[b[1]] = b[2]
      /\ status'[b[1]] # "absent"
  BY DEF Holds, OwnedBy, Exists
<1>4. ASSUME NEW x \in Accounts, Connect(x) \/ RequestSync(x) PROVE status'[b[1]] = "running"
  <2>0. UNCHANGED stage /\ made \in Nat /\ b[1] \in Nat
    BY <1>0, <1>4 DEF Connect, RequestSync, TypeOK, Jobs
  <2>1. stage[b] \in {"marked", "fetching"} /\ b[1] # NewJob
    BY <1>2, <2>0 DEF NewJob
  <2>2. /\ delivery'[b[1]] = delivery[b[1]] /\ tries'[b[1]] = tries[b[1]]
        /\ startedAt'[b[1]] = startedAt[b[1]]
    BY <1>0, <1>4, <2>1 DEF Connect, RequestSync, Created
  <2>3. b[1] \notin Dead(x)
    BY <1>3, <2>2 DEF Dead, IsLive, LiveState
  <2>4. StatusClosed(Dead(x))[b[1]] = status[b[1]]
    BY <1>0, <2>3 DEF StatusClosed
  <2>5. [StatusClosed(Dead(x)) EXCEPT ![NewJob] = "queued"][b[1]] = StatusClosed(Dead(x))[b[1]]
    BY <1>0, <2>1 DEF StatusClosed
  <2>6. [status EXCEPT ![NewJob] = "queued"][b[1]] = status[b[1]]
    BY <1>0, <2>1
  <2>7. status'[b[1]] = status[b[1]]
    BY <1>4, <2>4, <2>5, <2>6 DEF Connect, RequestSync
  <2>8. QED
    BY <1>1, <2>1, <2>2, <2>7
<1>5. ASSUME NEW x \in Accounts, Disconnect(x) PROVE status'[b[1]] = "running"
  <2>1. status'[b[1]] = status[b[1]]
    BY <1>0, <1>3, <1>5 DEF Disconnect
  <2>2. QED
    BY <1>1, <1>2, <1>5, <2>1 DEF Disconnect
<1>6. ASSUME NEW j \in Jobs, ReconcileClose(j) PROVE status'[b[1]] = "running"
  <2>1. b[1] \notin Dead(owner[j])
    BY <1>3, <1>6 DEF ReconcileClose, Dead, IsLive, LiveState
  <2>2. status'[b[1]] = status[b[1]]
    BY <1>0, <1>6, <2>1 DEF ReconcileClose, StatusClosed
  <2>3. QED
    BY <1>1, <1>2, <1>6, <2>2 DEF ReconcileClose
<1>7. CASE ReconcileList \/ UNCHANGED vars
  BY <1>1, <1>2, <1>7 DEF ReconcileList, vars
<1>8. ASSUME NEW j \in Jobs, OperatorRetry(j) PROVE status'[b[1]] = "running"
  BY <1>0, <1>1, <1>2, <1>3, <1>8 DEF OperatorRetry
<1>9. ASSUME NEW j \in Jobs, Deliver(j) PROVE status'[b[1]] = "running"
  <2>1. /\ \A a \in Attempts : stage'[a] = IF a = <<j, tries[j] + 1>> THEN "delivered" ELSE stage[a]
        /\ tries'[j] = tries[j] + 1
        /\ \A k \in Jobs : k # j => delivery'[k] = delivery[k] /\ tries'[k] = tries[k]
        /\ UNCHANGED <<status, startedAt>>
    BY <1>0, <1>9 DEF Deliver, Stage
  <2>2. b[1] # j
    BY <1>3, <2>1, AttemptParts
  <2>3. QED
    BY <1>0, <1>1, <2>1, <2>2, AttemptParts
<1>10. ASSUME NEW j \in Jobs, DeliveryLost(j) \/ OperatorCancel(j)
       PROVE  status'[b[1]] = "running"
  <2>1. /\ delivery'[j] # "active" /\ UNCHANGED <<tries, status, startedAt>>
        /\ \A k \in Jobs : k # j => delivery'[k] = delivery[k]
    BY <1>0, <1>10 DEF DeliveryLost, OperatorCancel, AfterFailure
  <2>2. stage[b] \in {"marked", "fetching"}
    BY <1>0, <1>10 DEF DeliveryLost, OperatorCancel, Orphaned, Stage
  <2>3. QED
    BY <1>0, <1>1, <1>3, <2>1, <2>2
<1>11. ASSUME NEW a \in Attempts, AttemptStep(a) PROVE status'[b[1]] = "running"
  <2>1. ASSUME NEW s, stage' = [stage EXCEPT ![a] = s], s \notin {"marked", "fetching"}
        PROVE  b # a /\ stage[b] \in {"marked", "fetching"}
    BY <1>0, <2>1
  <2>2. CASE MarkSyncRunning(a)
    <3>1. CASE IsActive(a[1]) /\ Marked(a)
      <4>1. /\ status' = [status EXCEPT ![a[1]] = "running"]
            /\ startedAt' = [startedAt EXCEPT ![a[1]] = a[2]]
            /\ stage' = [stage EXCEPT ![a] = "marked"]
            /\ UNCHANGED <<delivery, tries>>
        BY <2>2, <3>1 DEF MarkSyncRunning, Marked, Stage
      <4>2. CASE b[1] = a[1]
        BY <1>0, <4>1, <4>2
      <4>3. CASE b[1] # a[1]
        BY <1>0, <1>1, <4>1, <4>3
      <4>4. QED
        BY <4>2, <4>3
    <3>2. CASE Stage(a, "returned") /\ UNCHANGED <<status, errorCode, startedAt>>
      BY <1>1, <2>1, <2>2, <3>2 DEF MarkSyncRunning, Stage
    <3>3. QED
      BY <2>2, <3>1, <3>2 DEF MarkSyncRunning
  <2>3. CASE ReadAccount(a) \/ Checkpoint(a)
    <3>1. /\ stage[b] \in {"marked", "fetching"}
          /\ UNCHANGED <<status, startedAt, delivery, tries>>
      BY <1>0, <2>3 DEF ReadAccount, Checkpoint, Stage
    <3>2. QED
      BY <1>1, <3>1
  <2>4. CASE DatabaseThrew(a) \/ WorkerCrash(a)
    <3>1. UNCHANGED <<status, startedAt, delivery, tries>>
      BY <2>4 DEF DatabaseThrew, WorkerCrash
    <3>2. stage[b] \in {"marked", "fetching"}
      BY <2>1, <2>4 DEF DatabaseThrew, WorkerCrash, Stage
    <3>3. QED
      BY <1>1, <3>1, <3>2
  <2>5. CASE HandlerEnded(a)
    <3>1. /\ stage[b] \in {"marked", "fetching"} /\ UNCHANGED <<status, startedAt, tries>>
      BY <2>1, <2>5 DEF HandlerEnded, Stage
    <3>2. delivery'[b[1]] = delivery[b[1]]
      BY <1>0, <1>3, <2>5 DEF HandlerEnded, AfterFailure
    <3>3. QED
      BY <1>1, <3>1, <3>2
  <2>6. ASSUME stage[a] = "fetching", NEW s, Stage(a, s), s \in {"returned", "threw"},
               UNCHANGED <<startedAt, delivery, tries>>,
               NotFinished \/ (OwnedBy(a) /\ \E o, e, c : Finished(a[1], o, e, c))
        PROVE  status'[b[1]] = "running"
    <3>1. b # a /\ stage[b] \in {"marked", "fetching"}
      BY <2>1, <2>6 DEF Stage
    <3>2. CASE NotFinished
      BY <1>1, <2>6, <3>1, <3>2 DEF NotFinished
    <3>3. CASE OwnedBy(a) /\ \E o, e, c : Finished(a[1], o, e, c)
      <4>1. b[1] # a[1]
        BY <1>0, <1>3, <2>6, <3>1, <3>3 DEF OwnedBy
      <4>2. status'[b[1]] = status[b[1]]
        BY <1>0, <3>3, <4>1 DEF Finished
      <4>3. QED
        BY <1>1, <2>6, <3>1, <4>2
    <3>4. QED
      BY <2>6, <3>2, <3>3
  <2>7. CASE FetchThrew(a)
    <3>1. NotFinished \/ (OwnedBy(a) /\ \E o, e, c : Finished(a[1], o, e, c))
      BY <2>7 DEF FetchThrew
    <3>2. stage[a] = "fetching" /\ Stage(a, "threw") /\ UNCHANGED <<startedAt, delivery, tries>>
      BY <2>7 DEF FetchThrew
    <3>3. QED
      BY <2>6, <3>1, <3>2
  <2>8. CASE FetchNotFound(a)
    <3>1. NotFinished \/ (OwnedBy(a) /\ \E o, e, c : Finished(a[1], o, e, c))
      BY <2>8 DEF FetchNotFound
    <3>2. stage[a] = "fetching" /\ Stage(a, "returned") /\ UNCHANGED <<startedAt, delivery, tries>>
      BY <2>8 DEF FetchNotFound
    <3>3. QED
      BY <2>6, <3>1, <3>2
  <2>9. ASSUME NEW got \in SUBSET Months, NEW complete \in BOOLEAN,
               FinalCommit(a, got, complete)
        PROVE  status'[b[1]] = "running"
    <3>1. NotFinished \/ (OwnedBy(a) /\ \E o, e, c : Finished(a[1], o, e, c))
      BY <2>9 DEF FinalCommit
    <3>2. /\ stage[a] = "fetching" /\ Stage(a, IF complete THEN "returned" ELSE "threw")
          /\ UNCHANGED <<startedAt, delivery, tries>>
      BY <2>9 DEF FinalCommit
    <3>3. QED
      BY <2>6, <3>1, <3>2
  <2>10. QED
    BY <1>11, <2>2, <2>3, <2>4, <2>5, <2>7, <2>8, <2>9 DEF AttemptStep
<1>12. QED
  BY <1>4, <1>5, <1>6, <1>7, <1>8, <1>9, <1>10, <1>11 DEF Next

LEMMA HeldRowHolds == Spec => []HeldRowRuns
<1>1. Init => HeldRowRuns
  BY DEF Init, HeldRowRuns
<1>2. Inductive /\ HeldRowRuns /\ [Next]_vars => HeldRowRuns'
  BY HeldRowStep DEF Inductive
<1>3. QED
  BY <1>1, <1>2, InductiveHolds, PTL DEF Spec

LEMMA HeldHolds == ~Outlive => (Spec => []RunsAsHeld)
<1> SUFFICES ASSUME ~Outlive PROVE Spec => []RunsAsHeld
  OBVIOUS
<1>1. Init => RunsAsHeld
  BY DEF Init, RunsAsHeld, RunningStage
<1>2. Inductive /\ RunsAsHeld /\ [Next]_vars => RunsAsHeld'
  BY HeldStep DEF Inductive
<1>3. QED
  BY <1>1, <1>2, InductiveHolds, PTL DEF Spec

-----------------------------------------------------------------------------
\* A row made is newer than all there are.
LEMMA NewRowIs ==
  ASSUME TypeOK, Numbered, NEW x \in Accounts, NewRow(x)
  PROVE  /\ NewJob \in Jobs /\ owner'[NewJob] = x /\ ~Exists(NewJob)
         /\ \A k \in Jobs : k # NewJob => owner'[k] = owner[k]
         /\ \A k \in Jobs : k # NewJob /\ Exists(k)' => Exists(k) /\ k < NewJob
<1> USE ConstantsAssumption
<1>1. /\ NewJob \in Jobs /\ NewJob > made /\ made \in Nat
      /\ owner \in [Jobs -> Accounts \cup {NoAccount}]
  BY NewJobIsJob DEF NewRow, TypeOK, NewJob
<1>2. owner'[NewJob] = x /\ \A k \in Jobs : k # NewJob => owner'[k] = owner[k]
  BY <1>1 DEF NewRow, Created
<1>3. ~Exists(NewJob)
  BY <1>1 DEF Numbered, Jobs
<1>4. ASSUME NEW k \in Jobs, k # NewJob, Exists(k)' PROVE Exists(k) /\ k < NewJob
  <2>1. Exists(k)
    BY <1>4 DEF NewRow, Fate, Exists, IsActive, ActiveStatus
  <2>2. QED
    BY <1>1, <2>1 DEF Numbered, Jobs
<1>5. QED
  BY <1>1, <1>2, <1>3, <1>4

\* Only an active row stays active, or one a late end reopened, and a new row
\* finds no active one of its account.
LEMMA OvertakenStep ==
  ASSUME TypeOK, Numbered, NothingOutlivesAccount, HeldRowRuns, [Next]_vars,
         NEW j \in Jobs, Overtaken(j)'
  PROVE  \/ Overtaken(j)
         \/ LateEnd(j) /\ status[j] \in SettledStatus /\ status'[j] = "retrying"
<1>1. PICK k \in Jobs : IsActive(j)' /\ owner'[k] = owner'[j] /\ Exists(k)' /\ ~(k <= j)
  BY DEF Overtaken, Latest, IsActive, Exists, ActiveStatus
<1>2. ASSUME IsActive(j), owner[k] = owner[j], Exists(k) PROVE Overtaken(j)
  BY <1>1, <1>2 DEF Overtaken, Latest
<1>3. CASE UNCHANGED <<owner, made>> /\ \A i \in Jobs : Fate(i) \/ LateFate(i)
  <2>1. owner[k] = owner[j] /\ Exists(k)
    BY <1>1, <1>3 DEF Fate, LateFate, Exists, IsActive, ActiveStatus, SettledStatus
  <2>2. CASE Fate(j)
    BY <1>1, <1>2, <2>1, <2>2 DEF Fate, IsActive, ActiveStatus, SettledStatus
  <2>3. CASE LateFate(j)
    BY <1>1, <2>3 DEF LateFate, IsActive, ActiveStatus, SettledStatus
  <2>4. QED
    BY <1>3, <2>2, <2>3
<1>4. ASSUME NEW x \in Accounts, NewRow(x) PROVE Overtaken(j)
  <2>1. j # NewJob
    BY <1>1, <1>4, NewRowIs DEF Jobs
  <2>2. IsActive(j) /\ owner[j] # x /\ owner'[j] = owner[j]
    BY <1>1, <1>4, <2>1, NewRowIs DEF NewRow, Fate, IsActive, ActiveStatus, SettledStatus
  <2>3. k # NewJob /\ owner[k] = owner[j] /\ Exists(k)
    BY <1>1, <1>4, <2>2, NewRowIs
  <2>4. QED
    BY <1>2, <2>2, <2>3
<1>5. QED
  BY <1>3, <1>4, RowFate

\* What lockLatestSyncJob relies on, for any accounts, jobs and attempts: the
\* active job of an account is the newest one unless a late end reopened it.
THEOREM OvertakenByLateEnds == Spec => OvertakenOnlyLate
<1> DEFINE Only == \A j \in Jobs : Overtaken(j)' =>
                     \/ Overtaken(j)
                     \/ LateEnd(j) /\ status[j] \in SettledStatus /\ status'[j] = "retrying"
<1>1. Inductive /\ HeldRowRuns /\ [Next]_vars => Only
  BY OvertakenStep DEF Inductive
<1>2. QED
  BY <1>1, InductiveHolds, HeldRowHolds, PTL DEF OvertakenOnlyLate, Spec

\* Every settlement is announced in the step that makes it, once unless a
\* late end settles a row again (notifySyncSettled).
THEOREM SettlementsAnnounced == Spec => AnnouncedAsSettled
<1> DEFINE Heard == \A j \in Jobs :
       /\ IsActive(j) /\ status'[j] \in SettledStatus => announced'[j] = announced[j] + 1
       /\ announced'[j] # announced[j] =>
            /\ announced'[j] = announced[j] + 1
            /\ status'[j] \in SettledStatus
            /\ IsActive(j) \/ LateEnd(j)
<1>1. Inductive /\ HeldRowRuns /\ [Next]_vars => Heard
  <2> SUFFICES ASSUME Inductive, HeldRowRuns, [Next]_vars PROVE Heard
    OBVIOUS
  <2>1. ASSUME \A i \in Jobs : Fate(i) \/ LateFate(i) PROVE Heard
    BY <2>1 DEF Fate, LateFate, IsActive, ActiveStatus, SettledStatus, Inductive, TypeOK
  <2>2. ASSUME NEW x \in Accounts, NewRow(x) PROVE Heard
    <3>1. status'[NewJob] \notin SettledStatus /\ announced'[NewJob] = announced[NewJob]
      BY <2>2 DEF NewRow, SettledStatus
    <3>2. \A k \in Jobs \ {NewJob} : Fate(k)
      BY <2>2 DEF NewRow
    <3>3. QED
      BY <3>1, <3>2 DEF Fate, IsActive, ActiveStatus, SettledStatus
  <2>3. QED
    BY <2>1, <2>2, RowFate DEF Inductive
<1>2. QED
  BY <1>1, InductiveHolds, HeldRowHolds, PTL DEF AnnouncedAsSettled, Spec

-----------------------------------------------------------------------------
(* The cursor.                                                             *)

\* Rows go with their account and not before.
LEMMA RowsLeaveTogether ==
  ASSUME TypeOK, Numbered, [Next]_vars, NEW j \in Jobs, Exists(j)
  PROVE  Exists(j)' \/ account'[owner[j]] # "tracked"
<1> USE DEF rowVars, queueVars, attemptVars, accountVars, Exists
<1>0. owner[j] \in Accounts
  BY DEF Numbered
<1>1. ASSUME NEW x \in Accounts, Disconnect(x)
      PROVE  Exists(j)' \/ account'[owner[j]] # "tracked"
  BY <1>0, <1>1 DEF Disconnect, TypeOK
<1>2. ASSUME NEW x \in Accounts, Connect(x) PROVE Exists(j)'
  BY <1>2 DEF Connect, TypeOK
<1>3. ASSUME NEW D PROVE StatusClosed(D)[j] # "absent"
  BY DEF StatusClosed
<1>4. ASSUME NEW x \in Accounts, RequestSync(x) PROVE Exists(j)'
  <2>1. CASE status' = StatusClosed(Dead(x))
    BY <1>3, <2>1
  <2>2. CASE status' = [StatusClosed(Dead(x)) EXCEPT ![NewJob] = "queued"]
    BY <1>3, <2>2 DEF StatusClosed
  <2>3. QED
    BY <1>4, <2>1, <2>2 DEF RequestSync
<1>5. ASSUME NEW k \in Jobs, ReconcileClose(k) PROVE Exists(j)'
  BY <1>3, <1>5 DEF ReconcileClose
<1>6. CASE \/ ReconcileList
           \/ \E k \in Jobs : Deliver(k) \/ DeliveryLost(k) \/ OperatorCancel(k) \/ OperatorRetry(k)
           \/ UNCHANGED vars
  BY <1>6 DEF ReconcileList, Deliver, DeliveryLost, OperatorCancel, OperatorRetry, vars
<1>7. ASSUME NEW a \in Attempts, AttemptStep(a) PROVE Exists(j)'
  <2>1. CASE MarkSyncRunning(a)
    BY <2>1 DEF MarkSyncRunning, Marked, TypeOK
  <2>2. CASE \/ ReadAccount(a) \/ Checkpoint(a) \/ DatabaseThrew(a) \/ HandlerEnded(a)
             \/ WorkerCrash(a)
    BY <2>2 DEF ReadAccount, Checkpoint, DatabaseThrew, HandlerEnded, WorkerCrash
  <2>3. CASE FetchThrew(a) \/ FetchNotFound(a)
    BY <2>3 DEF FetchThrew, FetchNotFound, Finished, NotFinished, TypeOK
  <2>4. ASSUME NEW got \in SUBSET Months, NEW complete \in BOOLEAN,
               FinalCommit(a, got, complete)
        PROVE  Exists(j)'
    <3>1. \/ UNCHANGED status
          \/ status' = [status EXCEPT ![a[1]] = "succeeded"]
          \/ status' = [status EXCEPT ![a[1]] = "retrying"]
      BY <2>4 DEF FinalCommit, Finished, NotFinished
    <3>2. QED
      BY <3>1 DEF TypeOK
  <2>5. QED
    BY <1>7, <2>1, <2>2, <2>3, <2>4 DEF AttemptStep
<1>8. QED
  BY <1>1, <1>2, <1>4, <1>5, <1>6, <1>7 DEF Next

\* A cursor is moved by a checkpoint and by the end of a complete pass.
Stores(b, x) == stage[b] = "fetching" /\ OwnedBy(b) /\ owner[b[1]] = x

LEMMA CursorMoves ==
  ASSUME TypeOK, [Next]_vars, NEW x \in Accounts, account'[x] = "tracked"
  PROVE  \/ cursor'[x] = cursor[x]
         \/ \E b \in Attempts : Stores(b, x) /\ Checkpoint(b) /\ cursor'[x] = next[b]
         \/ \E b \in Attempts :
              Stores(b, x) /\ stage'[b] # "fetching" /\ cursor'[x] = LastMonth
<1> USE DEF rowVars, queueVars, attemptVars, accountVars
<1>1. ASSUME NEW y \in Accounts, Disconnect(y) PROVE cursor'[x] = cursor[x]
  BY <1>1 DEF Disconnect, TypeOK
<1>2. ASSUME NEW b \in Attempts, Checkpoint(b)
      PROVE  cursor'[x] = cursor[x] \/ (Stores(b, x) /\ cursor'[x] = next[b])
  <2>1. /\ stage[b] = "fetching" /\ OwnedBy(b)
        /\ cursor' = [cursor EXCEPT ![owner[b[1]]] = next[b]]
    BY <1>2 DEF Checkpoint
  <2>2. CASE owner[b[1]] = x
    BY <2>1, <2>2 DEF Stores, TypeOK
  <2>3. CASE owner[b[1]] # x
    BY <2>1, <2>3 DEF TypeOK
  <2>4. QED
    BY <2>2, <2>3
<1>3. ASSUME NEW b \in Attempts, NEW got \in SUBSET Months, NEW complete \in BOOLEAN,
             FinalCommit(b, got, complete)
      PROVE  \/ cursor'[x] = cursor[x]
             \/ Stores(b, x) /\ stage'[b] # "fetching" /\ cursor'[x] = LastMonth
  <2>1. stage[b] = "fetching" /\ stage'[b] # "fetching"
    BY <1>3 DEF FinalCommit, Stage, TypeOK
  <2>2. CASE UNCHANGED cursor
    BY <2>2
  <2>3. CASE OwnedBy(b) /\ cursor' = [cursor EXCEPT ![owner[b[1]]] = CursorAfter(owner[b[1]], complete)]
    BY <2>1, <2>3 DEF CursorAfter, Stores, TypeOK
  <2>4. QED
    BY <1>3, <2>2, <2>3 DEF FinalCommit
<1>4. CASE \/ \E y \in Accounts : Connect(y) \/ RequestSync(y)
           \/ ReconcileList
           \/ \E j \in Jobs : \/ ReconcileClose(j) \/ Deliver(j) \/ DeliveryLost(j)
                              \/ OperatorCancel(j) \/ OperatorRetry(j)
           \/ UNCHANGED vars
  BY <1>4 DEF Connect, RequestSync, ReconcileList, ReconcileClose, Deliver, DeliveryLost,
              OperatorCancel, OperatorRetry, vars
<1>5. ASSUME NEW b \in Attempts,
             \/ MarkSyncRunning(b) \/ ReadAccount(b) \/ FetchThrew(b) \/ FetchNotFound(b)
             \/ DatabaseThrew(b) \/ HandlerEnded(b) \/ WorkerCrash(b)
      PROVE  cursor'[x] = cursor[x]
  BY <1>5 DEF MarkSyncRunning, ReadAccount, FetchThrew, FetchNotFound, DatabaseThrew,
              HandlerEnded, WorkerCrash
<1>6. QED
  BY <1>1, <1>2, <1>3, <1>4, <1>5 DEF Next, AttemptStep

\* Beside no late attempt of another job, one attempt may write at a time.
Undisturbed(x) == Outlive => OneJob(x)

LEMMA OneWriter ==
  ASSUME OneActivePerAccount, ~Outlive => RunsAsHeld /\ HeldRowRuns, NEW x, Undisturbed(x),
         NEW a \in Attempts, NEW b \in Attempts, Stores(a, x), Stores(b, x)
  PROVE  a = b
<1>1. CASE Outlive
  <2>1. a[1] = b[1]
    BY <1>1, AttemptParts DEF Stores, OwnedBy, Undisturbed, OneJob
  <2>2. QED
    BY <2>1, OneOwner DEF Stores
<1>2. CASE ~Outlive
  <2>1. Holds(a) /\ Holds(b)
    BY <1>2 DEF RunsAsHeld, Stores, RunningStage
  <2>2. IsActive(a[1]) /\ IsActive(b[1])
    BY <1>2, <2>1 DEF HeldRowRuns, Stores, IsActive, ActiveStatus
  <2>3. a[1] = b[1]
    BY <2>2, AttemptParts DEF OneActivePerAccount, Stores
  <2>4. QED
    BY <2>1, <2>3, OneHolder
<1>3. QED
  BY <1>1, <1>2

LEMMA AheadStep ==
  /\ TypeOK /\ Numbered /\ OneActivePerAccount /\ NothingOutlivesAccount /\ AheadOfCursor
  /\ ~Outlive => RunsAsHeld /\ HeldRowRuns
  /\ NothingOutlivesAccount' /\ [Next]_vars
  => AheadOfCursor'
<1> SUFFICES ASSUME TypeOK, Numbered, OneActivePerAccount, NothingOutlivesAccount, AheadOfCursor,
                    ~Outlive => RunsAsHeld /\ HeldRowRuns, NothingOutlivesAccount', [Next]_vars,
                    NEW a \in Attempts, stage'[a] = "fetching", OwnedBy(a)',
                    Outlive => OneJob(owner[a[1]])'
             PROVE  next'[a] >= cursor'[owner'[a[1]]]
  BY DEF AheadOfCursor
<1> USE ConstantsAssumption DEF rowVars, queueVars, attemptVars, accountVars
<1> DEFINE x == owner[a[1]]
<1>1. a[1] \in Jobs /\ a[1] <= made
  <2>1. stage[a] # "idle"
    BY FetchingStep DEF ReadAccount, Checkpoint
  <2>2. QED
    BY <2>1, AttemptParts DEF Numbered
<1>2. owner'[a[1]] = x /\ Exists(a[1])
  BY <1>1, RowsStay DEF Exists, OwnedBy
<1>3. x \in Accounts /\ account'[x] = "tracked"
  BY <1>1, <1>2 DEF NothingOutlivesAccount, OwnedBy
<1>4. next[a] \in 1 .. LastMonth + 1 /\ cursor[x] \in 0 .. LastMonth
  BY <1>3 DEF TypeOK
<1>5. Undisturbed(x)
  <2> SUFFICES ASSUME Outlive, NEW j \in Jobs, NEW k \in Jobs, Exists(j), Exists(k),
                      owner[j] = x, owner[k] = x
               PROVE  j = k
    BY DEF Undisturbed, OneJob
  <2>1. Exists(j)' /\ Exists(k)'
    BY <1>3, RowsLeaveTogether
  <2>2. j <= made /\ k <= made
    BY DEF Numbered
  <2>3. owner'[j] = x /\ owner'[k] = x
    BY <2>2, RowsStay
  <2>4. QED
    BY <1>2, <2>1, <2>3 DEF OneJob
<1>6. CASE stage[a] = "fetching" /\ next'[a] = next[a]
  <2>1. Stores(a, x)
    BY <1>6, StampStep DEF Stores
  <2>2. next[a] >= cursor[x]
    BY <1>5, <2>1 DEF AheadOfCursor, Stores, Undisturbed
  <2>3. ASSUME NEW b \in Attempts, Stores(b, x), cursor'[x] # cursor[x] PROVE b = a
    BY <1>5, <2>1, <2>3, OneWriter
  <2>4. ASSUME Checkpoint(a) PROVE FALSE
    BY <1>4, <1>6, <2>4 DEF Checkpoint, TypeOK
  <2>5. cursor'[x] = cursor[x]
    BY <1>3, <2>3, <2>4, CursorMoves
  <2>6. QED
    BY <1>2, <1>6, <2>2, <2>5
<1>7. CASE ReadAccount(a)
  <2>1. next'[a] = StartMonth(x) /\ UNCHANGED cursor
    BY <1>7 DEF ReadAccount, Stage, TypeOK
  <2>2. QED
    BY <1>2, <1>4, <2>1 DEF StartMonth
<1>8. CASE Checkpoint(a)
  <2>1. next'[a] = next[a] + 1 /\ cursor'[x] = next[a]
    BY <1>3, <1>8 DEF Checkpoint, TypeOK
  <2>2. QED
    BY <1>2, <1>4, <2>1
<1>9. QED
  BY <1>6, <1>7, <1>8, FetchingStep

LEMMA AheadHolds == Spec => []AheadOfCursor
<1>1. Init => AheadOfCursor
  BY DEF Init, AheadOfCursor
<1>2. CASE Outlive
  <2>1. Inductive /\ Inductive' /\ AheadOfCursor /\ [Next]_vars => AheadOfCursor'
    BY <1>2, AheadStep DEF Inductive
  <2>2. QED
    BY <1>1, <2>1, InductiveHolds, PTL DEF Spec
<1>3. CASE ~Outlive
  <2>1. /\ Inductive /\ Inductive' /\ RunsAsHeld /\ HeldRowRuns /\ AheadOfCursor /\ [Next]_vars
        => AheadOfCursor'
    BY AheadStep DEF Inductive
  <2>2. QED
    BY <1>1, <1>3, <2>1, InductiveHolds, HeldHolds, HeldRowHolds, PTL DEF Spec
<1>4. QED
  BY <1>2, <1>3

\* Over retries and restarts, and beside no late attempt of another job, no
\* checkpoint and no final commit moves a cursor back (commitCheckpoint,
\* claimSyncAttempt).
THEOREM CursorGoesOn == Spec => CursorNeverMovesBack
<1> DEFINE Forward == \A x \in Accounts : account'[x] = "tracked" /\ (Outlive => OneJob(x)) =>
                        cursor'[x] >= cursor[x]
<1>1. TypeOK /\ AheadOfCursor /\ [Next]_vars => Forward
  <2> SUFFICES ASSUME TypeOK, AheadOfCursor, [Next]_vars, NEW x \in Accounts,
                      account'[x] = "tracked", Outlive => OneJob(x)
               PROVE  cursor'[x] >= cursor[x]
    OBVIOUS
  <2>1. cursor[x] \in 0 .. LastMonth /\ LastMonth \in Nat
    BY ConstantsAssumption DEF TypeOK
  <2>2. ASSUME NEW b \in Attempts, Stores(b, x) PROVE next[b] >= cursor[x]
    BY <2>2 DEF AheadOfCursor, Stores
  <2>3. QED
    BY <2>1, <2>2, CursorMoves
<1>2. QED
  BY <1>1, TypeCorrect, AheadHolds, PTL DEF CursorNeverMovesBack, Spec

-----------------------------------------------------------------------------
\* One step of the queue, the API or an attempt is one step of the lifecycle
\* its reader is promised, or none.
LEMMA ClosedFollows ==
  ASSUME TypeOK, NEW x, NEW D \in SUBSET Dead(x), UNCHANGED owner, status' = StatusClosed(D)
  PROVE  UNCHANGED status \/ \E j \in Jobs : Lifecycle!Fail(j)
<1>0. status \in [Jobs -> ActiveStatus \cup SettledStatus \cup {"absent"}]
  BY DEF TypeOK
<1>1. \A j, k \in Dead(x) : j \in Jobs /\ IsActive(j) /\ j <= k /\ k <= j
  BY DEF Dead, Latest
<1>2. CASE D = {}
  BY <1>0, <1>2 DEF StatusClosed
<1>3. ASSUME NEW j \in D PROVE Lifecycle!Fail(j)
  <2>1. \A k \in Jobs : k \in D <=> k = j
    BY <1>1 DEF Jobs
  <2>2. status' = [status EXCEPT ![j] = "failed"]
    BY <1>0, <2>1 DEF StatusClosed
  <2>3. status[j] \in ActiveStatus
    BY <1>1 DEF IsActive
  <2>4. QED
    BY <2>2, <2>3 DEF Lifecycle!Fail, Lifecycle!ActiveStatus, ActiveStatus
<1>4. QED
  BY <1>1, <1>2, <1>3

LEMMA CreateFollows ==
  ASSUME TypeOK, Numbered, NEW x \in Accounts, made < MaxJobs, Created(x), NEW D \in SUBSET Jobs,
         \A k \in Jobs : k \in D <=> owner[k] = x /\ IsActive(k),
         status' = [StatusClosed(D) EXCEPT ![NewJob] = "queued"]
  PROVE  \E j \in Jobs : Lifecycle!Create(j, x)
<1> USE ConstantsAssumption
<1>1. /\ NewJob \in Jobs /\ made \in Nat /\ NewJob = made + 1
      /\ owner \in [Jobs -> Accounts \cup {NoAccount}]
  BY NewJobIsJob DEF TypeOK, NewJob
<1>2. /\ owner[NewJob] = NoAccount
      /\ \A k \in Jobs : owner[k] = NoAccount => NewJob <= k
  BY <1>1 DEF Numbered, Jobs
<1>3. owner' = [owner EXCEPT ![NewJob] = x]
  BY DEF Created
<1>4. \A k \in Jobs : k \in Lifecycle!Active(x) <=> k \in D
  BY DEF Lifecycle!Active, Lifecycle!Jobs, Jobs, Lifecycle!ActiveStatus, IsActive, ActiveStatus
<1>5. status' = [k \in Jobs |-> IF k = NewJob THEN "queued"
                                ELSE IF k \in Lifecycle!Active(x) THEN "failed" ELSE status[k]]
  BY <1>1, <1>4 DEF StatusClosed
<1>6. Lifecycle!Create(NewJob, x)
  BY <1>2, <1>3, <1>5 DEF Lifecycle!Create, Lifecycle!Jobs, Jobs
<1>7. QED
  BY <1>1, <1>6

LEMMA LifecycleStep ==
  ASSUME TypeOK, Numbered, NothingOutlivesAccount, HeldRowRuns, [Next]_vars
  PROVE  \/ Lifecycle!Next
         \/ \E j \in Jobs : LateEnd(j) /\ Rewritten(j)
         \/ UNCHANGED <<owner, status>>
<1> USE DEF rowVars, queueVars, attemptVars, accountVars
<1> DEFINE Late == \E j \in Jobs : LateEnd(j) /\ Rewritten(j)
<1>0. /\ status \in [Jobs -> ActiveStatus \cup SettledStatus \cup {"absent"}]
      /\ Lifecycle!Jobs = Jobs /\ Lifecycle!ActiveStatus = ActiveStatus
      /\ \A a \in Attempts : a[1] \in Jobs
  BY AttemptParts DEF TypeOK, Lifecycle!Jobs, Jobs, Lifecycle!ActiveStatus, ActiveStatus
<1>1. ASSUME NEW x \in Accounts, Connect(x) PROVE Lifecycle!Next
  <2>1. \A k \in Jobs : ~(owner[k] = x /\ IsActive(k))
    BY <1>1 DEF Connect, NothingOutlivesAccount, Exists, IsActive, ActiveStatus
  <2>2. PICK D \in SUBSET Jobs : D = {}
    OBVIOUS
  <2>3. \A k \in Jobs : k \in D <=> owner[k] = x /\ IsActive(k)
    BY <2>1, <2>2
  <2>4. status' = [StatusClosed(D) EXCEPT ![NewJob] = "queued"]
    BY <1>0, <1>1, <2>2 DEF Connect, StatusClosed
  <2>5. made < MaxJobs /\ Created(x)
    BY <1>1 DEF Connect
  <2>6. \E j \in Jobs : Lifecycle!Create(j, x)
    BY <2>3, <2>4, <2>5, CreateFollows
  <2>7. QED
    BY <1>0, <2>6 DEF Lifecycle!Next
<1>2. ASSUME NEW x \in Accounts, RequestSync(x)
      PROVE  Lifecycle!Next \/ UNCHANGED <<owner, status>>
  <2>1. CASE UNCHANGED owner /\ status' = StatusClosed(Dead(x))
    <3>1. UNCHANGED status \/ \E j \in Jobs : Lifecycle!Fail(j)
      BY <2>1, ClosedFollows
    <3>2. QED
      BY <1>0, <2>1, <3>1 DEF Lifecycle!Next
  <2>2. CASE /\ ~\E k \in Jobs \ Dead(x) : owner[k] = x /\ IsActive(k)
             /\ made < MaxJobs
             /\ Created(x)
             /\ status' = [StatusClosed(Dead(x)) EXCEPT ![NewJob] = "queued"]
    <3>1. /\ Dead(x) \in SUBSET Jobs
          /\ \A k \in Jobs : k \in Dead(x) <=> owner[k] = x /\ IsActive(k)
      BY <2>2 DEF Dead, Latest
    <3>2. \E j \in Jobs : Lifecycle!Create(j, x)
      BY <2>2, <3>1, CreateFollows
    <3>3. QED
      BY <1>0, <3>2 DEF Lifecycle!Next
  <2>3. QED
    BY <1>2, <2>1, <2>2 DEF RequestSync
<1>3. ASSUME NEW x \in Accounts, Disconnect(x) PROVE Lifecycle!Next
  <2>1. Lifecycle!Leave(x)
    BY <1>0, <1>3 DEF Disconnect, Lifecycle!Leave
  <2>2. QED
    BY <2>1 DEF Lifecycle!Next
<1>4. ASSUME NEW j \in Jobs, ReconcileClose(j)
      PROVE  Lifecycle!Next \/ UNCHANGED <<owner, status>>
  <2>1. UNCHANGED owner /\ (UNCHANGED status \/ \E k \in Jobs : Lifecycle!Fail(k))
    BY <1>4, ClosedFollows DEF ReconcileClose
  <2>2. QED
    BY <1>0, <2>1 DEF Lifecycle!Next
<1>5. CASE \/ ReconcileList
           \/ \E k \in Jobs : Deliver(k) \/ DeliveryLost(k) \/ OperatorCancel(k) \/ OperatorRetry(k)
           \/ UNCHANGED vars
  BY <1>5 DEF ReconcileList, Deliver, DeliveryLost, OperatorCancel, OperatorRetry, vars
<1>6. ASSUME NEW a \in Attempts, AttemptStep(a)
      PROVE  Lifecycle!Next \/ Late \/ UNCHANGED <<owner, status>>
  <2>1. UNCHANGED owner
    BY <1>6 DEF AttemptStep, MarkSyncRunning, ReadAccount, Checkpoint, FetchThrew,
                FetchNotFound, FinalCommit, DatabaseThrew, HandlerEnded, WorkerCrash
  <2>2. ASSUME NEW outcome \in {"retrying", "succeeded", "failed"}, NEW e, NEW c,
               stage[a] = "fetching", stage'[a] # "fetching", OwnedBy(a),
               outcome = "retrying" => SlotFree(owner[a[1]], a[1]),
               Finished(a[1], outcome, e, c)
        PROVE  Lifecycle!Next \/ Late
    <3>1. a[1] \in Jobs /\ status' = [status EXCEPT ![a[1]] = outcome]
      BY <1>0, <2>2 DEF Finished
    <3>2. CASE Holds(a)
      <4>1. status[a[1]] = "running" /\ status[a[1]] \in ActiveStatus
        BY <2>2, <3>2 DEF HeldRowRuns, ActiveStatus
      <4>2. Lifecycle!Pause(a[1]) \/ Lifecycle!Succeed(a[1]) \/ Lifecycle!Fail(a[1])
        BY <1>0, <2>1, <2>2, <3>1, <4>1 DEF Lifecycle!Pause, Lifecycle!Succeed, Lifecycle!Fail
      <4>3. QED
        BY <1>0, <3>1, <4>2 DEF Lifecycle!Next
    <3>3. CASE ~Holds(a)
      <4>1. LateEnd(a[1])
        BY <2>2, <3>3 DEF LateEnd
      <4>2. Rewritten(a[1])
        BY <2>1, <2>2, <3>1 DEF Rewritten
      <4>3. QED
        BY <3>1, <4>1, <4>2
    <3>4. QED
      BY <3>2, <3>3
  <2>3. CASE MarkSyncRunning(a)
    <3>1. CASE IsActive(a[1]) /\ Marked(a)
      <4>1. Lifecycle!Start(a[1])
        BY <1>0, <2>1, <3>1 DEF Marked, IsActive, Lifecycle!Start
      <4>2. QED
        BY <1>0, <4>1 DEF Lifecycle!Next
    <3>2. CASE UNCHANGED status
      BY <2>1, <3>2
    <3>3. QED
      BY <2>3, <3>1, <3>2 DEF MarkSyncRunning
  <2>4. CASE \/ ReadAccount(a) \/ Checkpoint(a) \/ DatabaseThrew(a) \/ HandlerEnded(a)
             \/ WorkerCrash(a)
    BY <2>1, <2>4 DEF ReadAccount, Checkpoint, DatabaseThrew, HandlerEnded, WorkerCrash
  <2>5. CASE FetchThrew(a)
    <3>1. stage[a] = "fetching" /\ stage'[a] # "fetching"
      BY <2>5 DEF FetchThrew, Stage, TypeOK
    <3>2. CASE NotFinished
      BY <2>1, <3>2 DEF NotFinished
    <3>3. CASE OwnedBy(a) /\ SlotFree(owner[a[1]], a[1]) /\ Finished(a[1], "retrying", "internal", {})
      BY <2>2, <3>1, <3>3
    <3>4. QED
      BY <2>5, <3>2, <3>3 DEF FetchThrew
  <2>6. CASE FetchNotFound(a)
    <3>1. stage[a] = "fetching" /\ stage'[a] # "fetching"
      BY <2>6 DEF FetchNotFound, Stage, TypeOK
    <3>2. CASE NotFinished
      BY <2>1, <3>2 DEF NotFinished
    <3>3. CASE OwnedBy(a) /\ Finished(a[1], "failed", "not-found", {})
      BY <2>2, <3>1, <3>3
    <3>4. QED
      BY <2>6, <3>2, <3>3 DEF FetchNotFound
  <2>7. ASSUME NEW got \in SUBSET Months, NEW complete \in BOOLEAN,
               FinalCommit(a, got, complete)
        PROVE  Lifecycle!Next \/ Late \/ UNCHANGED status
    <3>1. CASE NotFinished
      BY <3>1 DEF NotFinished
    <3>2. CASE ~NotFinished
      <4> DEFINE c == added[a] \cup NewGames(owner[a[1]], got)
      <4>1. /\ stage[a] = "fetching" /\ stage'[a] # "fetching" /\ OwnedBy(a)
            /\ ~complete => SlotFree(owner[a[1]], a[1])
        BY <2>7, <3>2 DEF FinalCommit, Stage, TypeOK
      <4>2. IF complete THEN Finished(a[1], "succeeded", "none", c)
            ELSE Finished(a[1], "retrying", "incomplete", c)
        BY <2>7, <3>2 DEF FinalCommit
      <4>3. QED
        BY <2>2, <4>1, <4>2
    <3>3. QED
      BY <3>1, <3>2
  <2>8. QED
    BY <1>6, <2>1, <2>3, <2>4, <2>5, <2>6, <2>7 DEF AttemptStep
<1>7. QED
  BY <1>1, <1>2, <1>3, <1>4, <1>5, <1>6 DEF Next

\* With late attempts, too, the rows follow the documented lifecycle but for
\* the row a late end rewrites: SyncJobs implements SyncLifecycle up to that.
THEOREM DepartsByLateEnds == Spec => DepartsOnlyLate
<1>1. Init => Lifecycle!Init
  BY DEF Init, Lifecycle!Init, Lifecycle!Jobs, Jobs
<1>2. Inductive /\ HeldRowRuns /\ [Next]_vars
      => [Lifecycle!Next \/ \E j \in Jobs : LateEnd(j) /\ Rewritten(j)]_<<owner, status>>
  BY LifecycleStep DEF Inductive
<1>3. QED
  BY <1>1, <1>2, InductiveHolds, HeldRowHolds, PTL DEF Spec, DepartsOnlyLate

\* And so a behaviour in which no late end changes a row implements all of it,
\* whatever else its late attempts do.
NoLateEnd == [][\A j \in Jobs : LateEnd(j) => UNCHANGED status]_vars

THEOREM ImplementsLifecycle == Spec /\ NoLateEnd => FollowsLifecycle
<1>1. Init => Lifecycle!Init
  BY DEF Init, Lifecycle!Init, Lifecycle!Jobs, Jobs
<1>2. /\ Inductive /\ HeldRowRuns /\ [Next]_vars
      /\ [\A j \in Jobs : LateEnd(j) => UNCHANGED status]_vars
      => [Lifecycle!Next]_(Lifecycle!vars)
  <2> SUFFICES ASSUME Inductive, HeldRowRuns, [Next]_vars,
                      [\A j \in Jobs : LateEnd(j) => UNCHANGED status]_vars
               PROVE  Lifecycle!Next \/ UNCHANGED <<owner, status>>
    BY DEF Lifecycle!vars
  <2>1. CASE Lifecycle!Next \/ UNCHANGED <<owner, status>>
    BY <2>1
  <2>2. ASSUME NEW j \in Jobs, LateEnd(j), Rewritten(j) PROVE UNCHANGED <<owner, status>>
    BY <2>2 DEF Rewritten, vars, rowVars
  <2>3. QED
    BY <2>1, <2>2, LifecycleStep DEF Inductive
<1>3. QED
  BY <1>1, <1>2, InductiveHolds, HeldRowHolds, PTL DEF Spec, NoLateEnd, FollowsLifecycle, Lifecycle!Spec

-----------------------------------------------------------------------------
(* The archives: SyncJobs implements AccountArchive.                       *)

\* An attempt that stores games stores them for the account of its row, which
\* is tracked, with a cursor and a lastSyncedAt that agree with them.
LEMMA StoringStep ==
  ASSUME Inductive, CursorCoversGames', NEW a \in Attempts, NEW x, x = owner[a[1]], OwnedBy(a),
         NEW got \in SUBSET Months, NEW c \in 0 .. LastMonth,
         games' = [games EXCEPT ![x] = @ \cup got],
         cursor' = [cursor EXCEPT ![x] = c],
         UNCHANGED synced \/ synced' = [synced EXCEPT ![x] = TRUE],
         UNCHANGED account
  PROVE  x \in Accounts /\ Archive!Store(x)
<1>1. a[1] \in Jobs /\ x \in Accounts /\ account[x] = "tracked"
  BY AttemptParts DEF Inductive, NothingOutlivesAccount, OwnedBy
<1>2. /\ games'[x] = games[x] \cup got /\ cursor'[x] = c
      /\ synced' = [synced EXCEPT ![x] = TRUE] => synced'[x]
  BY <1>1 DEF Inductive, TypeOK
<1>3. 1 .. c \subseteq games[x] \cup got
  BY <1>1, <1>2 DEF CursorCoversGames
<1>4. UNCHANGED synced \/ (games[x] \cup got = Months /\ synced' = [synced EXCEPT ![x] = TRUE])
  BY <1>1, <1>2 DEF CursorCoversGames
<1>5. Archive!Months = Months
  BY DEF Archive!Months, Months
<1>6. QED
  BY <1>1, <1>3, <1>4, <1>5 DEF Archive!Store

LEMMA ArchiveStep ==
  ASSUME Inductive, CursorCoversGames', [Next]_vars
  PROVE  Archive!Next \/ UNCHANGED accountVars
<1> USE DEF rowVars, queueVars, attemptVars, accountVars
<1>0. TypeOK
  BY DEF Inductive
<1>1. ASSUME NEW x \in Accounts, Connect(x) PROVE Archive!Track(x)
  BY <1>1 DEF Connect, Archive!Track
<1>2. ASSUME NEW x \in Accounts, Disconnect(x) PROVE Archive!Untrack(x)
  BY <1>2 DEF Disconnect, Archive!Untrack
<1>3. ASSUME \/ \E x \in Accounts : RequestSync(x)
             \/ ReconcileList
             \/ \E j \in Jobs : \/ ReconcileClose(j) \/ Deliver(j) \/ DeliveryLost(j)
                                \/ OperatorCancel(j) \/ OperatorRetry(j)
             \/ UNCHANGED vars
      PROVE  UNCHANGED accountVars
  BY <1>3 DEF RequestSync, ReconcileList, ReconcileClose, Deliver, DeliveryLost, OperatorCancel,
              OperatorRetry, vars
<1>4. ASSUME NEW a \in Attempts, \/ MarkSyncRunning(a) \/ ReadAccount(a) \/ FetchThrew(a)
                                \/ FetchNotFound(a) \/ DatabaseThrew(a) \/ HandlerEnded(a)
                                \/ WorkerCrash(a)
      PROVE  UNCHANGED accountVars
  BY <1>4 DEF MarkSyncRunning, ReadAccount, FetchThrew, FetchNotFound, DatabaseThrew,
              HandlerEnded, WorkerCrash
<1>5. ASSUME NEW a \in Attempts, Checkpoint(a)
      PROVE  \E x \in Accounts : Archive!Store(x)
  <2> DEFINE x == owner[a[1]]
  <2>1. /\ OwnedBy(a) /\ next[a] \in Months
        /\ games' = [games EXCEPT ![x] = @ \cup {next[a]}]
        /\ cursor' = [cursor EXCEPT ![x] = next[a]]
        /\ UNCHANGED <<account, synced>>
    BY <1>5 DEF Checkpoint
  <2>2. {next[a]} \in SUBSET Months /\ next[a] \in 0 .. LastMonth
    BY <2>1, ConstantsAssumption DEF Months
  <2>3. QED
    BY <2>1, <2>2, StoringStep
<1>6. ASSUME NEW a \in Attempts, NEW got \in SUBSET Months, NEW complete \in BOOLEAN,
             FinalCommit(a, got, complete)
      PROVE  UNCHANGED accountVars \/ \E x \in Accounts : Archive!Store(x)
  <2> DEFINE x == owner[a[1]]
  <2>1. CASE UNCHANGED <<games, cursor, synced>>
    BY <1>6, <2>1 DEF FinalCommit
  <2>2. CASE /\ OwnedBy(a)
             /\ games' = [games EXCEPT ![x] = @ \cup got]
             /\ cursor' = [cursor EXCEPT ![x] = CursorAfter(x, complete)]
             /\ synced' = [synced EXCEPT ![x] = @ \/ complete]
    <3>1. x \in Accounts
      BY <2>2, AttemptParts DEF Inductive, NothingOutlivesAccount, OwnedBy
    <3>2. CursorAfter(x, complete) \in 0 .. LastMonth
      BY <1>0, <3>1, ConstantsAssumption DEF CursorAfter, TypeOK
    <3>3. UNCHANGED synced \/ synced' = [synced EXCEPT ![x] = TRUE]
      BY <1>0, <2>2, <3>1 DEF TypeOK
    <3>4. UNCHANGED account
      BY <1>6 DEF FinalCommit
    <3>5. QED
      BY <2>2, <3>2, <3>3, <3>4, StoringStep
  <2>3. QED
    BY <1>6, <2>1, <2>2 DEF FinalCommit
<1>7. QED
  BY <1>1, <1>2, <1>3, <1>4, <1>5, <1>6 DEF Next, AttemptStep, Archive!Next

\* Whatever attempts write late, crash, repeat or race, each account's games,
\* cursor and lastSyncedAt are what AccountArchive promises of them.
THEOREM ImplementsArchive == Spec => KeepsArchive
<1>1. Init => Archive!Init
  BY DEF Init, Archive!Init
<1>2. Inductive /\ CursorCoversGames' /\ [Next]_vars => [Archive!Next]_(Archive!vars)
  BY ArchiveStep DEF Archive!vars, accountVars
<1>3. Inductive => CursorCoversGames
  BY DEF Inductive
<1>4. QED
  BY <1>1, <1>2, <1>3, InductiveHolds, PTL DEF Spec, KeepsArchive, Archive!Spec
=============================================================================
