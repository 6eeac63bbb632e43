------------------------------ MODULE SyncJobs ------------------------------
(***************************************************************************)
(* The life of a sync: the sync_jobs row the API and the worker write, the *)
(* pg-boss delivery that shares its id, the worker attempts that run it    *)
(* and the account, cursor and games they write.                           *)
(*                                                                         *)
(* Every transaction is one action.  Each of them locks the row it decides *)
(* on first (lockLatestSyncJob, claimSyncAttempt), and isLive locks the    *)
(* delivery too, so nothing it read can change before it commits.          *)
(*                                                                         *)
(* Abstractions.  An account's archive is Months, one game to a month.     *)
(* A stamp (started_at) is the number of the delivery that wrote it, which *)
(* is what it identifies.  gamesInserted is the set of games it counts.    *)
(* Job ids grow in the order of createdAt.  Time is not modelled: the      *)
(* cooldown of a settled job may have elapsed whenever a request comes.    *)
(***************************************************************************)
EXTENDS Integers

CONSTANTS
  Accounts,     \* ids an account row may take; an id is never used twice
  NoAccount,    \* the owner of a row that was never inserted
  Provider,     \* Provider[x]: the delivery group of the account's jobs
  MaxJobs,      \* bound: rows ever inserted
  RetryLimit,   \* pg-boss retries a failed delivery this often
  MaxRevivals,  \* bound: times an operator retries the delivery of a job
  LastMonth,    \* months of archive the provider serves
  Outlive       \* may an attempt run on after its delivery was taken away?

ASSUME ConstantsAssumption ==
  /\ NoAccount \notin Accounts
  /\ MaxJobs \in Nat
  /\ RetryLimit \in Nat
  /\ MaxRevivals \in Nat
  /\ LastMonth \in Nat
  /\ Outlive \in BOOLEAN

MaxDeliveries == RetryLimit + 1 + MaxRevivals

VARIABLES
  \* sync_jobs, by id
  owner,      \* account_id
  status,     \* "absent" before the insert and after the account's cascade
  startedAt,  \* the stamp: the delivery that last marked the row running
  errorCode,
  inserted,   \* the games gamesInserted counts
  announced,  \* notifications sent for the row
  made,       \* number of rows inserted so far
  landed,     \* history: the games the job's attempts did insert
  \* pg-boss, by the same id
  delivery, tries, revived,
  \* runs of syncAccount, by job and number of the delivery
  stage,
  next,       \* the first month no checkpoint of the attempt covers
  added,      \* the games its checkpoints inserted
  \* tracked_accounts, and the games each one imported
  account, cursor, games, synced,
  \* the ids a reconciliation pass listed and has not visited
  sweep

rowVars     == <<owner, status, startedAt, errorCode, inserted, announced, made, landed>>
queueVars   == <<delivery, tries, revived>>
attemptVars == <<stage, next, added>>
accountVars == <<account, cursor, games, synced>>
vars        == <<rowVars, queueVars, attemptVars, accountVars, sweep>>

-----------------------------------------------------------------------------
Jobs     == 1 .. MaxJobs
Attempts == Jobs \X (1 .. MaxDeliveries)
Months   == 1 .. LastMonth

ActiveStatus  == {"queued", "running", "retrying"}
SettledStatus == {"succeeded", "failed"}
ErrorCode     == {"none", "not-found", "incomplete", "internal"}

\* "failed" stands for pg-boss's failed and cancelled alike: neither runs
\* again unless an operator retries it.
LiveState     == {"created", "retry", "active"}
DeliveryState == LiveState \cup {"none", "completed", "failed"}

\* An attempt that returned or threw has still to tell pg-boss.
RunningStage == {"delivered", "marked", "fetching", "returned", "threw"}

TypeOK ==
  /\ owner \in [Jobs -> Accounts \cup {NoAccount}]
  /\ status \in [Jobs -> ActiveStatus \cup SettledStatus \cup {"absent"}]
  /\ startedAt \in [Jobs -> 0 .. MaxDeliveries]
  /\ errorCode \in [Jobs -> ErrorCode]
  /\ inserted \in [Jobs -> SUBSET Months]
  /\ announced \in [Jobs -> Nat]
  /\ made \in 0 .. MaxJobs
  /\ landed \in [Jobs -> SUBSET Months]
  /\ delivery \in [Jobs -> DeliveryState]
  /\ tries \in [Jobs -> 0 .. MaxDeliveries]
  /\ revived \in [Jobs -> 0 .. MaxRevivals]
  /\ stage \in [Attempts -> RunningStage \cup {"idle", "gone"}]
  /\ next \in [Attempts -> 1 .. LastMonth + 1]
  /\ added \in [Attempts -> SUBSET Months]
  /\ account \in [Accounts -> {"unused", "tracked", "gone"}]
  /\ cursor \in [Accounts -> 0 .. LastMonth]  \* 0: no cursor yet
  /\ games \in [Accounts -> SUBSET Months]
  /\ synced \in [Accounts -> BOOLEAN]         \* lastSyncedAt is not null
  /\ sweep \in SUBSET Jobs

Init ==
  /\ owner = [j \in Jobs |-> NoAccount]
  /\ status = [j \in Jobs |-> "absent"]
  /\ startedAt = [j \in Jobs |-> 0]
  /\ errorCode = [j \in Jobs |-> "none"]
  /\ inserted = [j \in Jobs |-> {}]
  /\ announced = [j \in Jobs |-> 0]
  /\ made = 0
  /\ landed = [j \in Jobs |-> {}]
  /\ delivery = [j \in Jobs |-> "none"]
  /\ tries = [j \in Jobs |-> 0]
  /\ revived = [j \in Jobs |-> 0]
  /\ stage = [a \in Attempts |-> "idle"]
  /\ next = [a \in Attempts |-> 1]
  /\ added = [a \in Attempts |-> {}]
  /\ account = [x \in Accounts |-> "unused"]
  /\ cursor = [x \in Accounts |-> 0]
  /\ games = [x \in Accounts |-> {}]
  /\ synced = [x \in Accounts |-> FALSE]
  /\ sweep = {}

-----------------------------------------------------------------------------
\* Reads.

IsActive(j) == status[j] \in ActiveStatus
Exists(j)   == status[j] # "absent"
IsLive(j)   == delivery[j] \in LiveState

\* lockLatestSyncJob: the newest row of the account, if there is one.
Latest(x) == {j \in Jobs : /\ owner[j] = x /\ Exists(j)
                           /\ \A k \in Jobs : owner[k] = x /\ Exists(k) => k <= j}

\* Fault: the claim forgets the stamp, or is not made at all.
ClaimedByAny(a) == Exists(a[1])
NeverClaimed(a) == TRUE

\* The row still carries the attempt's stamp.  Its status is not asked.
OwnedBy(a) == Exists(a[1]) /\ startedAt[a[1]] = a[2]

\* The attempt is the one pg-boss's active delivery started.
Holds(a) == delivery[a[1]] = "active" /\ tries[a[1]] = a[2]

\* sync_jobs_one_active_per_account admits an active row of x at j.
SlotFree(x, j) == \A k \in Jobs \ {j} : ~(owner[k] = x /\ IsActive(k))

\* The stately policy: one job per state and singleton key, the account.
QueueFree(x, j, state) ==
  \A k \in Jobs \ {j} : ~(owner[k] = x /\ delivery[k] = state)

\* Fault: the close does not ask whether the delivery of the row is live.
AnyActive(x) == {j \in Latest(x) : IsActive(j)}

\* The newest job of x, if it is active and nothing will run it again.
Dead(x) == {j \in Latest(x) : IsActive(j) /\ ~IsLive(j)}

-----------------------------------------------------------------------------
\* Writes the use cases share.

\* abandonSyncJob: the reason of the last pass stays, and listeners hear.
Closed(D) ==
  /\ errorCode' = [j \in Jobs |-> IF j \in D /\ errorCode[j] = "none"
                                  THEN "internal" ELSE errorCode[j]]
  /\ announced' = [j \in Jobs |-> IF j \in D THEN announced[j] + 1 ELSE announced[j]]

StatusClosed(D) == [j \in Jobs |-> IF j \in D THEN "failed" ELSE status[j]]

\* createSyncJob and enqueueSync.
NewJob == made + 1

Created(x) ==
  /\ made' = NewJob
  /\ owner' = [owner EXCEPT ![NewJob] = x]
  /\ delivery' = [delivery EXCEPT ![NewJob] = "created"]
  /\ UNCHANGED <<startedAt, inserted, landed, tries, revived>>

\* Fault: every outcome is announced.
FinishedAloud(j, outcome, error, counted) ==
  /\ status' = [status EXCEPT ![j] = outcome]
  /\ errorCode' = [errorCode EXCEPT ![j] = error]
  /\ inserted' = [inserted EXCEPT ![j] = @ \cup counted]
  /\ announced' = [announced EXCEPT ![j] = @ + 1]

\* finishSyncJob: gamesInserted accumulates, a retry is not announced.
Finished(j, outcome, error, counted) ==
  /\ status' = [status EXCEPT ![j] = outcome]
  /\ errorCode' = [errorCode EXCEPT ![j] = error]
  /\ inserted' = [inserted EXCEPT ![j] = @ \cup counted]
  /\ announced' = [announced EXCEPT ![j] = IF outcome = "retrying" THEN @ ELSE @ + 1]

NotFinished == UNCHANGED <<status, errorCode, inserted, announced>>

\* Fault: the fetched games are counted, the repeats among them included.
CountsFetched(x, months) == months

\* saveGames: the games the unique constraints let through.
NewGames(x, months) == months \ games[x]

\* Fault: the cursor of an incomplete pass is stored too.
CursorAlways(x, complete) == LastMonth

\* The final position is stored by a complete pass only.
CursorAfter(x, complete) == IF complete THEN LastMonth ELSE cursor[x]

\* Where a is now.  What it fetched matters only while it is fetching.
Stage(a, s) ==
  /\ stage' = [stage EXCEPT ![a] = s]
  /\ next' = [next EXCEPT ![a] = 1]
  /\ added' = [added EXCEPT ![a] = {}]

\* What pg-boss makes of a delivery that failed.  An operator's retry adds
\* one to the delivery's limit.
AfterFailure(j) ==
  IF tries[j] <= RetryLimit + revived[j] /\ QueueFree(owner[j], j, "retry")
  THEN "retry" ELSE "failed"

-----------------------------------------------------------------------------
(* The API: connecting, asking for a sync, disconnecting.                  *)

\* importAccount's transaction: the account, its first job and the delivery.
Connect(x) ==
  /\ account[x] = "unused"
  /\ made < MaxJobs
  /\ account' = [account EXCEPT ![x] = "tracked"]
  /\ status' = [status EXCEPT ![NewJob] = "queued"]
  /\ Created(x)
  /\ UNCHANGED <<errorCode, announced, attemptVars, cursor, games, synced, sweep>>

\* requestSync.  A live job answers the request as it is; a settled one may
\* still be resting, which changes nothing either.  An insert that conflicts
\* leaves the close and answers with whatever row is newest.
RequestSync(x) ==
  LET taken == \E k \in Jobs \ Dead(x) : owner[k] = x /\ IsActive(k) IN
  /\ account[x] = "tracked"
  /\ \A j \in Latest(x) : ~(IsActive(j) /\ IsLive(j))
  /\ Closed(Dead(x))
  /\ \/ /\ ~taken
        /\ made < MaxJobs
        /\ QueueFree(x, NewJob, "created")
        /\ status' = [StatusClosed(Dead(x)) EXCEPT ![NewJob] = "queued"]
        /\ Created(x)
     \/ /\ taken
        /\ status' = StatusClosed(Dead(x))
        /\ UNCHANGED <<owner, startedAt, inserted, made, landed, queueVars>>
  /\ UNCHANGED <<attemptVars, accountVars, sweep>>

\* deleteAccountAndItsGames: the account's jobs go by cascade, and the
\* queue keeps their deliveries.
Disconnect(x) ==
  /\ account[x] = "tracked"
  /\ account' = [account EXCEPT ![x] = "gone"]
  /\ cursor' = [cursor EXCEPT ![x] = 0]
  /\ games' = [games EXCEPT ![x] = {}]
  /\ synced' = [synced EXCEPT ![x] = FALSE]
  /\ status' = [j \in Jobs |-> IF owner[j] = x THEN "absent" ELSE status[j]]
  /\ UNCHANGED <<owner, startedAt, errorCode, inserted, announced, made, landed,
                 queueVars, attemptVars, sweep>>

-----------------------------------------------------------------------------
(* reconcileSyncs: the listing takes no lock, each close takes its own.    *)

\* Fault: the listing forgets the rows waiting for a retry.
ListsUnpaused ==
  /\ sweep' = sweep \cup {j \in Jobs : status[j] \in {"queued", "running"}}
  /\ UNCHANGED <<rowVars, queueVars, attemptVars, accountVars>>

ReconcileList ==
  /\ sweep' = sweep \cup {j \in Jobs : IsActive(j)}
  /\ UNCHANGED <<rowVars, queueVars, attemptVars, accountVars>>

\* Fault: the listing is trusted, the row is not read again.
ClosesListed(j) ==
  LET D == {j} \ {k \in Jobs : IsLive(k) \/ ~Exists(k)} IN
  /\ j \in sweep
  /\ sweep' = sweep \ {j}
  /\ Closed(D)
  /\ status' = StatusClosed(D)
  /\ UNCHANGED <<owner, startedAt, inserted, made, landed,
                 queueVars, attemptVars, accountVars>>

ReconcileClose(j) ==
  LET D == {j} \cap Dead(owner[j]) IN
  /\ j \in sweep
  /\ sweep' = sweep \ {j}
  /\ Closed(D)
  /\ status' = StatusClosed(D)
  /\ UNCHANGED <<owner, startedAt, inserted, made, landed,
                 queueVars, attemptVars, accountVars>>

-----------------------------------------------------------------------------
(* One attempt: syncAccount under one delivery.                            *)

\* pg-boss starts a delivery: one job per state and account, one active job
\* per provider on every node.
Deliver(j) ==
  LET a == <<j, tries[j] + 1>> IN
  /\ delivery[j] \in {"created", "retry"}
  /\ a \in Attempts
  /\ \A k \in Jobs : delivery[k] = "active" => Provider[owner[k]] # Provider[owner[j]]
  /\ delivery' = [delivery EXCEPT ![j] = "active"]
  /\ tries' = [tries EXCEPT ![j] = @ + 1]
  /\ Stage(a, "delivered")
  /\ UNCHANGED <<rowVars, revived, accountVars, sweep>>

Marked(a) ==
  /\ status' = [status EXCEPT ![a[1]] = "running"]
  /\ errorCode' = [errorCode EXCEPT ![a[1]] = "none"]
  /\ startedAt' = [startedAt EXCEPT ![a[1]] = a[2]]
  /\ Stage(a, "marked")

\* Fault: the mark takes a row in any status.
MarkAnyRow(a) ==
  /\ stage[a] = "delivered"
  /\ \/ Exists(a[1]) /\ Marked(a)
     \/ ~Exists(a[1]) /\ Stage(a, "returned") /\ UNCHANGED <<status, errorCode, startedAt>>
  /\ UNCHANGED <<owner, inserted, announced, made, landed, queueVars, accountVars, sweep>>

MarkSyncRunning(a) ==
  /\ stage[a] = "delivered"
  /\ \/ IsActive(a[1]) /\ Marked(a)
     \/ ~IsActive(a[1]) /\ Stage(a, "returned") /\ UNCHANGED <<status, errorCode, startedAt>>
  /\ UNCHANGED <<owner, inserted, announced, made, landed, queueVars, accountVars, sweep>>

\* Fault: a cursor is not read.
StartsAnew(x) == 1

\* The cursor's own month is walked again: it may have grown since.
StartMonth(x) == IF cursor[x] = 0 THEN 1 ELSE cursor[x]

\* getTrackedAccount, and the start of the fetch.
ReadAccount(a) ==
  LET x == owner[a[1]] IN
  /\ stage[a] = "marked"
  /\ \/ /\ account[x] = "tracked"
        /\ stage' = [stage EXCEPT ![a] = "fetching"]
        /\ next' = [next EXCEPT ![a] = StartMonth(x)]
        /\ UNCHANGED added
     \/ /\ account[x] # "tracked"
        /\ Stage(a, "returned")
  /\ UNCHANGED <<rowVars, queueVars, accountVars, sweep>>

\* commitCheckpoint: the next month's games and the cursor past it.
Checkpoint(a) ==
  LET j   == a[1]
      x   == owner[j]
      m   == next[a]
      new == NewGames(x, {m})
  IN /\ stage[a] = "fetching"
     /\ m \in Months
     /\ OwnedBy(a)
     /\ games' = [games EXCEPT ![x] = @ \cup {m}]
     /\ cursor' = [cursor EXCEPT ![x] = m]
     /\ landed' = [landed EXCEPT ![j] = @ \cup new]
     /\ next' = [next EXCEPT ![a] = m + 1]
     /\ added' = [added EXCEPT ![a] = @ \cup new]
     /\ UNCHANGED <<owner, status, startedAt, errorCode, inserted, announced, made,
                    queueVars, stage, account, synced, sweep>>

\* The fetch threw or its signal was aborted.  The write is lost when the
\* row is not the attempt's, or when the index refuses a second active row.
FetchThrew(a) ==
  LET writes == OwnedBy(a) /\ SlotFree(owner[a[1]], a[1]) IN
  /\ stage[a] = "fetching"
  /\ Stage(a, "threw")
  /\ \/ writes /\ Finished(a[1], "retrying", "internal", {})
     \/ ~writes /\ NotFinished
  /\ UNCHANGED <<owner, startedAt, made, landed, queueVars, accountVars, sweep>>

FetchNotFound(a) ==
  /\ stage[a] = "fetching"
  /\ Stage(a, "returned")
  /\ \/ OwnedBy(a) /\ Finished(a[1], "failed", "not-found", {})
     \/ ~OwnedBy(a) /\ NotFinished
  /\ UNCHANGED <<owner, startedAt, made, landed, queueVars, accountVars, sweep>>

\* The final transaction: got are the months since the last checkpoint that
\* were fetched.  A pass may be incomplete with every month in hand, when
\* one game of them could not be normalized.
FinalCommit(a, got, complete) ==
  LET j      == a[1]
      x      == owner[j]
      rest   == next[a] .. LastMonth
      new    == NewGames(x, got)
      writes == OwnedBy(a) /\ (complete \/ SlotFree(x, j))
  IN /\ stage[a] = "fetching"
     /\ got \subseteq rest
     /\ complete => got = rest
     /\ Stage(a, IF complete THEN "returned" ELSE "threw")
     /\ \/ /\ writes
           /\ IF complete THEN Finished(j, "succeeded", "none", added[a] \cup new)
              ELSE Finished(j, "retrying", "incomplete", added[a] \cup new)
           /\ landed' = [landed EXCEPT ![j] = @ \cup new]
           /\ games' = [games EXCEPT ![x] = @ \cup got]
           /\ cursor' = [cursor EXCEPT ![x] = CursorAfter(x, complete)]
           /\ synced' = [synced EXCEPT ![x] = @ \/ complete]
        \/ /\ ~writes
           /\ NotFinished
           /\ UNCHANGED <<landed, games, cursor, synced>>
     /\ UNCHANGED <<owner, startedAt, made, queueVars, account, sweep>>

\* A database call of the attempt failed: it throws with nothing written.
DatabaseThrew(a) ==
  /\ stage[a] \in {"delivered", "marked", "fetching"}
  /\ Stage(a, "threw")
  /\ UNCHANGED <<rowVars, queueVars, accountVars, sweep>>

-----------------------------------------------------------------------------
(* pg-boss, the operator and the worker process.                           *)

\* The handler settled.  Only the attempt pg-boss is waiting for is heard.
HandlerEnded(a) ==
  /\ stage[a] \in {"returned", "threw"}
  /\ Stage(a, "gone")
  /\ delivery' = IF ~Holds(a) THEN delivery
                 ELSE [delivery EXCEPT ![a[1]] =
                         IF stage[a] = "returned" THEN "completed" ELSE AfterFailure(a[1])]
  /\ UNCHANGED <<rowVars, tries, revived, accountVars, sweep>>

\* What becomes of the attempt whose delivery is taken away.  In production
\* (Outlive) it runs on: its signal is aborted, and what it then writes races
\* with pg-boss; a paused process writes later still.  Without Outlive a
\* delivery is only ever lost along with the process that ran it.
Orphaned(j) ==
  IF Outlive \/ delivery[j] # "active" THEN UNCHANGED attemptVars
  ELSE Stage(<<j, tries[j]>>, "gone")

\* The process died.  pg-boss learns of it by DeliveryLost.
WorkerCrash(a) ==
  /\ stage[a] \in RunningStage
  /\ Stage(a, "gone")
  /\ UNCHANGED <<rowVars, queueVars, accountVars, sweep>>

\* The expiry or a missed heartbeat: pg-boss fails the delivery itself.
DeliveryLost(j) ==
  /\ delivery[j] = "active"
  /\ delivery' = [delivery EXCEPT ![j] = AfterFailure(j)]
  /\ Orphaned(j)
  /\ UNCHANGED <<rowVars, tries, revived, accountVars, sweep>>

OperatorCancel(j) ==
  /\ IsLive(j)
  /\ delivery' = [delivery EXCEPT ![j] = "failed"]
  /\ Orphaned(j)
  /\ UNCHANGED <<rowVars, tries, revived, accountVars, sweep>>

OperatorRetry(j) ==
  /\ delivery[j] = "failed"
  /\ revived[j] < MaxRevivals
  /\ QueueFree(owner[j], j, "retry")
  /\ delivery' = [delivery EXCEPT ![j] = "retry"]
  /\ revived' = [revived EXCEPT ![j] = @ + 1]
  /\ UNCHANGED <<rowVars, tries, attemptVars, accountVars, sweep>>

-----------------------------------------------------------------------------
AttemptStep(a) ==
  \/ MarkSyncRunning(a)
  \/ ReadAccount(a)
  \/ Checkpoint(a)
  \/ FetchThrew(a)
  \/ FetchNotFound(a)
  \/ \E got \in SUBSET Months, complete \in BOOLEAN : FinalCommit(a, got, complete)
  \/ DatabaseThrew(a)
  \/ HandlerEnded(a)
  \/ WorkerCrash(a)

Next ==
  \/ \E x \in Accounts : Connect(x) \/ RequestSync(x) \/ Disconnect(x)
  \/ ReconcileList
  \/ \E j \in Jobs : \/ ReconcileClose(j)
                     \/ Deliver(j)
                     \/ DeliveryLost(j)
                     \/ OperatorCancel(j)
                     \/ OperatorRetry(j)
  \/ \E a \in Attempts : AttemptStep(a)

Spec == Init /\ [][Next]_vars

\* pg-boss polls, its maintenance expires what does not answer, and the
\* reconciliation is on a schedule.  Nothing is promised of an attempt.
Fairness ==
  /\ WF_vars(ReconcileList)
  /\ \A j \in Jobs : /\ WF_vars(ReconcileClose(j))
                     /\ WF_vars(Deliver(j))
                     /\ WF_vars(DeliveryLost(j))

FairSpec == Spec /\ Fairness

-----------------------------------------------------------------------------
(* Invariants.                                                             *)

\* An account has at most one active job, whatever attempts write late and
\* whoever closes and creates beside them.
OneActivePerAccount ==
  \A j, k \in Jobs : IsActive(j) /\ IsActive(k) /\ owner[j] = owner[k] => j = k

\* A disconnected account leaves nothing: no row, game or cursor of it stays
\* or comes back by an attempt that was still fetching.
NothingOutlivesAccount ==
  /\ \A j \in Jobs : Exists(j) => owner[j] \in Accounts /\ account[owner[j]] = "tracked"
  /\ \A x \in Accounts : account[x] # "tracked" =>
       games[x] = {} /\ cursor[x] = 0 /\ ~synced[x]

\* The cursor is a promise: no month before it is missing, so nothing the
\* next pass skips was lost; and an account that synced was walked whole.
CursorCoversGames ==
  \A x \in Accounts : /\ 1 .. cursor[x] \subseteq games[x]
                      /\ synced[x] => games[x] = Months

\* gamesInserted counts no game twice and none that was not inserted: not
\* across the passes of a job, the passes still running, or two jobs.
NeverOvercounted ==
  /\ \A j \in Jobs : inserted[j] \subseteq landed[j]
  /\ \A a \in Attempts : stage[a] = "fetching" /\ OwnedBy(a) =>
       added[a] \cap inserted[a[1]] = {}
  /\ \A j, k \in Jobs : Exists(j) /\ Exists(k) /\ owner[j] = owner[k] /\ j # k =>
       landed[j] \cap landed[k] = {}

\* docs/reference/ingestion.md: gamesInserted is the rows actually inserted.
InsertedIsExact == \A j \in Jobs : status[j] = "succeeded" => inserted[j] = landed[j]

-----------------------------------------------------------------------------
(* What these invariants rest on: with them they are inductive.            *)

\* The rows inserted so far are those that have an owner, and only they have
\* a status, a delivery or an attempt.
Numbered ==
  /\ \A j \in Jobs : j <= made <=> owner[j] \in Accounts
  /\ \A j \in Jobs : Exists(j) \/ delivery[j] # "none" => j <= made
  /\ \A a \in Attempts : stage[a] # "idle" => a[1] <= made

\* A pass that fetches on has left no month behind it.
PrefixWalked ==
  \A a \in Attempts : stage[a] = "fetching" /\ Exists(a[1]) =>
    1 .. next[a] - 1 \subseteq games[owner[a[1]]]

\* Beside no late attempt of another job, a pass that may still write is not
\* behind the cursor.
OneJob(x) ==
  \A j, k \in Jobs : Exists(j) /\ Exists(k) /\ owner[j] = x /\ owner[k] = x => j = k

AheadOfCursor ==
  \A a \in Attempts :
    stage[a] = "fetching" /\ OwnedBy(a) /\ (Outlive => OneJob(owner[a[1]])) =>
      next[a] >= cursor[owner[a[1]]]

\* What a pass counts it inserted.
AddedLanded ==
  \A a \in Attempts : IF stage[a] = "fetching" THEN added[a] \subseteq landed[a[1]]
                      ELSE added[a] = {}

\* What a job inserted stays as long as its row.
LandedKept ==
  \A j \in Jobs : /\ Exists(j) => landed[j] \subseteq games[owner[j]]
                  /\ j > made => landed[j] = {}

Inductive ==
  /\ TypeOK
  /\ Numbered
  /\ OneActivePerAccount
  /\ NothingOutlivesAccount
  /\ CursorCoversGames
  /\ PrefixWalked
  /\ AddedLanded
  /\ LandedKept
  /\ NeverOvercounted

-----------------------------------------------------------------------------
(* What a step may never do.                                               *)

\* The attempt wrote, or was told that it may not.
Superseded(a) ==
  /\ stage[a] \in RunningStage \ {"delivered"}
  /\ ~(Exists(a[1]) /\ startedAt[a[1]] = a[2])

\* An attempt whose stamp is gone, or whose row is, changes no row, cursor
\* or game, however it ends.
SupersededWritesNothing ==
  [][\A a \in Attempts : Superseded(a) /\ AttemptStep(a) =>
       UNCHANGED <<rowVars, accountVars>>]_vars

\* A job whose delivery will still run it is failed by its attempts alone:
\* no request or reconciliation closes it under a worker or before a retry.
LiveIsNotClosed ==
  [][\A j \in Jobs : IsActive(j) /\ IsLive(j) /\ status'[j] = "failed" =>
       \E a \in Attempts : a[1] = j /\ stage[a] = "fetching" /\ stage'[a] # "fetching"]_vars

\* A row closed by somebody else than an attempt keeps the reason the last
\* pass left on it.
KeepsReason ==
  [][\A j \in Jobs :
       /\ IsActive(j)
       /\ status'[j] = "failed"
       /\ errorCode[j] # "none"
       /\ UNCHANGED stage
       => errorCode'[j] = errorCode[j]]_vars

\* While the account is tracked its cursor never moves back, over retries,
\* restarts and, as long as no attempt outlives its delivery, new jobs: an
\* attempt stores a month only if none it does not know of was stored since.
CursorNeverMovesBack ==
  [][\A x \in Accounts : account'[x] = "tracked" /\ (Outlive => OneJob(x)) =>
       cursor'[x] >= cursor[x]]_vars

\* The rows follow the documented lifecycle, whatever the queue does.
Lifecycle == INSTANCE SyncLifecycle WITH owner <- owner, status <- status
FollowsLifecycle == Lifecycle!Spec

\* A pass ends on a row that still carries its stamp after pg-boss gave its
\* delivery up: the stamp does not tell that the row was closed meanwhile.
LateEnd(j) ==
  \E a \in Attempts : /\ a[1] = j
                      /\ stage[a] = "fetching" /\ stage'[a] # "fetching"
                      /\ OwnedBy(a) /\ ~Holds(a)

\* finishSyncJob writes that one row, whatever its status, and reopens it only
\* where the index has room for it.
Rewritten(j) ==
  /\ UNCHANGED owner
  /\ \/ status' = [status EXCEPT ![j] = "succeeded"]
     \/ status' = [status EXCEPT ![j] = "failed"]
     \/ SlotFree(owner[j], j) /\ status' = [status EXCEPT ![j] = "retrying"]

\* With attempts that run on after their deliveries, too, the rows depart from
\* the documented lifecycle in one way only: a late end rewrites its own row.
DepartsOnlyLate ==
  /\ Lifecycle!Init
  /\ [][Lifecycle!Next \/ \E j \in Jobs : LateEnd(j) /\ Rewritten(j)]_<<owner, status>>

\* lockLatestSyncJob's comment, an active job is always the newest one, can
\* come to be wrong in one way only: a late end reopens a settled row that
\* has a newer one, and neither a request nor a reconciliation does.
Overtaken(j) == IsActive(j) /\ j \notin Latest(owner[j])

OvertakenOnlyLate ==
  [][\A j \in Jobs : Overtaken(j)' =>
       \/ Overtaken(j)
       \/ LateEnd(j) /\ status[j] \in SettledStatus /\ status'[j] = "retrying"]_vars

\* Listeners are told of every settlement in the step that makes it, and of
\* nothing else; they are told once, unless a late end settles a row again.
AnnouncedAsSettled ==
  [][\A j \in Jobs :
       /\ IsActive(j) /\ status'[j] \in SettledStatus => announced'[j] = announced[j] + 1
       /\ announced'[j] # announced[j] =>
            /\ announced'[j] = announced[j] + 1
            /\ status'[j] \in SettledStatus
            /\ IsActive(j) \/ LateEnd(j)]_vars

\* What was imported is the account's as long as it is tracked, and its cursor
\* and lastSyncedAt are true of it, whichever attempts write, and how late.
Archive == INSTANCE AccountArchive
KeepsArchive == Archive!Spec

-----------------------------------------------------------------------------
\* No job stays active for ever and holds later syncs out of its account,
\* although attempts may hang, crash and lose their deliveries.
ActiveSettles == \A j \in Jobs : IsActive(j) ~> ~IsActive(j)
=============================================================================
