# Velachess in TLA+

Velachess imports a player's games from chess.com and Lichess, stores them,
and analyses them with an engine in the browser. This directory models the
parts of it whose correctness depends on the order in which things happen,
checks the models on small instances with TLC, and proves the properties that
matter most for every instance with TLAPS.

Paths below are relative to the repository (`src/`).

## 1. The system

| component | keeps | operations | talks to |
|---|---|---|---|
| sync jobs (`libs/accounts`, `libs/infra/db/queries/sync-jobs.ts`) | one `sync_jobs` row per sync: status, stamp, error, counts | create, mark running, checkpoint, finish, abandon, reconcile | pg-boss through `makeSyncQueue`, in one transaction with the row |
| queue (pg-boss, `libs/infra/queue`) | one delivery per job, same id | enqueue, start, complete, fail, retry, expire, cancel | the worker's handlers |
| worker (`apps/worker`) | running attempts | `syncAccount`, `reconcileSyncs`, `syncAllAccounts` | providers, Postgres |
| tracked accounts (`libs/infra/db/queries/tracked-accounts.ts`) | the account, its cursor, `last_synced_at` | connect, disconnect, list | jobs and games by foreign key |
| games (`libs/infra/db/queries/games.ts`) | imported and pasted games, two uniqueness constraints | save, list, get | accounts |
| providers (`libs/infra/platforms`) | nothing | fetch an archive month by month or as a stream, checkpoint | chess.com, Lichess |
| notifications (`libs/infra/db/sync-notifications.ts`) | the LISTEN, its subscribers | emit changed, emit reset | Postgres NOTIFY, `watchSyncs` |
| event stream (`watch-syncs.ts`, `routes/syncs.ts`) | pending signals of one response | subscribe, resolve a signal, write a frame | the web's event source |
| web queries (`apps/web`) | cached accounts and games | load, invalidate, cancel | the API |
| engine (`libs/infra/engine`, `apps/web/src/engine`) | per session: the newest call, a slot for one evaluator and its Worker, the search under way | evaluate, cancel, dispose | a Worker that runs a UCI engine |
| search stream (`apps/web/src/games/analysis/position`) | lines not handed out yet, who waits for one | report, read, cancel | the engine, a pass |
| game analysis (`apps/web/src/games/analysis`) | progress of a pass in the query cache, reports in IndexedDB | read a report, search and grade, store, erase | the search stream, other tabs |
| grading (`libs/analysis`) | nothing | score a position, classify a ply | game analysis |
| review (`apps/web/src/games/review`, `libs/ui/src/chess`) | ply, variation, the evaluation shown, the square picked | step, play a trial move, reveal, click, drag | an evaluator, the report |
| accounts screens (`apps/web/src/games/import/accounts`, `settings/connections`, `onboarding`) | three cached queries, a mutation each, dialogs | connect, remove, sync, leave the tour | the API |
| PGN import (`apps/web/src/games/import/pgn`, `libs/infra/db/queries/games.ts`) | the form, the games stored | pick a file, submit, store in batches | the API |
| games list (`apps/web/src/games/list`) | the draft, the URL, the rows of a search | type, narrow, page, go back | the API |
| sessions (`apps/web/src/auth`, `libs/infra/auth`) | sessions and cookie, the cached session and data | sign in and up, sign out, reset, delete | Better Auth |
| avatar and deletion (`libs/user`, `libs/infra/storage`, `settings/account`) | row, file, crop dialog | set, remove, delete the account | the file store |
| first user (`libs/user/bootstrap-user`, `apps/server`) | the user table, an advisory lock | start, provision, confirm | Postgres |
| rate limit (`apps/server/src/middleware`) | a counter per policy and subject | let through, refuse with a wait | Redis |
| email, site, design system, translations, logging | library configuration | | |

### What is hard here

* **A delivery and its attempt are two things.** pg-boss may time a delivery
  out, cancel it or hand it to a retry while the attempt it started goes on
  fetching, for minutes. Everything the attempt then writes is late. The code
  fences writes with the row's `started_at` stamp.
* **Three parties close jobs**: the attempt, a request that finds the job dead
  and the reconciliation pass, each deciding from the row and the delivery.
* **Nothing polls.** A screen learns of a settlement through NOTIFY, one LISTEN
  connection, an in-memory hub, a stream and a query invalidation; each of
  those can lose something, and each loss must be repaired by a later read.
* **Disconnecting races with everything**: an account, its jobs, its games and
  cursor disappear under attempts that still hold its id.
* **An engine cannot be interrupted, only asked to stop.** Its answer comes when
  it comes, to whoever reads next, or never. Calls that replace one another,
  are cancelled or time out share one Worker and must not speak at once, nor
  leave a Worker behind.
* **Passes are partial by design.** A month that fails leaves a hole, and the
  cursor must not step over it.
* **Screens outlive what they asked for.** Evaluations, refetches, crops and
  answers of an earlier session come late and in any order, to a screen that
  has moved on, to another position, another search, another person.
* **Two stores, no transaction.** A picture is a file and a row, a report is in
  a database every tab shares and one of them erases, an import commits batch by
  batch: each stops halfway.

`PROJECT.json` lists each such hazard at the line where it bites, with the
properties that cover it.

### What makes each component correct

* Sync jobs: one active job per account; a settled job stays settled; every
  active job ends; a live delivery's job is not closed; attempts that lost
  their stamp write nothing; counts and cursors are honest; a disconnected
  account leaves nothing behind.
* Notifications: no settlement is forgotten between the row and the screen; a
  stream carries only its user's settled jobs; what settles is shown.
* Engine: one search at a time; an answer is the caller's own and whole; at most
  one Worker, and none that nobody accounts for; an idle Worker survives
  cancellations; every call settles.
* Search stream: no line lost, none twice, no reader left asleep.
* Game analysis: a stored report is of a whole pass; a grade shown is that ply's;
  what is erased stays erased, and erasing comes to an end.
* Grading: a ply costs what its own mover lost, whoever's turn it was.
* Review: what is beside the board is about the position on it; a move played is
  one that position allows; no evaluator is left behind.
* Accounts screens: a form leaves over fresh data.
* PGN import: every game stored is counted by one import, whatever is sent twice.
* Providers: no game is skipped for good.
* Games list: the rows are of the term in the field.
* Sessions: the data shown is that of the person named, and nobody is thrown out
  for an answer to somebody else's session.
* Avatar: a row shows bytes that exist, and no bytes survive their account.
* First user: one, whose address is confirmed.
* Rate limit: a client that waits as it was told is let through, and no stretch of
  a window's length sees more than twice the budget.

## 2. Modules

| module | models | proved in |
|---|---|---|
| `SyncLifecycle` | abstract: what a sync promises the reader of its row | |
| `AccountArchive` | abstract: what importing promises the owner of an account | |
| `SyncJobs` | the row, delivery, attempts, account, cursor, games | `SyncJobsProofs` |
| `MCSyncJobs` | instances of `SyncJobs` for TLC | |
| `SyncEvents` | NOTIFY to screen | `SyncEventsProofs` |
| `MCSyncEvents` | instances of `SyncEvents` for TLC | |
| `LatestCall` | abstract: what a session promises those who call it | |
| `BrowserEngine` | one engine session of the browser | `BrowserEngineProofs` |
| `GameAnalysis` | passes over games, the cache of each tab, the database they share | `GameAnalysisProofs` |
| `MCGameAnalysis` | instances of `GameAnalysis` for TLC | |
| `SearchStream` | the lines and the end of one search, as its consumer reads them | `ReviewProofs` |
| `Grading` | from engine scores to judged plies | `ReviewProofs` |
| `Review` | ply, variation and what is shown beside the board | `ReviewProofs` |
| `BoardInput` | clicks and drags on that board | `ReviewProofs` |
| `ChessAccounts` | a provider's slot on the server and on one tab's screens | `LibraryProofs` |
| `ProviderFetch` | both walks through an archive | `LibraryProofs` |
| `PgnImport` | the dialog, overlapping imports, their batches | `LibraryProofs` |
| `GamesList` | search box, URL, pager, rows | `LibraryProofs` |
| `Identity` | sessions, cookie, what a tab takes itself to be | `UsersProofs` |
| `Avatar` | the picture as file and row, the crop dialog, deletion | `UsersProofs` |
| `FirstUser` | API processes that start together | `UsersProofs` |
| `RateLimit` | the budgets in Redis | `UsersProofs` |
| `MCComponents` | the last twelve, side by side | `ComponentsProofs` |

`ReviewConstants`, `GradingConstants`, `ProviderConstants`, `FirstUserConstants`
and `IdentityConstants` hold the constants and the named assumptions of the
module they are called after, so that `MCComponents` can extend them and have TLC
evaluate the assumptions. The other parts declare their constants themselves; what the proofs assume of those is
named in `MCComponents` (`BoundsAssumption`, `SlotAssumption`, `TextsAssumption`,
`FieldAssumption`) and evaluated there as well.

`SyncJobs` and `SyncEvents` share one fact: finishing or abandoning a job
commits the row and its notification together (`announced` in the first,
`Settle` in the second). `BrowserEngine` shares nothing with either: analysis
happens in the browser, on games that are already there. What it shows of one
session, that it implements `LatestCall` and that an answer is the answer to its
own search, is what `GameAnalysis` and `Review` take an evaluation to be: the
position it is of. `ProviderFetch` shows what `SyncJobs` takes a checkpoint to
be: a month whose readable games are all stored. `ChessAccounts` knows a sync as active or over.

### MCComponents

The twelve parts share no state, so they are not interleaved: an initial state
picks `part`, that part alone moves, and the others stay at one place (`Starts`,
`Alone`). The state space is the sum of theirs, not the product, and each part
is explored as if it ran by itself. That nothing is lost by this is a theorem,
`EveryPartIsItself`: a behaviour of the composition is, for each part, a behaviour
of the part's own specification.

### SyncJobs

State: the `sync_jobs` columns by job id (`owner`, `status`, `startedAt`,
`errorCode`, `inserted`), pg-boss's delivery by the same id (`delivery`,
`tries`, `revived`), the attempts by job and number of the delivery (`stage`,
`next`, `added`), the accounts with `cursor`, `games` and `synced`, and the ids
a reconciliation pass has listed (`sweep`).

Each use case is an action: `Connect`, `RequestSync`, `Disconnect`,
`ReconcileList` and `ReconcileClose`; each transaction of `syncAccount` is an
action of one attempt: `MarkSyncRunning`, `ReadAccount`, `Checkpoint`,
`FetchThrew`, `FetchNotFound`, `FinalCommit`, `DatabaseThrew`, `HandlerEnded`.
pg-boss, the operator and the process are external: `Deliver`, `DeliveryLost`,
`OperatorCancel`, `OperatorRetry`, `WorkerCrash`.

A transaction is atomic because each of them first locks the row it decides on
(`lockLatestSyncJob`, `claimSyncAttempt`, the conditional updates) and
`isLive` locks the delivery; what is read outside a transaction (the listing of
a reconciliation, the account before a fetch) is an action of its own.

Abstractions. An archive is `Months` with one game each; a chess.com
checkpoint is a month, and a pass without checkpoints (Lichess between two of
them) is one in which `FinalCommit` brings everything. A stamp is the number of
the delivery that wrote it, because a stamp is only ever compared for equality
and each delivery writes its own. `gamesInserted` is the set it counts, so that
"twice" can be said. Time is left out: a cooldown may or may not have elapsed
when a request comes. A claim that fails is an action that changes nothing, so
it is not one. `made` numbers the rows in the order of `created_at`. Several
reconciliation passes are one `sweep`: they share no state but the rows.
pg-boss's policies (`stately`, group concurrency, retry limit) are modelled as
`queues.ts` configures them.

`Outlive` is about attempts whose delivery was taken away. TRUE is production:
they run on. FALSE restricts the model to deliveries that are lost together
with the process that ran them. Properties that hold with TRUE are checked and
proved with TRUE. What late attempts break has a name, `LateEnd`: a pass ends on
a row that still carries its stamp although pg-boss has given its delivery up.
`DepartsOnlyLate`, `OvertakenOnlyLate` and `AnnouncedAsSettled` say that such an
end rewrites its own row and no other, and that nothing else departs from the
documented lifecycle, leaves an active job behind a newer one, or announces a
job again. Two properties need FALSE: `FollowsLifecycle`, the documented
lifecycle without that exception, and `ActiveSettles`, that every active job
ends. `late_settle` shows what becomes of them with TRUE.

`SyncJobs` has two abstract specifications, one for each reader. `SyncLifecycle`
is the row of a job as the screens read it; `SyncJobs` implements it up to late
ends (`DepartsOnlyLate`), and all of it without them.
`AccountArchive` is the account with its cursor and games, with no row, delivery
or attempt in sight: the same four variables under their own names (`Archive`),
so that every step of every attempt, however late, must be a step of it that stores games
or none at all. `KeepsArchive` needs nothing of `Outlive`.

### SyncEvents

State: the rows' `status`; `channel`, the notifications Postgres has sent and
the LISTEN connection not delivered; the API process (`listener`,
`connections`, `serving`); the stream (`pending`, `reading`, `ending`); the
screen's connection and query (`conn`, `frames`, `fetch`, `answer`, `view`) and
the `banner` an infrastructure failure raises.

`Settle` is the transaction of a settlement; `Notified`, `ListenerDrops`,
`ListenerBack` are the hub; `Subscribe`, `TakeSignal`, `ResolveSignal`,
`ResolveFailed`, `StreamEnds` are `watchSyncs` inside the route, its two awaits
(`getSyncJob`, the response) being where other steps come between;
`OpenStream`, `StreamOpens`, `FrameArrives`, `FetchReads`, `FetchAnswers`,
`FetchFails` are the browser. A connection that breaks is either heard of at once
(`StreamBreaks`) or dies silently (`StreamDies`, or `ApiStops` when the host goes
without a word): `conn` is then "dead", over without the browser's knowing, until
the transport notices (`DeathNoticed`), which may be never. `use-sync-events.ts`
and `web.md` accept the stale screen this leaves, and the properties except it by
name. `late` are the rows a late attempt rewrote after their settlement. `Refresh` is an invalidation as the query library
does it: it replaces a request under way, unless the query has no data yet, in
which case it joins it.

One screen and one API process: screens share no state but the rows, and each
process has its own LISTEN. A refused request other than a 401 or an
infrastructure failure (a 429 of the API's budget) is not modelled: it leaves
the screen as it was, and nothing is promised of it.

### BrowserEngine

State, in layers as the code has them: the session's closure (`disposed`,
`latest`, and `slot` with `evaluator`, the Worker it was opened with); each
call of `evaluate()`, by number (`phase`, `previous`, `outcome`); the `Search`
it made (`task`, `released`, and `on`, the evaluator it was given); what an
evaluator's `holder` points to; and the Workers with the sessions that own them
(`worker`, `searching`, `asked`, `lines`). `task` also says how far
`useEngineEvaluator` has got: first attempt, its grace after the watchdog,
opening a fresh session, second attempt, its grace.

`Evaluate` is a call up to its first wait. `Supersede`, `OpenWorker`,
`AwaitWorker`, `StartSearch` and `RefuseSearch` are what it does when its turn
comes, `OpenFailed` when the open it waits for does not succeed, `Halt` and
`Unwound` its cancellation. `WorkerOpens`, `WorkerFails`, `SlotCleared` are the
task that opens a Worker in the session's scope. `ReadAnswer`, `ReadEnd`,
`Silence`, `GraceOver`, `Reopens`, `ReopenFails` are the evaluator under a
search, and `Ends` what follows for the caller. `StopTimesOut` is the deadline
of `stopSearch`, `Dispose` the disposal. `Crash` and `EngineAnswers` are the
Worker; the second is external.

A step is what runs between two waits. Halting a task and terminating a Worker
wait for nothing here (their teardowns are synchronous), so `StopTimesOut` ends
the search, releases it and closes the Worker at once, and `Retry` closes the
old session and starts the new Worker at once. In `StopTimesOut` the call that
halts goes on to `closeWorker` before the successor that the halted search's
release wakes; that is the order in which the Effection library resumes them,
and it is taken, not shown.

Abstractions. Updates ("info" lines) are left out, and the watchdog they rearm
may fire whenever no answer is waiting to be read. A stop changes nothing the
model tells apart but which searches it cut short, which the history variable
`hurried` keeps; an engine may answer at any time, or never. A `bestmove` line
without a move, which the parser turns into a failed attempt, is not modelled
(the engine writes "(none)", which counts as an answer). `checkEngineCapability`
failing is `WorkerFails`.

`ServesTheLatest` is `LatestCall` under the mapping `Shown`: a call waits until
its search has started (its predecessor's end and a Worker are all the same to
who called), searches until it is over, hurried or not, and then has its outcome.

### SearchStream

`position/stockfish.ts`: the engine's task (`task`, `settled`) pushes lines onto
`queue` and wakes a sleeping reader (`wake`); `reader` is where the generator is
between two of its awaits. `Report`, `TaskEnds` and `Settle` are the task's side,
`Ask`, `Yield`, `Wait` and `Return` the generator's, `Cancel` the consumer's, who
acts from outside because a `return()` would queue behind a pending `next()`.
Looking at the queue and going to sleep are one step (`Wait`): the executor of
the promise runs at once.

### GameAnalysis

State: `store`, the report of each game in IndexedDB; `conn` and `erasure`, the
tabs' connections and their deletions of the database; `entry`, each tab's cache
entry of a game; `pass`, the passes under way. `Start`, `Load`, `Restart` and
`Collect` are what the query does, `Cleared` and `SignOut` what empties the cache;
`FindReport`, `FindNothing`, `Evaluate`, `ByTheRules`, `StartSave`, `FinishWrite`,
`SearchFails` and `End` are the stages of a pass between its awaits; `Erase`,
`Blocking`, `DeleteStore` and `DeleteFails` are the deletion, the second in the
tabs that stand in its way. Tabs may run different builds: an upgrade deploys
under an open tab.

Every evaluation is the position it is of and a grade names the two it was made
from, so that a grade put at the wrong ply, or made across two games, can be
told. Two passes may fill one entry (a query restarted before the first pass
noticed), which is why `ShownGradeIsOwn` looks at the entry through `GradeAt`,
as the screen does.

### Grading

One position after the other: `said` is what the engine reports to the side to
move, `current` the evaluation kept for white, `judged` the plies so far.
`Graded` is a ply between two searched positions, `GradedByTheRules` one that
ended the game. `ToWhitePov`, `WinChance`, `ScoreToWinChance`, `ClassifyPly` and
`TerminalScoreOf` are the functions of the source over a table in place of the
logistic curve: thousandths at the scores an engine reports. The thresholds are
the source's.

### Review and BoardInput

`Review` has the store (`ply`, `variation`, `showBestMove`, `revealedAt`) and the
hook `useVariationEvaluation` (`mounted`, `evaluating`, `evaluatorRef`, the
`searches` under way, the last one `answered`). An effect runs a step after the
state that caused it (`RunEffect`), and a search settles or dies whenever it
likes, so the moments in which the screen holds an answer to another position are
states of the model. `BarReading` and `Suggestion` are what the screen derives.
`BoardInput` has the same store's position under a gesture: `SelectOrMove`,
`PieceDrag`, `PieceDrop`, `PieceDragCancel` beside `GoToPly`. They are two
modules because what a click does never depends on an evaluation.

### ChessAccounts

State: the slot on the server (`account`, `onboarded`, `archive`), three cached
queries with their fetches, the three mutations (`connect`, `removal`, `resync`)
with the refetches each waits for (`awaiting`) and whether its component is still
mounted (`watching`), the dialogs. The server's part of a connection is three
steps (`Look`, `LookAgain`, `Insert`) because the handle is confirmed with the
provider in between. `Refetched` is an invalidation: it starts
a fetch anew, but joins a first load. The form stands in three places
(`Forms`, `Shown`, `FormOpen`): a slide of the tour, the dialog of the row, and the
import page (`page`, `Visit`), which has no loader and so may be sent before the
first load of the accounts is answered. `unread` remembers of the connection
under way that its refresh failed, or joined a first load that had read the slot
before: there the form does leave over stale rows, against the comment of
`connect-account.tsx:96-97`, and `LeavesOnFresh` excepts it. Other tabs act through `ConnectElsewhere`, `RemoveElsewhere`,
`SyncEnds`.

### ProviderFetch

State: the archive as the provider has it (games end, months begin, also during
a pass), what is `stored`, the `cursor`, and the `walk` under way. Games start in
the order of their numbers and end in any order. The Chess.com cursor is a month,
and a game is in the month it ended in; the Lichess cursor is the start of the
newest game read, so a correspondence game that started earlier and ends later
lies before it and no page will list it. The code skips such a game;
`overtaken` names them, and `CursorSkipsNothing` says no other is skipped. `ReadIndex`,
`ReadMonth`, `MonthFails` are Chess.com, each month a checkpoint; `AskPage`,
`ReadPage`, `PageFails` are Lichess; `Commit` and `Abort` end a pass. A payload is
standard, of a variant, or not readable. Which failures a pass reports decides
whether its cursor is stored, which is what `Complete` and `Hold` say.

### PgnImport

The form (`text`, `file`, `reading`, `side`), the requests in the order they were
sent, and the `library`. `Batch` is one statement with its unique constraint;
`Fail` stops an import after any number of them. Reading a file is asynchronous,
so two reads may end in either order. `inserted` is the set of games a request
counts, so that "twice" can be said.

### GamesList

`draft`, `timer` and `asked` are the search box; `entries` and `at` the history;
`search` the URL the screen shows, which follows the current one by `Arrive`;
`cached`, `previous`, `fetching`, `failed` the query with its stand-in rows. Each
way of changing the URL (`PauseEnds`, `Clear`, `Narrow`, `TurnPage`, `Move`) is an
action. A commit pushes or replaces by the term that was shown when the key was
hit, not when the pause ends (`Waits`). `Render` is what the box does when the
shown URL changes.

### Identity

`owner` and `live` are the sessions, `cookie` the one the browser names; `screen`
and `nav` the screen shown and the one whose guard waits; `session` and `data`
the cached queries; `request` what is on its way, with the cookie it was sent by
(`SentAs`). Reads, changes and the session lookup land separately (`LandData`,
`LandChange`, `LandSession`, `Unauthorized`, `RequestFails`), after the person
may have changed. `SignedIn` and `Leave` are what clears the cache, in the order
the hooks do it.

### Avatar

`row`, `object`, `gone` are the server; a request (`sent`) goes through its writes
one at a time (`SetAvatar`, `RemoveAvatar`, `DeleteUserAndAvatar`) and may stop between any two (`Halfway`, `Fail`). The crop
dialog is `source`, `picks`, `latest`, `encoding`, `cropped`: crops are encoded in
parallel and reported unless a newer one was asked for.

### FirstUser

`boot` is how far each process is, between two calls to the database:
`TryAcquire`, `CountUsers`, `SignUp`, `MarkVerified`, `Release`. `Die` and
`LoseConnection` may come anywhere, and Postgres gives up the lock with the
connection. `Register` is a sign-up by somebody else, through the public ways an
environment may open.

### RateLimit

`hits` and `left` are the counters and their time to live, `Tick` a fraction of
a second. `Arrive` is the general limiter, `Import` the second one a sync passes;
both count first and refuse afterwards. `Outage` lets everything through, as the
middleware does. `watched`, `passed` and `told` are an observer's log of one
counter, the oldest request first.

## 3. What is checked

| run | instance | asks |
|---|---|---|
| `retries` | 2 accounts, 2 jobs, 1 retry, no revival, 2 months, `Outlive` | what deliveries and their late attempts may do to their row, another's and the account, and whether the archive is kept as promised |
| `prompt` | 1 account, 2 jobs, 1 retry, 1 revival, no month, no late attempts, fair | whether a sync keeps the documented lifecycle, and ends |
| `late_settle` | 1 account, 2 jobs, no retry, `Outlive`, fair | violation: `ActiveSettles` |
| `inserted` | 1 account, 1 job, 1 retry | violation: `InsertedIsExact` |
| `events` | 2 jobs, one of them the reader's, 1 fault, data loaded, fair | whether what settles is shown |
| `first_load` | 1 job, no fault, nothing loaded | violation: `QuietMeansShown` |
| `engine` | 3 calls, fair | whether calls are served as `LatestCall` promises, answers and Workers stay apart, and every call settles, under cancellation, crashes, silence and disposal |
| `stale_session` | 2 calls | violation: `NextStartsClean` |
| `analysis` | 2 tabs of different builds, one of which leaves, 1 game of 2 plies that the rules end, 2 passes, fair | whether grades and reports are their own and whole, and what is erased stays erased, and is erased |
| `components` | twelve parts (below) | the properties of each part |
| `failed_sign_out` | the same | violation: `SignedOutStaysOut` |
| `variant_sync` | 3 games, 3 months | violation: `VariantIsNoPartialFailure` |

`components`, part by part:

| part | instance | properties |
|---|---|---|
| `Review` | 2 plies, 1 trial move, 2 evaluators, 2 searches | `ShownIsOfTheBoard`, `NoEvaluatorLeft` |
| `ChessAccounts` | 2 handles, 2 accounts one after the other | `LeavesOnFresh` |
| `Identity` | 2 people, 3 sessions | `ShownIsOfTheSession`, `ThrownOutByOwnSession` |
| `Avatar` | 1 pick, 3 crops, 2 requests | `RowAndBytesAgree`, `CropNeverGoesBack` |
| `PgnImport` | 2 files (one with a game twice, one empty) and a pasted text, batches of 2, 2 imports | `EveryRowCountedOnce` |
| `ProviderFetch` | 3 games, 3 months, a first walk of 2 months, pages of 2 | `CursorSkipsNothing` |
| `GamesList` | 2 terms, one of them typed in two ways, 1 filter, 2 pages, a history of 2 | `RowsAnswerTheField` |
| `FirstUser` | 2 processes, 2 addresses, 2 users | `OneFirstUser` |
| `RateLimit` | budgets of 2 and 1, a window of 2 seconds of 2 steps, 1 sync waiting between its limiters | `WaitIsEnough`, `TwiceTheBudgetAtMost` |
| `BoardInput` | 3 squares, 3 moves of two sides, a line of 3 | `PlaysWhatIsShown` |
| `SearchStream` | 4 lines | `ReaderMissesNothing` |
| `Grading` | 9 scores around the thresholds and past the ceiling, 2 plies | `JudgedFairly` |

The type invariants of the twelve parts are one, `AllTyped`.

Bounds. `retries` has what a late attempt needs: two deliveries of one job
alive at once (a retry beside the attempt it replaces), or a job closed under its
attempt and another beside it, of the same account or of the other; and two
months, the fewest at which a hole can lie before a later checkpoint. The two do
not come together: its constraint, `LoneRetries`, delivers no job twice once a
second was made. A retry beside another account's job is left to the theorems,
which state every property of this run for any number of accounts, jobs and
deliveries. `late_settle` has two jobs with late attempts. `prompt` adds
fairness and a revival, so it takes the smallest instance where a job follows a
settled one; its two properties are about rows, which no month enters, so its
archives are empty and a pass succeeds, is incomplete, fails, hangs or dies
without a checkpoint.
`events` has a job of another user's (a frame that must not be written) and one
of the reader's that settles and is reopened; one fault at a time is what each
repair is written for; a stream that dies silently and a forged notification
are counted as faults too.
`engine` has three calls, the fewest with one that waits for one that waits for
a search under way; each may cost two Workers, which `Budget` shows is the
most, so nothing but the number of calls is bounded. `stale_session` needs the
call that fails and the next.

`analysis` has a second tab that stands in the way of a deletion and whose build
reads the first one's report as stale, and two passes that fill one entry. In
`components` every part has the smallest instance in which its case happens.
Review: a search that is answered after the board moved, beside the one that
replaced it. Accounts: an account that is removed and another that takes its
slot. Sessions: a person, another, and the first again. Avatar: a request beside
a second, a crop overtaken by a third. Import: two batches, a game in both, sent
twice. Provider: a month behind the one that fails, a page that is full and one
that is not. List: an entry to go back to. First user: a process that waits for
the lock. Rate limit: two windows side by side. Board: a position with the other
side to move between the two halves of a gesture. Stream: a line reported at
each place a reader can be. Grading: a ply of each colour.

The theorems of section 4 do not depend on any of these bounds.

`TypeOK` and the strengthenings of the sync, engine and analysis modules
(among them `AheadOfCursor`), with
`OneActivePerAccount`, `KeepsReason` and `LiveIsNotClosed`, are proved and no
longer run. Nor are
`CursorCoversGames` and `OneSearchAtATime`: they are proved as invariants, and
`KeepsArchive` and `ServesTheLatest`, which are run, say more.

No property here is about deadlock. The `SyncJobs` runs and the composite ones
leave TLC's check on. It says nothing of a sync, where a reconciliation may
always run; where a part of the composite may really be finished (a pass of
imports or of pictures that used up its bound), `Over` leaves everything as it
is. The `events` runs turn it off, because a screen that shows everything has
nothing to do, and so do the engine runs, where all calls may have settled. A wait without end is what
`EverySearchSettles` and `EraseCarriedOut` are about, and a reader that sleeps
for ever what `ReaderMissesNothing` excludes.

### Fairness

`SyncJobs!FairSpec` is fair to pg-boss (it polls, expires what does not answer
and retries it) and to reconciliation, a cron job. It is not fair to attempts:
one may hang for ever, and `ActiveSettles` holds all the same. It is not fair
to requests or operators.

`SyncEvents!FairSpec` is fair to what reconnects by itself (the browser's event
source, the LISTEN connection), to what a connection delivers, and to requests,
which answer or fail. It promises nothing of jobs: they settle if they like.
Faults are bounded by `MaxFaults`: a network that fails for ever shows nothing.

`BrowserEngine!FairSpec` is fair to timers (the handshake's, the watchdog's, the
grace's and the stop deadline's) and to operations that were woken. It owes
nothing to the engine: it may never answer, crash or not. It does assume that
the engine does not write lines for ever without a `bestmove`: the watchdog,
which every line rearms, fires in the end (WF of `Silence`). The stop deadline
is not rearmed, so an engine that ignores a stop is killed whatever it writes,
as long as the call that stopped it is there to do it. When that call is halted
while it waits, nobody is. `PROJECT.json` lists this as a hazard; the one
screen that replaces a search halts the replaced call as well, whose own
teardown has a deadline.

`GameAnalysis!Fairness` is fair to the browser's database: it finishes the
writes it has accepted, tells open connections of a deletion, and carries the
deletion out once nothing is in its way. It owes nothing to passes, searches or
people. No other part has a liveness property, and none has fairness.

### Findings

* `late_settle`. An attempt that outlives its delivery finishes the row on its
  stamp alone. Closed by a request, replaced by a newer job, the old row may
  turn active again ("reopened" by a retryable failure of the late attempt);
  every pass looks at the newest job only, so it holds the unique index for
  good and the account never syncs again. The same late write changes a
  settled outcome, which `sync-jobs.ts` and the ingestion notes deny. It also moves
  a cursor: where a late attempt of a closed job commits beside the job that
  replaced it, the slower of the two sets the cursor back to its own month. Hence
  the condition in `CursorNeverMovesBack` (one job, or no late attempts). It does
  no harm, as the next pass walks those months again: `CursorCoversGames` and
  `KeepsArchive` hold whatever is late.
* `inserted`. A pass that throws does not add what its checkpoints inserted, so
  `gamesInserted` falls short of the total that `ingestion.md:56-57` promises.
  What is true, and proved, is that it never exceeds it.
* `first_load`. A screen opens its stream while its first load is under way;
  the refresh joins that load, whose answer may be older than a settlement that
  happened before the stream was subscribed.
* `stale_session`. `executeSearch` closes the Worker of a search that failed
  only if the call is still the newest and its caller is still there. If not,
  the throw of line 260 (or the unwinding) comes first, and a session that was
  abandoned in mid-search stays in the slot. The next call does not start
  clean, as `analysis.md:49` has it: it is refused by the session without a
  try, and closes the Worker only then.
* `failed_sign_out`. A sign-out whose request failed clears the queries and
  navigates to `/login`; the cookie is still good, so the guard of `/login`
  resolves a session and redirects into the application. The comment in
  `use-sign-out.ts:18-20` expects that "even if the request failed, this browser
  should stop showing somebody's games".
* `variant_sync`. Both providers report a game of an unsupported variant as a
  failure of the pass, and any failure makes the pass incomplete: it is retried
  and ends failed, and for Lichess the cursor is never stored.
  `ingestion.md:110-112` calls the two "distinct outcomes".

Four remarks without a run. A form sent from the import page may leave over
rows that lack its account, and a correspondence game of Lichess that is
overtaken is never fetched: section 2 has both, as exceptions of `LeavesOnFresh`
and `CursorSkipsNothing`. `docs/how-to/self-host.md` says that the "bootstrap
only ever writes into an _empty_ user table" and that "the first user from
bootstrap is confirmed already". A registration between the count and the
sign-up makes the first untrue, and a process that dies between the sign-up and
the confirmation the second, which no later start repairs, as it finds a user.
`OneFirstUser` leaves both out, by name (`cutOff`, and users who registered
themselves): the lock is not for them.

## 4. What is proved

`SyncJobsProofs`, for any accounts, jobs, retries, revivals and months, and
for `Outlive` TRUE or FALSE, from the named assumptions of `SyncJobs`
(the bounds are natural numbers, `NoAccount` is no account, a provider for
every account):

* `TypeCorrect`, by `TypeStep`, together with `Numbered` (rows are numbered in
  the order they were made, so a new row's id is unused).
* `FenceHolds`, and the step lemmas `QuietStep`, `UnownedStep`: an attempt whose
  stamp is not the row's changes nothing.
* `OneActive`, `NothingOutlives`, `CursorCovers`, `CountIsHonest`, from
  `InductiveHolds`. The invariants are not inductive alone. That a
  cursor covers its games needs what an attempt has done (`PrefixWalked`: the
  months before the one it fetches next are stored, of whatever account its row
  still belongs to); that a count is honest needs that what an attempt counts
  it inserted (`AddedLanded`) and that what a job inserted stays as long as its
  row (`LandedKept`). All rest on `Numbered`: a row that is inserted has
  never had a delivery or an attempt. There is one step lemma per conjunct.
* `ImplementsArchive`, from the same invariant (`StoringStep`, `ArchiveStep`): a
  checkpoint stores one month and moves the cursor to it, which covers the months
  because the pass has walked those before (`PrefixWalked`); a final commit that
  calls the account synced has walked them all; and an attempt that writes still
  has its row, so its account is tracked.
* `LiveStays` and `ReasonStays`: action properties, from `TypeOK` and the
  atomicity of a close.
* `CursorGoesOn`, that the cursor of an account with one job, or without late
  attempts, never moves back. It needs that a pass that may still write is not
  behind the cursor (`AheadOfCursor`), which holds because one attempt at most may
  write (`OneWriter`): with one job for its stamp, without late attempts because two
  writers would be two active jobs or two holders of one delivery.
* `OvertakenByLateEnds`, `SettlementsAnnounced` and `DepartsByLateEnds`, with and
  without late attempts. A pass that runs under the delivery the queue is waiting
  for, and has its stamp on the row, runs on a row nobody closed (`HeldRowRuns`, by
  `HeldRowStep`): the three ways to close a row look at the delivery. So an end
  that changes a settled row is a `LateEnd`. The lemma `RowFate` says from this
  what each action does to a row: nothing, start, reopen, settle, remove it with
  its account, or, in a late end, write a settled one again. `OvertakenStep` and
  `LifecycleStep` read each of these.
* `ImplementsLifecycle`: a behaviour in which no late end changes a row
  (`NoLateEnd`) implements all of `SyncLifecycle`, whatever else its late attempts
  do. `late_settle` shows that this much is needed.

`SyncEventsProofs`, for any rows, owners and faults:

* `EventsTypeCorrect` needs no hypothesis.
* `EventsInductive`, `NothingForgotten` and `QuietIsShown` assume `LoadedFirst`,
  that the screen has loaded once; `first_load` shows it is needed. The
  inductive invariant says that the hub's subscribers are the streams being
  served, that the screen has data, and that each of the reader's settlements
  it does not show is in one of the places from which it still reaches the
  screen: an undelivered notification, a pending signal, the signal being
  resolved, a frame, a request that has not read yet, a refresh the next stream
  will make, or a lost connection or failure that makes one; or the stream is
  dead and the browser does not know.
* `OnlyOwnFrames` needs no hypothesis: whatever is put on the shared channel, a
  frame is written after a read that checked owner and status.

`BrowserEngineProofs`, for any number of calls, from the one assumption that it
is a number:

* `EngineInductive`. The safety properties are not inductive alone.
  `Chained` says that a call goes on only when all calls before it are released,
  and with `InOrder` that is what serializes the searches: each call waits for
  its predecessor only. `SlotAgrees` ties the search under way to the
  evaluator in the slot and names the one Worker there may be in each of its
  states; `SessionsAgree` says that a session that is not searching owes
  nothing and one that is owes its own search one answer at most;
  `HurriedIsOver` that a search somebody else stopped is nobody's answer any
  more; `Budget` that a call costs two Workers at most. The proof sorts the
  steps twice, by what they do to the calls (`Kinds`) and by what they do to
  the Workers (`Quiet`, `Emptied`, `Finished` and the steps that open, use or
  lose one).
* `ImplementsLatestCall`. What each step does to the calls (`Settles`, `MovesTo`,
  `Stays`, by `Kinds`) is read as a step of `LatestCall`: `EndsCall` for the steps
  that end one, with the reason the code gives (`NewestMeans` translates
  `latestSearch !== search`), `MovesCall` for those that carry one forward, and
  `LineMoves`, `TurnComes`, that a call which leaves the line finds all before it
  over. The last uses `Chained`: the code waits for one predecessor, the promise
  is about all of them.
* `EngineTypeCorrect`, `SearchesAreSerial`, `WorkersAreAccounted` follow, and
  the action properties `AnswersOwn` and `OnlyBusyKilled` from one more look at
  each action.

`GameAnalysisProofs`, from `AnalysisAssumption` (there are tabs and games, plies
are natural numbers, only a game with moves is ended by one):

* `AnalysisTyped`, `GradesAreOwn`, `ReportsAreWhole`, `ErasedStaysErased`, from
  one invariant: how far a pass is tells how many plies it has graded, each in
  its place (`Graded`); a stored report is whole; an entry holds grades in any
  order but each from its own positions (`Shown`), as two passes may fill it; a
  tab whose deletion was carried out has no write under way (`Silent`).

The proofs about the twelve parts of `MCComponents` are in `UsersProofs`, `ReviewProofs` and
`LibraryProofs`, which extend `MCComponents`: their theorems say of `AllSpec`
the very definitions the run `components` checks. Each part has a lemma
(`PersonPart`, `SlotPart`, ...) that `AllSpec` implies the part's own `Spec`,
and the induction is about that.

`UsersProofs`:

* `DataIsOfThePerson`, from `IdentityAssumption` (`Nobody` and `Unread` are no
  person). Short of a sign-in the server accepted and the tab has yet to hear
  of, the cookie, both caches and the two reads under way are one person's or
  nobody's (`OnePerson`); a change may be another's, as it carries no data.
* `NobodyIsThrownOut`, an action property, needs more of the reads
  (`PersonTyped`): short of that same sign-in, the read of the data on its way
  was sent with the browser's cookie, or the browser has none by now. So a 401
  that is heard is about the browser's own session.
* `FirstUserIsOne`, from `StartAssumption` (`NoOne` is nobody). A process in the
  guarded part has the lock unless a connection broke, the one that is about to
  sign up finds nobody provisioned, and between sign-up and confirmation a
  process answers for its user.
* `CropsGoForward`, from `CropInv`: the crop shown and those being encoded are
  of pictures already picked, and the one shown is no newer than the newest
  asked for.
* `PictureIsStored`, from `PictureInv`. As long as no two requests overlapped,
  one runs at most, none once the account is gone, and between its two writes
  each kind leaves a known half: a save has stored its bytes, a removal has
  cleared the row, a deletion has taken the bytes. A row without bytes is then a
  deletion's.
* `WaitSuffices`, `BudgetHolds`, from `BudgetInv`. The log of the last window's
  length splits in two (`Before`): the requests before the window that runs, no
  more than a budget and all to be forgotten before it closes, and those it
  counted. Only with the first half bounded by the time that is left is the
  split kept when a window opens behind another.

`ReviewProofs`:

* `FairJudgement`, from `GradingAssumption` (the curve is 0 at 0 and never
  falls): `ScoreOdd` (changing the point of view changes the sign of a win
  chance and nothing else), and that a mate against the mover is the least win
  chance there is.
* `ReaderIsServed`, from `StreamInv`: what was handed out and what is queued are
  all the lines reported, in their order; a sleeping reader has a wake-up
  registered and nothing to read; a reader on its way to the end found the queue
  empty after the search had ended.
* `BarIsOfTheBoard` and `EvaluatorsAreDisposed`, from `ReviewInv`: an answer
  carries the position it was asked for, a best move is revealed at the ply it
  is of, and the evaluators alive are the one the hook refers to.
* `GesturePlaysTheBoard`, an action property that needs the types only: the move
  played is checked in the step that plays it.

`LibraryProofs`:

* `FormLeavesOnFresh`, from `SlotInv`. One of the tab's three mutations runs at
  a time. While the form waits, its read of the session is awaited, has failed or
  holds fresh data. The accounts are awaited or hold fresh rows, and a read of
  them that is not heard yet has either read nothing or read fresh rows
  (`Current`), unless the connection is `unread`: the refresh failed, or joined a
  first load that had read.
* `NothingSkipped`, from `ProviderAssumption` (the bounds are natural numbers,
  the walks not empty). `ProviderInv` has one part per provider. For Chess.com
  (`Checkpoints`), what lies before a month still to be read is stored or lies in
  another such month, unless a month failed; no game ends in a month to come
  (`Chronicle`). For Lichess (`Pages`), a readable game before the cursor of the
  page under way is stored, or read with the page, or was overtaken. Nothing is
  assumed of the order in which games end.
* `GamesCountedOnce`, from `PgnInv`: the sets that requests count are disjoint
  and make up the library, and a request has stored the rows it went past
  (`WentPast`).
* `RowsAreOfTheField`, from `ListInv`: a box that waits for nothing holds the
  term of the URL shown; that a term typed in two ways is one term is
  `FieldAssumption`.

`ComponentsProofs`: `EveryPartIsItself` (above) and `EveryPartIsTyped`, that
`AllTyped` is invariant. `TypeOK` of a part is part of its inductive invariant
where that needs it; for the other parts it takes a strengthening of its own
(`PersonTyped`, `StartupTyped`, `ProviderBounded`).

### Only model-checked

`ActiveSettles`, `SettlementShown`, `EverySearchSettles` and `EraseCarriedOut` are
liveness. Liveness under fairness, ENABLED, what a recursive definition computes
for every input, and modules that reach RECURSIVE operators are outside what the
prover handles. `EverySearchSettles` is stated as that again and again no call is
under way; a settled call stays so and there are finitely many, so this is that
each one settles. `SettlementShown` has the same form: again and again the screen
shows the row as it settled, or has an excuse.

Every invariant and every action property of a passing run, and the three
refinements, are stated by a theorem.
Three of them leave out, by a hypothesis, what a violating run shows:
`FollowsLifecycle` holds where no late end changes a row (`late_settle`), and
`QuietMeansShown` where the screen has loaded once (`first_load`);
`CursorNeverMovesBack` has its condition in its own statement. `ActiveSettles` is
checked without late attempts.

What the properties except by name, each at its definition: rows rewritten by a
late end (`LateEnd`), a stream that died silently (`conn = "dead"`), a refresh that
failed or joined a first load (`unread`), a Lichess game that was overtaken
(`overtaken`), the late 401 of a change, requests that overlapped, and users who
registered themselves. Each is something the code does or its docs accept.

## 5. What is not modelled, and why

`PROJECT.json` lists every component. In short:

* Parsing and formatting: PGN, UCI lines, provider payloads, opening names,
  handles. Each is one verdict where a model needs it (readable, of a variant,
  an answer).
* Read-only or stateless: reads of one game, the adapters of the chess library,
  e-mail (rendering and one HTTP call), the landing site, translations, logging,
  the design system.
* Preferences and layout: appearance, language, board theme, sounds, navigation
  keep no state a property is about.
* Of authentication: tokens, mails, the linking of a Google account. The session
  store is the library's, modelled by what it answers.
* Of the worker and the server: composition, health checks, the liveness file.
  `sync-all` is a loop over `RequestSync`.
* The row locks inside one transaction, that is whether the order in which the
  statements of a disconnect, a commit and a request take them can make a circle
  (section 6).

Within the modelled parts, these are taken from outside: pg-boss, Postgres
(transactions, row locks, NOTIFY at commit), the query library's
invalidation, the event source, Effection's scheduling and the UCI engine, each
as the code uses it.

## 6. What is left

1. `RowLocks`: the row locks of an attempt's commit, a request, a reconciliation
   and a disconnect, in the order the statements take them. `disconnect` locks
   the account's jobs as its statement sees them, before the account; a job
   inserted while it waits is not among them. The question is whether "job, then
   account" is the order of every writer, and whether waits can form a circle.
2. `GameAnalysis` and `Review` over an instance of `LatestCall`, in place of the
   sentence in section 2 that connects them now.
3. The order in which a released successor and the halting call are resumed in
   `BrowserEngine!StopTimesOut`, which is taken from the library here.
