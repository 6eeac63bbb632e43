------------------------------ MODULE SyncEvents ------------------------------
(***************************************************************************)
(* How an open screen learns that a sync is over: the settlement and its   *)
(* NOTIFY commit together, the API's one listener hands the job's id to    *)
(* the open streams, a stream reads the row and writes a frame, and the    *)
(* screen reads its accounts again.  Nothing polls.                        *)
(*                                                                         *)
(* Abstractions.  One user, one screen, one API process; the rows of       *)
(* others are in Jobs \ Mine.  The accounts query stands for the games     *)
(* query too, both are invalidated together.  A snapshot is the status of  *)
(* each job.  Requests that only help (a navigation that refetches) are    *)
(* left out.  A stream that dies silently stays "dead" for the browser     *)
(* until its transport notices, which nothing promises.                    *)
(***************************************************************************)
EXTENDS Sequences, FiniteSets, Integers

CONSTANTS
  Jobs,         \* rows of sync_jobs
  Mine,         \* those of the user whose screen is open
  NoJob,        \* no row is being read
  MaxFaults,    \* bound: connections and requests that break, signals forged
  LoadedFirst   \* had the screen its accounts before it opened the stream?

ASSUME EventsAssumption ==
  /\ Mine \subseteq Jobs
  /\ Mine # {}
  /\ NoJob \notin Jobs
  /\ MaxFaults \in Nat
  /\ LoadedFirst \in BOOLEAN

VARIABLES
  \* Postgres
  status,       \* the row of each job, "gone" after its account's deletion
  late,         \* jobs an attempt rewrote after they had settled
  channel,      \* notifications on their way to the listening connection
  \* the API process
  listener,     \* its LISTEN connection: "up", or "down" with the process or alone
  connections,  \* times the LISTEN was established
  serving,
  pending,      \* signals of the stream's subscription, oldest first
  reading,      \* the job whose row the stream is reading
  ending,       \* the generator returned, the response is about to end
  \* the browser
  conn,         \* the screen's GET /syncs/events, as the browser knows it; "dead"
                \* is over without its knowing
  frames,       \* frames written to it and not yet read
  fetch,        \* the screen's GET /accounts
  answer,       \* what that request read
  view,         \* the data of the accounts query
  banner,       \* the screen asks for a reload
  faults

rowVars    == <<status, late>>
hubVars    == <<channel, listener, connections, serving>>
streamVars == <<pending, reading, ending, conn, frames>>
queryVars  == <<fetch, answer, view, banner>>
vars       == <<rowVars, hubVars, streamVars, queryVars, faults>>

-----------------------------------------------------------------------------
Settled   == {"succeeded", "failed"}
Status    == {"active", "gone"} \cup Settled
Reset     == [kind |-> "reset"]
Changed(j) == [kind |-> "changed", job |-> j]
Signals   == {Reset} \cup {Changed(j) : j \in Jobs}
Frames    == [job : Jobs, status : Settled]

\* A query that has no data yet.
Unread == [j \in Mine |-> "unread"]

TypeOK ==
  /\ status \in [Jobs -> Status]
  /\ late \subseteq Jobs
  /\ channel \in Seq(Jobs)
  /\ listener \in {"up", "down"}
  /\ connections \in Nat
  /\ serving \in BOOLEAN
  /\ pending \in Seq(Signals)
  /\ reading \in Jobs \cup {NoJob}
  /\ ending \in BOOLEAN
  /\ conn \in {"closed", "asked", "subscribed", "open", "stopped", "dead"}
  /\ frames \in Seq(Frames)
  /\ fetch \in {"idle", "asked", "read"}
  /\ answer \in [Mine -> Status] \cup {Unread}
  /\ view \in [Mine -> Status] \cup {Unread}
  /\ banner \in BOOLEAN
  /\ faults \in 0 .. MaxFaults

Init ==
  /\ status = [j \in Jobs |-> "active"]
  /\ late = {}
  /\ channel = <<>>
  /\ listener = "up"
  /\ connections = 1
  /\ serving = TRUE
  /\ pending = <<>>
  /\ reading = NoJob
  /\ ending = FALSE
  /\ conn = "closed"
  /\ frames = <<>>
  /\ fetch = IF LoadedFirst THEN "idle" ELSE "asked"
  /\ answer = Unread
  /\ view = IF LoadedFirst THEN [j \in Mine |-> "active"] ELSE Unread
  /\ banner = FALSE
  /\ faults = 0

-----------------------------------------------------------------------------
\* Something goes wrong.
Breaks == faults < MaxFaults /\ faults' = faults + 1

-----------------------------------------------------------------------------
(* Postgres: a row and its notification commit together.                   *)

\* Fault: the notification of a rewritten outcome is left out.
NotifyFirst(j) == channel' = IF listener = "up" /\ status[j] = "active"
                             THEN Append(channel, j) ELSE channel

\* Only a connection that listens at the commit is told.
Notify(j) == channel' = IF listener = "up" THEN Append(channel, j) ELSE channel

\* The end of a job: its attempt's write or an abandon.  A late attempt may
\* end a settled job once more.
Settle(j, outcome) ==
  /\ \/ status[j] = "active" /\ UNCHANGED late
     \/ status[j] \in Settled /\ j \notin late /\ late' = late \cup {j}
  /\ status' = [status EXCEPT ![j] = outcome]
  /\ Notify(j)
  /\ UNCHANGED <<listener, connections, serving, streamVars, queryVars, faults>>

\* A late attempt puts a settled job back to retrying, which is not news.
Reopen(j) ==
  /\ status[j] \in Settled
  /\ j \notin late
  /\ late' = late \cup {j}
  /\ status' = [status EXCEPT ![j] = "active"]
  /\ UNCHANGED <<hubVars, streamVars, queryVars, faults>>

\* The job leaves with its account.
Leave(j) ==
  /\ status[j] # "gone"
  /\ status' = [status EXCEPT ![j] = "gone"]
  /\ UNCHANGED <<late, hubVars, streamVars, queryVars, faults>>

\* Anyone with NOTIFY rights can name any job.
Forge(j) ==
  /\ Breaks
  /\ Notify(j)
  /\ UNCHANGED <<rowVars, listener, connections, serving, streamVars, queryVars>>

-----------------------------------------------------------------------------
(* The API's listener.                                                     *)

\* What the open subscription, if there is one, is handed.
Subscribed == conn \in {"subscribed", "open"} /\ ~ending

Emit(signal) == pending' = IF Subscribed THEN Append(pending, signal) ELSE pending

\* onNotify
Notified ==
  /\ channel # <<>>
  /\ channel' = Tail(channel)
  /\ Emit(Changed(Head(channel)))
  /\ UNCHANGED <<rowVars, listener, connections, serving, reading, ending, conn, frames,
                 queryVars, faults>>

\* The LISTEN connection is lost, and what was on it.
ListenerDrops ==
  /\ listener = "up"
  /\ Breaks
  /\ listener' = "down"
  /\ channel' = <<>>
  /\ UNCHANGED <<rowVars, connections, serving, streamVars, queryVars>>

\* Fault: a listener that comes back is taken for one that was never away.
BackUnnoticed ==
  /\ listener = "down"
  /\ serving
  /\ listener' = "up"
  /\ connections' = connections + 1
  /\ UNCHANGED <<rowVars, channel, serving, streamVars, queryVars, faults>>

\* onListen: every time but the first, streams are told to end.
ListenerBack ==
  /\ listener = "down"
  /\ serving
  /\ listener' = "up"
  /\ connections' = connections + 1
  /\ IF connections + 1 > 1 THEN Emit(Reset) ELSE UNCHANGED pending
  /\ UNCHANGED <<rowVars, channel, serving, reading, ending, conn, frames, queryVars,
                 faults>>

\* The stream is over on both sides, and what was in it lost.
Dropped ==
  /\ pending' = <<>>
  /\ reading' = NoJob
  /\ ending' = FALSE
  /\ frames' = <<>>

\* A stream the process served ends with it, or stays open in the browser
\* when the host went without a word.
ApiStops ==
  /\ serving
  /\ Breaks
  /\ serving' = FALSE
  /\ listener' = "down"
  /\ connections' = 0
  /\ channel' = <<>>
  /\ Dropped
  /\ conn' \in IF conn \in {"asked", "subscribed", "open"} THEN {"closed", "dead"} ELSE {conn}
  /\ UNCHANGED <<rowVars, queryVars>>

\* Boot waits for the LISTEN before it serves.
ApiBoots ==
  /\ ~serving
  /\ serving' = TRUE
  /\ listener' = "up"
  /\ connections' = 1
  /\ UNCHANGED <<rowVars, channel, streamVars, queryVars, faults>>

-----------------------------------------------------------------------------
(* The stream: watchSyncs under GET /syncs/events.                         *)

OpenStream ==
  /\ conn = "closed"
  /\ conn' = "asked"
  /\ UNCHANGED <<rowVars, hubVars, pending, reading, ending, frames, queryVars, faults>>

\* Subscribed before the response leaves.
Subscribe ==
  /\ conn = "asked"
  /\ serving
  /\ conn' = "subscribed"
  /\ UNCHANGED <<rowVars, hubVars, pending, reading, ending, frames, queryVars, faults>>

\* The session is over: the screen gives up and leaves for the login.
Unauthorized ==
  /\ conn = "asked"
  /\ serving
  /\ Breaks
  /\ conn' = "stopped"
  /\ UNCHANGED <<rowVars, hubVars, pending, reading, ending, frames, queryVars>>

\* The generator shifts its oldest signal; a reset ends it.
TakeSignal ==
  /\ Subscribed
  /\ reading = NoJob
  /\ pending # <<>>
  /\ IF Head(pending) = Reset
     THEN ending' = TRUE /\ pending' = <<>> /\ UNCHANGED reading
     ELSE reading' = Head(pending).job /\ pending' = Tail(pending) /\ UNCHANGED ending
  /\ UNCHANGED <<rowVars, hubVars, conn, frames, queryVars, faults>>

\* Fault: the signal is believed, the row's status and user not asked.
BelieveSignal ==
  /\ reading # NoJob
  /\ reading' = NoJob
  /\ frames' = Append(frames, [job |-> reading, status |-> "succeeded"])
  /\ UNCHANGED <<rowVars, hubVars, pending, ending, conn, queryVars, faults>>

\* getSyncJob answered: gone, another user's or not settled says nothing.
ResolveSignal ==
  /\ reading # NoJob
  /\ reading' = NoJob
  /\ frames' = IF reading \in Mine /\ status[reading] \in Settled
               THEN Append(frames, [job |-> reading, status |-> status[reading]])
               ELSE frames
  /\ UNCHANGED <<rowVars, hubVars, pending, ending, conn, queryVars, faults>>

\* getSyncJob threw: the generator throws, the stream ends.
ResolveFailed ==
  /\ reading # NoJob
  /\ Breaks
  /\ reading' = NoJob
  /\ pending' = <<>>
  /\ ending' = TRUE
  /\ UNCHANGED <<rowVars, hubVars, conn, frames, queryVars>>

\* The browser read every frame and the end of the response.
StreamEnds ==
  /\ ending
  /\ conn = "open"
  /\ frames = <<>>
  /\ Dropped
  /\ conn' = "closed"
  /\ UNCHANGED <<rowVars, hubVars, queryVars, faults>>

\* The transport breaks, or a proxy gives up on it.
StreamBreaks ==
  /\ conn \in {"asked", "subscribed", "open"}
  /\ Breaks
  /\ Dropped
  /\ conn' = "closed"
  /\ UNCHANGED <<rowVars, hubVars, queryVars>>

\* The transport is gone and nobody tells the browser: no frame and no end of
\* the response will come of it.
StreamDies ==
  /\ conn \in {"asked", "subscribed", "open"}
  /\ Breaks
  /\ Dropped
  /\ conn' = "dead"
  /\ UNCHANGED <<rowVars, hubVars, queryVars>>

\* The browser's transport gives up on it at last, which may be never.
DeathNoticed ==
  /\ conn = "dead"
  /\ conn' = "closed"
  /\ UNCHANGED <<rowVars, hubVars, pending, reading, ending, frames, queryVars, faults>>

-----------------------------------------------------------------------------
(* The screen.                                                             *)

\* Fault: an invalidation joins whatever request is under way.
JoinFetch ==
  /\ fetch' = IF fetch = "idle" THEN "asked" ELSE fetch
  /\ UNCHANGED <<answer, view, banner>>

\* invalidateQueries: a request under way is cancelled for a new one, unless
\* it is the first, which has no data to fall back to and is joined.
Refresh ==
  /\ IF fetch = "idle" \/ view # Unread
     THEN fetch' = "asked" /\ answer' = Unread
     ELSE UNCHANGED <<fetch, answer>>
  /\ UNCHANGED <<view, banner>>

\* onResponse
StreamOpens ==
  /\ conn = "subscribed"
  /\ conn' = "open"
  /\ Refresh
  /\ UNCHANGED <<rowVars, hubVars, pending, reading, ending, frames, faults>>

\* onMessage
FrameArrives ==
  /\ conn = "open"
  /\ frames # <<>>
  /\ frames' = Tail(frames)
  /\ Refresh
  /\ UNCHANGED <<rowVars, hubVars, pending, reading, ending, conn, faults>>

\* The API reads the rows for GET /accounts.
FetchReads ==
  /\ fetch = "asked"
  /\ serving
  /\ fetch' = "read"
  /\ answer' = [j \in Mine |-> status[j]]
  /\ UNCHANGED <<rowVars, hubVars, streamVars, view, banner, faults>>

FetchAnswers ==
  /\ fetch = "read"
  /\ fetch' = "idle"
  /\ view' = answer
  /\ answer' = Unread
  /\ UNCHANGED <<rowVars, hubVars, streamVars, banner, faults>>

\* The request failed (no network, or a 5xx): no retry, the banner goes up
\* and stays.
FetchFails ==
  /\ fetch # "idle"
  /\ Breaks
  /\ fetch' = "idle"
  /\ answer' = Unread
  /\ banner' = TRUE
  /\ UNCHANGED <<rowVars, hubVars, streamVars, view>>

-----------------------------------------------------------------------------
Next ==
  \/ \E j \in Jobs : \/ \E outcome \in Settled : Settle(j, outcome)
                     \/ Reopen(j)
                     \/ Leave(j)
                     \/ Forge(j)
  \/ Notified \/ ListenerDrops \/ ListenerBack \/ ApiStops \/ ApiBoots
  \/ OpenStream \/ Subscribe \/ Unauthorized
  \/ TakeSignal \/ ResolveSignal \/ ResolveFailed \/ StreamEnds
  \/ StreamBreaks \/ StreamDies \/ DeathNoticed
  \/ StreamOpens \/ FrameArrives \/ FetchReads \/ FetchAnswers \/ FetchFails

Spec == Init /\ [][Next]_vars

\* The event source and the driver reconnect for as long as it takes, and
\* what a process can do it does.  Nothing is promised of the jobs, nor that
\* a stream that died silently is ever found out.
Fairness ==
  /\ WF_vars(Notified) /\ WF_vars(ListenerBack) /\ WF_vars(ApiBoots)
  /\ WF_vars(OpenStream) /\ WF_vars(Subscribe)
  /\ WF_vars(TakeSignal) /\ WF_vars(ResolveSignal) /\ WF_vars(StreamEnds)
  /\ WF_vars(StreamOpens) /\ WF_vars(FrameArrives)
  /\ WF_vars(FetchReads) /\ WF_vars(FetchAnswers)

FairSpec == Spec /\ Fairness

-----------------------------------------------------------------------------
Shown(j, snapshot) == snapshot[j] = status[j]

\* Something that will make the screen read j's row as it is now: a stream
\* not open yet or about to end, a listener that is away, a signal, a frame,
\* or a request that has not read or did read it.
OnItsWay(j) ==
  \/ conn \notin {"open", "dead"}
  \/ ending
  \/ listener = "down"
  \/ \E i \in DOMAIN channel : channel[i] = j
  \/ \E i \in DOMAIN pending : pending[i] \in {Reset, Changed(j)}
  \/ reading = j
  \/ \E i \in DOMAIN frames : frames[i].job = j
  \/ fetch = "asked"
  \/ fetch = "read" /\ Shown(j, answer)

\* A settlement of the user's is never forgotten between the row and the
\* screen, over lost notifications, broken streams and restarts: while the
\* screen does not show it, it is on its way, or the banner is up.  A request
\* that read before the settlement does not hide the frame that follows it.
\* The exception is the one useSyncEvents accepts: a stream that died silently
\* leaves the screen stale until something else refetches.
NeverForgotten ==
  \A j \in Mine : status[j] \in Settled =>
    \/ fetch # "read" /\ Shown(j, view)
    \/ OnItsWay(j)
    \/ conn = "dead"
    \/ banner

\* routes/syncs.ts and docs/explanation/apps/web.md: an open stream repairs
\* the gap before it, so when nothing is under way the screen is right.
QuietMeansShown ==
  /\ conn = "open" /\ ~ending /\ listener = "up"
  /\ channel = <<>> /\ pending = <<>> /\ reading = NoJob /\ frames = <<>>
  /\ fetch = "idle" /\ ~banner
  => \A j \in Mine : status[j] \in Settled => Shown(j, view)

\* The channel is shared and its payload anybody's: no frame names a job that
\* is not the user's, and none says a job is over that the row never said.
FramesAreOwn ==
  \A i \in DOMAIN frames : /\ frames[i].job \in Mine
                           /\ \/ status[frames[i].job] = "gone"
                              \/ frames[i].job \in late
                              \/ status[frames[i].job] = frames[i].status

\* What NeverForgotten rests on: with them it is inductive.
HubAgrees ==
  /\ serving => connections >= 1
  /\ ~serving => listener = "down" /\ conn \notin {"subscribed", "open"}

\* The screen has data, and what it waits for is data.
HasData == view # Unread /\ (fetch = "read" => answer # Unread)

Inductive ==
  /\ TypeOK
  /\ HubAgrees
  /\ HasData
  /\ NeverForgotten

-----------------------------------------------------------------------------
\* A settlement that stands reaches the screen, unless the session ends, a
\* failed request raised the banner, or the stream died silently and stays so
\* (web.md: "the accepted trade"): there is no moment after which the screen
\* never again shows the row as it settled.
SettlementShown ==
  \A j \in Mine : []<>(\/ status[j] \notin Settled
                       \/ view[j] = status[j]
                       \/ conn \in {"stopped", "dead"}
                       \/ banner)
=============================================================================
