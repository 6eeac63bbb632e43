--------------------------- MODULE BrowserEngine ---------------------------
(***************************************************************************)
(* One engine session of the browser: the calls to evaluate() that replace *)
(* one another, the search each of them runs in the session's own scope,   *)
(* the evaluator that watches over it and the Workers it searches on.      *)
(*                                                                         *)
(* A step is what the code does between two waits.  Halting an operation   *)
(* and terminating a Worker wait for nothing, so a stop that timed out     *)
(* halts the search and closes its Worker in one step.                     *)
(*                                                                         *)
(* Abstractions.  A search is the number of its call, and stands for its   *)
(* position.  Commands reach the engine when they are sent; what it makes  *)
(* of them, and when, is open.  Updates ("info" lines) are left out, and   *)
(* with them the rearming of the watchdog: it fires at any time, or never. *)
(***************************************************************************)
EXTENDS Integers, Sequences

CONSTANT MaxSearches   \* bound: calls to evaluate()

ASSUME SearchesAssumption == MaxSearches \in Nat

VARIABLES
  \* createSession
  disposed,
  latest,     \* latestSearch: the newest call, 0 before the first
  slot,       \* workerSlot: "idle", "opening" or "ready"
  evaluator,  \* whose evaluator the slot is about: that of this first Worker
  \* calls of evaluate(), by number
  phase,      \* where the caller is
  previous,   \* the call it replaces, 0 for none
  outcome,
  \* the Search each call made
  task,       \* searchTask, and how far the evaluator has got with it
  on,         \* the evaluator it was given
  released,
  \* the evaluators, by first Worker: the Worker of the session in use
  holder,
  \* the Workers and the sessions that own them
  made,       \* number of Workers so far
  worker,     \* "opening" is the handshake, "dead" a crash, "gone" the teardown
  home,       \* the evaluator it belongs to
  searching,  \* EngineSession: a search is in flight
  asked,      \* go commands the engine has not answered
  lines,      \* answers nobody has read
  hurried     \* history: searches the engine was told to stop by others

sessionVars == <<disposed, latest, slot, evaluator>>
callVars    == <<phase, previous, outcome>>
searchVars  == <<task, on, released>>
workerVars  == <<holder, made, worker, home, searching, asked, lines>>
vars == <<sessionVars, callVars, searchVars, workerVars, hurried>>

Searches == 1 .. MaxSearches
Workers  == 1 .. 2 * MaxSearches   \* one to open and one to retry, at most

Phase   == {"uncalled", "stopping", "queued", "opening", "searching",
            "hurrying", "unwinding", "settled"}
Running == {"first", "firstGrace", "reopening", "second", "secondGrace"}
Reading == Running \ {"reopening"}
Failure == {"failed", "superseded", "disposed", "halted"}

Init ==
  /\ disposed = FALSE
  /\ latest = 0
  /\ slot = "idle"
  /\ evaluator = 0
  /\ phase = [s \in Searches |-> "uncalled"]
  /\ previous = [s \in Searches |-> 0]
  /\ outcome = [s \in Searches |-> "none"]
  /\ task = [s \in Searches |-> "none"]
  /\ on = [s \in Searches |-> 0]
  /\ released = [s \in Searches |-> FALSE]
  /\ holder = [e \in Workers |-> 0]
  /\ made = 0
  /\ worker = [w \in Workers |-> "none"]
  /\ home = [w \in Workers |-> 0]
  /\ searching = [w \in Workers |-> FALSE]
  /\ asked = [w \in Workers |-> <<>>]
  /\ lines = [w \in Workers |-> <<>>]
  /\ hurried = {}

-----------------------------------------------------------------------------
IsSuperseded(s) == latest # s

\* No predecessor, or one that let go of the engine.
Free(s) == \A r \in Searches : r = previous[s] => released[r]

Exists(w) == worker[w] \in {"opening", "live", "dead"}

\* Fault: a call that never reached the engine has nothing to release.
SettleHolding(s, how) ==
  /\ phase' = [phase EXCEPT ![s] = "settled"]
  /\ outcome' = [outcome EXCEPT ![s] = how]
  /\ released' = [released EXCEPT ![s] = phase[s] # "unwinding"]
  /\ UNCHANGED previous

\* The caller is answered, or thrown at, and its search is released.
Settle(s, how) ==
  /\ phase' = [phase EXCEPT ![s] = "settled"]
  /\ outcome' = [outcome EXCEPT ![s] = how]
  /\ released' = [released EXCEPT ![s] = TRUE]
  /\ UNCHANGED previous

\* Workers terminate; the engines on them answer nothing more.
Terminate(W) ==
  /\ worker' = [w \in Workers |-> IF w \in W THEN "gone" ELSE worker[w]]
  /\ asked' = [w \in Workers |-> IF w \in W THEN <<>> ELSE asked[w]]

\* Fault: only a Worker that is ready is closed.
CloseReady ==
  /\ slot' = "idle"
  /\ Terminate({w \in Workers : slot = "ready" /\ home[w] = evaluator /\ Exists(w)})

\* closeWorker: the evaluator's scope takes its Workers with it.
CloseWorker ==
  /\ slot' = "idle"
  /\ Terminate({w \in Workers : slot # "idle" /\ home[w] = evaluator /\ Exists(w)})

\* useEngineSession: a Worker is started, its handshake begins.
NewWorker(e) ==
  /\ made' = made + 1
  /\ home' = [home EXCEPT ![made + 1] = e]

\* evaluator.stop() on behalf of somebody else.
SendStop ==
  LET w == holder[evaluator] IN
  hurried' = IF slot = "ready" /\ worker[w] = "live"
             THEN hurried \cup {asked[w][i] : i \in DOMAIN asked[w]} ELSE hurried

\* EngineSession.search: position and go.
Go(s, w) ==
  /\ searching' = [searching EXCEPT ![w] = TRUE]
  /\ asked' = [asked EXCEPT ![w] = IF worker[w] = "live" THEN Append(@, s) ELSE @]

-----------------------------------------------------------------------------
(* The caller of evaluate().                                               *)

\* The call takes over as the newest, and stops the search it replaces.
Evaluate(s) ==
  /\ ~disposed
  /\ phase[s] = "uncalled"
  /\ \A r \in 1 .. s - 1 : phase[r] # "uncalled"
  /\ latest' = s
  /\ previous' = [previous EXCEPT ![s] = latest]
  /\ IF latest # 0 /\ task[latest] \in Running
     THEN /\ phase' = [phase EXCEPT ![s] = "stopping"]
          /\ SendStop
     ELSE /\ phase' = [phase EXCEPT ![s] = "queued"]
          /\ UNCHANGED hurried
  /\ UNCHANGED <<disposed, slot, evaluator, outcome, searchVars, workerVars>>

\* Its turn, once its predecessor is released.
Turn(s) == phase[s] \in {"stopping", "queued"} /\ Free(s)

\* The open it awaits succeeded, or ended otherwise.
Opened(s)   == phase[s] = "opening" /\ slot = "ready" /\ evaluator = on[s]
Unopened(s) == /\ phase[s] = "opening"
               /\ \/ evaluator # on[s]
                  \/ slot = "idle"
                  \/ slot = "opening" /\ worker[on[s]] = "gone"

Supersede(s) ==
  /\ Turn(s) \/ Opened(s)
  /\ IsSuperseded(s)
  /\ Settle(s, "superseded")
  /\ UNCHANGED <<sessionVars, task, on, workerVars, hurried>>

\* getOrOpenWorker: with a slot that is idle, or opening.
OpenWorker(s) ==
  /\ Turn(s) /\ ~IsSuperseded(s)
  /\ slot = "idle"
  /\ slot' = "opening"
  /\ evaluator' = made + 1
  /\ NewWorker(made + 1)
  /\ worker' = [worker EXCEPT ![made + 1] = "opening"]
  /\ phase' = [phase EXCEPT ![s] = "opening"]
  /\ on' = [on EXCEPT ![s] = made + 1]
  /\ UNCHANGED <<disposed, latest, previous, outcome, task, released,
                 holder, searching, asked, lines, hurried>>

AwaitWorker(s) ==
  /\ Turn(s) /\ ~IsSuperseded(s)
  /\ slot = "opening"
  /\ phase' = [phase EXCEPT ![s] = "opening"]
  /\ on' = [on EXCEPT ![s] = evaluator]
  /\ UNCHANGED <<sessionVars, previous, outcome, task, released, workerVars, hurried>>

OpenFailed(s) ==
  /\ Unopened(s)
  /\ Settle(s, IF disposed THEN "disposed" ELSE "failed")
  /\ UNCHANGED <<sessionVars, task, on, workerVars, hurried>>

\* executeSearch: with the slot ready, now or at last.
MayStart(s) == /\ Opened(s) \/ (Turn(s) /\ slot = "ready")
               /\ ~IsSuperseded(s)

StartSearch(s) ==
  /\ MayStart(s)
  /\ ~searching[holder[evaluator]]
  /\ Go(s, holder[evaluator])
  /\ task' = [task EXCEPT ![s] = "first"]
  /\ on' = [on EXCEPT ![s] = evaluator]
  /\ phase' = [phase EXCEPT ![s] = "searching"]
  /\ UNCHANGED <<sessionVars, previous, outcome, released,
                 holder, made, worker, home, lines, hurried>>

\* "search() called while a previous search is still in flight": the call
\* fails, and closes the Worker as after any failure.
RefuseSearch(s) ==
  /\ MayStart(s)
  /\ searching[holder[evaluator]]
  /\ task' = [task EXCEPT ![s] = "ended"]
  /\ Settle(s, "failed")
  /\ CloseWorker
  /\ UNCHANGED <<disposed, latest, evaluator, on,
                 holder, made, home, searching, lines, hurried>>

\* The caller is halted.  A search under way is stopped and waited for; one
\* that never reached the engine keeps its place in the chain.
Halt(s) ==
  \/ /\ phase[s] \in {"stopping", "queued"} /\ ~Free(s)
     /\ phase' = [phase EXCEPT ![s] = "unwinding"]
     /\ UNCHANGED <<sessionVars, previous, outcome, searchVars, workerVars, hurried>>
  \/ /\ Turn(s) \/ phase[s] = "opening"
     /\ Settle(s, "halted")
     /\ UNCHANGED <<sessionVars, task, on, workerVars, hurried>>
  \/ /\ phase[s] = "searching"
     /\ phase' = [phase EXCEPT ![s] = "hurrying"]
     /\ SendStop
     /\ UNCHANGED <<sessionVars, previous, outcome, searchVars, workerVars>>

\* Fault: a halted call releases its successor at once.
UnwoundEarly(s) ==
  /\ phase[s] = "unwinding"
  /\ Settle(s, "halted")
  /\ UNCHANGED <<sessionVars, task, on, workerVars, hurried>>

Unwound(s) ==
  /\ phase[s] = "unwinding"
  /\ Free(s)
  /\ Settle(s, "halted")
  /\ UNCHANGED <<sessionVars, task, on, workerVars, hurried>>

-----------------------------------------------------------------------------
(* The Workers, and the opening of them.                                   *)

\* openWorker publishes its evaluator itself, whoever asked.
WorkerOpens ==
  /\ slot = "opening"
  /\ worker[evaluator] = "opening"
  /\ slot' = "ready"
  /\ worker' = [worker EXCEPT ![evaluator] = "live"]
  /\ holder' = [holder EXCEPT ![evaluator] = evaluator]
  /\ UNCHANGED <<disposed, latest, evaluator, callVars, searchVars,
                 made, home, searching, asked, lines, hurried>>

\* No Worker, no uciok in time: who waits is told, then the slot is cleared.
WorkerFails ==
  /\ slot = "opening"
  /\ worker[evaluator] = "opening"
  /\ Terminate({evaluator})
  /\ UNCHANGED <<sessionVars, callVars, searchVars,
                 holder, made, home, searching, lines, hurried>>

SlotCleared ==
  /\ slot = "opening"
  /\ worker[evaluator] = "gone"
  /\ slot' = "idle"
  /\ UNCHANGED <<disposed, latest, evaluator, callVars, searchVars, workerVars, hurried>>

\* The Worker's error event closes its lines.
Crash(w) ==
  /\ worker[w] = "live"
  /\ worker' = [worker EXCEPT ![w] = "dead"]
  /\ asked' = [asked EXCEPT ![w] = <<>>]
  /\ UNCHANGED <<sessionVars, callVars, searchVars,
                 holder, made, home, searching, lines, hurried>>

\* bestmove, after a stop or not.
EngineAnswers(w) ==
  /\ worker[w] = "live"
  /\ asked[w] # <<>>
  /\ lines' = [lines EXCEPT ![w] = Append(@, Head(asked[w]))]
  /\ asked' = [asked EXCEPT ![w] = Tail(@)]
  /\ UNCHANGED <<sessionVars, callVars, searchVars,
                 holder, made, worker, home, searching, hurried>>

-----------------------------------------------------------------------------
(* A search under way: the evaluator, in the session's scope.              *)

Session(s) == holder[on[s]]

\* The end of the search releases it.  A caller still there and not
\* superseded gets the result; a failure costs the Worker.
Dropped(s, result) == result = "failed" /\ phase[s] = "searching" /\ ~IsSuperseded(s)

\* Fault: a superseded call is handed the result all the same.
EndsAnyway(s, result) ==
  /\ task' = [task EXCEPT ![s] = "ended"]
  /\ Settle(s, IF phase[s] = "hurrying" THEN "halted" ELSE result)
  /\ UNCHANGED <<disposed, latest, evaluator, on>>

Ends(s, result) ==
  /\ task' = [task EXCEPT ![s] = "ended"]
  /\ Settle(s, IF phase[s] = "hurrying" THEN "halted"
               ELSE IF IsSuperseded(s) THEN "superseded" ELSE result)
  /\ UNCHANGED <<disposed, latest, evaluator, on>>

ReadAnswer(s) ==
  LET w == Session(s) IN
  /\ task[s] \in Reading
  /\ lines[w] # <<>>
  /\ lines' = [lines EXCEPT ![w] = Tail(@)]
  /\ searching' = [searching EXCEPT ![w] = FALSE]
  /\ Ends(s, "answered")
  /\ UNCHANGED <<slot, holder, made, worker, home, asked, hurried>>

\* The session produced nothing: a fresh one, once.
Retry(s) ==
  /\ task[s] \in {"first", "firstGrace"}
  /\ task' = [task EXCEPT ![s] = "reopening"]
  /\ NewWorker(on[s])
  /\ worker' = [worker EXCEPT ![Session(s)] = "gone", ![made + 1] = "opening"]
  /\ asked' = [asked EXCEPT ![Session(s)] = <<>>]
  /\ UNCHANGED <<sessionVars, callVars, on, released>>

GiveUp(s) ==
  /\ task[s] \in {"second", "secondGrace"}
  /\ Ends(s, "failed")
  /\ IF Dropped(s, "failed") THEN CloseWorker ELSE UNCHANGED <<slot, worker, asked>>
  /\ UNCHANGED <<made, home>>

\* The lines are closed: a crash, or a Worker that is gone.
ReadEnd(s) ==
  LET w == Session(s) IN
  /\ task[s] \in Reading
  /\ lines[w] = <<>>
  /\ worker[w] \in {"dead", "gone"}
  /\ searching' = [searching EXCEPT ![w] = FALSE]
  /\ Retry(s) \/ GiveUp(s)
  /\ UNCHANGED <<holder, lines, hurried>>

\* The watchdog: a stop of the search's own, and a while to answer it.
Silence(s) ==
  /\ task[s] \in {"first", "second"}
  /\ lines[Session(s)] = <<>>
  /\ worker[Session(s)] = "live"
  /\ task' = [task EXCEPT ![s] = IF @ = "first" THEN "firstGrace" ELSE "secondGrace"]
  /\ UNCHANGED <<sessionVars, callVars, on, released, workerVars, hurried>>

\* Nobody reads on: the session stays marked as searching.
GraceOver(s) ==
  /\ task[s] \in {"firstGrace", "secondGrace"}
  /\ lines[Session(s)] = <<>>
  /\ worker[Session(s)] = "live"
  /\ Retry(s) \/ GiveUp(s)
  /\ UNCHANGED <<holder, searching, lines, hurried>>

\* The fresh session of a retry.
Fresh(s, w) == task[s] = "reopening" /\ home[w] = on[s] /\ worker[w] = "opening"

Reopens(s, w) ==
  /\ Fresh(s, w)
  /\ worker' = [worker EXCEPT ![w] = "live"]
  /\ holder' = [holder EXCEPT ![on[s]] = w]
  /\ task' = [task EXCEPT ![s] = "second"]
  /\ searching' = [searching EXCEPT ![w] = TRUE]
  /\ asked' = [asked EXCEPT ![w] = Append(@, s)]
  /\ UNCHANGED <<sessionVars, callVars, on, released, made, home, lines, hurried>>

\* The retry gets no session, and the holder keeps the one it closed.
ReopenFails(s, w) ==
  /\ Fresh(s, w)
  /\ Ends(s, "failed")
  /\ IF Dropped(s, "failed") THEN CloseWorker
     ELSE Terminate({w}) /\ UNCHANGED slot
  /\ UNCHANGED <<holder, made, home, searching, lines, hurried>>

-----------------------------------------------------------------------------
\* Fault: a call that is replaced or halted kills the Worker, searching or not.
StoppedAnyway(s) == \/ phase[s] = "hurrying"
                    \/ \E r \in Searches : phase[r] = "stopping" /\ previous[r] = s

\* stopSearch's deadline, set by the call that replaces the search or by the
\* teardown of its own.
Stopped(s) == /\ task[s] \in Running
              /\ lines[Session(s)] = <<>>
              /\ \/ phase[s] = "hurrying"
                 \/ \E r \in Searches : phase[r] = "stopping" /\ previous[r] = s

StopTimesOut(s) ==
  /\ Stopped(s)
  /\ task' = [task EXCEPT ![s] = "ended"]
  /\ Settle(s, IF phase[s] = "hurrying" THEN "halted" ELSE "superseded")
  /\ CloseWorker
  /\ UNCHANGED <<disposed, latest, evaluator, on,
                 holder, made, home, searching, lines, hurried>>

\* Everything in the session's scope is halted; calls that still wait for
\* their predecessor find out when their turn comes.
Dispose ==
  LET halted == {s \in Searches : task[s] \in Running} IN
  /\ ~disposed
  /\ disposed' = TRUE
  /\ latest' = 0
  /\ CloseWorker
  /\ task' = [s \in Searches |-> IF s \in halted THEN "ended" ELSE task[s]]
  /\ released' = [s \in Searches |-> released[s] \/ s \in halted]
  /\ phase' = [s \in Searches |-> IF s \in halted THEN "settled" ELSE phase[s]]
  /\ outcome' = [s \in Searches |-> IF s \notin halted THEN outcome[s]
                                    ELSE IF phase[s] = "hurrying" THEN "halted" ELSE "disposed"]
  /\ UNCHANGED <<evaluator, previous, on,
                 holder, made, home, searching, lines, hurried>>

-----------------------------------------------------------------------------
CallStep(s) ==
  \/ Supersede(s) \/ OpenWorker(s) \/ AwaitWorker(s) \/ OpenFailed(s)
  \/ StartSearch(s) \/ RefuseSearch(s) \/ Unwound(s)

Next ==
  \/ \E s \in Searches :
       \/ Evaluate(s) \/ CallStep(s) \/ Halt(s)
       \/ ReadAnswer(s) \/ ReadEnd(s) \/ Silence(s) \/ GraceOver(s)
       \/ \E w \in Workers : Reopens(s, w) \/ ReopenFails(s, w)
       \/ StopTimesOut(s)
  \/ WorkerOpens \/ WorkerFails \/ SlotCleared
  \/ \E w \in Workers : Crash(w) \/ EngineAnswers(w)
  \/ Dispose

Spec == Init /\ [][Next]_vars

\* Timers fire, handshakes end one way or the other, and what is woken goes
\* on.  The engine owes nothing, but it does not talk for ever without
\* answering: it falls silent, and the watchdog notices.
Fairness ==
  /\ WF_vars(WorkerOpens \/ WorkerFails) /\ WF_vars(SlotCleared)
  /\ \A s \in Searches :
       /\ WF_vars(CallStep(s))
       /\ WF_vars(ReadAnswer(s)) /\ WF_vars(ReadEnd(s)) /\ WF_vars(GraceOver(s))
       /\ WF_vars(\E w \in Workers : Reopens(s, w) \/ ReopenFails(s, w))
       /\ WF_vars(StopTimesOut(s))
       /\ WF_vars(Silence(s))

FairSpec == Spec /\ Fairness

-----------------------------------------------------------------------------
TypeOK ==
  /\ disposed \in BOOLEAN
  /\ latest \in 0 .. MaxSearches
  /\ slot \in {"idle", "opening", "ready"}
  /\ evaluator \in 0 .. 2 * MaxSearches
  /\ phase \in [Searches -> Phase]
  /\ previous \in [Searches -> 0 .. MaxSearches]
  /\ outcome \in [Searches -> Failure \cup {"none", "answered"}]
  /\ task \in [Searches -> Running \cup {"none", "ended"}]
  /\ on \in [Searches -> 0 .. 2 * MaxSearches]
  /\ released \in [Searches -> BOOLEAN]
  /\ holder \in [Workers -> 0 .. 2 * MaxSearches]
  /\ made \in 0 .. 2 * MaxSearches
  /\ worker \in [Workers -> {"none", "opening", "live", "dead", "gone"}]
  /\ home \in [Workers -> 0 .. 2 * MaxSearches]
  /\ searching \in [Workers -> BOOLEAN]
  /\ asked \in [Workers -> Seq(Searches)]
  /\ lines \in [Workers -> Seq(Searches)]
  /\ hurried \subseteq Searches

\* The chain of releases is the session's only serialization: no two
\* searches are under way at once, whoever stopped, replaced or left them.
OneSearchAtATime ==
  \A r, s \in Searches : task[r] \in Running /\ task[s] \in Running => r = s

\* No Worker lives that the slot does not account for, and at most one does:
\* not after a cancelled open, a failed retry, a kill or a dispose.
WorkersAccounted ==
  \A w \in Workers : Exists(w) =>
    /\ ~disposed
    /\ slot # "idle" /\ home[w] = evaluator
    /\ \A v \in Workers : Exists(v) => v = w

\* analysis.md: a second failure drops the session's Worker, so the next
\* search opens a clean one; and a session left searching is discarded.
NextStartsClean ==
  \A s \in Searches : MayStart(s) => ~searching[holder[evaluator]]

-----------------------------------------------------------------------------
(* What these rest on: with them they are inductive.                       *)

\* Calls come one after the other, and each replaces the one before.
InOrder ==
  /\ \A s \in Searches : phase[s] # "uncalled" => previous[s] = s - 1
  /\ IF disposed THEN latest = 0
     ELSE \A s \in Searches : phase[s] # "uncalled" <=> s <= latest

\* A call goes on when all calls before it are released, and is released
\* when it is over.
Chained ==
  \A s \in Searches :
    /\ released[s] <=> phase[s] = "settled"
    /\ task[s] \in Running <=> phase[s] \in {"searching", "hurrying"}
    /\ phase[s] \in {"opening", "searching", "hurrying", "settled"} =>
         \A r \in 1 .. s - 1 : released[r]

\* A search is on the evaluator in the slot, whose Worker is the one it opens
\* with, the one in use or the one it retries on.
SlotAgrees ==
  /\ slot # "idle" => ~disposed /\ evaluator \in 1 .. made
  /\ slot = "opening" => \A w \in Workers : Exists(w) => w = evaluator /\ worker[w] = "opening"
  /\ slot = "ready" =>
       /\ holder[evaluator] \in 1 .. made
       /\ \A w \in Workers : Exists(w) =>
            IF worker[w] = "opening" THEN \E s \in Searches : task[s] = "reopening"
            ELSE w = holder[evaluator] /\ \A s \in Searches : task[s] # "reopening"
  /\ \A s \in Searches : task[s] \in Running => slot = "ready" /\ on[s] = evaluator

\* A session that is not searching owes nothing, and one that is owes its
\* search one answer at most.
SessionsAgree ==
  /\ \A w \in Workers :
       /\ ~searching[w] => asked[w] = <<>> /\ lines[w] = <<>>
       /\ worker[w] # "live" => asked[w] = <<>>
       /\ worker[w] = "opening" \/ w > made => ~searching[w]
       /\ w > made => worker[w] = "none"
  /\ \A s \in Searches : task[s] \in Reading =>
       /\ searching[Session(s)]
       /\ <<asked[Session(s)], lines[Session(s)]>> \in
            {<< <<>>, <<>> >>, << <<s>>, <<>> >>, << <<>>, <<s>> >>}

\* A search stopped for another's sake is nobody's answer any more.
HurriedIsOver ==
  \A s \in hurried : \/ phase[s] \in {"hurrying", "settled"}
                     \/ phase[s] = "searching" /\ IsSuperseded(s)

\* A call costs two Workers at most.
Spent(s) == IF task[s] \in {"reopening", "second", "secondGrace"} THEN 2
            ELSE IF phase[s] \in {"opening", "searching", "hurrying"} THEN 1 ELSE 0
Budget == \A s \in Searches : ~released[s] => made <= 2 * (s - 1) + Spent(s)

Inductive ==
  /\ TypeOK
  /\ InOrder
  /\ Chained
  /\ WorkersAccounted
  /\ SlotAgrees
  /\ SessionsAgree
  /\ HurriedIsOver
  /\ Budget

-----------------------------------------------------------------------------
\* A call is answered with the bestmove to its own go, which nobody else's
\* stop cut short.
AnswersAreOwn ==
  [][\A s \in Searches : outcome[s] # "answered" /\ outcome'[s] = "answered" =>
       Head(lines[Session(s)]) = s /\ s \notin hurried]_vars

\* Disposal, not cancellation, terminates a Worker: one that is not in the
\* middle of a search is closed by nothing else.
OnlyBusyIsKilled ==
  [][\A w \in Workers : worker[w] = "live" /\ worker'[w] = "gone" => disposed' \/ searching[w]]_vars

\* To its callers the session is a line in which only the newest is served.
Shown(p) == CASE p = "uncalled"                   -> "none"
              [] p \in {"searching", "hurrying"} -> "searching"
              [] p = "settled"                    -> "over"
              [] OTHER                            -> "waiting"

Promise == INSTANCE LatestCall
             WITH state  <- [s \in Searches |-> Shown(phase[s])],
                  result <- outcome, closed <- disposed

\* Calls are over in their order, the newest alone is searched for, and it is
\* answered only while it is the newest (engine.ts, createSession).
ServesTheLatest == Promise!Spec

\* Every call settles: it is answered, replaced, failed or halted, whatever
\* crashes, hangs, is cancelled or disposed of meanwhile.  A settled call stays
\* so and there are no more than MaxSearches: this is of each of them.
EverySearchSettles ==
  []<>(\A s \in Searches : phase[s] \in {"uncalled", "settled"})
=============================================================================
