------------------------------- MODULE RateLimit -------------------------------
(***************************************************************************)
(* The API's request budgets: one counter per policy and subject in Redis, *)
(* a fixed window that its first request opens, the two limiters a sync    *)
(* passes one after the other, the wait a refusal announces, and a Redis   *)
(* that cannot be reached.                                                 *)
(*                                                                         *)
(* Abstractions.  One user: the others count under keys of their own.      *)
(* Time passes in steps of a fraction of a second.  A request is gone once *)
(* it is let through; what it then does is in SyncJobs.  An observer logs  *)
(* the requests of one counter.                                            *)
(***************************************************************************)
EXTENDS Integers, Sequences

CONSTANTS
  Tracked,    \* the user's tracked accounts
  ApiMax,     \* requests a window of the general budget lets through
  ImportMax,  \* and a window of a sync's
  Window,     \* seconds a window is open
  Steps,      \* steps of the clock in a second
  MaxWaiting  \* bound: requests between the two limiters

VARIABLES
  redis,      \* whether Redis answers
  hits, left, \* of each counter: its value, and the steps until it expires
  waiting,    \* of each sync: requests that passed the general limiter
  watched,    \* the counter the observer logs
  passed,     \* steps until each request it let through is a window old, oldest first
  told        \* steps left of the wait its window first announced; -1 is none

vars == <<redis, hits, left, waiting, watched, passed, told>>

-----------------------------------------------------------------------------
Imports == Tracked \cup {"all"}
Keys    == Imports \cup {"api"}
Budget(k) == IF k = "api" THEN ApiMax ELSE ImportMax
Open    == Window * Steps

TypeOK ==
  /\ redis \in BOOLEAN /\ watched \in Keys
  /\ hits \in [Keys -> Nat] /\ left \in [Keys -> 0..Open]
  /\ waiting \in [Imports -> 0..MaxWaiting]
  /\ passed \in Seq(1..Open)
  /\ told \in -1..(Open + Steps)

Init ==
  /\ redis = TRUE /\ hits = [k \in Keys |-> 0] /\ left = [k \in Keys |-> 0]
  /\ waiting = [k \in Imports |-> 0]
  /\ watched \in Keys /\ passed = <<>> /\ told = -1

\* The counter after one more request, and the steps until it expires.
Hits(k) == IF left[k] = 0 THEN 1 ELSE hits[k] + 1
Left(k) == IF left[k] = 0 THEN Open ELSE left[k]

\* Fault: the seconds of a wait are rounded down.
RetryAfterFloored(k) == IF left[k] <= Steps THEN 1 ELSE left[k] \div Steps

\* The seconds a refusal announces, never none.
RetryAfter(k) == IF left[k] <= Steps THEN 1 ELSE (left[k] + Steps - 1) \div Steps

\* Fault: the request after the budget still passes.
RefusedLate(k) == Hits(k) > Budget(k) + 1

Refused(k) == Hits(k) > Budget(k)

\* One more request at a counter; only the first refusal of a window is
\* logged, and a value past the first refused one counts as that one.
Increment(k) ==
  /\ hits' = [hits EXCEPT ![k] = IF Hits(k) > Budget(k) + 1 THEN Budget(k) + 1 ELSE Hits(k)]
  /\ left' = [left EXCEPT ![k] = Left(k)]
  /\ passed' = IF k = watched /\ ~Refused(k) THEN Append(passed, Open) ELSE passed
  /\ told' = IF k = watched /\ Refused(k) /\ told = -1 THEN RetryAfter(k) * Steps ELSE told

-----------------------------------------------------------------------------
(* Requests.                                                               *)

\* The general limiter, which a sync passes on its way to its own.
Arrive(k) ==
  /\ k \in Imports => waiting[k] < MaxWaiting
  /\ IF redis THEN Increment("api") ELSE UNCHANGED <<hits, left, passed, told>>
  /\ waiting' = IF k \in Imports /\ ~(redis /\ Refused("api"))
                THEN [waiting EXCEPT ![k] = @ + 1] ELSE waiting
  /\ UNCHANGED <<redis, watched>>

\* The limiter of one account's sync, or of the sync of them all.
Import(k) ==
  /\ waiting[k] > 0
  /\ waiting' = [waiting EXCEPT ![k] = @ - 1]
  /\ IF redis THEN Increment(k) ELSE UNCHANGED <<hits, left, passed, told>>
  /\ UNCHANGED <<redis, watched>>

-----------------------------------------------------------------------------
(* Redis and the clock.                                                    *)

\* Requests are let through uncounted while Redis does not answer; its keys
\* stay, and expire.
Outage == redis /\ redis' = FALSE /\ UNCHANGED <<hits, left, waiting, watched, passed, told>>
Answers == ~redis /\ redis' = TRUE /\ UNCHANGED <<hits, left, waiting, watched, passed, told>>

Tick ==
  /\ left' = [k \in Keys |-> IF left[k] = 0 THEN 0 ELSE left[k] - 1]
  /\ hits' = [k \in Keys |-> IF left[k] <= 1 THEN 0 ELSE hits[k]]
  /\ \E old \in 0..Len(passed) :
       /\ \A n \in 1..Len(passed) : passed[n] = 1 <=> n <= old
       /\ passed' = [n \in 1..(Len(passed) - old) |-> passed[n + old] - 1]
  /\ told' = IF left[watched] <= 1 \/ told = -1 THEN -1 ELSE told - 1
  /\ UNCHANGED <<redis, waiting, watched>>

Next ==
  \/ \E k \in Keys : Arrive(k)
  \/ \E k \in Imports : Import(k)
  \/ Outage \/ Answers \/ Tick

Spec == Init /\ [][Next]_vars

-----------------------------------------------------------------------------
\* Whoever waits as long as the first refusal of a window said finds that
\* window closed: no refusal since has made it longer, and no announced wait
\* is rounded below what is left (middleware/rate-limit.ts, retryAfterSeconds
\* and the comment above it).
WaitIsEnough == told # -1 => left[watched] <= told

\* Whatever stretch of a window's length one looks at, a subject got at most
\* twice its budget through while Redis counted (docs/explanation/apps/api.md).
TwiceTheBudgetAtMost == Len(passed) <= 2 * Budget(watched)

=============================================================================
