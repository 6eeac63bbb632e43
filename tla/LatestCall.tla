----------------------------- MODULE LatestCall -----------------------------
(***************************************************************************)
(* What an engine session promises to those who call evaluate(), with no   *)
(* Worker, evaluator, deadline or chain of releases in sight: calls are    *)
(* over one after the other, in the order they were made; only the newest  *)
(* ever reaches the engine, and only a call that is still the newest when  *)
(* its search ends is answered; a session that is disposed of answers and  *)
(* starts nothing more.                                                    *)
(***************************************************************************)
EXTENDS Integers

CONSTANT MaxSearches

VARIABLES state,   \* "none" before the call is made
          result,  \* what it came to, "none" until it is over
          closed

vars == <<state, result, closed>>

Calls == 1 .. MaxSearches

Init ==
  /\ state = [s \in Calls |-> "none"]
  /\ result = [s \in Calls |-> "none"]
  /\ closed = FALSE

Earlier(s) == 1 .. s - 1
Newest(s)  == \A r \in s + 1 .. MaxSearches : state[r] = "none"
Turn(s)    == \A r \in Earlier(s) : state[r] = "over"

Make(s) ==
  /\ ~closed
  /\ state[s] = "none" /\ \A r \in Earlier(s) : state[r] # "none"
  /\ state' = [state EXCEPT ![s] = "waiting"]
  /\ UNCHANGED <<result, closed>>

Begin(s) ==
  /\ ~closed
  /\ state[s] = "waiting" /\ Turn(s) /\ Newest(s)
  /\ state' = [state EXCEPT ![s] = "searching"]
  /\ UNCHANGED <<result, closed>>

Over(s, how) ==
  /\ state' = [state EXCEPT ![s] = "over"]
  /\ result' = [result EXCEPT ![s] = how]
  /\ UNCHANGED closed

Answer(s) ==
  /\ ~closed
  /\ state[s] = "searching" /\ Newest(s)
  /\ Over(s, "answered")

\* A call ends without an answer: on its own, for a newer one's sake, or for
\* its caller's.
Cease(s) ==
  /\ state[s] \in {"waiting", "searching"} /\ Turn(s)
  /\ \/ Over(s, "failed") \/ Over(s, "halted")
     \/ (closed \/ ~Newest(s)) /\ Over(s, "superseded")
     \/ closed /\ Over(s, "disposed")

\* The search under way ends with the session.
Close ==
  /\ ~closed /\ closed'
  /\ state' = [s \in Calls |-> IF state[s] = "searching" THEN "over" ELSE state[s]]
  /\ \E how \in {"disposed", "halted"} :
       result' = [s \in Calls |-> IF state[s] = "searching" THEN how ELSE result[s]]

Next ==
  \/ \E s \in Calls : Make(s) \/ Begin(s) \/ Answer(s) \/ Cease(s)
  \/ Close

Spec == Init /\ [][Next]_vars
=============================================================================
