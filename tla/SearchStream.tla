------------------------------ MODULE SearchStream ------------------------------
(***************************************************************************)
(* One search as its consumer sees it: the task of the engine session      *)
(* pushes every line it reports onto a queue, and a generator hands them   *)
(* out one by one, sleeps when there is none, and returns what the task    *)
(* settled on.  The consumer may cancel from outside at any moment, where  *)
(* a return() would queue behind the pending next().                       *)
(*                                                                         *)
(* Abstractions.  A line is its number.  What an answer says, and how long *)
(* a halted task takes to unwind, is in BrowserEngine.                     *)
(***************************************************************************)
EXTENDS Integers, Sequences

CONSTANT MaxLines  \* bound: lines one search reports

VARIABLES
  task,      \* the engine's side of the search
  settled,   \* what the promise of it became
  queue,     \* lines reported and not handed out (pending)
  finished,
  wake,      \* a sleeping reader left its resolve here
  reader,    \* where the generator is
  got        \* lines the consumer was handed

vars == <<task, settled, queue, finished, wake, reader, got>>

-----------------------------------------------------------------------------
Lines == 1..MaxLines

TypeOK ==
  /\ task \in {"running", "answered", "failed", "halting", "halted"}
  /\ settled \in {"pending", "answer", "error"}
  /\ queue \in Seq(Lines) /\ got \in Seq(Lines)
  /\ finished \in BOOLEAN /\ wake \in BOOLEAN
  /\ reader \in {"out", "loop", "asleep", "settling", "done"}

Init ==
  /\ task = "running" /\ settled = "pending"
  /\ queue = <<>> /\ finished = FALSE /\ wake = FALSE
  /\ reader = "out" /\ got = <<>>

\* A reader that sleeps is resumed, once.
Notify ==
  /\ wake' = FALSE
  /\ reader' = IF wake THEN "loop" ELSE reader

-----------------------------------------------------------------------------
(* The task.  Until a halted one is unwound it may report on.              *)

Reported == Len(got) + Len(queue)

Report ==
  /\ task \in {"running", "halting"} /\ Reported < MaxLines
  /\ queue' = Append(queue, Reported + 1)
  /\ Notify
  /\ UNCHANGED <<task, settled, finished, got>>

Answers == task = "running" /\ task' = "answered"
Fails   == task = "running" /\ task' = "failed"
Unwinds == task = "halting" /\ task' = "halted"
TaskEnds ==
  /\ Answers \/ Fails \/ Unwinds
  /\ UNCHANGED <<settled, queue, finished, wake, reader, got>>

\* The promise of the task settles after the task ended.
Settle ==
  /\ task \in {"answered", "failed", "halted"} /\ settled = "pending"
  /\ settled' = IF task = "answered" THEN "answer" ELSE "error"
  /\ finished' = TRUE
  /\ Notify
  /\ UNCHANGED <<task, queue, got>>

-----------------------------------------------------------------------------
(* The consumer and the generator.                                         *)

\* The consumer asks for the next value.
Ask ==
  /\ reader = "out"
  /\ reader' = "loop"
  /\ UNCHANGED <<task, settled, queue, finished, wake, got>>

Yield ==
  /\ reader = "loop" /\ queue # <<>>
  /\ got' = Append(got, Head(queue)) /\ queue' = Tail(queue)
  /\ reader' = "out"
  /\ UNCHANGED <<task, settled, finished, wake>>

\* Looking and going to sleep is one step: nothing runs in between.
Wait ==
  /\ reader = "loop" /\ queue = <<>>
  /\ IF finished THEN reader' = "settling" /\ UNCHANGED wake
                 ELSE reader' = "asleep" /\ wake' = TRUE
  /\ UNCHANGED <<task, settled, queue, finished, got>>

Return ==
  /\ reader = "settling" /\ settled # "pending"
  /\ reader' = "done"
  /\ UNCHANGED <<task, settled, queue, finished, wake, got>>

\* Fault: the reader is not told.
CancelQuietly ==
  /\ ~finished
  /\ finished' = TRUE
  /\ task' = IF task = "running" THEN "halting" ELSE task
  /\ UNCHANGED <<settled, queue, wake, reader, got>>

\* A search that finished is left alone; a task that ended before its promise
\* settled is beyond halting, and its answer stands.
Cancel ==
  /\ ~finished
  /\ finished' = TRUE
  /\ task' = IF task = "running" THEN "halting" ELSE task
  /\ Notify
  /\ UNCHANGED <<settled, queue, got>>

\* The evaluator is asked about the next position.
Evaluate ==
  /\ reader = "done"
  /\ task' = "running" /\ settled' = "pending"
  /\ queue' = <<>> /\ finished' = FALSE /\ wake' = FALSE
  /\ reader' = "out" /\ got' = <<>>

Next == \/ Report \/ TaskEnds \/ Settle
        \/ Ask \/ Yield \/ Wait \/ Return \/ Cancel \/ Evaluate

Spec == Init /\ [][Next]_vars

-----------------------------------------------------------------------------
\* A reader never sleeps over a line or over the end of its search, is handed
\* every line once and in the order of the reports, and is given an answer only
\* after the last line that led to it (position/stockfish.ts, searchPosition).
ReaderMissesNothing ==
  /\ reader = "asleep" => wake /\ queue = <<>> /\ ~finished
  /\ got \o queue = [n \in 1..Reported |-> n]
  /\ reader = "done" /\ settled = "answer" => queue = <<>>

=============================================================================
