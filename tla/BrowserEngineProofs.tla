------------------------ MODULE BrowserEngineProofs ------------------------
(***************************************************************************)
(* Proofs about BrowserEngine, for any number of calls: searches are       *)
(* serialized, answers are their own, every Worker is accounted for, a     *)
(* Worker between searches is closed by disposal alone, and the session    *)
(* implements LatestCall.                                                  *)
(***************************************************************************)
EXTENDS BrowserEngine, TLAPS

\* A call that has not spent its two Workers may take one more.
LEMMA RoomForOne ==
  ASSUME TypeOK, Budget, NEW s \in Searches, ~released[s], Spent(s) \in {0, 1}
  PROVE  made + 1 \in Workers /\ made \in Nat
<1>1. made <= 2 * (s - 1) + Spent(s) /\ made \in Nat
  BY DEF Budget, TypeOK
<1>2. QED
  BY <1>1, SearchesAssumption DEF Searches, Workers

\* The calls that open or retry are of that kind.
LEMMA OpenersHaveRoom ==
  ASSUME TypeOK, Chained, Budget, NEW s \in Searches,
         Turn(s) \/ task[s] \in {"first", "firstGrace"}
  PROVE  made + 1 \in Workers /\ made \in Nat
<1>1. ~released[s] /\ Spent(s) \in {0, 1}
  BY DEF Turn, Chained, Spent, Running
<1>2. QED
  BY <1>1, RoomForOne

LEMMA Typed ==
  /\ \A q \in Seq(Searches), s \in Searches : Append(q, s) \in Seq(Searches)
  /\ \A q \in Seq(Searches) : q # <<>> => Head(q) \in Searches /\ Tail(q) \in Seq(Searches)
  /\ \A q \in Seq(Searches) : \A i \in DOMAIN q : q[i] \in Searches
  /\ <<>> \in Seq(Searches)
  OBVIOUS

\* What the shared parts of the actions keep typed.
LEMMA PartsTyped ==
  ASSUME TypeOK
  PROVE  /\ \A s \in Searches, how \in Failure \cup {"answered"} : Settle(s, how) =>
              /\ phase' \in [Searches -> Phase]
              /\ previous' \in [Searches -> 0 .. MaxSearches]
              /\ outcome' \in [Searches -> Failure \cup {"none", "answered"}]
              /\ released' \in [Searches -> BOOLEAN]
         /\ \A W : Terminate(W) =>
              /\ worker' \in [Workers -> {"none", "opening", "live", "dead", "gone"}]
              /\ asked' \in [Workers -> Seq(Searches)]
         /\ CloseWorker => slot' \in {"idle", "opening", "ready"}
<1>1. ASSUME NEW s \in Searches, NEW how \in Failure \cup {"answered"}, Settle(s, how)
      PROVE  /\ phase' \in [Searches -> Phase]
             /\ previous' \in [Searches -> 0 .. MaxSearches]
             /\ outcome' \in [Searches -> Failure \cup {"none", "answered"}]
             /\ released' \in [Searches -> BOOLEAN]
  BY <1>1 DEF Settle, TypeOK, Phase
<1>2. ASSUME NEW W, Terminate(W)
      PROVE  /\ worker' \in [Workers -> {"none", "opening", "live", "dead", "gone"}]
             /\ asked' \in [Workers -> Seq(Searches)]
  BY <1>2, Typed DEF Terminate, TypeOK
<1>3. QED
  BY <1>1, <1>2 DEF CloseWorker

LEMMA TypeInit == Init => TypeOK
<1>1. 0 \in 0 .. MaxSearches /\ 0 \in 0 .. 2 * MaxSearches
  BY SearchesAssumption
<1>2. ASSUME Init PROVE asked \in [Workers -> Seq(Searches)] /\ lines \in [Workers -> Seq(Searches)]
  BY <1>2, Typed DEF Init
<1>3. ASSUME Init
      PROVE  /\ phase \in [Searches -> Phase]
             /\ outcome \in [Searches -> Failure \cup {"none", "answered"}]
             /\ task \in [Searches -> Running \cup {"none", "ended"}]
             /\ worker \in [Workers -> {"none", "opening", "live", "dead", "gone"}]
  BY <1>3 DEF Init, Phase
<1>4. ASSUME Init
      PROVE  /\ previous \in [Searches -> 0 .. MaxSearches]
             /\ on \in [Searches -> 0 .. 2 * MaxSearches]
             /\ holder \in [Workers -> 0 .. 2 * MaxSearches]
             /\ home \in [Workers -> 0 .. 2 * MaxSearches]
             /\ released \in [Searches -> BOOLEAN]
             /\ searching \in [Workers -> BOOLEAN]
  BY <1>1, <1>4 DEF Init
<1>5. ASSUME Init
      PROVE  /\ disposed \in BOOLEAN /\ slot \in {"idle", "opening", "ready"}
             /\ latest \in 0 .. MaxSearches /\ made \in 0 .. 2 * MaxSearches
             /\ evaluator \in 0 .. 2 * MaxSearches /\ hurried \subseteq Searches
  BY <1>1, <1>5 DEF Init
<1>6. QED
  BY <1>2, <1>3, <1>4, <1>5 DEF TypeOK

\* Every step keeps the types.
LEMMA TypeStep ==
  ASSUME TypeOK, Chained, SlotAgrees, Budget, [Next]_vars
  PROVE  TypeOK'
<1> USE SearchesAssumption DEF sessionVars, callVars, searchVars, workerVars
<1>0. \A s \in Searches : s \in 0 .. MaxSearches
  BY DEF Searches
<1>e. evaluator \in 0 .. 2 * MaxSearches /\ \A w \in Workers : w \in 0 .. 2 * MaxSearches
  BY DEF TypeOK, Workers
<1>h. slot = "ready" => holder[evaluator] \in Workers /\ evaluator \in Workers
  BY DEF SlotAgrees, TypeOK, Workers
<1>s. SendStop => hurried' \subseteq Searches
  <2>1. CASE slot = "ready"
    BY <2>1, <1>h, Typed DEF SendStop, TypeOK
  <2>2. CASE slot # "ready"
    BY <2>2 DEF SendStop, TypeOK
  <2>3. QED
    BY <2>1, <2>2
<1>k. \A s \in Searches, how \in {"answered", "failed"} : Ends(s, how) =>
        /\ task' \in [Searches -> Running \cup {"none", "ended"}]
        /\ phase' \in [Searches -> Phase]
        /\ previous' \in [Searches -> 0 .. MaxSearches]
        /\ outcome' \in [Searches -> Failure \cup {"none", "answered"}]
        /\ released' \in [Searches -> BOOLEAN]
  <2> SUFFICES ASSUME NEW s \in Searches, NEW how \in {"answered", "failed"}, Ends(s, how)
               PROVE  /\ task' \in [Searches -> Running \cup {"none", "ended"}]
                      /\ phase' \in [Searches -> Phase]
                      /\ previous' \in [Searches -> 0 .. MaxSearches]
                      /\ outcome' \in [Searches -> Failure \cup {"none", "answered"}]
                      /\ released' \in [Searches -> BOOLEAN]
    OBVIOUS
  <2>1. PICK end \in Failure \cup {"answered"} : Settle(s, end)
    BY DEF Ends, Failure
  <2>2. task' \in [Searches -> Running \cup {"none", "ended"}]
    BY DEF Ends, TypeOK
  <2>3. QED
    BY <2>1, <2>2, PartsTyped
<1>1. ASSUME NEW s \in Searches, Evaluate(s) PROVE TypeOK'
  <2>1. phase' \in [Searches -> Phase] /\ hurried' \subseteq Searches
    BY <1>1, <1>s DEF Evaluate, TypeOK, Phase
  <2>2. QED
    BY <1>1, <2>1, <1>0 DEF Evaluate, TypeOK
<1>2. ASSUME NEW s \in Searches, Supersede(s) \/ OpenFailed(s) \/ Unwound(s) PROVE TypeOK'
  BY <1>2, PartsTyped DEF Supersede, OpenFailed, Unwound, TypeOK, Failure
<1>3. ASSUME NEW s \in Searches, OpenWorker(s) PROVE TypeOK'
  <2>1. made + 1 \in Workers
    BY <1>3, OpenersHaveRoom DEF OpenWorker
  <2>2. made + 1 \in 0 .. 2 * MaxSearches
    BY <2>1, <1>e
  <2>3. /\ home' \in [Workers -> 0 .. 2 * MaxSearches]
        /\ on' \in [Searches -> 0 .. 2 * MaxSearches]
        /\ made' \in 0 .. 2 * MaxSearches
        /\ evaluator' \in 0 .. 2 * MaxSearches
    BY <1>3, <2>2 DEF OpenWorker, NewWorker, TypeOK
  <2>4. /\ phase' \in [Searches -> Phase]
        /\ worker' \in [Workers -> {"none", "opening", "live", "dead", "gone"}]
        /\ slot' \in {"idle", "opening", "ready"}
    BY <1>3 DEF OpenWorker, TypeOK, Phase
  <2>5. QED
    BY <1>3, <2>3, <2>4 DEF OpenWorker, TypeOK
<1>4. ASSUME NEW s \in Searches, AwaitWorker(s) PROVE TypeOK'
  BY <1>4 DEF AwaitWorker, TypeOK, Phase
<1>5. ASSUME NEW s \in Searches, StartSearch(s) PROVE TypeOK'
  <2>1. holder[evaluator] \in Workers
    BY <1>5, <1>h DEF StartSearch, MayStart, Opened
  <2>2. searching' \in [Workers -> BOOLEAN] /\ asked' \in [Workers -> Seq(Searches)]
    BY <1>5, <2>1, Typed DEF StartSearch, Go, TypeOK
  <2>3. QED
    BY <1>5, <2>2 DEF StartSearch, TypeOK, Phase, Running
<1>6. ASSUME NEW s \in Searches, RefuseSearch(s) PROVE TypeOK'
  BY <1>6, PartsTyped DEF RefuseSearch, CloseWorker, TypeOK, Failure
<1>7. ASSUME NEW s \in Searches, Halt(s) PROVE TypeOK'
  <2>1. CASE Settle(s, "halted") /\ UNCHANGED <<sessionVars, task, on, workerVars, hurried>>
    BY <2>1, PartsTyped DEF TypeOK, Failure
  <2>2. CASE /\ phase' = [phase EXCEPT ![s] = "unwinding"]
             /\ UNCHANGED <<sessionVars, previous, outcome, searchVars, workerVars, hurried>>
    BY <2>2 DEF TypeOK, Phase
  <2>3. CASE /\ phase' = [phase EXCEPT ![s] = "hurrying"]
             /\ SendStop
             /\ UNCHANGED <<sessionVars, previous, outcome, searchVars, workerVars>>
    BY <2>3, <1>s DEF TypeOK, Phase
  <2>4. QED
    BY <1>7, <2>1, <2>2, <2>3 DEF Halt
<1>8. ASSUME NEW s \in Searches, ReadAnswer(s) PROVE TypeOK'
  <2>1. lines' \in [Workers -> Seq(Searches)] /\ searching' \in [Workers -> BOOLEAN]
    BY <1>8, Typed DEF ReadAnswer, TypeOK
  <2>2. Ends(s, "answered") /\ UNCHANGED <<slot, holder, made, worker, home, asked, hurried>>
    BY <1>8 DEF ReadAnswer
  <2>3. QED
    BY <2>1, <2>2, <1>k DEF Ends, TypeOK
<1>9. ASSUME NEW s \in Searches, Retry(s) \/ GiveUp(s)
      PROVE  /\ slot' \in {"idle", "opening", "ready"}
             /\ made' \in 0 .. 2 * MaxSearches
             /\ worker' \in [Workers -> {"none", "opening", "live", "dead", "gone"}]
             /\ home' \in [Workers -> 0 .. 2 * MaxSearches]
             /\ asked' \in [Workers -> Seq(Searches)]
             /\ task' \in [Searches -> Running \cup {"none", "ended"}]
             /\ phase' \in [Searches -> Phase]
             /\ previous' \in [Searches -> 0 .. MaxSearches]
             /\ outcome' \in [Searches -> Failure \cup {"none", "answered"}]
             /\ released' \in [Searches -> BOOLEAN]
             /\ UNCHANGED <<disposed, latest, evaluator, on>>
  <2>1. CASE Retry(s)
    <3>1. made + 1 \in Workers
      BY <2>1, OpenersHaveRoom DEF Retry
    <3>2. on[s] \in 0 .. 2 * MaxSearches /\ "reopening" \in Running
      BY DEF TypeOK, Running
    <3>3. worker' \in [Workers -> {"none", "opening", "live", "dead", "gone"}]
      BY <2>1 DEF Retry, TypeOK
    <3>4. asked' \in [Workers -> Seq(Searches)]
      BY <2>1, Typed DEF Retry, TypeOK
    <3>5. home' \in [Workers -> 0 .. 2 * MaxSearches]
      <4>1. home \in [Workers -> 0 .. 2 * MaxSearches]
        BY DEF TypeOK
      <4>2. home' = [home EXCEPT ![made + 1] = on[s]]
        BY <2>1 DEF Retry, NewWorker
      <4>3. QED
        BY <3>2, <4>1, <4>2
    <3>6. made' \in 0 .. 2 * MaxSearches
      BY <2>1, <3>1 DEF Retry, NewWorker, Workers
    <3>7. QED
      BY <2>1, <3>2, <3>3, <3>4, <3>5, <3>6 DEF Retry, TypeOK
  <2>2. CASE GiveUp(s)
    <3>1. Ends(s, "failed") /\ UNCHANGED <<made, home>>
      BY <2>2 DEF GiveUp
    <3>2. /\ worker' \in [Workers -> {"none", "opening", "live", "dead", "gone"}]
          /\ asked' \in [Workers -> Seq(Searches)]
          /\ slot' \in {"idle", "opening", "ready"}
      BY <2>2, PartsTyped DEF GiveUp, CloseWorker, TypeOK
    <3>3. QED
      BY <3>1, <3>2, <1>k DEF Ends, TypeOK
  <2>3. QED
    BY <1>9, <2>1, <2>2
<1>10. ASSUME NEW s \in Searches, ReadEnd(s) \/ GraceOver(s) PROVE TypeOK'
  <2>1. /\ Retry(s) \/ GiveUp(s)
        /\ searching' \in [Workers -> BOOLEAN]
        /\ UNCHANGED <<holder, lines, hurried>>
    BY <1>10 DEF ReadEnd, GraceOver, TypeOK
  <2>2. QED
    BY <2>1, <1>9 DEF TypeOK
<1>11. ASSUME NEW s \in Searches, Silence(s) PROVE TypeOK'
  BY <1>11 DEF Silence, TypeOK, Running
<1>12. ASSUME NEW s \in Searches, NEW w \in Workers, Reopens(s, w) PROVE TypeOK'
  BY <1>12, <1>e, Typed DEF Reopens, TypeOK, Running
<1>13. ASSUME NEW s \in Searches, NEW w \in Workers, ReopenFails(s, w) PROVE TypeOK'
  <2>1. /\ worker' \in [Workers -> {"none", "opening", "live", "dead", "gone"}]
        /\ asked' \in [Workers -> Seq(Searches)]
        /\ slot' \in {"idle", "opening", "ready"}
    BY <1>13, PartsTyped DEF ReopenFails, CloseWorker, TypeOK
  <2>2. Ends(s, "failed") /\ UNCHANGED <<holder, made, home, searching, lines, hurried>>
    BY <1>13 DEF ReopenFails
  <2>3. QED
    BY <2>1, <2>2, <1>k DEF Ends, TypeOK
<1>14. ASSUME NEW s \in Searches, StopTimesOut(s) PROVE TypeOK'
  <2>1. PICK how \in Failure : Settle(s, how)
    BY <1>14 DEF StopTimesOut, Failure
  <2>2. QED
    BY <1>14, <2>1, PartsTyped DEF StopTimesOut, CloseWorker, TypeOK
<1>15. CASE WorkerOpens
  BY <1>15, <1>e DEF WorkerOpens, TypeOK
<1>16. CASE WorkerFails \/ SlotCleared
  BY <1>16, PartsTyped DEF WorkerFails, SlotCleared, TypeOK
<1>17. ASSUME NEW w \in Workers, Crash(w) PROVE TypeOK'
  BY <1>17, Typed DEF Crash, TypeOK
<1>18. ASSUME NEW w \in Workers, EngineAnswers(w) PROVE TypeOK'
  BY <1>18, Typed DEF EngineAnswers, TypeOK
<1>19. CASE Dispose
  <2>1. /\ phase' \in [Searches -> Phase]
        /\ task' \in [Searches -> Running \cup {"none", "ended"}]
        /\ released' \in [Searches -> BOOLEAN]
    BY <1>19 DEF Dispose, TypeOK, Phase
  <2>2. outcome' \in [Searches -> Failure \cup {"none", "answered"}]
    BY <1>19 DEF Dispose, TypeOK, Failure
  <2>3. QED
    BY <1>19, <2>1, <2>2, PartsTyped DEF Dispose, CloseWorker, TypeOK
<1>20. CASE UNCHANGED vars
  BY <1>20 DEF vars, TypeOK
<1>21. QED
  BY <1>1, <1>2, <1>3, <1>4, <1>5, <1>6, <1>7, <1>8, <1>10, <1>11, <1>12, <1>13, <1>14,
     <1>15, <1>16, <1>17, <1>18, <1>19, <1>20 DEF Next, CallStep

-----------------------------------------------------------------------------
(* Every step starts a call, disposes, or does one of three things to the  *)
(* order of the calls.                                                     *)

\* A call is over, those before it being so: answered as the newest, replaced
\* by a newer one, disposed of with the session, or without a result.
Settles(s, how) ==
  /\ phase[s] \notin {"uncalled", "settled"}
  /\ how = "answered" => phase[s] = "searching" /\ ~IsSuperseded(s)
  /\ how = "superseded" => IsSuperseded(s)
  /\ how = "disposed" => disposed
  /\ \A r \in 1 .. s - 1 : released[r]
  /\ Settle(s, how)
  /\ \/ UNCHANGED task /\ task[s] \notin Running
     \/ task' = [task EXCEPT ![s] = "ended"]
  /\ UNCHANGED <<disposed, latest>>

\* A call goes on: it gives up its turn, takes it, searches or hurries.
MovesTo(s, p) ==
  /\ phase' = [phase EXCEPT ![s] = p]
  /\ UNCHANGED <<disposed, latest, previous, released, outcome>>
  /\ \/ /\ p = "unwinding"
        /\ phase[s] \in {"stopping", "queued"}
        /\ UNCHANGED task
     \/ /\ p = "opening"
        /\ phase[s] \in {"stopping", "queued"}
        /\ \A r \in 1 .. s - 1 : released[r]
        /\ UNCHANGED task
     \/ /\ p = "searching"
        /\ ~IsSuperseded(s)
        /\ phase[s] \in {"stopping", "queued", "opening"}
        /\ \A r \in 1 .. s - 1 : released[r]
        /\ task' = [task EXCEPT ![s] = "first"]
     \/ /\ p = "hurrying"
        /\ phase[s] = "searching"
        /\ UNCHANGED task

\* A call whose turn has come, in whatever state it finds out.
Goes(s) ==
  \/ phase[s] \in {"stopping", "queued", "unwinding"} /\ Free(s)
  \/ phase[s] = "opening"

Stays ==
  /\ UNCHANGED <<disposed, latest, phase, previous, released, outcome>>
  /\ \A r \in Searches : task'[r] \in Running <=> task[r] \in Running
  /\ \A r \in Searches : task[r] \in {"reopening", "second", "secondGrace"} =>
       task'[r] \in {"reopening", "second", "secondGrace"}

\* Whose turn it is, all calls before it are released.
LEMMA FreeMeansAll ==
  ASSUME TypeOK, InOrder, Chained, NEW s \in Searches, phase[s] # "uncalled", Free(s)
  PROVE  \A r \in 1 .. s - 1 : released[r]
<1> SUFFICES ASSUME NEW r \in 1 .. s - 1 PROVE released[r]
  OBVIOUS
<1>1. previous[s] = s - 1 /\ s - 1 \in Searches /\ r \in Searches
  BY SearchesAssumption DEF InOrder, Searches
<1>2. released[s - 1]
  BY <1>1 DEF Free
<1>3. phase[s - 1] = "settled"
  BY <1>1, <1>2 DEF Chained
<1>4. r = s - 1 \/ r \in 1 .. (s - 1) - 1
  BY DEF Searches
<1>5. QED
  BY <1>1, <1>2, <1>3, <1>4 DEF Chained

LEMMA Kinds ==
  ASSUME TypeOK, InOrder, Chained, [Next]_vars
  PROVE  \/ \E s \in Searches : Evaluate(s)
         \/ Dispose
         \/ \E s \in Searches, how \in Failure \cup {"answered"} : Settles(s, how)
         \/ \E s \in Searches, p \in Phase : MovesTo(s, p)
         \/ Stays
<1> USE DEF sessionVars, callVars, searchVars, workerVars
<1>f. {"superseded", "failed", "disposed", "halted", "answered"} = Failure \cup {"answered"}
  BY DEF Failure
<1>r. "ended" \notin Running /\ {"first", "firstGrace", "reopening", "second", "secondGrace"} = Running
  BY DEF Running
<1>p. {"opening", "searching", "hurrying", "unwinding"} \subseteq Phase
  BY DEF Phase
<1>t. ASSUME NEW s \in Searches, phase[s] \in {"stopping", "queued", "opening", "unwinding"}
      PROVE  task[s] \notin Running
  BY <1>t DEF Chained
<1>b. ASSUME NEW s \in Searches, Goes(s)
      PROVE  /\ phase[s] \in {"stopping", "queued", "opening", "unwinding"}
             /\ \A r \in 1 .. s - 1 : released[r]
  <2>1. CASE phase[s] = "opening"
    BY <2>1 DEF Chained
  <2>2. CASE phase[s] # "opening"
    BY <1>b, <2>2, FreeMeansAll DEF Goes
  <2>3. QED
    BY <2>1, <2>2
<1>m. ASSUME NEW s \in Searches, MayStart(s)
      PROVE  Goes(s) /\ phase[s] # "unwinding"
  BY <1>m DEF MayStart, Opened, Turn, Goes
<1>g. ASSUME NEW s \in Searches, task[s] \in Running
      PROVE  /\ phase[s] \in {"searching", "hurrying"}
             /\ \A r \in 1 .. s - 1 : released[r]
  BY <1>g DEF Chained
<1>e. ASSUME NEW s \in Searches, NEW how \in {"answered", "failed"}, task[s] \in Running, Ends(s, how)
      PROVE  \E end \in Failure \cup {"answered"} : Settles(s, end)
  <2>1. PICK end \in Failure \cup {"answered"} :
          /\ Settle(s, end) /\ end # "disposed"
          /\ end = "answered" => phase[s] # "hurrying" /\ ~IsSuperseded(s)
          /\ end = "superseded" => IsSuperseded(s)
    BY <1>e, <1>f DEF Ends
  <2>2. Settles(s, end)
    BY <1>e, <1>g, <2>1 DEF Ends, Settles
  <2>3. QED
    BY <2>2
<1>2. ASSUME NEW s \in Searches, Supersede(s) \/ OpenFailed(s) \/ Unwound(s)
      PROVE  \E end \in Failure \cup {"answered"} : Settles(s, end)
  <2>1. PICK end \in Failure \cup {"answered"} :
          /\ Settle(s, end) /\ end # "answered"
          /\ end = "superseded" => IsSuperseded(s)
          /\ end = "disposed" => disposed
    BY <1>2, <1>f DEF Supersede, OpenFailed, Unwound
  <2>2. Goes(s)
    <3>1. \/ Turn(s) \/ Opened(s) \/ Unopened(s)
          \/ phase[s] = "unwinding" /\ Free(s)
      BY <1>2 DEF Supersede, OpenFailed, Unwound
    <3>2. QED
      BY <3>1 DEF Turn, Opened, Unopened, Goes
  <2>3. UNCHANGED <<task, disposed, latest>>
    BY <1>2 DEF Supersede, OpenFailed, Unwound
  <2>4. Settles(s, end)
    BY <1>b, <1>t, <2>1, <2>2, <2>3 DEF Settles
  <2>5. QED
    BY <2>4
<1>3. ASSUME NEW s \in Searches, OpenWorker(s) \/ AwaitWorker(s)
      PROVE  MovesTo(s, "opening")
  <2>1. Goes(s) /\ phase[s] \in {"stopping", "queued"}
    BY <1>3 DEF OpenWorker, AwaitWorker, Turn, Goes
  <2>2. QED
    BY <1>3, <1>b, <2>1 DEF OpenWorker, AwaitWorker, MovesTo
<1>5. ASSUME NEW s \in Searches, StartSearch(s)
      PROVE  MovesTo(s, "searching")
  <2>1. Goes(s) /\ phase[s] # "unwinding"
    BY <1>5, <1>m DEF StartSearch
  <2>2. ~IsSuperseded(s)
    BY <1>5 DEF StartSearch, MayStart
  <2>3. QED
    BY <1>5, <1>b, <2>1, <2>2 DEF StartSearch, MovesTo
<1>6. ASSUME NEW s \in Searches, RefuseSearch(s)
      PROVE  Settles(s, "failed")
  <2>1. Goes(s)
    BY <1>6, <1>m DEF RefuseSearch
  <2>2. phase[s] \notin {"uncalled", "settled"} /\ \A r \in 1 .. s - 1 : released[r]
    BY <1>b, <2>1
  <2>3. QED
    BY <1>6, <2>2 DEF RefuseSearch, Settles
<1>7. ASSUME NEW s \in Searches, Halt(s)
      PROVE  \/ Settles(s, "halted")
             \/ MovesTo(s, "unwinding")
             \/ MovesTo(s, "hurrying")
  <2>1. CASE /\ Turn(s) \/ phase[s] = "opening"
             /\ Settle(s, "halted")
             /\ UNCHANGED <<sessionVars, task, on, workerVars, hurried>>
    <3>1. Goes(s)
      BY <2>1 DEF Turn, Goes
    <3>2. phase[s] \notin {"uncalled", "settled"} /\ \A r \in 1 .. s - 1 : released[r]
      BY <1>b, <3>1
    <3>3. task[s] \notin Running
      BY <1>b, <1>t, <3>1
    <3>4. QED
      BY <2>1, <3>2, <3>3 DEF Settles
  <2>2. CASE /\ phase[s] \in {"stopping", "queued"}
             /\ phase' = [phase EXCEPT ![s] = "unwinding"]
             /\ UNCHANGED <<sessionVars, previous, outcome, searchVars, workerVars, hurried>>
    BY <2>2 DEF MovesTo
  <2>3. CASE /\ phase[s] = "searching"
             /\ phase' = [phase EXCEPT ![s] = "hurrying"]
             /\ UNCHANGED <<sessionVars, previous, outcome, searchVars, workerVars>>
    BY <2>3 DEF MovesTo
  <2>4. QED
    BY <1>7, <2>1, <2>2, <2>3 DEF Halt
<1>8. ASSUME NEW s \in Searches, ReadAnswer(s)
      PROVE  \E end \in Failure \cup {"answered"} : Settles(s, end)
  BY <1>8, <1>e DEF ReadAnswer, Reading
<1>10. ASSUME NEW s \in Searches, ReadEnd(s) \/ GraceOver(s)
       PROVE  Stays \/ \E end \in Failure \cup {"answered"} : Settles(s, end)
  <2>1. CASE Retry(s)
    BY <2>1, <1>r DEF Retry, Stays, TypeOK
  <2>2. CASE GiveUp(s)
    BY <2>2, <1>e, <1>r DEF GiveUp
  <2>3. QED
    BY <1>10, <2>1, <2>2 DEF ReadEnd, GraceOver
<1>11. ASSUME NEW s \in Searches, Silence(s) PROVE Stays
  BY <1>11, <1>r DEF Silence, Stays, TypeOK
<1>12. ASSUME NEW s \in Searches, NEW w \in Workers, Reopens(s, w) PROVE Stays
  BY <1>12, <1>r DEF Reopens, Fresh, Stays, TypeOK
<1>13. ASSUME NEW s \in Searches, NEW w \in Workers, ReopenFails(s, w)
       PROVE  \E end \in Failure \cup {"answered"} : Settles(s, end)
  BY <1>13, <1>e, <1>r DEF ReopenFails, Fresh
<1>14. ASSUME NEW s \in Searches, StopTimesOut(s)
       PROVE  \E end \in Failure \cup {"answered"} : Settles(s, end)
  <2>1. PICK end \in {"halted", "superseded"} :
          Settle(s, end) /\ (end = "superseded" => phase[s] # "hurrying")
    BY <1>14 DEF StopTimesOut
  <2>2. end = "superseded" => IsSuperseded(s)
    <3> SUFFICES ASSUME end = "superseded" PROVE latest # s
      BY DEF IsSuperseded
    <3>1. PICK r \in Searches : phase[r] = "stopping" /\ previous[r] = s
      BY <1>14, <2>1 DEF StopTimesOut, Stopped
    <3>2. r = s + 1 /\ s \in Nat \ {0}
      BY <3>1, SearchesAssumption DEF InOrder, Searches
    <3>3. latest = 0 \/ r <= latest
      BY <3>1 DEF InOrder
    <3>4. QED
      BY <3>2, <3>3 DEF TypeOK
  <2>3. Settles(s, end)
    BY <1>14, <1>g, <2>1, <2>2 DEF StopTimesOut, Stopped, Settles
  <2>4. QED
    BY <2>3, <1>f
<1>15. ASSUME \/ WorkerOpens \/ WorkerFails \/ SlotCleared
              \/ \E w \in Workers : Crash(w) \/ EngineAnswers(w)
              \/ UNCHANGED vars
       PROVE  Stays
  BY <1>15 DEF WorkerOpens, WorkerFails, SlotCleared, Crash, EngineAnswers, vars, Stays
<1>16. QED
  <2>1. CASE \E s \in Searches : CallStep(s) \/ Halt(s)
    BY <2>1, <1>2, <1>3, <1>5, <1>6, <1>7, <1>f, <1>p DEF CallStep
  <2>2. CASE \E s \in Searches :
               \/ ReadAnswer(s) \/ ReadEnd(s) \/ Silence(s) \/ GraceOver(s)
               \/ \E w \in Workers : Reopens(s, w) \/ ReopenFails(s, w)
               \/ StopTimesOut(s)
    BY <2>2, <1>8, <1>10, <1>11, <1>12, <1>13, <1>14
  <2>3. QED
    BY <2>1, <2>2, <1>15 DEF Next

\* Calls stay in their order.
LEMMA InOrderStep ==
  ASSUME TypeOK, InOrder, Chained, [Next]_vars
  PROVE  InOrder'
<1> USE SearchesAssumption
<1>1. ASSUME NEW s \in Searches, Evaluate(s) PROVE InOrder'
  <2>1. /\ ~disposed /\ ~disposed'
        /\ latest' = s
        /\ previous' = [previous EXCEPT ![s] = latest]
        /\ phase' \in [Searches -> Phase]
        /\ \A r \in Searches : phase'[r] # "uncalled" <=> (phase[r] # "uncalled" \/ r = s)
    BY <1>1 DEF Evaluate, TypeOK, Phase
  <2>2. latest \in 0 .. MaxSearches /\ \A r \in Searches : phase[r] # "uncalled" <=> r <= latest
    BY <2>1 DEF InOrder, TypeOK
  <2>3. latest = s - 1
    <3>1. ~(s <= latest)
      BY <1>1, <2>2 DEF Evaluate
    <3>2. \A r \in 1 .. s - 1 : r \in Searches /\ r <= latest
      BY <1>1, <2>2 DEF Evaluate, Searches
    <3>3. QED
      BY <2>2, <3>1, <3>2 DEF Searches
  <2>4. \A r \in Searches : phase'[r] # "uncalled" => previous'[r] = r - 1
    BY <2>1, <2>3 DEF InOrder, TypeOK
  <2>5. \A r \in Searches : phase'[r] # "uncalled" <=> r <= latest'
    BY <2>1, <2>2, <2>3 DEF Searches
  <2>6. QED
    BY <2>1, <2>4, <2>5 DEF InOrder
<1>2. CASE Dispose
  <2>1. \A r \in Searches : task[r] \in Running => phase[r] # "uncalled"
    BY DEF Chained
  <2>2. \A r \in Searches : phase'[r] # "uncalled" <=> phase[r] # "uncalled"
    BY <1>2, <2>1 DEF Dispose
  <2>3. QED
    BY <1>2, <2>2 DEF Dispose, InOrder
<1>3. ASSUME NEW s \in Searches, NEW how \in Failure \cup {"answered"}, Settles(s, how)
      PROVE  InOrder'
  BY <1>3 DEF Settles, Settle, InOrder, TypeOK
<1>4. ASSUME NEW s \in Searches, NEW p \in Phase, MovesTo(s, p) PROVE InOrder'
  BY <1>4 DEF MovesTo, InOrder, TypeOK
<1>5. CASE Stays
  BY <1>5 DEF Stays, InOrder
<1>6. QED
  BY Kinds, <1>1, <1>2, <1>3, <1>4, <1>5

\* The chain of releases holds.
LEMMA ChainedStep ==
  ASSUME TypeOK, InOrder, Chained, [Next]_vars
  PROVE  Chained'
<1>r. "ended" \notin Running /\ "first" \in Running
  BY DEF Running
<1>0. \A s \in Searches : 1 .. s - 1 \subseteq Searches
  BY SearchesAssumption DEF Searches
<1>1. ASSUME NEW s \in Searches, Evaluate(s) PROVE Chained'
  BY <1>1 DEF Evaluate, Chained, TypeOK, searchVars
<1>2. CASE Dispose
  <2> DEFINE halted == {s \in Searches : task[s] \in Running}
  <2>1. /\ task' = [s \in Searches |-> IF s \in halted THEN "ended" ELSE task[s]]
        /\ released' = [s \in Searches |-> released[s] \/ s \in halted]
        /\ phase' = [s \in Searches |-> IF s \in halted THEN "settled" ELSE phase[s]]
    BY <1>2 DEF Dispose
  <2>2. QED
    BY <2>1, <1>r, <1>0 DEF Chained, TypeOK
<1>3. ASSUME NEW s \in Searches, NEW how \in Failure \cup {"answered"}, Settles(s, how)
      PROVE  Chained'
  <2>1. /\ phase' = [phase EXCEPT ![s] = "settled"]
        /\ released' = [released EXCEPT ![s] = TRUE]
        /\ \A r \in 1 .. s - 1 : released[r]
    BY <1>3 DEF Settles, Settle
  <2>2. task'[s] \notin Running /\ \A r \in Searches \ {s} : task'[r] = task[r]
    BY <1>3, <1>r DEF Settles, TypeOK
  <2>3. QED
    BY <2>1, <2>2, <1>0 DEF Chained, TypeOK
<1>4. ASSUME NEW s \in Searches, NEW p \in Phase, MovesTo(s, p) PROVE Chained'
  <2>1. phase' = [phase EXCEPT ![s] = p] /\ UNCHANGED released
    BY <1>4 DEF MovesTo
  <2>2. /\ ~released[s]
        /\ p # "settled"
        /\ p \in {"opening", "searching", "hurrying"} => \A r \in 1 .. s - 1 : released[r]
    BY <1>4 DEF MovesTo, Chained
  <2>3. /\ task'[s] \in Running <=> p \in {"searching", "hurrying"}
        /\ \A r \in Searches \ {s} : task'[r] = task[r]
    BY <1>4, <1>r DEF MovesTo, Chained, TypeOK
  <2>4. QED
    BY <2>1, <2>2, <2>3 DEF Chained, TypeOK
<1>5. CASE Stays
  BY <1>5 DEF Stays, Chained
<1>6. QED
  BY Kinds, <1>1, <1>2, <1>3, <1>4, <1>5

\* The chain is what serializes the searches.
LEMMA ChainSerializes ==
  ASSUME Chained PROVE OneSearchAtATime
<1> SUFFICES ASSUME NEW r \in Searches, NEW s \in Searches,
                    task[r] \in Running, task[s] \in Running, r # s
             PROVE  FALSE
  BY DEF OneSearchAtATime
<1>1. ~released[r] /\ ~released[s]
  BY DEF Chained
<1>2. /\ \A q \in 1 .. s - 1 : released[q]
      /\ \A q \in 1 .. r - 1 : released[q]
  BY DEF Chained
<1>3. r \in 1 .. s - 1 \/ s \in 1 .. r - 1
  BY SearchesAssumption DEF Searches
<1>4. QED
  BY <1>1, <1>2, <1>3

-----------------------------------------------------------------------------
\* A search under way is alone, and nobody searches when a call may start.
LEMMA Alone ==
  ASSUME Chained, NEW s \in Searches, task[s] \in Running
  PROVE  \A r \in Searches : task[r] \in Running => r = s
  BY ChainSerializes DEF OneSearchAtATime

LEMMA NobodySearches ==
  ASSUME TypeOK, InOrder, Chained, NEW s \in Searches, MayStart(s)
  PROVE  \A r \in Searches : task[r] \notin Running
<1>1. phase[s] \in {"stopping", "queued", "opening"} /\ \A r \in 1 .. s - 1 : released[r]
  <2>1. CASE phase[s] = "opening"
    BY <2>1 DEF Chained
  <2>2. CASE phase[s] # "opening"
    <3>1. phase[s] \in {"stopping", "queued"} /\ Free(s)
      BY <2>2 DEF MayStart, Opened, Turn
    <3>2. QED
      BY <3>1, FreeMeansAll
  <2>3. QED
    BY <2>1, <2>2
<1>2. ~released[s]
  BY <1>1 DEF Chained
<1>3. ASSUME NEW r \in Searches, task[r] \in Running PROVE FALSE
  <2>1. ~released[r] /\ \A q \in 1 .. r - 1 : released[q]
    BY <1>3 DEF Chained
  <2>2. r = s \/ r \in 1 .. s - 1 \/ s \in 1 .. r - 1
    BY SearchesAssumption DEF Searches
  <2>3. CASE r = s
    BY <1>1, <1>3, <2>3 DEF Chained
  <2>4. QED
    BY <1>1, <1>2, <2>1, <2>2, <2>3
<1>4. QED
  BY <1>3

-----------------------------------------------------------------------------
(* The budget of Workers.                                                  *)

\* A step that makes no Worker and takes back nothing a call has spent.
LEMMA NothingSpent ==
  ASSUME TypeOK, Budget, made' = made,
         \A s \in Searches : released'[s] \/ (~released[s] /\ Spent(s)' >= Spent(s))
  PROVE  Budget'
<1> SUFFICES ASSUME NEW s \in Searches, ~released'[s]
             PROVE  made' <= 2 * (s - 1) + Spent(s)'
  BY DEF Budget
<1>1. made \in Nat /\ s \in Int /\ made <= 2 * (s - 1) + Spent(s) /\ Spent(s)' >= Spent(s)
  BY SearchesAssumption DEF Budget, TypeOK, Searches
<1>2. Spent(s) \in {0, 1, 2} /\ Spent(s)' \in {0, 1, 2}
  BY DEF Spent
<1>3. QED
  BY <1>1, <1>2

\* A step in which one call spends one.
LEMMA OneSpent ==
  ASSUME TypeOK, Budget, NEW s \in Searches, made' = made + 1,
         ~released[s], \A r \in 1 .. s - 1 : released[r], released' = released,
         Spent(s) \in {0, 1}, Spent(s)' = Spent(s) + 1
  PROVE  Budget'
<1> SUFFICES ASSUME NEW r \in Searches, ~released'[r]
             PROVE  made' <= 2 * (r - 1) + Spent(r)'
  BY DEF Budget
<1>1. made \in Nat /\ made <= 2 * (s - 1) + Spent(s)
  BY DEF Budget, TypeOK
<1>2. r = s \/ r \in s + 1 .. MaxSearches
  BY SearchesAssumption DEF Searches
<1>3. Spent(r)' \in {0, 1, 2}
  BY DEF Spent
<1>4. r \in Int /\ s \in Int
  BY SearchesAssumption DEF Searches
<1>5. CASE r = s
  BY <1>1, <1>4, <1>5
<1>6. CASE r \in s + 1 .. MaxSearches
  <2>1. made + 1 <= 2 * s /\ 2 * s <= 2 * (r - 1)
    BY <1>1, <1>4, <1>6, SearchesAssumption
  <2>2. QED
    BY <1>1, <1>3, <1>4, <2>1
<1>7. QED
  BY <1>2, <1>5, <1>6

LEMMA Makes ==
  ASSUME [Next]_vars
  PROVE  \/ made' = made
         \/ \E s \in Searches : OpenWorker(s) \/ Retry(s)
<1> USE DEF sessionVars, callVars, searchVars, workerVars
<1>1. ASSUME NEW s \in Searches, Evaluate(s) \/ Supersede(s) \/ AwaitWorker(s) \/ OpenFailed(s)
      PROVE  made' = made
  BY <1>1 DEF Evaluate, Supersede, AwaitWorker, OpenFailed
<1>2. ASSUME NEW s \in Searches, StartSearch(s) \/ RefuseSearch(s) \/ Unwound(s) \/ Halt(s)
      PROVE  made' = made
  BY <1>2 DEF StartSearch, RefuseSearch, Unwound, Halt
<1>3. ASSUME NEW s \in Searches, ReadAnswer(s) \/ Silence(s) \/ StopTimesOut(s)
      PROVE  made' = made
  BY <1>3 DEF ReadAnswer, Silence, StopTimesOut
<1>4. ASSUME NEW s \in Searches, ReadEnd(s) \/ GraceOver(s) PROVE Retry(s) \/ made' = made
  BY <1>4 DEF ReadEnd, GraceOver, GiveUp
<1>5. ASSUME NEW s \in Searches, NEW w \in Workers, Reopens(s, w) \/ ReopenFails(s, w)
      PROVE  made' = made
  BY <1>5 DEF Reopens, ReopenFails
<1>6. ASSUME NEW w \in Workers, Crash(w) \/ EngineAnswers(w) PROVE made' = made
  BY <1>6 DEF Crash, EngineAnswers
<1>7. ASSUME WorkerOpens \/ WorkerFails \/ SlotCleared \/ Dispose \/ UNCHANGED vars
      PROVE  made' = made
  BY <1>7 DEF WorkerOpens, WorkerFails, SlotCleared, Dispose, vars
<1>8. QED
  BY <1>1, <1>2, <1>3, <1>4, <1>5, <1>6, <1>7 DEF Next, CallStep

\* No call costs more than its two Workers.
LEMMA BudgetStep ==
  ASSUME TypeOK, InOrder, Chained, Budget, [Next]_vars
  PROVE  Budget'
<1> DEFINE Late == {"reopening", "second", "secondGrace"}
<1>l. Late \subseteq Running /\ {"none", "first", "firstGrace", "ended"} \cap Late = {}
  BY DEF Running
<1>1. ASSUME NEW s \in Searches, OpenWorker(s) PROVE Budget'
  <2>1. /\ made' = made + 1 /\ released' = released /\ task' = task
        /\ phase' = [phase EXCEPT ![s] = "opening"]
        /\ phase[s] \in {"stopping", "queued"} /\ Free(s)
    BY <1>1 DEF OpenWorker, NewWorker, Turn
  <2>2. ~released[s] /\ task[s] \notin Late
    BY <2>1, <1>l DEF Chained
  <2>3. \A r \in 1 .. s - 1 : released[r]
    BY <2>1, FreeMeansAll
  <2>4. Spent(s) = 0 /\ Spent(s)' = 1
    BY <2>1, <2>2 DEF Spent, TypeOK
  <2>5. QED
    BY <2>1, <2>2, <2>3, <2>4, OneSpent
<1>2. ASSUME NEW s \in Searches, Retry(s) PROVE Budget'
  <2>1. /\ made' = made + 1 /\ released' = released /\ phase' = phase
        /\ task[s] \in {"first", "firstGrace"} /\ task' = [task EXCEPT ![s] = "reopening"]
    BY <1>2 DEF Retry, NewWorker, callVars
  <2>2. /\ ~released[s] /\ phase[s] \in {"searching", "hurrying"}
        /\ \A r \in 1 .. s - 1 : released[r]
    BY <2>1 DEF Chained, Running
  <2>3. Spent(s) = 1 /\ Spent(s)' = 2
    BY <2>1, <2>2 DEF Spent, TypeOK
  <2>4. QED
    BY <2>1, <2>2, <2>3, OneSpent
<1>3. CASE made' = made
  <2>0. \A s \in Searches : released[s] \in BOOLEAN
    BY DEF TypeOK
  <2>n. ASSUME \A s \in Searches : released'[s] \/ (~released[s] /\ Spent(s)' >= Spent(s))
        PROVE  Budget'
    BY <1>3, <2>n, NothingSpent
  <2>1. ASSUME NEW s \in Searches, Evaluate(s) PROVE Budget'
    <3>1. /\ UNCHANGED <<task, released>>
          /\ phase[s] = "uncalled" /\ phase'[s] \in {"stopping", "queued"}
          /\ \A r \in Searches \ {s} : phase'[r] = phase[r]
      BY <2>1 DEF Evaluate, TypeOK, searchVars
    <3>2. task[s] \notin Late
      BY <3>1, <1>l DEF Chained
    <3>3. \A r \in Searches : Spent(r)' = Spent(r) /\ Spent(r) \in {0, 1, 2}
      BY <3>1, <3>2 DEF Spent
    <3>4. QED
      BY <2>0, <2>n, <3>1, <3>3
  <2>2. CASE Dispose
    <3> DEFINE halted == {s \in Searches : task[s] \in Running}
    <3>1. /\ task' = [s \in Searches |-> IF s \in halted THEN "ended" ELSE task[s]]
          /\ released' = [s \in Searches |-> released[s] \/ s \in halted]
          /\ phase' = [s \in Searches |-> IF s \in halted THEN "settled" ELSE phase[s]]
      BY <2>2 DEF Dispose
    <3>2. \A r \in Searches : r \in halted => released'[r]
      BY <3>1
    <3>3. \A r \in Searches : r \notin halted =>
            task'[r] = task[r] /\ phase'[r] = phase[r] /\ released'[r] = released[r]
      BY <3>1, <2>0
    <3>4. \A r \in Searches : r \notin halted => Spent(r)' = Spent(r) /\ Spent(r) \in {0, 1, 2}
      BY <3>3 DEF Spent
    <3>5. QED
      BY <2>0, <2>n, <3>2, <3>3, <3>4
  <2>3. ASSUME NEW s \in Searches, NEW how \in Failure \cup {"answered"}, Settles(s, how)
        PROVE  Budget'
    <3>1. /\ released'[s]
          /\ \A r \in Searches \ {s} :
               task'[r] = task[r] /\ phase'[r] = phase[r] /\ released'[r] = released[r]
      BY <2>3 DEF Settles, Settle, TypeOK
    <3>2. \A r \in Searches \ {s} : Spent(r)' = Spent(r) /\ Spent(r) \in {0, 1, 2}
      BY <3>1 DEF Spent
    <3>3. QED
      BY <2>0, <2>n, <3>1, <3>2
  <2>4. ASSUME NEW s \in Searches, NEW p \in Phase, MovesTo(s, p) PROVE Budget'
    <3>1. /\ released' = released
          /\ \A r \in Searches \ {s} : task'[r] = task[r] /\ phase'[r] = phase[r]
          /\ phase'[s] = p
      BY <2>4 DEF MovesTo, TypeOK
    <3>2. \A r \in Searches \ {s} : Spent(r)' = Spent(r) /\ Spent(r) \in {0, 1, 2}
      BY <3>1 DEF Spent
    <3>3. Spent(s)' >= Spent(s)
      <4>1. CASE p \in {"unwinding", "opening"}
        <5>1. task'[s] = task[s] /\ phase[s] \in {"stopping", "queued"}
          BY <2>4, <4>1 DEF MovesTo
        <5>2. task[s] \notin Late
          BY <5>1, <1>l DEF Chained
        <5>3. QED
          BY <3>1, <5>1, <5>2 DEF Spent
      <4>2. CASE p = "searching"
        <5>1. phase[s] \in {"stopping", "queued", "opening"}
          BY <2>4, <4>2 DEF MovesTo
        <5>2. task[s] \notin Late
          BY <5>1, <1>l DEF Chained
        <5>3. QED
          BY <3>1, <4>2, <5>1, <5>2 DEF Spent
      <4>3. CASE p = "hurrying"
        <5>1. task'[s] = task[s] /\ phase[s] = "searching"
          BY <2>4, <4>3 DEF MovesTo
        <5>2. QED
          BY <3>1, <4>3, <5>1 DEF Spent
      <4>4. QED
        BY <2>4, <4>1, <4>2, <4>3 DEF MovesTo
    <3>4. QED
      BY <2>0, <2>n, <3>1, <3>2, <3>3
  <2>5. CASE Stays
    <3>1. /\ released' = released /\ phase' = phase
          /\ \A r \in Searches : task[r] \in Late => task'[r] \in Late
      BY <2>5 DEF Stays
    <3>2. \A r \in Searches : Spent(r)' >= Spent(r)
      BY <3>1 DEF Spent
    <3>3. QED
      BY <2>0, <2>n, <3>1, <3>2
  <2>6. QED
    BY Kinds, <2>1, <2>2, <2>3, <2>4, <2>5
<1>4. QED
  BY Makes, <1>1, <1>2, <1>3

-----------------------------------------------------------------------------
(* The Workers: what a step does to them.                                  *)

\* Nothing happens to the Workers.
Quiet ==
  /\ UNCHANGED <<disposed, slot, evaluator, workerVars>>
  /\ \A s \in Searches :
       \/ task'[s] \notin Running
       \/ /\ task[s] \in Running /\ on'[s] = on[s]
          /\ task'[s] = "reopening" <=> task[s] = "reopening"
  /\ \A s \in Searches : task[s] = "reopening" => task'[s] = "reopening"

\* All of them terminate, and whoever searched on one is done.
Emptied ==
  /\ slot' \in {slot, "idle"}
  /\ slot' = "idle" \/ disposed' = disposed
  /\ UNCHANGED <<evaluator, holder, made, home, lines>>
  /\ \A w \in Workers : ~Exists(w)' /\ (worker[w] = "none" => worker'[w] = "none")
  /\ asked' = [w \in Workers |-> <<>>]
  /\ searching' \in [Workers -> BOOLEAN]
  /\ \A w \in Workers : searching'[w] # searching[w] => lines[w] = <<>> /\ ~searching'[w]
  /\ \A s \in Searches : task'[s] \notin Running

\* Closing the slot's Worker terminates every Worker there is.
LEMMA ClosesAll ==
  ASSUME TypeOK, WorkersAccounted, SessionsAgree, CloseWorker
  PROVE  /\ slot' = "idle"
         /\ \A w \in Workers : ~Exists(w)' /\ (worker[w] = "none" => worker'[w] = "none")
         /\ asked' = [w \in Workers |-> <<>>]
<1> DEFINE W == {w \in Workers : slot # "idle" /\ home[w] = evaluator /\ Exists(w)}
<1>1. \A w \in Workers : Exists(w) => w \in W
  BY DEF WorkersAccounted
<1>2. slot' = "idle" /\ Terminate(W)
  BY DEF CloseWorker
<1>3. \A w \in Workers : worker'[w] = IF w \in W THEN "gone" ELSE worker[w]
  BY <1>2 DEF Terminate
<1>4. \A w \in Workers : w \notin W => asked[w] = <<>>
  BY <1>1 DEF Exists, SessionsAgree
<1>5. asked' = [w \in Workers |-> IF w \in W THEN <<>> ELSE asked[w]]
  BY <1>2 DEF Terminate
<1>6. asked' = [w \in Workers |-> <<>>]
  BY <1>4, <1>5
<1>7. \A w \in Workers : ~Exists(w)' /\ (worker[w] = "none" => worker'[w] = "none")
  <2> SUFFICES ASSUME NEW w \in Workers
               PROVE  ~Exists(w)' /\ (worker[w] = "none" => worker'[w] = "none")
    OBVIOUS
  <2>1. CASE w \in W
    BY <1>3, <2>1 DEF Exists
  <2>2. CASE w \notin W
    BY <1>1, <1>3, <2>2 DEF Exists
  <2>3. QED
    BY <2>1, <2>2
<1>8. QED
  BY <1>2, <1>6, <1>7

\* What a search that reads is searching on.
LEMMA ReadersOwn ==
  ASSUME TypeOK, SlotAgrees, NEW s \in Searches, task[s] \in Running
  PROVE  /\ slot = "ready" /\ ~disposed /\ on[s] = evaluator
         /\ evaluator \in Workers /\ evaluator \in 1 .. made
         /\ Session(s) = holder[evaluator] /\ Session(s) \in Workers
         /\ Session(s) \in 1 .. made
<1>1. slot = "ready" /\ on[s] = evaluator
  BY DEF SlotAgrees
<1>2. evaluator \in 1 .. made /\ ~disposed /\ holder[evaluator] \in 1 .. made
  BY <1>1 DEF SlotAgrees
<1>3. 1 .. made \subseteq Workers
  BY SearchesAssumption DEF TypeOK, Workers
<1>4. QED
  BY <1>1, <1>2, <1>3 DEF Session

\* What is kept of the Workers.
WorkersKept == WorkersAccounted /\ SlotAgrees /\ SessionsAgree

LEMMA QuietStep ==
  ASSUME TypeOK, WorkersKept, Quiet PROVE WorkersKept'
<1> USE DEF WorkersKept, workerVars
<1>1. UNCHANGED <<disposed, slot, evaluator, holder, made, worker, home, searching, asked, lines>>
  BY DEF Quiet
<1>2. \A s \in Searches : task'[s] \in Running =>
        /\ task[s] \in Running /\ on'[s] = on[s]
        /\ task'[s] = "reopening" <=> task[s] = "reopening"
  BY DEF Quiet
<1>3. \A s \in Searches : task[s] = "reopening" <=> task'[s] = "reopening"
  BY <1>2 DEF Quiet, Running
<1>4. WorkersAccounted'
  BY <1>1 DEF WorkersAccounted, Exists
<1>5. SlotAgrees'
  BY <1>1, <1>2, <1>3 DEF SlotAgrees, Exists
<1>6. SessionsAgree'
  <2>1. \A s \in Searches : task'[s] \in Reading => task[s] \in Reading /\ Session(s)' = Session(s)
    BY <1>1, <1>2 DEF Reading, Session
  <2>2. QED
    BY <1>1, <2>1 DEF SessionsAgree
<1>7. QED
  BY <1>4, <1>5, <1>6

LEMMA EmptiedStep ==
  ASSUME TypeOK, WorkersKept, Emptied PROVE WorkersKept'
<1> USE DEF WorkersKept
<1>1. WorkersAccounted'
  BY DEF Emptied, WorkersAccounted
<1>2. SlotAgrees'
  <2>1. slot' # "idle" => slot' = slot /\ disposed' = disposed
    BY DEF Emptied
  <2>2. \A w \in Workers : ~Exists(w)'
    BY DEF Emptied
  <2>3. \A s \in Searches : task'[s] \notin Running
    BY DEF Emptied
  <2>4. UNCHANGED <<evaluator, holder, made>>
    BY DEF Emptied
  <2>5. QED
    BY <2>1, <2>2, <2>3, <2>4 DEF SlotAgrees
<1>3. SessionsAgree'
  <2>1. \A s \in Searches : task'[s] \notin Reading
    BY DEF Emptied, Reading
  <2>2. ASSUME NEW w \in Workers
        PROVE  /\ asked'[w] = <<>> /\ (~searching'[w] => lines'[w] = <<>>)
               /\ (worker'[w] = "opening" \/ w > made') => ~searching'[w]
               /\ w > made' => worker'[w] = "none"
    <3>1. asked'[w] = <<>> /\ lines' = lines /\ made' = made /\ worker'[w] # "opening"
      BY DEF Emptied, Exists
    <3>2. ~searching[w] => lines[w] = <<>>
      BY DEF SessionsAgree
    <3>3. w > made => ~searching[w] /\ worker[w] = "none"
      BY DEF SessionsAgree
    <3>4. searching'[w] # searching[w] => lines[w] = <<>> /\ ~searching'[w]
      BY DEF Emptied
    <3>5. searching'[w] \in BOOLEAN /\ searching[w] \in BOOLEAN
      BY DEF Emptied, TypeOK
    <3>6. worker[w] = "none" => worker'[w] = "none"
      BY DEF Emptied
    <3>7. QED
      BY <3>1, <3>2, <3>3, <3>4, <3>5, <3>6
  <2>3. QED
    BY <2>1, <2>2 DEF SessionsAgree
<1>4. QED
  BY <1>1, <1>2, <1>3

LEMMA QuietActions ==
  ASSUME TypeOK, InOrder, Chained, WorkersKept, NEW s \in Searches,
         \/ Evaluate(s) \/ Supersede(s) \/ AwaitWorker(s) \/ OpenFailed(s)
         \/ Unwound(s) \/ Halt(s) \/ Silence(s)
  PROVE  Quiet
<1> USE DEF sessionVars, callVars, searchVars, WorkersKept
<1>0. ASSUME UNCHANGED <<disposed, slot, evaluator, workerVars, task, on>> PROVE Quiet
  BY <1>0 DEF Quiet
<1>1. CASE Evaluate(s) \/ Supersede(s)
  BY <1>0, <1>1 DEF Evaluate, Supersede
<1>2. CASE OpenFailed(s) \/ Unwound(s)
  BY <1>0, <1>2 DEF OpenFailed, Unwound
<1>3. CASE Halt(s)
  BY <1>0, <1>3 DEF Halt
<1>4. CASE AwaitWorker(s)
  <2>1. slot = "opening" /\ UNCHANGED <<disposed, slot, evaluator, workerVars, task>>
    BY <1>4 DEF AwaitWorker
  <2>2. \A r \in Searches : task[r] \notin Running
    BY <2>1 DEF SlotAgrees
  <2>3. "reopening" \in Running
    BY DEF Running
  <2>4. QED
    BY <2>1, <2>2, <2>3 DEF Quiet
<1>5. CASE Silence(s)
  <2>1. /\ UNCHANGED <<disposed, slot, evaluator, workerVars, on>>
        /\ task[s] \in {"first", "second"}
        /\ task'[s] \in {"firstGrace", "secondGrace"}
        /\ \A r \in Searches \ {s} : task'[r] = task[r]
    BY <1>5 DEF Silence, TypeOK
  <2>2. {"first", "second"} \subseteq Running
    BY DEF Running
  <2>3. QED
    BY <2>1, <2>2 DEF Quiet
<1>6. QED
  BY <1>1, <1>2, <1>3, <1>4, <1>5

\* Closing the Worker under a search that ends, or where nobody searches.
LEMMA EmptiedByClosing ==
  ASSUME TypeOK, Chained, WorkersKept, CloseWorker, searching' = searching,
         UNCHANGED <<evaluator, holder, made, home, lines>>,
         \A s \in Searches : task'[s] \notin Running
  PROVE  Emptied
<1>1. /\ slot' = "idle" /\ asked' = [w \in Workers |-> <<>>]
      /\ \A w \in Workers : ~Exists(w)' /\ (worker[w] = "none" => worker'[w] = "none")
  BY ClosesAll DEF WorkersKept
<1>2. searching' \in [Workers -> BOOLEAN]
  BY DEF TypeOK
<1>3. QED
  BY <1>1, <1>2 DEF Emptied

\* The one search that ran has ended.
LEMMA NobodyLeft ==
  ASSUME TypeOK, Chained, NEW s \in Searches, task[s] \in Running,
         task' = [task EXCEPT ![s] = "ended"]
  PROVE  \A r \in Searches : task'[r] \notin Running
<1>1. \A r \in Searches : task[r] \in Running => r = s
  BY Alone
<1>2. "ended" \notin Running
  BY DEF Running
<1>3. QED
  BY <1>1, <1>2 DEF TypeOK

LEMMA EmptyActions ==
  ASSUME TypeOK, InOrder, Chained, WorkersKept,
         \/ WorkerFails \/ SlotCleared \/ Dispose
         \/ \E s \in Searches : \/ RefuseSearch(s) \/ StopTimesOut(s)
                                \/ \E w \in Workers : ReopenFails(s, w)
  PROVE  Emptied
<1> USE DEF sessionVars, callVars, searchVars
<1>r. "ended" \notin Running /\ "reopening" \in Running
  BY DEF Running
<1>1. ASSUME NEW s \in Searches, RefuseSearch(s) PROVE Emptied
  <2>1. \A r \in Searches : task'[r] \notin Running
    BY <1>1, <1>r, NobodySearches DEF RefuseSearch, TypeOK
  <2>2. QED
    BY <1>1, <2>1, EmptiedByClosing DEF RefuseSearch
<1>2. ASSUME NEW s \in Searches, StopTimesOut(s) PROVE Emptied
  <2>1. \A r \in Searches : task'[r] \notin Running
    BY <1>2, NobodyLeft DEF StopTimesOut, Stopped
  <2>2. QED
    BY <1>2, <2>1, EmptiedByClosing DEF StopTimesOut
<1>3. CASE Dispose
  <2>1. \A r \in Searches : task'[r] \notin Running
    BY <1>3, <1>r DEF Dispose
  <2>2. QED
    BY <1>3, <2>1, EmptiedByClosing DEF Dispose
<1>o. ASSUME slot = "opening"
      PROVE  /\ \A w \in Workers : Exists(w) => w = evaluator /\ worker[w] = "opening"
             /\ \A w \in Workers : worker[w] # "live"
             /\ \A s \in Searches : task[s] \notin Running
             /\ ~disposed
  BY <1>o DEF WorkersKept, SlotAgrees, Exists
<1>a. \A w \in Workers : worker[w] # "live" => asked[w] = <<>>
  BY DEF WorkersKept, SessionsAgree
<1>4. CASE WorkerFails
  <2>1. slot = "opening" /\ Terminate({evaluator}) /\ slot' = slot /\ disposed' = disposed
        /\ UNCHANGED <<evaluator, task, holder, made, home, searching, lines>>
    BY <1>4 DEF WorkerFails
  <2>2. \A w \in Workers : worker'[w] = IF w = evaluator THEN "gone" ELSE worker[w]
    BY <2>1 DEF Terminate
  <2>3. \A w \in Workers : ~Exists(w)'
    BY <1>o, <2>1, <2>2 DEF Exists
  <2>4. worker[evaluator] = "opening"
    BY <1>4 DEF WorkerFails
  <2>5. asked' = [w \in Workers |-> <<>>]
    BY <1>a, <1>o, <2>1 DEF Terminate
  <2>6. QED
    BY <1>o, <2>1, <2>2, <2>3, <2>4, <2>5 DEF Emptied, TypeOK
<1>5. CASE SlotCleared
  <2>1. /\ slot = "opening" /\ slot' = "idle" /\ worker[evaluator] = "gone"
        /\ UNCHANGED <<disposed, evaluator, task, holder, made, worker, home, searching, asked, lines>>
    BY <1>5 DEF SlotCleared, workerVars
  <2>2. \A w \in Workers : ~Exists(w)
    BY <1>o, <2>1 DEF Exists
  <2>3. \A w \in Workers : ~Exists(w)'
    BY <2>1, <2>2 DEF Exists
  <2>4. asked' = [w \in Workers |-> <<>>]
    BY <1>a, <1>o, <2>1 DEF TypeOK
  <2>5. QED
    BY <1>o, <2>1, <2>3, <2>4 DEF Emptied, TypeOK
<1>6. ASSUME NEW s \in Searches, NEW w \in Workers, ReopenFails(s, w) PROVE Emptied
  <2>1. /\ task[s] = "reopening" /\ worker[w] = "opening" /\ Exists(w)
        /\ task' = [task EXCEPT ![s] = "ended"]
        /\ UNCHANGED <<disposed, evaluator, holder, made, home, searching, lines>>
        /\ CloseWorker \/ (Terminate({w}) /\ UNCHANGED slot)
    BY <1>6 DEF ReopenFails, Fresh, Ends, Exists
  <2>2. \A r \in Searches : task'[r] \notin Running
    BY <1>r, <2>1, NobodyLeft
  <2>3. CASE CloseWorker
    BY <2>1, <2>2, <2>3, EmptiedByClosing
  <2>4. CASE Terminate({w}) /\ UNCHANGED slot
    <3>1. \A v \in Workers : Exists(v) => v = w
      BY <2>1 DEF WorkersKept, WorkersAccounted
    <3>2. \A v \in Workers : worker'[v] = IF v = w THEN "gone" ELSE worker[v]
      BY <2>4 DEF Terminate
    <3>3. \A v \in Workers : ~Exists(v)'
      BY <3>1, <3>2 DEF Exists
    <3>4. \A v \in Workers : v # w => worker[v] # "live"
      BY <3>1 DEF Exists
    <3>5. asked' = [v \in Workers |-> <<>>]
      BY <1>a, <2>4, <3>4 DEF Terminate
    <3>6. slot # "idle" \/ disposed' = disposed
      BY <2>1
    <3>7. QED
      BY <2>1, <2>2, <2>4, <3>2, <3>3, <3>5 DEF Emptied, TypeOK
  <2>5. QED
    BY <2>1, <2>3, <2>4
<1>7. QED
  BY <1>1, <1>2, <1>3, <1>4, <1>5, <1>6

\* A search ends and its Worker stays.
Finished(s) ==
  /\ task[s] \in Reading
  /\ task' = [task EXCEPT ![s] = "ended"]
  /\ UNCHANGED <<disposed, slot, evaluator, on, holder, made, worker, home, asked>>
  /\ \A w \in Workers :
       \/ searching'[w] = searching[w] /\ lines'[w] = lines[w]
       \/ ~searching'[w] /\ asked[w] = <<>> /\ lines'[w] = <<>>

LEMMA FinishedStep ==
  ASSUME TypeOK, Chained, WorkersKept, NEW s \in Searches, Finished(s)
  PROVE  WorkersKept'
<1> USE DEF WorkersKept
<1>1. UNCHANGED <<disposed, slot, evaluator, on, holder, made, worker, home, asked>>
  BY DEF Finished
<1>2. task[s] \in Running /\ task[s] # "reopening"
  BY DEF Finished, Reading
<1>3. \A r \in Searches : task'[r] \notin Running
  BY <1>2, NobodyLeft DEF Finished
<1>4. \A r \in Searches : task[r] # "reopening" /\ task'[r] # "reopening"
  BY <1>2, <1>3, Alone DEF Running
<1>5. WorkersAccounted'
  BY <1>1 DEF WorkersAccounted, Exists
<1>6. SlotAgrees'
  BY <1>1, <1>3, <1>4 DEF SlotAgrees, Exists
<1>7. SessionsAgree'
  <2>1. \A r \in Searches : task'[r] \notin Reading
    BY <1>3 DEF Reading
  <2>2. ASSUME NEW w \in Workers
        PROVE  /\ ~searching'[w] => asked'[w] = <<>> /\ lines'[w] = <<>>
               /\ worker'[w] # "live" => asked'[w] = <<>>
               /\ (worker'[w] = "opening" \/ w > made') => ~searching'[w]
               /\ w > made' => worker'[w] = "none"
    <3>1. CASE searching'[w] = searching[w] /\ lines'[w] = lines[w]
      BY <1>1, <3>1 DEF SessionsAgree
    <3>2. CASE ~searching'[w] /\ asked[w] = <<>> /\ lines'[w] = <<>>
      BY <1>1, <3>2 DEF SessionsAgree
    <3>3. QED
      BY <3>1, <3>2 DEF Finished
  <2>3. QED
    BY <2>1, <2>2 DEF SessionsAgree
<1>8. QED
  BY <1>5, <1>6, <1>7

\* Where a search reads: on a Worker marked as searching, and owed one answer
\* at most.
LEMMA Owed ==
  ASSUME TypeOK, SlotAgrees, SessionsAgree, NEW s \in Searches, task[s] \in Reading
  PROVE  /\ searching[Session(s)]
         /\ \/ asked[Session(s)] = <<>> /\ lines[Session(s)] = <<>>
            \/ asked[Session(s)] = <<s>> /\ lines[Session(s)] = <<>>
            \/ asked[Session(s)] = <<>> /\ lines[Session(s)] = <<s>>
  BY DEF SessionsAgree

LEMMA ReadAnswerFinishes ==
  ASSUME TypeOK, WorkersKept, NEW s \in Searches, ReadAnswer(s)
  PROVE  Finished(s)
<1> DEFINE w == Session(s)
<1>1. /\ task[s] \in Reading /\ lines[w] # <<>>
      /\ lines' = [lines EXCEPT ![w] = Tail(@)]
      /\ searching' = [searching EXCEPT ![w] = FALSE]
      /\ task' = [task EXCEPT ![s] = "ended"]
      /\ UNCHANGED <<disposed, slot, evaluator, on, holder, made, worker, home, asked>>
  BY DEF ReadAnswer, Ends
<1>2. asked[w] = <<>> /\ lines[w] = <<s>>
  BY <1>1, Owed DEF WorkersKept
<1>3. Tail(<<s>>) = <<>>
  OBVIOUS
<1>4. w \in Workers
  BY <1>1, ReadersOwn DEF Reading, WorkersKept
<1>5. lines'[w] = <<>> /\ ~searching'[w]
  BY <1>1, <1>2, <1>3, <1>4 DEF TypeOK
<1>6. \A v \in Workers \ {w} : lines'[v] = lines[v] /\ searching'[v] = searching[v]
  BY <1>1 DEF TypeOK
<1>7. QED
  BY <1>1, <1>2, <1>5, <1>6 DEF Finished

\* Without an answer: the end of the lines, or of the grace.
Fruitless(s) ==
  /\ task[s] \in Reading
  /\ lines[Session(s)] = <<>>
  /\ \/ searching' = searching
     \/ /\ searching' = [searching EXCEPT ![Session(s)] = FALSE]
        /\ worker[Session(s)] # "live"
  /\ UNCHANGED <<holder, lines, hurried>>

LEMMA FruitlessEnds ==
  ASSUME NEW s \in Searches, ReadEnd(s) \/ GraceOver(s)
  PROVE  Fruitless(s) /\ (Retry(s) \/ GiveUp(s))
<1>1. CASE ReadEnd(s)
  BY <1>1 DEF ReadEnd, Fruitless
<1>2. CASE GraceOver(s)
  BY <1>2 DEF GraceOver, Fruitless, Reading, Running
<1>3. QED
  BY <1>1, <1>2

LEMMA GiveUpStep ==
  ASSUME TypeOK, Chained, WorkersKept, NEW s \in Searches, Fruitless(s), GiveUp(s)
  PROVE  Emptied \/ Finished(s)
<1> DEFINE w == Session(s)
<1>1. /\ task[s] \in Reading /\ lines[w] = <<>>
      /\ task' = [task EXCEPT ![s] = "ended"]
      /\ UNCHANGED <<disposed, evaluator, on, holder, made, home, lines>>
      /\ CloseWorker \/ UNCHANGED <<slot, worker, asked>>
  BY DEF Fruitless, GiveUp, Ends
<1>2. /\ searching' \in [Workers -> BOOLEAN]
      /\ \A v \in Workers : searching'[v] # searching[v] =>
           v = w /\ ~searching'[v] /\ worker[v] # "live"
  <2>1. CASE searching' = searching
    BY <2>1 DEF TypeOK
  <2>2. CASE searching' = [searching EXCEPT ![w] = FALSE] /\ worker[w] # "live"
    <3> HIDE DEF w
    <3>1. QED BY <2>2 DEF TypeOK
  <2>3. QED BY <2>1, <2>2 DEF Fruitless
<1>3. CASE CloseWorker
  <2>1. /\ slot' = "idle" /\ asked' = [v \in Workers |-> <<>>]
        /\ \A v \in Workers : ~Exists(v)' /\ (worker[v] = "none" => worker'[v] = "none")
    BY <1>3, ClosesAll DEF WorkersKept
  <2>2. \A r \in Searches : task'[r] \notin Running
    BY <1>1, NobodyLeft DEF Reading
  <2>3. QED
    BY <1>1, <1>2, <2>1, <2>2 DEF Emptied
<1>4. CASE UNCHANGED <<slot, worker, asked>>
  <2>1. \A v \in Workers : worker[v] # "live" => asked[v] = <<>>
    BY DEF WorkersKept, SessionsAgree
  <2>2. ASSUME NEW v \in Workers
        PROVE  \/ searching'[v] = searching[v] /\ lines'[v] = lines[v]
               \/ ~searching'[v] /\ asked[v] = <<>> /\ lines'[v] = <<>>
    BY <1>1, <1>2, <2>1
  <2>3. QED
    BY <1>1, <1>4, <2>2 DEF Finished
<1>5. QED
  BY <1>1, <1>3, <1>4

-----------------------------------------------------------------------------
(* The Workers: steps that open, use or lose one.                          *)

LEMMA OpenWorkerStep ==
  ASSUME TypeOK, InOrder, Chained, WorkersKept, Budget, NEW s \in Searches, OpenWorker(s)
  PROVE  WorkersKept'
<1> USE DEF WorkersKept
<1> DEFINE n == made + 1
<1>1. n \in Workers /\ made \in Nat
  BY OpenersHaveRoom DEF OpenWorker
<1>2. /\ slot = "idle" /\ slot' = "opening" /\ evaluator' = n /\ made' = n
      /\ home' = [home EXCEPT ![n] = n]
      /\ worker' = [worker EXCEPT ![n] = "opening"]
      /\ UNCHANGED <<disposed, task, searching, asked, lines>>
  BY DEF OpenWorker, NewWorker
<1>3. ~disposed
  BY SearchesAssumption DEF OpenWorker, IsSuperseded, InOrder, Searches
<1>4. \A w \in Workers : ~Exists(w)
  BY <1>2 DEF WorkersAccounted
<1>5. \A r \in Searches : task[r] \notin Running
  BY <1>2 DEF SlotAgrees
<1>6. \A w \in Workers : Exists(w)' => w = n /\ worker'[w] = "opening"
  BY <1>1, <1>2, <1>4 DEF Exists, TypeOK
<1>7. home'[n] = evaluator'
  BY <1>1, <1>2 DEF TypeOK
<1>8. WorkersAccounted'
  BY <1>1, <1>2, <1>3, <1>6, <1>7 DEF WorkersAccounted
<1>9. SlotAgrees'
  BY <1>1, <1>2, <1>3, <1>5, <1>6 DEF SlotAgrees
<1>10. SessionsAgree'
  <2>1. \A r \in Searches : task'[r] \notin Reading
    BY <1>2, <1>5 DEF Reading
  <2>2. ~searching[n] /\ worker[n] = "none"
    BY <1>1 DEF SessionsAgree
  <2>3. \A w \in Workers : /\ w # n => worker'[w] = worker[w]
                           /\ w > n => w > made
    BY <1>1, <1>2 DEF TypeOK, Workers
  <2>4. worker'[n] = "opening"
    BY <1>1, <1>2 DEF TypeOK
  <2>5. n > made /\ ~(n > n)
    BY <1>1
  <2>6. ASSUME NEW w \in Workers
        PROVE  /\ ~searching'[w] => asked'[w] = <<>> /\ lines'[w] = <<>>
               /\ worker'[w] # "live" => asked'[w] = <<>>
               /\ (worker'[w] = "opening" \/ w > made') => ~searching'[w]
               /\ w > made' => worker'[w] = "none"
    <3>1. CASE w = n
      BY <1>2, <2>2, <2>4, <2>5, <3>1 DEF SessionsAgree
    <3>2. CASE w # n
      BY <1>2, <2>3, <3>2 DEF SessionsAgree
    <3>3. QED
      BY <3>1, <3>2
  <2>7. QED
    BY <2>1, <2>6 DEF SessionsAgree
<1>11. QED
  BY <1>8, <1>9, <1>10

LEMMA WorkerOpensStep ==
  ASSUME TypeOK, WorkersKept, WorkerOpens PROVE WorkersKept'
<1> USE DEF WorkersKept
<1>1. /\ slot = "opening" /\ slot' = "ready" /\ worker[evaluator] = "opening"
      /\ worker' = [worker EXCEPT ![evaluator] = "live"]
      /\ holder' = [holder EXCEPT ![evaluator] = evaluator]
      /\ UNCHANGED <<disposed, evaluator, task, on, made, home, searching, asked, lines>>
  BY DEF WorkerOpens, searchVars
<1>2. /\ ~disposed /\ evaluator \in 1 .. made
      /\ \A w \in Workers : Exists(w) => w = evaluator
      /\ \A r \in Searches : task[r] \notin Running
  BY <1>1 DEF SlotAgrees
<1>3. evaluator \in Workers
  BY <1>2, SearchesAssumption DEF TypeOK, Workers
<1>4. holder'[evaluator] = evaluator /\ worker'[evaluator] = "live"
  BY <1>1, <1>3 DEF TypeOK
<1>5. \A w \in Workers : w # evaluator => worker'[w] = worker[w]
  BY <1>1 DEF TypeOK
<1>6. \A w \in Workers : Exists(w)' => w = evaluator /\ Exists(w)
  BY <1>1, <1>2, <1>5 DEF Exists
<1>7. WorkersAccounted'
  BY <1>1, <1>6 DEF WorkersAccounted
<1>8. SlotAgrees'
  <2>1. \A r \in Searches : task'[r] \notin Running /\ task'[r] # "reopening"
    BY <1>1, <1>2 DEF Running
  <2>2. QED
    BY <1>1, <1>2, <1>4, <1>6, <2>1 DEF SlotAgrees
<1>9. SessionsAgree'
  <2>1. \A r \in Searches : task'[r] \notin Reading
    BY <1>1, <1>2 DEF Reading
  <2>2. ~(evaluator > made)
    BY <1>2 DEF TypeOK
  <2>3. QED
    BY <1>1, <1>4, <1>5, <2>1, <2>2 DEF SessionsAgree
<1>10. QED
  BY <1>7, <1>8, <1>9

LEMMA CrashStep ==
  ASSUME TypeOK, WorkersKept, NEW w \in Workers, Crash(w) PROVE WorkersKept'
<1> USE DEF WorkersKept
<1>1. /\ worker[w] = "live"
      /\ worker' = [worker EXCEPT ![w] = "dead"]
      /\ asked' = [asked EXCEPT ![w] = <<>>]
      /\ UNCHANGED <<disposed, slot, evaluator, task, on, holder, made, home, searching, lines>>
  BY DEF Crash, sessionVars, searchVars
<1>2. /\ worker'[w] = "dead" /\ asked'[w] = <<>>
      /\ \A v \in Workers : v # w => worker'[v] = worker[v] /\ asked'[v] = asked[v]
  BY <1>1 DEF TypeOK
<1>3. \A v \in Workers :
        /\ worker'[v] \in {"opening", "live", "dead"} => worker[v] \in {"opening", "live", "dead"}
        /\ worker'[v] = "opening" <=> worker[v] = "opening"
  BY <1>1, <1>2
<1>4. WorkersAccounted'
  BY <1>1, <1>3 DEF WorkersAccounted, Exists
<1>5. SlotAgrees'
  BY <1>1, <1>3 DEF SlotAgrees, Exists
<1>6. SessionsAgree'
  <2>1. \A v \in Workers :
          /\ ~searching'[v] => asked'[v] = <<>> /\ lines'[v] = <<>>
          /\ worker'[v] # "live" => asked'[v] = <<>>
          /\ worker'[v] = "opening" \/ v > made' => ~searching'[v]
          /\ v > made' => worker'[v] = "none"
    BY <1>1, <1>2, <1>3 DEF SessionsAgree
  <2>2. ASSUME NEW r \in Searches, task'[r] \in Reading
        PROVE  /\ searching'[Session(r)']
               /\ <<asked'[Session(r)'], lines'[Session(r)']>> \in
                    {<< <<>>, <<>> >>, << <<r>>, <<>> >>, << <<>>, <<r>> >>}
    <3>1. Session(r)' = Session(r) /\ task[r] \in Reading
      BY <1>1, <2>2 DEF Session
    <3>2. Session(r) \in Workers
      BY <3>1, ReadersOwn DEF Reading
    <3>3. QED
      BY <1>1, <1>2, <3>1, <3>2, Owed
  <2>3. QED
    BY <2>1, <2>2 DEF SessionsAgree
<1>7. QED
  BY <1>4, <1>5, <1>6

LEMMA EngineAnswersStep ==
  ASSUME TypeOK, WorkersKept, NEW w \in Workers, EngineAnswers(w) PROVE WorkersKept'
<1> USE DEF WorkersKept
<1>1. /\ worker[w] = "live" /\ asked[w] # <<>>
      /\ lines' = [lines EXCEPT ![w] = Append(@, Head(asked[w]))]
      /\ asked' = [asked EXCEPT ![w] = Tail(@)]
      /\ UNCHANGED <<disposed, slot, evaluator, task, on, holder, made, worker, home, searching>>
  BY DEF EngineAnswers, sessionVars, searchVars
<1>2. \A v \in Workers : v # w => asked'[v] = asked[v] /\ lines'[v] = lines[v]
  BY <1>1 DEF TypeOK
<1>3. WorkersAccounted' /\ SlotAgrees'
  BY <1>1 DEF WorkersAccounted, SlotAgrees, Exists
<1>4. searching[w]
  BY <1>1 DEF SessionsAgree
<1>5. SessionsAgree'
  <2>1. \A v \in Workers :
          /\ ~searching'[v] => asked'[v] = <<>> /\ lines'[v] = <<>>
          /\ worker'[v] # "live" => asked'[v] = <<>>
          /\ worker'[v] = "opening" \/ v > made' => ~searching'[v]
          /\ v > made' => worker'[v] = "none"
    BY <1>1, <1>2, <1>4 DEF SessionsAgree
  <2>2. ASSUME NEW r \in Searches, task'[r] \in Reading
        PROVE  /\ searching'[Session(r)']
               /\ <<asked'[Session(r)'], lines'[Session(r)']>> \in
                    {<< <<>>, <<>> >>, << <<r>>, <<>> >>, << <<>>, <<r>> >>}
    <3>1. Session(r)' = Session(r) /\ task[r] \in Reading
      BY <1>1, <2>2 DEF Session
    <3>2. Session(r) \in Workers
      BY <3>1, ReadersOwn DEF Reading
    <3>3. CASE Session(r) # w
      BY <1>1, <1>2, <3>1, <3>2, <3>3, Owed
    <3>4. CASE Session(r) = w
      <4>1. asked[w] = <<r>> /\ lines[w] = <<>>
        BY <1>1, <3>1, <3>4, Owed
      <4>2. asked'[w] = Tail(<<r>>) /\ lines'[w] = Append(<<>>, Head(<<r>>))
        BY <1>1, <4>1 DEF TypeOK
      <4>3. Tail(<<r>>) = <<>> /\ Append(<<>>, Head(<<r>>)) = <<r>>
        OBVIOUS
      <4>4. QED
        BY <1>1, <1>4, <3>1, <3>4, <4>2, <4>3
    <3>5. QED
      BY <3>3, <3>4
  <2>3. QED
    BY <2>1, <2>2 DEF SessionsAgree
<1>6. QED
  BY <1>3, <1>5

LEMMA StartSearchStep ==
  ASSUME TypeOK, InOrder, Chained, WorkersKept, NEW s \in Searches, StartSearch(s)
  PROVE  WorkersKept'
<1> USE DEF WorkersKept
<1> DEFINE h == holder[evaluator]
<1>1. /\ MayStart(s) /\ ~searching[h] /\ slot = "ready"
      /\ searching' = [searching EXCEPT ![h] = TRUE]
      /\ asked' = [asked EXCEPT ![h] = IF worker[h] = "live" THEN Append(@, s) ELSE @]
      /\ task' = [task EXCEPT ![s] = "first"] /\ on' = [on EXCEPT ![s] = evaluator]
      /\ UNCHANGED <<disposed, slot, evaluator, holder, made, worker, home, lines>>
  BY DEF StartSearch, MayStart, Opened, Go, sessionVars
<1>2. \A r \in Searches : task[r] \notin Running
  BY <1>1, NobodySearches
<1>3. h \in 1 .. made /\ h \in Workers
  BY <1>1, SearchesAssumption DEF SlotAgrees, TypeOK, Workers
<1>4. "first" \in Reading /\ "first" \in Running /\ "reopening" \in Running
  BY DEF Reading, Running
<1>5. /\ task'[s] = "first" /\ on'[s] = evaluator
      /\ \A r \in Searches : r # s => task'[r] = task[r]
  BY <1>1 DEF TypeOK
<1>6. \A r \in Searches : /\ task[r] # "reopening" /\ task'[r] # "reopening"
                          /\ task'[r] \in Running => r = s
  BY <1>2, <1>4, <1>5
<1>7. asked[h] = <<>> /\ lines[h] = <<>>
  BY <1>1, <1>3 DEF SessionsAgree
<1>8. \A w \in Workers : w # h => asked'[w] = asked[w] /\ searching'[w] = searching[w]
  BY <1>1 DEF TypeOK
<1>9. /\ searching'[h] /\ lines'[h] = <<>>
      /\ asked'[h] = <<s>> \/ (asked'[h] = <<>> /\ worker[h] # "live")
      /\ worker[h] # "live" => asked'[h] = <<>>
  BY <1>1, <1>3, <1>7 DEF TypeOK
<1>10. \A w \in Workers : Exists(w) => w = h /\ worker[w] # "opening"
  BY <1>1, <1>6 DEF SlotAgrees
<1>11. WorkersAccounted'
  BY <1>1 DEF WorkersAccounted, Exists
<1>12. SlotAgrees'
  BY <1>1, <1>5, <1>6 DEF SlotAgrees, Exists
<1>13. SessionsAgree'
  <2>1. worker[h] # "opening"
    BY <1>3, <1>10 DEF Exists
  <2>2. ~(h > made)
    BY <1>3 DEF TypeOK
  <2>3. ASSUME NEW w \in Workers
        PROVE  /\ ~searching'[w] => asked'[w] = <<>> /\ lines'[w] = <<>>
               /\ worker'[w] # "live" => asked'[w] = <<>>
               /\ (worker'[w] = "opening" \/ w > made') => ~searching'[w]
               /\ w > made' => worker'[w] = "none"
    <3>1. CASE w = h
      BY <1>1, <1>9, <2>1, <2>2, <3>1
    <3>2. CASE w # h
      BY <1>1, <1>8, <3>2 DEF SessionsAgree
    <3>3. QED
      BY <3>1, <3>2
  <2>4. ASSUME NEW r \in Searches, task'[r] \in Reading
        PROVE  /\ searching'[Session(r)']
               /\ <<asked'[Session(r)'], lines'[Session(r)']>> \in
                    {<< <<>>, <<>> >>, << <<r>>, <<>> >>, << <<>>, <<r>> >>}
    <3>1. r = s
      BY <1>6, <2>4 DEF Reading
    <3>2. Session(r)' = h
      BY <1>1, <1>5, <3>1 DEF Session
    <3>3. QED
      BY <1>9, <3>1, <3>2
  <2>5. QED
    BY <2>3, <2>4 DEF SessionsAgree
<1>14. QED
  BY <1>11, <1>12, <1>13

LEMMA RetryStep ==
  ASSUME TypeOK, Chained, WorkersKept, Budget, NEW s \in Searches, Fruitless(s), Retry(s)
  PROVE  WorkersKept'
<1> USE DEF WorkersKept
<1> DEFINE n == made + 1
           h == Session(s)
<1>1. /\ task[s] \in {"first", "firstGrace"} /\ task' = [task EXCEPT ![s] = "reopening"]
      /\ made' = n /\ home' = [home EXCEPT ![n] = on[s]]
      /\ worker' = [worker EXCEPT ![h] = "gone", ![n] = "opening"]
      /\ asked' = [asked EXCEPT ![h] = <<>>]
      /\ UNCHANGED <<disposed, slot, evaluator, on, holder, lines>>
      /\ lines[h] = <<>>
      /\ searching' \in [Workers -> BOOLEAN]
      /\ \A w \in Workers : w # h => searching'[w] = searching[w]
  BY DEF Retry, NewWorker, Fruitless, sessionVars, TypeOK
<1>2. n \in Workers /\ made \in Nat
  BY <1>1, OpenersHaveRoom
<1>3. task[s] \in Running /\ "reopening" \in Running /\ "reopening" \notin Reading
  BY <1>1 DEF Running, Reading
<1>4. /\ slot = "ready" /\ ~disposed /\ on[s] = evaluator
      /\ evaluator \in 1 .. made /\ h = holder[evaluator] /\ h \in Workers /\ h \in 1 .. made
  BY <1>3, ReadersOwn
<1>5. h # n /\ ~(h > made) /\ ~(h > n) /\ ~(n > n) /\ n > made /\ n \in 1 .. n /\ h \in 1 .. n
      /\ evaluator \in 1 .. n
  BY <1>2, <1>4
<1>6. /\ worker'[h] = "gone" /\ worker'[n] = "opening" /\ home'[n] = evaluator
      /\ asked'[h] = <<>>
      /\ \A w \in Workers : w # h /\ w # n => worker'[w] = worker[w] /\ home'[w] = home[w]
      /\ \A w \in Workers : w # h => asked'[w] = asked[w]
  BY <1>1, <1>2, <1>4, <1>5 DEF TypeOK
<1>7. \A r \in Searches : /\ task'[r] \in Running => r = s
                          /\ task[r] # "reopening"
  BY <1>1, <1>3, Alone DEF TypeOK
<1>8. task'[s] = "reopening"
  BY <1>1 DEF TypeOK
<1>9. \A w \in Workers : Exists(w) => w = h
  BY <1>4, <1>7 DEF SlotAgrees
<1>10. \A w \in Workers : worker'[w] \in {"opening", "live", "dead"} => w = n
  BY <1>6, <1>9 DEF Exists
<1>11. WorkersAccounted'
  BY <1>1, <1>4, <1>6, <1>10 DEF WorkersAccounted, Exists
<1>12. SlotAgrees'
  BY <1>1, <1>4, <1>5, <1>6, <1>7, <1>8, <1>10 DEF SlotAgrees, Exists
<1>13. SessionsAgree'
  <2>1. \A r \in Searches : task'[r] \notin Reading
    BY <1>3, <1>7, <1>8 DEF Reading
  <2>2. ~searching[n] /\ worker[n] = "none"
    BY <1>2, <1>5 DEF SessionsAgree
  <2>3. ASSUME NEW w \in Workers
        PROVE  /\ ~searching'[w] => asked'[w] = <<>> /\ lines'[w] = <<>>
               /\ worker'[w] # "live" => asked'[w] = <<>>
               /\ (worker'[w] = "opening" \/ w > made') => ~searching'[w]
               /\ w > made' => worker'[w] = "none"
    <3>1. CASE w = h
      BY <1>1, <1>5, <1>6, <3>1
    <3>2. CASE w = n
      BY <1>1, <1>5, <1>6, <2>2, <3>2 DEF SessionsAgree
    <3>3. CASE w # h /\ w # n
      <4>1. w > n => w > made
        BY <1>2 DEF Workers
      <4>2. worker'[w] = worker[w] /\ asked'[w] = asked[w] /\ searching'[w] = searching[w]
        BY <1>1, <1>6, <3>3
      <4>3. lines'[w] = lines[w]
        BY <1>1
      <4>4. /\ ~searching[w] => asked[w] = <<>> /\ lines[w] = <<>>
            /\ worker[w] # "live" => asked[w] = <<>>
            /\ (worker[w] = "opening" \/ w > made) => ~searching[w]
            /\ w > made => worker[w] = "none"
        BY DEF SessionsAgree
      <4>5. w > made' => w > made
        BY <1>1, <4>1
      <4>6. QED
        BY <4>2, <4>3, <4>4, <4>5
    <3>4. QED
      BY <3>1, <3>2, <3>3
  <2>4. QED
    BY <2>1, <2>3 DEF SessionsAgree
<1>14. QED
  BY <1>11, <1>12, <1>13

LEMMA ReopensStep ==
  ASSUME TypeOK, Chained, WorkersKept, NEW s \in Searches, NEW w \in Workers, Reopens(s, w)
  PROVE  WorkersKept'
<1> USE DEF WorkersKept
<1>1. /\ task[s] = "reopening" /\ worker[w] = "opening"
      /\ worker' = [worker EXCEPT ![w] = "live"]
      /\ holder' = [holder EXCEPT ![on[s]] = w]
      /\ task' = [task EXCEPT ![s] = "second"]
      /\ searching' = [searching EXCEPT ![w] = TRUE]
      /\ asked' = [asked EXCEPT ![w] = Append(@, s)]
      /\ UNCHANGED <<disposed, slot, evaluator, on, made, home, lines>>
  BY DEF Reopens, Fresh, sessionVars
<1>2. task[s] \in Running /\ "second" \in Running /\ "second" # "reopening"
  BY <1>1 DEF Running
<1>3. /\ slot = "ready" /\ ~disposed /\ on[s] = evaluator
      /\ evaluator \in Workers /\ evaluator \in 1 .. made
  BY <1>2, ReadersOwn
<1>4. /\ worker'[w] = "live" /\ holder'[evaluator] = w /\ searching'[w]
      /\ \A v \in Workers : v # w =>
           /\ worker'[v] = worker[v] /\ searching'[v] = searching[v] /\ asked'[v] = asked[v]
  BY <1>1, <1>3 DEF TypeOK
<1>5. asked'[w] = <<s>> /\ lines'[w] = <<>>
  <2>1. asked[w] = <<>> /\ lines[w] = <<>>
    BY <1>1 DEF SessionsAgree
  <2>2. QED
    BY <1>1, <2>1 DEF TypeOK
<1>6. ~(w > made) /\ w \in 1 .. made
  <2>1. ~(w > made)
    BY <1>1 DEF SessionsAgree
  <2>2. QED
    BY <2>1, SearchesAssumption DEF TypeOK, Workers
<1>7. \A v \in Workers : Exists(v) => v = w
  BY <1>1 DEF WorkersAccounted, Exists
<1>8. home[w] = evaluator
  BY <1>1 DEF WorkersAccounted, Exists
<1>9. \A v \in Workers : worker'[v] \in {"opening", "live", "dead"} => v = w
  BY <1>4, <1>7 DEF Exists
<1>10. task'[s] = "second" /\ \A r \in Searches : task'[r] \in Running => r = s
  BY <1>1, <1>2, Alone DEF TypeOK
<1>11. \A r \in Searches : task'[r] # "reopening"
  BY <1>1, <1>2, <1>10
<1>12. WorkersAccounted'
  BY <1>1, <1>3, <1>8, <1>9 DEF WorkersAccounted, Exists
<1>13. SlotAgrees'
  BY <1>1, <1>3, <1>4, <1>6, <1>9, <1>10, <1>11 DEF SlotAgrees, Exists
<1>14. SessionsAgree'
  <2>1. ASSUME NEW v \in Workers
        PROVE  /\ ~searching'[v] => asked'[v] = <<>> /\ lines'[v] = <<>>
               /\ worker'[v] # "live" => asked'[v] = <<>>
               /\ (worker'[v] = "opening" \/ v > made') => ~searching'[v]
               /\ v > made' => worker'[v] = "none"
    <3>1. CASE v = w
      BY <1>1, <1>4, <1>6, <3>1
    <3>2. CASE v # w
      BY <1>1, <1>4, <3>2 DEF SessionsAgree
    <3>3. QED
      BY <3>1, <3>2
  <2>2. ASSUME NEW r \in Searches, task'[r] \in Reading
        PROVE  /\ searching'[Session(r)']
               /\ <<asked'[Session(r)'], lines'[Session(r)']>> \in
                    {<< <<>>, <<>> >>, << <<r>>, <<>> >>, << <<>>, <<r>> >>}
    <3>1. r = s
      BY <1>10, <2>2 DEF Reading
    <3>2. Session(r)' = w
      BY <1>1, <1>3, <1>4, <3>1 DEF Session
    <3>3. QED
      BY <1>4, <1>5, <3>1, <3>2
  <2>3. QED
    BY <2>1, <2>2 DEF SessionsAgree
<1>15. QED
  BY <1>12, <1>13, <1>14

\* Every step keeps the Workers accounted for.
LEMMA WorkersStep ==
  ASSUME TypeOK, InOrder, Chained, WorkersKept, Budget, [Next]_vars
  PROVE  WorkersKept'
<1>1. CASE UNCHANGED vars
  <2>1. Quiet
    BY <1>1 DEF vars, sessionVars, searchVars, Quiet
  <2>2. QED
    BY <2>1, QuietStep
<1>2. ASSUME NEW s \in Searches, Evaluate(s) \/ CallStep(s) \/ Halt(s) \/ Silence(s)
      PROVE  WorkersKept'
  BY <1>2, QuietActions, QuietStep, EmptyActions, EmptiedStep, OpenWorkerStep, StartSearchStep
     DEF CallStep
<1>3. ASSUME NEW s \in Searches, ReadAnswer(s) PROVE WorkersKept'
  BY <1>3, ReadAnswerFinishes, FinishedStep
<1>4. ASSUME NEW s \in Searches, ReadEnd(s) \/ GraceOver(s) PROVE WorkersKept'
  BY <1>4, FruitlessEnds, RetryStep, GiveUpStep, EmptiedStep, FinishedStep
<1>5. ASSUME NEW s \in Searches, NEW w \in Workers, Reopens(s, w) PROVE WorkersKept'
  BY <1>5, ReopensStep
<1>6. ASSUME \/ WorkerFails \/ SlotCleared \/ Dispose
             \/ \E s \in Searches : \/ RefuseSearch(s) \/ StopTimesOut(s)
                                    \/ \E w \in Workers : ReopenFails(s, w)
      PROVE  WorkersKept'
  BY <1>6, EmptyActions, EmptiedStep
<1>7. ASSUME WorkerOpens \/ \E w \in Workers : Crash(w) \/ EngineAnswers(w) PROVE WorkersKept'
  BY <1>7, WorkerOpensStep, CrashStep, EngineAnswersStep
<1>8. QED
  BY <1>1, <1>2, <1>3, <1>4, <1>5, <1>6, <1>7 DEF Next

-----------------------------------------------------------------------------
(* Searches stopped for the sake of others.                                *)

\* The stop reaches the search under way and no other.
LEMMA StopReaches ==
  ASSUME TypeOK, WorkersKept, NEW r \in Searches, task[r] \in Running, SendStop
  PROVE  hurried' \subseteq hurried \cup {r}
<1> DEFINE w == holder[evaluator]
<1>1. slot = "ready" /\ Session(r) = w /\ w \in Workers
  BY ReadersOwn DEF WorkersKept
<1>2. CASE worker[w] = "live"
  <2>1. task[r] # "reopening"
    BY <1>1, <1>2 DEF WorkersKept, SlotAgrees, Exists
  <2>2. task[r] \in Reading
    BY <2>1 DEF Reading
  <2>3. asked[w] = <<>> \/ asked[w] = <<r>>
    BY <1>1, <2>2, Owed DEF WorkersKept
  <2>4. hurried' = hurried \cup {asked[w][i] : i \in DOMAIN asked[w]}
    BY <1>1, <1>2 DEF SendStop
  <2>5. \A i \in DOMAIN asked[w] : asked[w][i] = r
    BY <2>3
  <2>6. QED
    BY <2>4, <2>5
<1>3. CASE worker[w] # "live"
  BY <1>3 DEF SendStop
<1>4. QED
  BY <1>2, <1>3

LEMMA Hurries ==
  ASSUME TypeOK, WorkersKept, Chained, [Next]_vars
  PROVE  \/ hurried' = hurried
         \/ \E s \in Searches : /\ Evaluate(s)
                                /\ task[latest] \in Running
                                /\ hurried' \subseteq hurried \cup {latest}
         \/ \E s \in Searches : /\ phase' = [phase EXCEPT ![s] = "hurrying"]
                                /\ hurried' \subseteq hurried \cup {s}
<1> USE DEF callVars, searchVars
<1>1. ASSUME NEW s \in Searches, Evaluate(s)
      PROVE  \/ hurried' = hurried
             \/ task[latest] \in Running /\ hurried' \subseteq hurried \cup {latest}
  <2>1. CASE latest # 0 /\ task[latest] \in Running
    <3>1. latest \in Searches
      BY <2>1, SearchesAssumption DEF TypeOK, Searches
    <3>2. SendStop
      BY <1>1, <2>1 DEF Evaluate
    <3>3. QED
      BY <2>1, <3>1, <3>2, StopReaches
  <2>2. CASE ~(latest # 0 /\ task[latest] \in Running)
    BY <1>1, <2>2 DEF Evaluate
  <2>3. QED
    BY <2>1, <2>2
<1>2. ASSUME NEW s \in Searches, Halt(s)
      PROVE  \/ hurried' = hurried
             \/ /\ phase' = [phase EXCEPT ![s] = "hurrying"]
                /\ hurried' \subseteq hurried \cup {s}
  <2>1. CASE hurried' # hurried
    <3>1. phase[s] = "searching" /\ phase' = [phase EXCEPT ![s] = "hurrying"] /\ SendStop
      BY <1>2, <2>1 DEF Halt
    <3>2. task[s] \in Running
      BY <3>1 DEF Chained
    <3>3. QED
      BY <3>1, <3>2, StopReaches
  <2>2. QED
    BY <2>1
<1>3. ASSUME NEW s \in Searches, CallStep(s) PROVE hurried' = hurried
  BY <1>3 DEF CallStep, Supersede, OpenWorker, AwaitWorker, OpenFailed, StartSearch,
     RefuseSearch, Unwound
<1>4. ASSUME NEW s \in Searches,
             ReadAnswer(s) \/ ReadEnd(s) \/ Silence(s) \/ GraceOver(s) \/ StopTimesOut(s)
      PROVE  hurried' = hurried
  BY <1>4 DEF ReadAnswer, ReadEnd, Silence, GraceOver, StopTimesOut
<1>5. ASSUME NEW s \in Searches, NEW w \in Workers, Reopens(s, w) \/ ReopenFails(s, w)
      PROVE  hurried' = hurried
  BY <1>5 DEF Reopens, ReopenFails
<1>6. ASSUME \/ WorkerOpens \/ WorkerFails \/ SlotCleared \/ Dispose \/ UNCHANGED vars
             \/ \E w \in Workers : Crash(w) \/ EngineAnswers(w)
      PROVE  hurried' = hurried
  BY <1>6 DEF WorkerOpens, WorkerFails, SlotCleared, Dispose, Crash, EngineAnswers, vars
<1>7. QED
  BY <1>1, <1>2, <1>3, <1>4, <1>5, <1>6 DEF Next

\* A search that is nobody's answer any more.
Over(s) == \/ phase[s] \in {"hurrying", "settled"}
           \/ phase[s] = "searching" /\ IsSuperseded(s)

LEMMA OverStep ==
  ASSUME TypeOK, InOrder, Chained, [Next]_vars, NEW r \in Searches, Over(r)
  PROVE  Over(r)'
<1> USE DEF Over
<1>1. ASSUME NEW s \in Searches, Evaluate(s) PROVE Over(r)'
  <2>1. phase[s] = "uncalled" /\ latest' = s /\ \A q \in Searches \ {s} : phase'[q] = phase[q]
    BY <1>1 DEF Evaluate, TypeOK
  <2>2. QED
    BY <2>1 DEF IsSuperseded
<1>2. CASE Dispose
  <2>1. phase[r] \in {"searching", "hurrying"} => task[r] \in Running
    BY DEF Chained
  <2>2. phase'[r] = IF task[r] \in Running THEN "settled" ELSE phase[r]
    BY <1>2 DEF Dispose
  <2>3. QED
    BY <2>1, <2>2
<1>3. ASSUME NEW s \in Searches, NEW how \in Failure \cup {"answered"}, Settles(s, how)
      PROVE  Over(r)'
  BY <1>3 DEF Settles, Settle, TypeOK, IsSuperseded
<1>4. ASSUME NEW s \in Searches, NEW p \in Phase, MovesTo(s, p) PROVE Over(r)'
  BY <1>4 DEF MovesTo, TypeOK, IsSuperseded
<1>5. CASE Stays
  BY <1>5 DEF Stays, IsSuperseded
<1>6. QED
  BY Kinds, <1>1, <1>2, <1>3, <1>4, <1>5

LEMMA HurriedStep ==
  ASSUME TypeOK, InOrder, Chained, WorkersKept, HurriedIsOver, Budget, [Next]_vars
  PROVE  HurriedIsOver'
<1>1. \A r \in hurried : r \in Searches /\ Over(r)
  BY DEF HurriedIsOver, Over, TypeOK
<1>2. \A r \in hurried : Over(r)'
  BY <1>1, OverStep
<1>3. CASE hurried' = hurried
  BY <1>2, <1>3 DEF HurriedIsOver, Over
<1>4. ASSUME NEW s \in Searches, Evaluate(s), task[latest] \in Running,
             hurried' \subseteq hurried \cup {latest}
      PROVE  HurriedIsOver'
  <2>1. CASE latest \in Searches
    <3>1. phase[latest] \in {"searching", "hurrying"}
      BY <1>4, <2>1 DEF Chained
    <3>2. /\ phase[s] = "uncalled" /\ latest' = s
          /\ \A q \in Searches \ {s} : phase'[q] = phase[q]
      BY <1>4 DEF Evaluate, TypeOK
    <3>3. \/ phase'[latest] \in {"hurrying", "settled"}
          \/ phase'[latest] = "searching" /\ latest' # latest
      BY <2>1, <3>1, <3>2
    <3>4. QED
      BY <1>2, <1>4, <3>3 DEF HurriedIsOver, Over, IsSuperseded
  <2>2. CASE latest \notin Searches
    <3>1. hurried' \subseteq Searches
      BY TypeStep DEF WorkersKept, TypeOK
    <3>2. QED
      BY <1>2, <1>4, <2>2, <3>1 DEF HurriedIsOver, Over
  <2>3. QED
    BY <2>1, <2>2
<1>5. ASSUME NEW s \in Searches, phase' = [phase EXCEPT ![s] = "hurrying"],
             hurried' \subseteq hurried \cup {s}
      PROVE  HurriedIsOver'
  BY <1>2, <1>5 DEF HurriedIsOver, Over, TypeOK
<1>6. QED
  BY Hurries, <1>3, <1>4, <1>5

-----------------------------------------------------------------------------
(* The inductive invariant, and what follows from it.                      *)

LEMMA InductiveInit == Init => Inductive
<1> SUFFICES ASSUME Init PROVE Inductive
  OBVIOUS
<1>1. TypeOK
  BY TypeInit
<1>2. InOrder
  BY SearchesAssumption DEF Init, InOrder, Searches
<1>3. Chained
  BY DEF Init, Chained, Running
<1>4. WorkersAccounted
  BY DEF Init, WorkersAccounted, Exists
<1>5. SlotAgrees
  BY DEF Init, SlotAgrees, Exists, Running
<1>6. SessionsAgree
  BY DEF Init, SessionsAgree, Reading, Running
<1>7. HurriedIsOver
  BY DEF Init, HurriedIsOver
<1>8. Budget
  BY SearchesAssumption DEF Init, Budget, Spent, Searches
<1>9. QED
  BY <1>1, <1>2, <1>3, <1>4, <1>5, <1>6, <1>7, <1>8 DEF Inductive

LEMMA InductiveStep ==
  ASSUME Inductive, [Next]_vars PROVE Inductive'
<1>1. /\ TypeOK /\ InOrder /\ Chained /\ WorkersKept /\ SlotAgrees
      /\ HurriedIsOver /\ Budget
  BY DEF Inductive, WorkersKept
<1>2. TypeOK'
  BY <1>1, TypeStep
<1>3. InOrder' /\ Chained'
  BY <1>1, InOrderStep, ChainedStep
<1>4. WorkersKept'
  BY <1>1, WorkersStep
<1>5. HurriedIsOver' /\ Budget'
  BY <1>1, HurriedStep, BudgetStep
<1>6. QED
  BY <1>2, <1>3, <1>4, <1>5 DEF Inductive, WorkersKept

\* The inductive invariant holds: calls stay in their order, each goes on when
\* those before it let go, the slot, the searches and the sessions agree.
THEOREM EngineInductive == Spec => []Inductive
  BY InductiveInit, InductiveStep, PTL DEF Spec

\* The session, its calls, its searches and its Workers keep their types; in
\* particular no call opens more Workers than one and one to retry on.
THEOREM EngineTypeCorrect == Spec => []TypeOK
<1>1. Inductive => TypeOK
  BY DEF Inductive
<1>2. QED
  BY <1>1, EngineInductive, PTL

\* Searches are serialized by the chain of releases alone, whatever is
\* replaced, halted, killed or crashes.
THEOREM SearchesAreSerial == Spec => []OneSearchAtATime
<1>1. Inductive => OneSearchAtATime
  BY ChainSerializes DEF Inductive
<1>2. QED
  BY <1>1, EngineInductive, PTL

\* There is one Worker at most, and the slot accounts for it.
THEOREM WorkersAreAccounted == Spec => []WorkersAccounted
<1>1. Inductive => WorkersAccounted
  BY DEF Inductive
<1>2. QED
  BY <1>1, EngineInductive, PTL

-----------------------------------------------------------------------------
\* Only a read answer answers.
LEMMA OnlyReadingAnswers ==
  ASSUME TypeOK, [Next]_vars, NEW r \in Searches, outcome[r] # "answered", outcome'[r] = "answered"
  PROVE  ReadAnswer(r) /\ phase[r] # "hurrying" /\ ~IsSuperseded(r)
<1> USE DEF callVars
<1>0. ASSUME NEW s \in Searches, NEW how, Settle(s, how)
      PROVE  outcome'[r] = outcome[r] \/ (r = s /\ outcome'[r] = how)
  BY <1>0 DEF Settle, TypeOK
<1>1. ASSUME NEW s \in Searches, Evaluate(s) \/ OpenWorker(s) \/ AwaitWorker(s) \/ StartSearch(s)
      PROVE  FALSE
  BY <1>1 DEF Evaluate, OpenWorker, AwaitWorker, StartSearch
<1>2. ASSUME NEW s \in Searches, Supersede(s) \/ RefuseSearch(s) \/ Unwound(s) PROVE FALSE
  BY <1>0, <1>2 DEF Supersede, RefuseSearch, Unwound
<1>3. ASSUME NEW s \in Searches, OpenFailed(s) \/ StopTimesOut(s) PROVE FALSE
  <2>1. PICK how \in {"disposed", "failed", "halted", "superseded"} : Settle(s, how)
    BY <1>3 DEF OpenFailed, StopTimesOut
  <2>2. QED
    BY <1>0, <2>1
<1>4. ASSUME NEW s \in Searches, Halt(s) PROVE FALSE
  BY <1>0, <1>4 DEF Halt
<1>5. ASSUME NEW s \in Searches, Ends(s, "failed") PROVE FALSE
  <2>1. PICK how \in {"halted", "failed", "superseded"} : Settle(s, how)
    BY <1>5 DEF Ends
  <2>2. QED
    BY <1>0, <2>1
<1>6. ASSUME NEW s \in Searches, ReadEnd(s) \/ GraceOver(s) PROVE FALSE
  BY <1>5, <1>6 DEF ReadEnd, GraceOver, GiveUp, Retry
<1>7. ASSUME NEW s \in Searches, NEW w \in Workers, Reopens(s, w) \/ ReopenFails(s, w)
      PROVE  FALSE
  BY <1>5, <1>7 DEF Reopens, ReopenFails
<1>8. ASSUME NEW s \in Searches, Silence(s) PROVE FALSE
  BY <1>8 DEF Silence
<1>9. ASSUME \/ WorkerOpens \/ WorkerFails \/ SlotCleared \/ UNCHANGED vars
             \/ \E w \in Workers : Crash(w) \/ EngineAnswers(w)
      PROVE  FALSE
  BY <1>9 DEF WorkerOpens, WorkerFails, SlotCleared, Crash, EngineAnswers, vars
<1>10. ASSUME Dispose PROVE FALSE
  BY <1>10 DEF Dispose
<1>11. ASSUME NEW s \in Searches, ReadAnswer(s)
       PROVE  ReadAnswer(r) /\ phase[r] # "hurrying" /\ ~IsSuperseded(r)
  <2>1. Ends(s, "answered")
    BY <1>11 DEF ReadAnswer
  <2>2. PICK how \in {"halted", "superseded", "answered"} :
          /\ Settle(s, how)
          /\ how = "answered" => phase[s] # "hurrying" /\ ~IsSuperseded(s)
    BY <2>1 DEF Ends
  <2>3. r = s /\ how = "answered"
    BY <1>0, <2>2
  <2>4. QED
    BY <1>11, <2>2, <2>3
<1>12. QED
  BY <1>1, <1>2, <1>3, <1>4, <1>6, <1>7, <1>8, <1>9, <1>10, <1>11 DEF Next, CallStep

\* A call is answered with the answer to its own search, which no other call
\* stopped before its end.
THEOREM AnswersOwn == Spec => AnswersAreOwn
<1>1. ASSUME Inductive, [Next]_vars, NEW s \in Searches,
             outcome[s] # "answered", outcome'[s] = "answered"
      PROVE  Head(lines[Session(s)]) = s /\ s \notin hurried
  <2>1. ReadAnswer(s) /\ phase[s] # "hurrying" /\ ~IsSuperseded(s)
    BY <1>1, OnlyReadingAnswers DEF Inductive
  <2>2. task[s] \in Reading /\ lines[Session(s)] # <<>>
    BY <2>1 DEF ReadAnswer
  <2>3. lines[Session(s)] = <<s>>
    BY <1>1, <2>2, Owed DEF Inductive
  <2>4. phase[s] = "searching"
    BY <1>1, <2>1, <2>2 DEF Inductive, Chained, Reading
  <2>5. s \notin hurried
    BY <1>1, <2>1, <2>4 DEF Inductive, HurriedIsOver
  <2>6. Head(<<s>>) = s
    OBVIOUS
  <2>7. QED
    BY <2>3, <2>5, <2>6
<1>2. Inductive /\ [Next]_vars =>
        [\A s \in Searches : outcome[s] # "answered" /\ outcome'[s] = "answered" =>
           Head(lines[Session(s)]) = s /\ s \notin hurried]_vars
  BY <1>1
<1>3. QED
  BY <1>2, EngineInductive, PTL DEF Spec, AnswersAreOwn

-----------------------------------------------------------------------------
\* While a search is under way, a Worker that lives is the one it reads.
LEMMA LiveIsBusy ==
  ASSUME Inductive, NEW s \in Searches, task[s] \in Running,
         NEW w \in Workers, worker[w] = "live"
  PROVE  w = Session(s) /\ searching[w]
<1>1. TypeOK /\ SlotAgrees /\ SessionsAgree /\ WorkersKept
  BY DEF Inductive, WorkersKept
<1>2. slot = "ready" /\ Session(s) = holder[evaluator]
  BY <1>1, ReadersOwn
<1>3. w = holder[evaluator] /\ task[s] # "reopening"
  BY <1>1, <1>2 DEF SlotAgrees, Exists
<1>4. task[s] \in Reading
  BY <1>3 DEF Reading
<1>5. QED
  BY <1>1, <1>2, <1>3, <1>4, Owed

\* The code closes no Worker but by disposing the session, by giving up on the
\* search it is in the middle of, or for having been left in the middle of one.
THEOREM OnlyBusyKilled == Spec => OnlyBusyIsKilled
<1>1. ASSUME Inductive, [Next]_vars, NEW w \in Workers, worker[w] = "live", worker'[w] = "gone"
      PROVE  disposed' \/ searching[w]
  <2> USE <1>1 DEF sessionVars, callVars, searchVars, workerVars
  <2>0. TypeOK /\ InOrder /\ Chained /\ SlotAgrees
    BY DEF Inductive
  <2>1. ASSUME NEW s \in Searches, Evaluate(s) \/ Supersede(s) \/ AwaitWorker(s) \/ OpenFailed(s)
        PROVE  FALSE
    BY <2>1 DEF Evaluate, Supersede, AwaitWorker, OpenFailed
  <2>2. ASSUME NEW s \in Searches, StartSearch(s) \/ Unwound(s) \/ Halt(s) \/ Silence(s)
        PROVE  FALSE
    BY <2>2 DEF StartSearch, Unwound, Halt, Silence
  <2>3. ASSUME NEW s \in Searches, OpenWorker(s) PROVE FALSE
    BY <2>0, <2>3 DEF OpenWorker, TypeOK
  <2>4. ASSUME NEW s \in Searches, RefuseSearch(s) PROVE searching[w]
    <3>1. MayStart(s) /\ slot = "ready" /\ searching[holder[evaluator]]
      BY <2>4 DEF RefuseSearch, MayStart, Opened
    <3>2. \A r \in Searches : task[r] \notin Running
      BY <2>0, <3>1, NobodySearches
    <3>3. w = holder[evaluator]
      BY <2>0, <3>1, <3>2 DEF SlotAgrees, Exists, Running
    <3>4. QED
      BY <3>1, <3>3
  <2>5. ASSUME NEW s \in Searches, task[s] \in Running PROVE searching[w]
    BY <2>5, LiveIsBusy
  <2>6. ASSUME NEW s \in Searches, ReadAnswer(s) \/ ReadEnd(s) \/ GraceOver(s) \/ StopTimesOut(s)
        PROVE  searching[w]
    <3>1. task[s] \in Running
      BY <2>6 DEF ReadAnswer, ReadEnd, GraceOver, StopTimesOut, Stopped, Reading, Running
    <3>2. QED
      BY <2>5, <3>1
  <2>7. ASSUME NEW s \in Searches, NEW v \in Workers, Reopens(s, v) \/ ReopenFails(s, v)
        PROVE  searching[w]
    <3>1. task[s] \in Running
      BY <2>7 DEF Reopens, ReopenFails, Fresh, Running
    <3>2. QED
      BY <2>5, <3>1
  <2>8. CASE WorkerOpens \/ \E v \in Workers : Crash(v) \/ EngineAnswers(v)
    BY <2>0, <2>8 DEF WorkerOpens, Crash, EngineAnswers, TypeOK
  <2>9. ASSUME WorkerFails PROVE FALSE
    BY <2>0, <2>9 DEF WorkerFails, Terminate
  <2>10. ASSUME SlotCleared \/ UNCHANGED vars PROVE FALSE
    BY <2>10 DEF SlotCleared, vars
  <2>11. CASE Dispose
    BY <2>11 DEF Dispose
  <2>12. QED
    BY <2>1, <2>2, <2>3, <2>4, <2>6, <2>7, <2>8, <2>9, <2>10, <2>11 DEF Next, CallStep
<1>2. Inductive /\ [Next]_vars =>
        [\A w \in Workers : worker[w] = "live" /\ worker'[w] = "gone" => disposed' \/ searching[w]]_vars
  BY <1>1
<1>3. QED
  BY <1>2, EngineInductive, PTL DEF Spec, OnlyBusyIsKilled

-----------------------------------------------------------------------------
(* What its callers see of the session is LatestCall.                      *)

\* The line of calls, as they see it.
Line == [s \in Searches |-> Shown(phase[s])]

LEMMA LineMoves ==
  ASSUME TypeOK, NEW s \in Searches, NEW p, phase' = [phase EXCEPT ![s] = p]
  PROVE  Line' = [Line EXCEPT ![s] = Shown(p)]
  BY DEF Line, TypeOK, Shown

\* Whose turn it is, everybody before it is over.
LEMMA TurnComes ==
  ASSUME Chained, NEW s \in Searches, \A r \in 1 .. s - 1 : released[r]
  PROVE  Promise!Turn(s)
<1>1. \A r \in 1 .. s - 1 : r \in Searches /\ phase[r] = "settled"
  BY SearchesAssumption DEF Chained, Searches
<1>2. QED
  BY <1>1 DEF Promise!Turn, Promise!Earlier, Shown

\* A call is superseded by a newer one, or with the session.
LEMMA NewestMeans ==
  ASSUME TypeOK, InOrder, NEW s \in Searches, phase[s] # "uncalled"
  PROVE  /\ ~IsSuperseded(s) => ~disposed /\ Promise!Newest(s)
         /\ IsSuperseded(s) => disposed \/ ~Promise!Newest(s)
<1> USE SearchesAssumption
<1>1. ASSUME ~IsSuperseded(s) PROVE ~disposed /\ Promise!Newest(s)
  <2>1. latest = s /\ ~disposed
    BY <1>1 DEF IsSuperseded, InOrder, Searches
  <2>2. \A r \in s + 1 .. MaxSearches : r \in Searches /\ phase[r] = "uncalled"
    BY <2>1 DEF InOrder, Searches
  <2>3. QED
    BY <2>1, <2>2 DEF Promise!Newest, Shown
<1>2. ASSUME IsSuperseded(s), ~disposed PROVE ~Promise!Newest(s)
  <2>1. latest \in s + 1 .. MaxSearches /\ latest \in Searches /\ phase[latest] # "uncalled"
    BY <1>2 DEF IsSuperseded, InOrder, TypeOK, Searches
  <2>2. Shown(phase[latest]) # "none"
    BY <2>1 DEF Shown, TypeOK, Phase
  <2>3. QED
    BY <2>1, <2>2 DEF Promise!Newest
<1>3. QED
  BY <1>1, <1>2

LEMMA MakesCall ==
  ASSUME TypeOK, NEW s \in Searches, Evaluate(s)
  PROVE  Promise!Make(s)
<1>1. /\ phase[s] = "uncalled" /\ ~disposed
      /\ \A r \in 1 .. s - 1 : r \in Searches /\ phase[r] # "uncalled"
      /\ UNCHANGED <<outcome, disposed>>
  BY SearchesAssumption DEF Evaluate, Searches
<1>2. PICK p \in {"stopping", "queued"} : phase' = [phase EXCEPT ![s] = p]
  BY DEF Evaluate
<1>3. Line' = [Line EXCEPT ![s] = "waiting"]
  BY <1>2, LineMoves DEF Shown
<1>4. \A r \in 1 .. s - 1 : Shown(phase[r]) # "none"
  BY <1>1 DEF Shown
<1>5. QED
  BY <1>1, <1>3, <1>4 DEF Promise!Make, Promise!Earlier, Line, Shown

LEMMA EndsCall ==
  ASSUME TypeOK, InOrder, Chained, NEW s \in Searches, NEW how \in Failure \cup {"answered"},
         Settles(s, how)
  PROVE  Promise!Answer(s) \/ Promise!Cease(s)
<1>1. /\ Line' = [Line EXCEPT ![s] = "over"]
      /\ outcome' = [outcome EXCEPT ![s] = how]
      /\ UNCHANGED disposed
  BY LineMoves DEF Settles, Settle, Shown
<1>2. Promise!Over(s, how)
  BY <1>1 DEF Promise!Over, Line
<1>3. CASE how = "answered"
  <2>1. phase[s] = "searching" /\ ~disposed /\ Promise!Newest(s)
    BY <1>3, NewestMeans DEF Settles
  <2>2. QED
    BY <1>2, <1>3, <2>1 DEF Promise!Answer, Shown
<1>4. CASE how # "answered"
  <2>1. Promise!Turn(s)
    BY TurnComes DEF Settles
  <2>2. Shown(phase[s]) \in {"waiting", "searching"}
    BY DEF Settles, Shown
  <2>3. /\ how = "superseded" => disposed \/ ~Promise!Newest(s)
        /\ how = "disposed" => disposed
    BY NewestMeans DEF Settles
  <2>4. how \in {"failed", "superseded", "disposed", "halted"}
    BY <1>4 DEF Failure
  <2>5. QED
    BY <1>2, <2>1, <2>2, <2>3, <2>4 DEF Promise!Cease
<1>5. QED
  BY <1>3, <1>4

LEMMA MovesCall ==
  ASSUME TypeOK, InOrder, Chained, NEW s \in Searches, NEW p \in Phase, MovesTo(s, p)
  PROVE  Promise!Begin(s) \/ UNCHANGED <<Line, outcome, disposed>>
<1>1. Line' = [Line EXCEPT ![s] = Shown(p)] /\ UNCHANGED <<outcome, disposed>>
  BY LineMoves DEF MovesTo
<1>2. CASE p = "searching"
  <2>1. /\ phase[s] \in {"stopping", "queued", "opening"} /\ ~IsSuperseded(s)
        /\ Promise!Turn(s)
    BY <1>2, TurnComes DEF MovesTo
  <2>2. ~disposed /\ Promise!Newest(s)
    BY <2>1, NewestMeans
  <2>3. Shown(phase[s]) = "waiting" /\ Shown(p) = "searching"
    BY <1>2, <2>1 DEF Shown
  <2>4. QED
    BY <1>1, <2>1, <2>2, <2>3 DEF Promise!Begin, Line
<1>3. CASE p # "searching"
  <2>1. Shown(p) = Shown(phase[s])
    BY <1>3 DEF MovesTo, Shown
  <2>2. QED
    BY <1>1, <2>1 DEF Line
<1>4. QED
  BY <1>2, <1>3

LEMMA ClosesLine ==
  ASSUME TypeOK, Chained, Dispose PROVE Promise!Close
<1> DEFINE halted == {s \in Searches : task[s] \in Running}
<1>1. /\ ~disposed /\ disposed' = TRUE
      /\ phase' = [s \in Searches |-> IF s \in halted THEN "settled" ELSE phase[s]]
      /\ outcome' = [s \in Searches |-> IF s \notin halted THEN outcome[s]
                      ELSE IF phase[s] = "hurrying" THEN "halted" ELSE "disposed"]
  BY DEF Dispose
<1>2. \A s \in Searches : s \in halted <=> Shown(phase[s]) = "searching"
  BY DEF Chained, Shown, TypeOK, Phase
<1>3. Line' = [s \in Searches |-> IF Shown(phase[s]) = "searching" THEN "over"
                                  ELSE Shown(phase[s])]
  BY <1>1, <1>2 DEF Line, Shown
<1>4. PICK how \in {"disposed", "halted"} :
        \A s \in halted : how = IF phase[s] = "hurrying" THEN "halted" ELSE "disposed"
  BY Alone
<1>5. outcome' = [s \in Searches |-> IF Shown(phase[s]) = "searching" THEN how ELSE outcome[s]]
  BY <1>1, <1>2, <1>4
<1>6. QED
  BY <1>1, <1>3, <1>5 DEF Promise!Close, Promise!Calls, Searches, Line

\* To its callers a session is a line that serves the newest: calls are over in
\* their order, the newest alone reaches the engine and only while it is the
\* newest it is answered, whatever crashes, hangs, is halted or disposed of.
THEOREM ImplementsLatestCall == Spec => ServesTheLatest
<1>1. Init => Promise!Init
  BY DEF Init, Promise!Init, Promise!Calls, Searches, Shown
<1>2. ASSUME Inductive, [Next]_vars PROVE [Promise!Next]_(Promise!vars)
  <2>1. TypeOK /\ InOrder /\ Chained
    BY <1>2 DEF Inductive
  <2>2. Promise!Calls = Searches
    BY DEF Promise!Calls, Searches
  <2>3. ASSUME NEW s \in Searches, Evaluate(s) PROVE Promise!Next
    BY <2>1, <2>2, <2>3, MakesCall DEF Promise!Next
  <2>4. CASE Dispose
    BY <2>1, <2>4, ClosesLine DEF Promise!Next
  <2>5. ASSUME NEW s \in Searches, NEW how \in Failure \cup {"answered"}, Settles(s, how)
        PROVE  Promise!Next
    BY <2>1, <2>2, <2>5, EndsCall DEF Promise!Next
  <2>6. ASSUME NEW s \in Searches, NEW p \in Phase, MovesTo(s, p)
        PROVE  [Promise!Next]_(Promise!vars)
    <3>1. Promise!Begin(s) \/ UNCHANGED <<Line, outcome, disposed>>
      BY <2>1, <2>6, MovesCall
    <3>2. QED
      BY <2>2, <3>1 DEF Promise!Next, Promise!vars, Line
  <2>7. CASE Stays
    BY <2>7 DEF Stays, Promise!vars
  <2>8. QED
    BY <1>2, <2>1, <2>3, <2>4, <2>5, <2>6, <2>7, Kinds
<1>3. QED
  BY <1>1, <1>2, EngineInductive, PTL DEF Spec, ServesTheLatest, Promise!Spec
=============================================================================
