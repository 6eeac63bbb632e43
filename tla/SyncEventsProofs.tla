-------------------------- MODULE SyncEventsProofs --------------------------
(***************************************************************************)
(* Proofs about SyncEvents: a settlement of the user's is never forgotten  *)
(* between its row and the screen, for any rows, users, notifications and  *)
(* number of faults, once the screen has its first data.                   *)
(***************************************************************************)
EXTENDS SyncEvents, TLAPS

\* What Append and Tail do to the entries a stream still has to see.
LEMMA AppendKeeps ==
  ASSUME NEW S, NEW q \in Seq(S), NEW e \in S
  PROVE  /\ Append(q, e) \in Seq(S)
         /\ \E i \in DOMAIN Append(q, e) : Append(q, e)[i] = e
         /\ \A i \in DOMAIN q : i \in DOMAIN Append(q, e) /\ Append(q, e)[i] = q[i]
<1>1. Len(Append(q, e)) = Len(q) + 1 /\ Len(q) \in Nat
  OBVIOUS
<1>2. Append(q, e)[Len(q) + 1] = e /\ Len(q) + 1 \in DOMAIN Append(q, e)
  BY <1>1
<1>3. QED
  BY <1>1, <1>2

LEMMA TailKeeps ==
  ASSUME NEW S, NEW q \in Seq(S), q # <<>>
  PROVE  /\ Tail(q) \in Seq(S)
         /\ Head(q) \in S
         /\ \A i \in DOMAIN q : \/ q[i] = Head(q)
                                \/ \E k \in DOMAIN Tail(q) : Tail(q)[k] = q[i]
<1>1. Len(Tail(q)) = Len(q) - 1 /\ Len(q) \in Nat /\ Len(q) > 0
  OBVIOUS
<1>2. ASSUME NEW i \in DOMAIN q, i # 1
      PROVE  \E k \in DOMAIN Tail(q) : Tail(q)[k] = q[i]
  <2>1. i - 1 \in DOMAIN Tail(q) /\ Tail(q)[i - 1] = q[i]
    BY <1>1, <1>2
  <2>2. QED
    BY <2>1
<1>3. QED
  BY <1>1, <1>2

LEMMA SignalParts ==
  /\ Reset \in Signals
  /\ \A j \in Jobs : Changed(j) \in Signals /\ Changed(j) # Reset /\ Changed(j).job = j
  /\ \A s \in Signals : s # Reset => s.job \in Jobs /\ s = Changed(s.job)
<1>1. \A j \in Jobs : Changed(j).kind # Reset.kind /\ Changed(j).job = j
  BY DEF Changed, Reset
<1>2. \A j \in Jobs : Changed(j) \in Signals /\ Changed(j) # Reset
  BY <1>1 DEF Signals
<1>3. \A s \in Signals : s # Reset => s.job \in Jobs /\ s = Changed(s.job)
  BY <1>1 DEF Signals
<1>4. QED
  BY <1>1, <1>2, <1>3 DEF Signals

-----------------------------------------------------------------------------
\* The first state is well typed.
LEMMA TypeInit == Init => TypeOK
<1> SUFFICES ASSUME Init PROVE TypeOK
  OBVIOUS
<1>1. /\ status \in [Jobs -> Status]
      /\ answer \in [Mine -> Status] \cup {Unread}
      /\ view \in [Mine -> Status] \cup {Unread}
  BY DEF Init, Status
<1>2. channel \in Seq(Jobs) /\ pending \in Seq(Signals) /\ frames \in Seq(Frames)
  BY DEF Init
<1>3. /\ late \subseteq Jobs
      /\ listener \in {"up", "down"}
      /\ connections \in Nat
      /\ serving \in BOOLEAN
      /\ reading \in Jobs \cup {NoJob}
      /\ ending \in BOOLEAN
      /\ conn \in {"closed", "asked", "subscribed", "open", "stopped", "dead"}
      /\ fetch \in {"idle", "asked", "read"}
      /\ banner \in BOOLEAN
  BY DEF Init
<1>4. faults \in 0 .. MaxFaults
  BY EventsAssumption DEF Init
<1>5. QED
  BY <1>1, <1>2, <1>3, <1>4 DEF TypeOK

\* Every step keeps the types.
LEMMA TypeStep == TypeOK /\ [Next]_vars => TypeOK'
<1> SUFFICES ASSUME TypeOK, [Next]_vars PROVE TypeOK'
  OBVIOUS
<1> USE EventsAssumption DEF rowVars, hubVars, streamVars, queryVars
<1>0. /\ Settled \subseteq Status
      /\ \A q \in Seq(Jobs), j \in Jobs : Append(q, j) \in Seq(Jobs)
      /\ \A q \in Seq(Signals), e \in Signals : Append(q, e) \in Seq(Signals)
      /\ \A q \in Seq(Frames), e \in Frames : Append(q, e) \in Seq(Frames)
      /\ <<>> \in Seq(Jobs) /\ <<>> \in Seq(Signals) /\ <<>> \in Seq(Frames)
  BY DEF Settled, Status
<1> DEFINE Emits == \A e \in Signals : Emit(e) => pending' \in Seq(Signals)
           Notifies == \A j \in Jobs : Notify(j) => channel' \in Seq(Jobs)
<1>a. Emits /\ Notifies
  <2>1. pending \in Seq(Signals) /\ channel \in Seq(Jobs)
    BY DEF TypeOK
  <2>2. Emits
    BY <1>0, <2>1 DEF Emit
  <2>3. Notifies
    BY <1>0, <2>1 DEF Notify
  <2>4. QED BY <2>2, <2>3
<1>b. Breaks => faults' \in 0 .. MaxFaults
  BY DEF Breaks, TypeOK
<1>1. ASSUME NEW j \in Jobs, NEW outcome \in Settled, Settle(j, outcome) PROVE TypeOK'
  BY <1>0, <1>a, <1>1 DEF Settle, TypeOK
<1>2. ASSUME NEW j \in Jobs, Reopen(j) PROVE TypeOK'
  BY <1>2 DEF Reopen, TypeOK, Status
<1>3. ASSUME NEW j \in Jobs, Leave(j) PROVE TypeOK'
  BY <1>3 DEF Leave, TypeOK, Status
<1>4. ASSUME NEW j \in Jobs, Forge(j) PROVE TypeOK'
  BY <1>a, <1>b, <1>4 DEF Forge, TypeOK
<1>5. CASE Notified
  <2>1. Head(channel) \in Jobs /\ channel' \in Seq(Jobs)
    BY <1>5, TailKeeps DEF Notified, TypeOK
  <2>2. pending' \in Seq(Signals)
    BY <1>5, <1>a, <2>1, SignalParts DEF Notified
  <2>3. QED
    BY <1>5, <2>1, <2>2 DEF Notified, TypeOK
<1>6. CASE ListenerDrops \/ ApiStops \/ ApiBoots
  <2>1. CASE ListenerDrops
    BY <1>0, <1>b, <2>1 DEF ListenerDrops, TypeOK
  <2>2. CASE ApiStops
    <3>1. conn' \in {"closed", "asked", "subscribed", "open", "stopped", "dead"}
      BY <2>2 DEF ApiStops, TypeOK
    <3>2. QED
      BY <1>0, <1>b, <2>2, <3>1 DEF ApiStops, Dropped, TypeOK
  <2>3. CASE ApiBoots
    BY <2>3 DEF ApiBoots, TypeOK
  <2>4. QED
    BY <1>6, <2>1, <2>2, <2>3
<1>7. CASE ListenerBack
  BY <1>7, <1>a, SignalParts DEF ListenerBack, TypeOK
<1>8. CASE OpenStream \/ Subscribe \/ Unauthorized
  BY <1>b, <1>8 DEF OpenStream, Subscribe, Unauthorized, TypeOK
<1>9. CASE TakeSignal
  <2>1. Head(pending) \in Signals /\ Tail(pending) \in Seq(Signals)
    BY <1>9, TailKeeps DEF TakeSignal, TypeOK
  <2>2. QED
    BY <1>0, <1>9, <2>1, SignalParts DEF TakeSignal, TypeOK
<1>10. CASE ResolveSignal
  <2>1. CASE reading \in Mine /\ status[reading] \in Settled
    <3>1. [job |-> reading, status |-> status[reading]] \in Frames
      BY <2>1 DEF Frames
    <3>2. frames' \in Seq(Frames)
      BY <1>0, <1>10, <2>1, <3>1 DEF ResolveSignal, TypeOK
    <3>3. QED
      BY <1>10, <3>2 DEF ResolveSignal, TypeOK
  <2>2. CASE ~(reading \in Mine /\ status[reading] \in Settled)
    BY <1>10, <2>2 DEF ResolveSignal, TypeOK
  <2>3. QED
    BY <2>1, <2>2
<1>11. CASE ResolveFailed \/ StreamEnds \/ StreamBreaks \/ StreamDies \/ DeathNoticed
  <2>1. CASE ResolveFailed
    BY <1>0, <1>b, <2>1 DEF ResolveFailed, TypeOK
  <2>2. CASE StreamEnds
    BY <1>0, <2>2 DEF StreamEnds, Dropped, TypeOK
  <2>3. CASE StreamBreaks
    BY <1>0, <1>b, <2>3 DEF StreamBreaks, Dropped, TypeOK
  <2>4. CASE StreamDies
    BY <1>0, <1>b, <2>4 DEF StreamDies, Dropped, TypeOK
  <2>5. CASE DeathNoticed
    BY <2>5 DEF DeathNoticed, TypeOK
  <2>6. QED
    BY <1>11, <2>1, <2>2, <2>3, <2>4, <2>5
<1>12. CASE StreamOpens \/ FetchAnswers \/ FetchFails
  <2>1. CASE StreamOpens
    BY <2>1 DEF StreamOpens, Refresh, TypeOK
  <2>2. CASE FetchAnswers
    BY <2>2 DEF FetchAnswers, TypeOK
  <2>3. CASE FetchFails
    BY <1>b, <2>3 DEF FetchFails, TypeOK
  <2>4. QED
    BY <1>12, <2>1, <2>2, <2>3
<1>13. CASE FrameArrives
  <2>1. frames' \in Seq(Frames)
    BY <1>13, TailKeeps DEF FrameArrives, TypeOK
  <2>2. QED
    BY <1>13, <2>1 DEF FrameArrives, Refresh, TypeOK
<1>14. CASE FetchReads
  BY <1>14 DEF FetchReads, TypeOK
<1>15. CASE UNCHANGED vars
  BY <1>15 DEF vars, TypeOK
<1>16. QED
  BY <1>1, <1>2, <1>3, <1>4, <1>5, <1>6, <1>7, <1>8, <1>9, <1>10, <1>11, <1>12, <1>13,
     <1>14, <1>15 DEF Next

-----------------------------------------------------------------------------
\* The process, its listener and its streams come and go together.
LEMMA HubStep == TypeOK /\ HubAgrees /\ [Next]_vars => HubAgrees'
<1> SUFFICES ASSUME TypeOK, HubAgrees, [Next]_vars PROVE HubAgrees'
  OBVIOUS
<1> USE DEF rowVars, hubVars, streamVars, queryVars
<1>1. ASSUME UNCHANGED <<listener, connections, serving>>, conn' = conn PROVE HubAgrees'
  BY <1>1 DEF HubAgrees
<1>2. CASE \/ \E j \in Jobs : \/ \E outcome \in Settled : Settle(j, outcome)
                             \/ Reopen(j) \/ Leave(j) \/ Forge(j)
           \/ Notified
           \/ TakeSignal \/ ResolveSignal \/ ResolveFailed \/ FrameArrives
           \/ FetchReads \/ FetchAnswers \/ FetchFails
           \/ UNCHANGED vars
  BY <1>1, <1>2 DEF Settle, Reopen, Leave, Forge, Notified, TakeSignal, ResolveSignal,
     ResolveFailed, FrameArrives, FetchReads, FetchAnswers, FetchFails, vars
<1>3. CASE ListenerDrops
  BY <1>3 DEF ListenerDrops, HubAgrees
<1>4. CASE ListenerBack
  BY <1>4 DEF ListenerBack, HubAgrees, TypeOK
<1>5. CASE ApiStops
  BY <1>5 DEF ApiStops, HubAgrees
<1>6. CASE ApiBoots
  BY <1>6 DEF ApiBoots, HubAgrees
<1>7. CASE \/ OpenStream \/ Subscribe \/ Unauthorized \/ StreamEnds \/ StreamBreaks
           \/ StreamDies \/ DeathNoticed \/ StreamOpens
  BY <1>7 DEF OpenStream, Subscribe, Unauthorized, StreamEnds, StreamBreaks, StreamDies,
     DeathNoticed, StreamOpens, HubAgrees
<1>8. QED
  BY <1>2, <1>3, <1>4, <1>5, <1>6, <1>7 DEF Next

\* The screen never loses the data it had.
LEMMA DataStep == TypeOK /\ HasData /\ [Next]_vars => HasData'
<1> SUFFICES ASSUME TypeOK, HasData, [Next]_vars PROVE HasData'
  OBVIOUS
<1> USE DEF rowVars, hubVars, streamVars, queryVars
<1>0. Unread' = Unread
  BY DEF Unread
<1>1. CASE FetchReads
  <2>1. PICK j \in Mine : TRUE
    BY EventsAssumption
  <2>2. answer'[j] = status[j] /\ status[j] # "unread"
    BY <1>1, EventsAssumption DEF FetchReads, TypeOK, Status, Settled
  <2>3. answer' # Unread
    BY <2>2 DEF Unread
  <2>4. QED
    BY <1>0, <1>1, <2>3 DEF FetchReads, HasData
<1>2. CASE FetchAnswers \/ FetchFails
  BY <1>0, <1>2 DEF FetchAnswers, FetchFails, HasData
<1>3. ASSUME view' = view, fetch' = "asked" \/ UNCHANGED <<fetch, answer>> PROVE HasData'
  BY <1>0, <1>3 DEF HasData
<1>4. CASE StreamOpens \/ FrameArrives
  BY <1>3, <1>4 DEF StreamOpens, FrameArrives, Refresh
<1>5. CASE UNCHANGED queryVars
  BY <1>3, <1>5
<1>6. \/ FetchReads \/ FetchAnswers \/ FetchFails \/ StreamOpens \/ FrameArrives
      \/ UNCHANGED queryVars
  BY DEF Next, vars, Settle, Reopen, Leave, Forge, Notified, ListenerDrops, ListenerBack,
     ApiStops, ApiBoots, OpenStream, Subscribe, Unauthorized, TakeSignal, ResolveSignal,
     ResolveFailed, StreamEnds, StreamBreaks, StreamDies, DeathNoticed
<1>7. QED
  BY <1>1, <1>2, <1>4, <1>5, <1>6

-----------------------------------------------------------------------------
\* A signal reaches a stream that is subscribed, and pushes none out.
LEMMA EmitKeeps ==
  ASSUME TypeOK, NEW e \in Signals, Emit(e)
  PROVE  /\ Subscribed => \E i \in DOMAIN pending' : pending'[i] = e
         /\ \A f \in Signals : (\E i \in DOMAIN pending : pending[i] = f)
                               => \E i \in DOMAIN pending' : pending'[i] = f
<1>1. CASE Subscribed
  <2>1. pending' = Append(pending, e) /\ pending \in Seq(Signals)
    BY <1>1 DEF Emit, TypeOK
  <2>2. QED
    BY <2>1, AppendKeeps
<1>2. CASE ~Subscribed
  BY <1>2 DEF Emit
<1>3. QED
  BY <1>1, <1>2

\* A notification reaches a listener that is up, and pushes none out.
LEMMA NotifyKeeps ==
  ASSUME TypeOK, NEW k \in Jobs, Notify(k)
  PROVE  /\ listener = "up" => \E i \in DOMAIN channel' : channel'[i] = k
         /\ \A j \in Jobs : (\E i \in DOMAIN channel : channel[i] = j)
                            => \E i \in DOMAIN channel' : channel'[i] = j
<1>1. CASE listener = "up"
  <2>1. channel' = Append(channel, k) /\ channel \in Seq(Jobs)
    BY <1>1 DEF Notify, TypeOK
  <2>2. QED
    BY <2>1, AppendKeeps
<1>2. CASE listener # "up"
  BY <1>2 DEF Notify
<1>3. QED
  BY <1>1, <1>2

-----------------------------------------------------------------------------
\* The heart of it: whatever step is taken, a settlement the screen does not
\* show stays on its way.
LEMMA ForgottenStep ==
  TypeOK /\ HubAgrees /\ HasData /\ NeverForgotten /\ [Next]_vars => NeverForgotten'
<1> DEFINE Fine(j) == \/ fetch # "read" /\ Shown(j, view)
                      \/ OnItsWay(j)
                      \/ conn = "dead"
                      \/ banner
<1> SUFFICES ASSUME TypeOK, HubAgrees, HasData, NeverForgotten, [Next]_vars,
                    NEW j \in Mine, status'[j] \in Settled
             PROVE  Fine(j)'
  BY DEF NeverForgotten
<1> USE DEF rowVars, hubVars, streamVars, queryVars
<1>j. j \in Jobs /\ Changed(j) \in Signals /\ Reset \in Signals
  BY EventsAssumption, SignalParts
<1>f. status[j] \in Settled => Fine(j)
  BY DEF NeverForgotten
<1> HIDE DEF Fine
\* Steps that leave the row alone and take nothing off its way.
<1>k. ASSUME status'[j] = status[j],
             UNCHANGED <<listener, conn, ending, reading, frames, queryVars>>,
             (\E i \in DOMAIN channel : channel[i] = j)
               => \E i \in DOMAIN channel' : channel'[i] = j,
             \A f \in Signals : (\E i \in DOMAIN pending : pending[i] = f)
               => \E i \in DOMAIN pending' : pending'[i] = f
      PROVE  Fine(j)'
  BY <1>j, <1>f, <1>k DEF Fine, OnItsWay, Shown
<1>1. ASSUME NEW k \in Jobs, NEW outcome \in Settled, Settle(k, outcome) PROVE Fine(j)'
  <2>1. CASE k = j
    BY <1>1, <1>j, <2>1, NotifyKeeps DEF Settle, Fine, OnItsWay, TypeOK
  <2>2. CASE k # j
    BY <1>1, <1>j, <1>k, <2>2, NotifyKeeps DEF Settle, TypeOK
  <2>3. QED
    BY <2>1, <2>2
<1>2. ASSUME NEW k \in Jobs, Reopen(k) \/ Leave(k) PROVE Fine(j)'
  <2>1. status'[j] = status[j]
    BY <1>2, <1>j DEF Reopen, Leave, TypeOK, Settled
  <2>2. QED
    BY <1>2, <1>k, <2>1 DEF Reopen, Leave
<1>3. ASSUME NEW k \in Jobs, Forge(k) PROVE Fine(j)'
  BY <1>3, <1>j, <1>k, NotifyKeeps DEF Forge
<1>4. CASE Notified
  <2>1. Head(channel) \in Jobs /\ Changed(Head(channel)) \in Signals
    BY <1>4, TailKeeps, SignalParts DEF Notified, TypeOK
  <2>2. CASE Head(channel) = j
    BY <1>4, <1>j, <2>1, <2>2, EmitKeeps DEF Notified, Fine, OnItsWay, Subscribed, TypeOK
  <2>3. CASE Head(channel) # j
    <3>1. (\E i \in DOMAIN channel : channel[i] = j)
            => \E i \in DOMAIN channel' : channel'[i] = j
      BY <1>4, <2>3, TailKeeps DEF Notified, TypeOK
    <3>2. QED
      BY <1>4, <1>k, <2>1, <3>1, EmitKeeps DEF Notified
  <2>4. QED
    BY <2>2, <2>3
<1>5. CASE ListenerDrops
  BY <1>5 DEF ListenerDrops, Fine, OnItsWay
<1>6. CASE ListenerBack
  <2>1. connections + 1 > 1
    BY <1>6 DEF ListenerBack, HubAgrees, TypeOK
  <2>2. Emit(Reset) /\ UNCHANGED <<conn, ending>>
    BY <1>6, <2>1 DEF ListenerBack
  <2>3. CASE Subscribed
    BY <1>j, <2>2, <2>3, EmitKeeps DEF Fine, OnItsWay
  <2>4. CASE ~Subscribed
    BY <2>2, <2>4 DEF Subscribed, Fine, OnItsWay
  <2>5. QED
    BY <2>3, <2>4
<1>7. CASE ApiStops
  BY <1>7 DEF ApiStops, Fine, OnItsWay
<1>8. CASE ApiBoots
  BY <1>8 DEF ApiBoots, HubAgrees, Fine, OnItsWay
<1>9. CASE \/ OpenStream \/ Subscribe \/ Unauthorized \/ StreamEnds \/ StreamBreaks
           \/ StreamDies \/ DeathNoticed
  BY <1>9 DEF OpenStream, Subscribe, Unauthorized, StreamEnds, StreamBreaks, StreamDies,
     DeathNoticed, Fine, OnItsWay
<1>10. CASE TakeSignal
  <2>1. CASE Head(pending) = Reset
    BY <1>10, <2>1 DEF TakeSignal, Fine, OnItsWay
  <2>2. CASE Head(pending) # Reset
    <3>1. Head(pending) \in Signals /\ Head(pending) = Changed(Head(pending).job)
      BY <1>10, <2>2, TailKeeps, SignalParts DEF TakeSignal, TypeOK
    <3>2. reading' = Head(pending).job /\ pending' = Tail(pending) /\ ending' = ending
      BY <1>10, <2>2 DEF TakeSignal
    <3>3. CASE Head(pending) = Changed(j)
      <4>1. reading' = j
        BY <3>2, <3>3, <1>j, SignalParts
      <4>2. QED
        BY <4>1 DEF Fine, OnItsWay
    <3>4. CASE Head(pending) # Changed(j)
      <4>1. \A f \in {Reset, Changed(j)} : (\E i \in DOMAIN pending : pending[i] = f)
              => \E i \in DOMAIN pending' : pending'[i] = f
        BY <1>10, <2>2, <3>2, <3>4, TailKeeps DEF TakeSignal, TypeOK
      <4>2. status'[j] = status[j] /\ reading = NoJob
            /\ UNCHANGED <<listener, channel, conn, frames, queryVars>>
        BY <1>10 DEF TakeSignal
      <4>3. QED
        BY <1>j, <1>f, <3>2, <4>1, <4>2, EventsAssumption DEF Fine, OnItsWay, Shown
    <3>5. QED
      BY <3>3, <3>4
  <2>3. QED
    BY <2>1, <2>2
<1>11. CASE ResolveSignal
  <2>1. status' = status /\ UNCHANGED <<listener, channel, pending, conn, ending, queryVars>>
    BY <1>11 DEF ResolveSignal
  <2>2. CASE reading = j
    <3>1. [job |-> j, status |-> status[j]] \in Frames
      BY <1>j, <2>1 DEF Frames
    <3>2. PICK frame \in Frames : frame.job = j /\ frames' = Append(frames, frame)
      BY <1>11, <2>1, <2>2, <3>1 DEF ResolveSignal
    <3>3. frames \in Seq(Frames)
      BY DEF TypeOK
    <3>4. \E i \in DOMAIN frames' : frames'[i] = frame
      BY <3>2, <3>3, AppendKeeps
    <3>5. QED
      BY <3>2, <3>4 DEF Fine, OnItsWay
  <2>3. CASE reading # j
    <3>1. (\E i \in DOMAIN frames : frames[i].job = j)
            => \E i \in DOMAIN frames' : frames'[i].job = j
      <4>1. CASE reading \in Mine /\ status[reading] \in Settled
        <5>1. [job |-> reading, status |-> status[reading]] \in Frames
          BY <4>1, EventsAssumption DEF Frames
        <5>2. \A i \in DOMAIN frames : i \in DOMAIN frames' /\ frames'[i] = frames[i]
          BY <1>11, <4>1, <5>1, AppendKeeps DEF ResolveSignal, TypeOK
        <5>3. QED
          BY <5>2
      <4>2. CASE ~(reading \in Mine /\ status[reading] \in Settled)
        BY <1>11, <4>2 DEF ResolveSignal
      <4>3. QED
        BY <4>1, <4>2
    <3>2. QED
      BY <1>f, <2>1, <2>3, <3>1 DEF Fine, OnItsWay, Shown
  <2>4. QED
    BY <2>2, <2>3
<1>12. CASE ResolveFailed
  BY <1>12 DEF ResolveFailed, Fine, OnItsWay
<1>13. CASE StreamOpens \/ FrameArrives
  BY <1>13 DEF StreamOpens, FrameArrives, Refresh, HasData, Fine, OnItsWay
<1>14. CASE FetchReads
  BY <1>14 DEF FetchReads, Fine, OnItsWay, Shown
<1>15. CASE FetchAnswers
  BY <1>15, <1>f DEF FetchAnswers, Fine, OnItsWay, Shown
<1>16. CASE FetchFails
  BY <1>16 DEF FetchFails, Fine
<1>17. CASE UNCHANGED vars
  BY <1>17, <1>k DEF vars
<1>18. QED
  BY <1>1, <1>2, <1>3, <1>4, <1>5, <1>6, <1>7, <1>8, <1>9, <1>10, <1>11, <1>12, <1>13,
     <1>14, <1>15, <1>16, <1>17 DEF Next

-----------------------------------------------------------------------------
\* With its first data at hand, the inductive invariant holds.
THEOREM EventsInductive == LoadedFirst => (Spec => []Inductive)
<1> SUFFICES ASSUME LoadedFirst PROVE Spec => []Inductive
  OBVIOUS
<1>1. Init => Inductive
  <2> SUFFICES ASSUME Init PROVE Inductive
    OBVIOUS
  <2>1. TypeOK
    BY TypeInit
  <2>2. HubAgrees
    BY DEF Init, HubAgrees
  <2>3. HasData
    <3>1. PICK j \in Mine : TRUE
      BY EventsAssumption
    <3>2. view[j] = "active"
      BY DEF Init
    <3>3. view # Unread
      BY <3>2 DEF Unread
    <3>4. QED
      BY <3>3 DEF Init, HasData
  <2>4. NeverForgotten
    BY EventsAssumption DEF Init, NeverForgotten, Settled
  <2>5. QED
    BY <2>1, <2>2, <2>3, <2>4 DEF Inductive
<1>2. Inductive /\ [Next]_vars => Inductive'
  BY TypeStep, HubStep, DataStep, ForgottenStep DEF Inductive
<1>3. QED
  BY <1>1, <1>2, PTL DEF Spec

\* Every reachable state is well typed, the first load included.
THEOREM EventsTypeCorrect == Spec => []TypeOK
<1>1. QED
  BY TypeInit, TypeStep, PTL DEF Spec

\* No settlement is forgotten on its way from the row to the screen.
THEOREM NothingForgotten == LoadedFirst => (Spec => []NeverForgotten)
<1>1. Inductive => NeverForgotten
  BY DEF Inductive
<1>2. QED
  BY <1>1, EventsInductive, PTL

\* When nothing is under way, an open stream leaves the screen right.
THEOREM QuietIsShown == LoadedFirst => (Spec => []QuietMeansShown)
<1>1. Inductive => QuietMeansShown
  <2> SUFFICES ASSUME Inductive,
                      conn = "open", ~ending, listener = "up", channel = <<>>,
                      pending = <<>>, reading = NoJob, frames = <<>>,
                      fetch = "idle", ~banner,
                      NEW j \in Mine, status[j] \in Settled
               PROVE  Shown(j, view)
    BY DEF QuietMeansShown
  <2>1. j # NoJob
    BY EventsAssumption
  <2>2. ~OnItsWay(j)
    BY <2>1 DEF OnItsWay
  <2>3. QED
    BY <2>2 DEF Inductive, NeverForgotten
<1>2. QED
  BY <1>1, EventsInductive, PTL

-----------------------------------------------------------------------------
\* A frame is written for a row of the user's that is over; only an attempt
\* that rewrites the row, or a disconnection, makes it say otherwise.
LEMMA FramesStep == TypeOK /\ FramesAreOwn /\ [Next]_vars => FramesAreOwn'
<1> SUFFICES ASSUME TypeOK, FramesAreOwn, [Next]_vars PROVE FramesAreOwn'
  OBVIOUS
<1> USE EventsAssumption DEF rowVars, hubVars, streamVars, queryVars
<1> DEFINE Said(f) == /\ f.job \in Mine
                      /\ \/ status[f.job] = "gone"
                         \/ f.job \in late
                         \/ status[f.job] = f.status
           SaidNow(f) == /\ f.job \in Mine
                         /\ \/ status'[f.job] = "gone"
                            \/ f.job \in late'
                            \/ status'[f.job] = f.status
<1>0. /\ frames \in Seq(Frames) /\ status \in [Jobs -> Status]
      /\ \A i \in DOMAIN frames : frames[i] \in Frames /\ Said(frames[i])
  BY DEF TypeOK, FramesAreOwn
<1>1. ASSUME UNCHANGED frames, \A f \in Frames : Said(f) => SaidNow(f)
      PROVE  FramesAreOwn'
  BY <1>0, <1>1 DEF FramesAreOwn
<1>2. ASSUME UNCHANGED rowVars, frames' = Tail(frames), frames # <<>>
      PROVE  FramesAreOwn'
  <2>1. \A i \in DOMAIN frames' : i + 1 \in DOMAIN frames /\ frames'[i] = frames[i + 1]
    BY <1>0, <1>2
  <2>2. QED
    BY <1>0, <1>2, <2>1 DEF FramesAreOwn
<1>3. ASSUME frames' = <<>> PROVE FramesAreOwn'
  BY <1>3 DEF FramesAreOwn
<1>4. ASSUME NEW j \in Jobs, NEW outcome \in Settled, Settle(j, outcome) PROVE FramesAreOwn'
  <2>1. \A k \in Jobs : k # j => status'[k] = status[k]
    BY <1>0, <1>4 DEF Settle
  <2>2. ASSUME NEW f \in Frames, Said(f) PROVE SaidNow(f)
    <3>1. CASE f.job # j
      BY <1>4, <2>1, <2>2, <3>1 DEF Settle, Frames
    <3>2. CASE f.job = j /\ status[j] = "active"
      BY <1>4, <2>2, <3>2 DEF Settle, Frames, Settled
    <3>3. CASE f.job = j /\ j \in late'
      BY <2>2, <3>3
    <3>4. QED
      BY <1>4, <3>1, <3>2, <3>3 DEF Settle
  <2>3. QED
    BY <1>1, <1>4, <2>2 DEF Settle
<1>5. ASSUME NEW j \in Jobs, Reopen(j) PROVE FramesAreOwn'
  <2>1. /\ \A k \in Jobs : k # j => status'[k] = status[k]
        /\ late' = late \cup {j}
    BY <1>0, <1>5 DEF Reopen
  <2>2. \A f \in Frames : Said(f) => SaidNow(f)
    BY <2>1 DEF Frames
  <2>3. QED
    BY <1>1, <1>5, <2>2 DEF Reopen
<1>6. ASSUME NEW j \in Jobs, Leave(j) PROVE FramesAreOwn'
  <2>1. /\ \A k \in Jobs : k # j => status'[k] = status[k]
        /\ status'[j] = "gone" /\ UNCHANGED late
    BY <1>0, <1>6 DEF Leave
  <2>2. \A f \in Frames : Said(f) => SaidNow(f)
    BY <2>1 DEF Frames
  <2>3. QED
    BY <1>1, <1>6, <2>2 DEF Leave
<1>7. CASE ResolveSignal
  <2> DEFINE f == [job |-> reading, status |-> status[reading]]
  <2>1. CASE reading \in Mine /\ status[reading] \in Settled
    <3>1. frames' = Append(frames, f) /\ UNCHANGED rowVars /\ f \in Frames /\ Said(f)
      BY <1>7, <2>1 DEF ResolveSignal, Frames
    <3>2. \A i \in DOMAIN frames' : frames'[i] = f \/ (i \in DOMAIN frames /\ frames'[i] = frames[i])
      BY <1>0, <3>1
    <3>3. QED
      BY <1>0, <3>1, <3>2 DEF FramesAreOwn
  <2>2. CASE ~(reading \in Mine /\ status[reading] \in Settled)
    BY <1>1, <1>7, <2>2 DEF ResolveSignal
  <2>3. QED
    BY <2>1, <2>2
<1>8. CASE FrameArrives
  BY <1>2, <1>8 DEF FrameArrives
<1>9. CASE ApiStops \/ StreamEnds \/ StreamBreaks \/ StreamDies
  BY <1>3, <1>9 DEF ApiStops, StreamEnds, StreamBreaks, StreamDies, Dropped
<1>10. CASE \/ \E j \in Jobs : Forge(j)
            \/ Notified \/ ListenerDrops \/ ListenerBack \/ ApiBoots
            \/ OpenStream \/ Subscribe \/ Unauthorized \/ DeathNoticed
            \/ TakeSignal \/ ResolveFailed \/ StreamOpens
            \/ FetchReads \/ FetchAnswers \/ FetchFails
            \/ UNCHANGED vars
  <2>1. UNCHANGED <<status, late, frames>>
    BY <1>10 DEF Forge, Notified, ListenerDrops, ListenerBack, ApiBoots, OpenStream, Subscribe,
                 Unauthorized, DeathNoticed, TakeSignal, ResolveFailed, StreamOpens, FetchReads,
                 FetchAnswers, FetchFails, vars
  <2>2. QED
    BY <1>1, <2>1
<1>11. QED
  BY <1>4, <1>5, <1>6, <1>7, <1>8, <1>9, <1>10 DEF Next

\* Whatever anybody put on the channel, a frame names a row of the user's and
\* says of it what it said.
THEOREM OnlyOwnFrames == Spec => []FramesAreOwn
<1>1. Init => FramesAreOwn
  BY DEF Init, FramesAreOwn
<1>2. QED
  BY <1>1, FramesStep, EventsTypeCorrect, PTL DEF Spec
=============================================================================
