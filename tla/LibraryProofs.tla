----------------------------- MODULE LibraryProofs -----------------------------
(***************************************************************************)
(* Proofs about the parts of MCComponents that fill the library or show   *)
(* it: the slot of a provider (ChessAccounts), the fetch from it           *)
(* (ProviderFetch), the import of a PGN (PgnImport) and the list of games  *)
(* (GamesList).                                                            *)
(***************************************************************************)
EXTENDS MCComponents, SequenceTheorems, FiniteSetTheorems, WellFoundedInduction, TLAPS

-----------------------------------------------------------------------------
(* The slot of a provider, for any handles and any number of accounts.     *)

\* What a row of the accounts says of the account this tab connected: it is
\* that account's, unless another is in the slot or none.
Current(a) ==
  account = Nobody \/ account.id # connect.id \/ (a \notin {Nobody, Unknown} /\ a.id = connect.id)

\* A cached query, as a record.
QueryTyped ==
  /\ query = [k \in Slot!Queries |-> query[k]]
  /\ \A k \in Slot!Queries :
       query[k] \in [data : Slot!Answers(k), fetching : BOOLEAN, got : Slot!Answers(k), failed : BOOLEAN]

\* One request of this tab is on its way at a time.  The refresh after a
\* connection reads the accounts anew, unless it failed to or joined a first
\* load that had read them; by then the tour is over, and the account has the
\* number the form was told.
SlotInv ==
  /\ Slot!TypeOK /\ QueryTyped
  /\ connect.pc # "idle" => removal.pc = "idle" /\ resync = "idle"
  /\ removal.pc # "idle" => resync = "idle"
  /\ account # Nobody => account.id <= made
  /\ connect.id <= made
  /\ connect.pc # "idle" => connect.handle \in Handles /\ connect.form \in Slot!Forms
  /\ confirming => query["accounts"].data \notin {Unknown, Nobody}
  /\ connect.pc = "refreshing" =>
       /\ onboarded = TRUE
       /\ "session" \in awaiting \/ query["session"].data = TRUE \/ query["session"].failed
       /\ \/ connect.unread
          \/ /\ query["accounts"].got = Unknown \/ Current(query["accounts"].got)
             /\ "accounts" \in awaiting \/ Current(query["accounts"].data)

LEMMA SlotInit == Slot!Init => SlotInv
<1> SUFFICES ASSUME Slot!Init PROVE SlotInv
  OBVIOUS
<1>1. QueryTyped
  BY DEF Slot!Init, Slot!Loaded, Slot!FirstLoad, QueryTyped, Slot!Answers, Slot!Queries
<1>2. /\ connect = [pc |-> "idle", form |-> Nobody, handle |-> Nobody, id |-> 0, unread |-> FALSE]
      /\ removal = [pc |-> "idle", id |-> 0] /\ resync = "idle" /\ account = Nobody
      /\ made = 0
      /\ awaiting = {} /\ step = 0 /\ ~confirming
      /\ archive \in BOOLEAN /\ watching \in BOOLEAN /\ refused \subseteq Slot!Forms
      /\ page \in Slot!Pages /\ opened \in BOOLEAN
      /\ confirming \in BOOLEAN /\ onboarded \in BOOLEAN
  BY DEF Slot!Init, Slot!NoConnect, Slot!NoRemoval
<1>3. Slot!TypeOK
  BY <1>1, <1>2, SlotAssumption DEF Slot!TypeOK, QueryTyped
<1>4. QED BY <1>1, <1>2, <1>3 DEF SlotInv

\* What is rendered is of its type, and a confirmation is about a row.
LEMMA ScreenTyped ==
  ASSUME NEW o \in BOOLEAN, NEW c \in BOOLEAN, NEW s \in 0..ImportStep, NEW w \in BOOLEAN,
         Slot!Rendered(o, c, s, w), refused \subseteq Slot!Forms
  PROVE  /\ watching' \in BOOLEAN /\ refused' \subseteq Slot!Forms /\ opened' \in BOOLEAN
         /\ confirming' \in BOOLEAN /\ step' \in 0..ImportStep
         /\ confirming' => query'["accounts"].data \notin {Unknown, Nobody}
<1>1. 0 \in 0..ImportStep
  BY SlotAssumption
<1>2. step' \in 0..ImportStep
  BY <1>1 DEF Slot!Rendered
<1>3. /\ watching' \in BOOLEAN /\ refused' \subseteq Slot!Forms /\ opened' \in BOOLEAN
      /\ confirming' \in BOOLEAN
  BY DEF Slot!Rendered, Slot!Shown
<1>4. confirming' => query'["accounts"].data \notin {Unknown, Nobody}
  BY DEF Slot!Rendered, Slot!ConnectedRow, Slot!Ready, Slot!Listed
<1>5. QED BY <1>2, <1>3, <1>4

\* One query is written, or some are invalidated.
LEMMA QueryWritten ==
  ASSUME QueryTyped, NEW k \in Slot!Queries,
         NEW r \in [data : Slot!Answers(k), fetching : BOOLEAN, got : Slot!Answers(k), failed : BOOLEAN],
         query' = [query EXCEPT ![k] = r]
  PROVE  /\ QueryTyped' /\ query'[k] = r
         /\ \A j \in Slot!Queries : j # k => query'[j] = query[j]
<1>1. query'[k] = r /\ \A j \in Slot!Queries : j # k => query'[j] = query[j]
  BY DEF QueryTyped
<1>2. query' = [j \in Slot!Queries |-> query'[j]]
  BY DEF QueryTyped
<1>3. \A j \in Slot!Queries :
        query'[j] \in [data : Slot!Answers(j), fetching : BOOLEAN, got : Slot!Answers(j), failed : BOOLEAN]
  BY <1>1 DEF QueryTyped
<1>4. Slot!Queries' = Slot!Queries /\ \A j : Slot!Answers(j)' = Slot!Answers(j)
  BY DEF Slot!Queries, Slot!Answers
<1>5. QED BY <1>1, <1>2, <1>3, <1>4 DEF QueryTyped

LEMMA QueryInvalidated ==
  ASSUME QueryTyped, NEW qs, query' = Slot!Invalidated(qs)
  PROVE  /\ QueryTyped'
         /\ \A k \in Slot!Queries :
              /\ query'[k].data = query[k].data
              /\ query[k].data # Unknown => query'[k].failed = query[k].failed
              /\ k \in qs /\ query[k].data # Unknown => query'[k].got = Unknown
              /\ query[k].data = Unknown => query'[k].got = query[k].got
              /\ k \notin qs => query'[k] = query[k]
<1>1. query' = [k \in Slot!Queries |-> query'[k]]
  BY DEF Slot!Invalidated
<1>2. ASSUME NEW k \in Slot!Queries
      PROVE  /\ query'[k] \in [data : Slot!Answers(k), fetching : BOOLEAN, got : Slot!Answers(k),
                               failed : BOOLEAN]
             /\ query'[k].data = query[k].data
             /\ query[k].data # Unknown => query'[k].failed = query[k].failed
             /\ k \in qs /\ query[k].data # Unknown => query'[k].got = Unknown
             /\ query[k].data = Unknown => query'[k].got = query[k].got
             /\ k \notin qs => query'[k] = query[k]
  <2>1. /\ query[k] \in [data : Slot!Answers(k), fetching : BOOLEAN, got : Slot!Answers(k),
                         failed : BOOLEAN]
        /\ Unknown \in Slot!Answers(k)
    BY DEF QueryTyped, Slot!Answers
  <2>2. query'[k] = IF k \in qs THEN Slot!Refetched(k) ELSE query[k]
    BY DEF Slot!Invalidated
  <2>3. CASE k \in qs
    BY <2>1, <2>2, <2>3 DEF Slot!Refetched
  <2>4. CASE k \notin qs
    BY <2>1, <2>2, <2>4
  <2>5. QED BY <2>3, <2>4
<1>3. QED BY <1>1, <1>2 DEF QueryTyped, Slot!Queries, Slot!Answers

\* The two facts about the refresh that the form leaves on.
Reread ==
  \/ connect.unread
  \/ /\ query["accounts"].got = Unknown \/ Current(query["accounts"].got)
     /\ "accounts" \in awaiting \/ Current(query["accounts"].data)
Toured ==
  /\ onboarded = TRUE
  /\ "session" \in awaiting \/ query["session"].data = TRUE \/ query["session"].failed

\* No step of the server gives the slot back to an account it was taken from.
LEMMA StaysCurrent ==
  ASSUME SlotInv, connect'.id = connect.id,
         \/ account' = account
         \/ account' = Nobody
         \/ account' # Nobody /\ account # Nobody /\ account'.id = account.id
         \/ account' # Nobody /\ account'.id = made + 1,
         NEW a, Current(a)
  PROVE  Current(a)'
<1>1. connect.id \in 0..MaxAccounts /\ made \in Nat /\ connect.id <= made
  BY SlotAssumption DEF SlotInv, Slot!TypeOK
<1>2. CASE account' # Nobody /\ account'.id = made + 1
  <2>1. made + 1 # connect.id
    BY <1>1, SlotAssumption
  <2>2. QED BY <1>2, <2>1 DEF Current
<1>3. QED BY <1>2 DEF Current

LEMMA SlotNext == SlotInv /\ [Slot!Next]_Slot!vars => SlotInv'
<1> SUFFICES ASSUME SlotInv, [Slot!Next]_Slot!vars PROVE SlotInv'
  OBVIOUS
<1> USE DEF Slot!serverVars, Slot!cacheVars, Slot!uiVars
<1> DEFINE Cached(k) == [data : Slot!Answers(k), fetching : BOOLEAN, got : Slot!Answers(k), failed : BOOLEAN]
<1>0. /\ Slot!TypeOK /\ QueryTyped
      /\ account \in Slot!Accounts \cup {Nobody} /\ made \in 0..MaxAccounts
      /\ awaiting \subseteq Slot!Queries
      /\ connect \in [pc : {"idle", "looking", "verifying", "raced", "marking", "refreshing"},
                      form : Slot!Forms \cup {Nobody}, handle : Handles \cup {Nobody},
                      id : 0..MaxAccounts, unread : BOOLEAN]
      /\ removal \in [pc : {"idle", "sent", "refreshing"}, id : 0..MaxAccounts]
      /\ onboarded \in BOOLEAN /\ archive \in BOOLEAN
      /\ opened \in BOOLEAN /\ confirming \in BOOLEAN /\ step \in 0..ImportStep
      /\ watching \in BOOLEAN /\ refused \subseteq Slot!Forms /\ page \in Slot!Pages
      /\ MaxAccounts \in Nat /\ ImportStep \in Nat \ {0}
      /\ \A k \in Slot!Queries : query[k] \in Cached(k)
  BY SlotAssumption DEF SlotInv, Slot!TypeOK, QueryTyped
\* What remains to be shown of a step, part by part.
<1> DEFINE
     ServerOk ==
       /\ account' \in Slot!Accounts \cup {Nobody} /\ made' \in 0..MaxAccounts
       /\ onboarded' \in BOOLEAN /\ archive' \in BOOLEAN
       /\ account' # Nobody => account'.id <= made'
     ScreenOk ==
       /\ watching' \in BOOLEAN /\ page' \in Slot!Pages /\ refused' \subseteq Slot!Forms
       /\ opened' \in BOOLEAN /\ confirming' \in BOOLEAN /\ step' \in 0..ImportStep
       /\ confirming' => query'["accounts"].data \notin {Unknown, Nobody}
     RequestsOk ==
       /\ connect' \in [pc : {"idle", "looking", "verifying", "raced", "marking", "refreshing"},
                        form : Slot!Forms \cup {Nobody}, handle : Handles \cup {Nobody},
                      id : 0..MaxAccounts, unread : BOOLEAN]
       /\ removal' \in [pc : {"idle", "sent", "refreshing"}, id : 0..MaxAccounts]
       /\ resync' \in {"idle", "sent", "refreshing"}
       /\ connect'.pc # "idle" => removal'.pc = "idle" /\ resync' = "idle"
       /\ removal'.pc # "idle" => resync' = "idle"
       /\ connect'.id <= made'
       /\ connect'.pc # "idle" => connect'.handle \in Handles /\ connect'.form \in Slot!Forms
<1>1. ASSUME ServerOk, ScreenOk, RequestsOk, QueryTyped', awaiting' \subseteq Slot!Queries,
             connect'.pc = "refreshing" => (Reread' /\ Toured')
      PROVE  SlotInv'
  <2>1. DOMAIN query' = Slot!Queries /\ \A k \in Slot!Queries : query'[k] \in Cached(k)
    BY <1>1 DEF QueryTyped, Slot!Queries, Slot!Answers
  <2>2. Slot!TypeOK'
    BY <1>1, <2>1 DEF Slot!TypeOK, Slot!Queries, Slot!Answers, Slot!Accounts, Slot!Pages, Slot!Forms
  <2>3. QED BY <1>1, <2>2 DEF SlotInv, Reread, Toured
<1> HIDE DEF ServerOk, ScreenOk, RequestsOk
\* What stays as it is.
<1>2. UNCHANGED <<account, made, onboarded, archive>> => ServerOk
  BY <1>0 DEF ServerOk, SlotInv
<1>3. UNCHANGED <<watching, page, refused, opened, confirming, step>>
        /\ query'["accounts"].data = query["accounts"].data => ScreenOk
  BY <1>0 DEF ScreenOk, SlotInv
<1>4. UNCHANGED <<connect, removal, resync>> /\ made' >= made /\ made' \in 0..MaxAccounts => RequestsOk
  BY <1>0 DEF RequestsOk, SlotInv, Slot!TypeOK
<1>5. QueryTyped /\ query' = query => QueryTyped'
  BY DEF QueryTyped, Slot!Queries, Slot!Answers
<1>6. ASSUME NEW o \in BOOLEAN, NEW c \in BOOLEAN, NEW s \in 0..ImportStep, NEW w \in BOOLEAN,
             page' \in Slot!Pages, Slot!Rendered(o, c, s, w)
      PROVE  ScreenOk
  BY <1>0, <1>6, ScreenTyped DEF ScreenOk
<1>7. Slot!SameScreen => ScreenOk
  BY <1>0, <1>6 DEF Slot!SameScreen
<1>8. ASSUME connect' = connect, UNCHANGED <<query, awaiting>>, onboarded' \in {onboarded, TRUE},
             \/ account' = account
             \/ account' = Nobody
             \/ account' # Nobody /\ account # Nobody /\ account'.id = account.id
             \/ account' # Nobody /\ account'.id = made + 1
      PROVE  connect'.pc = "refreshing" => Reread' /\ Toured'
  <2> SUFFICES ASSUME connect.pc = "refreshing" PROVE Reread' /\ Toured'
    BY <1>8
  <2>1. Toured /\ Reread
    BY DEF SlotInv, Toured, Reread
  <2>2. \A a : Current(a) => Current(a)'
    BY <1>8, StaysCurrent
  <2>3. QED BY <1>8, <2>1, <2>2 DEF Reread, Toured
\* The cache.
<1>9. CASE Slot!Read
  <2> DEFINE r == [query["accounts"] EXCEPT !.got = Slot!Row(account)]
  <2>1. /\ query' = [query EXCEPT !["accounts"] = r]
        /\ UNCHANGED <<account, made, onboarded, archive, awaiting, watching, page, refused, opened, confirming,
                       step, connect, removal, resync>>
    BY <1>9 DEF Slot!Read
  <2>2. "accounts" \in Slot!Queries /\ Slot!Row(account) \in Slot!Answers("accounts")
    BY <1>0 DEF Slot!Queries, Slot!Answers, Slot!Row, Slot!Rows, Slot!Accounts
  <2>3. r \in Cached("accounts") /\ r.data = query["accounts"].data /\ r.got = Slot!Row(account)
        /\ r.failed = query["accounts"].failed
    BY <1>0, <2>2
  <2> HIDE DEF r
  <2>4. /\ QueryTyped' /\ query'["accounts"] = r
        /\ \A j \in Slot!Queries : j # "accounts" => query'[j] = query[j]
    BY <1>0, <2>1, <2>2, <2>3, QueryWritten
  <2>5. query'["session"] = query["session"]
    BY <2>4 DEF Slot!Queries
  <2>6. Current(Slot!Row(account))
    BY <1>0, SlotAssumption DEF Current, Slot!Row, Slot!Rows, Slot!Accounts
  <2>7. connect'.pc = "refreshing" => Reread' /\ Toured'
    BY <2>1, <2>3, <2>4, <2>5, <2>6 DEF SlotInv, Reread, Toured, Current
  <2>8. QED BY <1>0, <1>1, <1>2, <1>3, <1>4, <2>1, <2>3, <2>4, <2>7
<1>10. ASSUME NEW k \in Slot!Queries, NEW answer \in Slot!Answers(k), answer # Unknown,
              Slot!Landed(k, answer),
              k = "accounts" => answer = query["accounts"].got,
              k = "session" => answer = onboarded
       PROVE  SlotInv'
  <2> DEFINE r == [Slot!FirstLoad EXCEPT !.data = answer, !.fetching = FALSE]
  <2>1. /\ query' = [query EXCEPT ![k] = r] /\ awaiting' = awaiting \ {k} /\ Slot!SameScreen
        /\ UNCHANGED <<account, made, onboarded, archive, connect, removal, resync>>
    BY <1>10 DEF Slot!Landed
  <2>2. /\ r \in Cached(k) /\ r.data = answer /\ r.got = Unknown
    BY DEF Slot!FirstLoad, Slot!Answers
  <2> HIDE DEF r
  <2>3. /\ QueryTyped' /\ query'[k] = r
        /\ \A j \in Slot!Queries : j # k => query'[j] = query[j]
    BY <1>0, <2>1, <2>2, QueryWritten
  <2>4. "accounts" \in Slot!Queries /\ "session" \in Slot!Queries
    BY DEF Slot!Queries
  <2>5. connect'.pc = "refreshing" => Toured'
    BY <1>10, <2>1, <2>2, <2>3, <2>4 DEF SlotInv, Toured
  <2>6. connect'.pc = "refreshing" => Reread'
    BY <1>10, <2>1, <2>2, <2>3, <2>4 DEF SlotInv, Reread, Current
  <2>7. QED BY <1>0, <1>1, <1>2, <1>4, <1>7, <2>1, <2>3, <2>5, <2>6
<1>11. CASE Slot!LandAccounts \/ Slot!LandGames \/ Slot!LandSession
  <2>1. /\ query["accounts"].got \in Slot!Answers("accounts")
        /\ archive \in Slot!Answers("games")
        /\ onboarded \in Slot!Answers("session") /\ archive # Unknown /\ onboarded # Unknown
        /\ "accounts" \in Slot!Queries /\ "session" \in Slot!Queries
        /\ "games" \in Slot!Queries
    BY <1>0, SlotAssumption DEF Slot!Answers, Slot!Queries
  <2>2. QED BY <1>10, <1>11, <2>1 DEF Slot!LandAccounts, Slot!LandGames, Slot!LandSession
<1>12. ASSUME NEW k \in Slot!Queries, Slot!FetchFails(k) PROVE SlotInv'
  <2> DEFINE r == [query[k] EXCEPT !.fetching = FALSE, !.got = Unknown, !.failed = TRUE]
             lost == connect.pc = "refreshing" /\ k = "accounts" /\ k \in awaiting
  <2>1. /\ query' = [query EXCEPT ![k] = r] /\ awaiting' = awaiting \ {k} /\ Slot!SameScreen
        /\ connect' = [connect EXCEPT !.unread = connect.unread \/ lost]
        /\ UNCHANGED <<account, made, onboarded, archive, removal, resync>>
    BY <1>12 DEF Slot!FetchFails
  <2>2. Unknown \in Slot!Answers(k) /\ query[k] \in Cached(k)
    BY <1>0 DEF Slot!Answers
  <2>a. /\ r \in Cached(k) /\ r.data = query[k].data /\ r.got = Unknown /\ r.failed
    BY <2>2
  <2> HIDE DEF r
  <2>3. /\ QueryTyped' /\ query'[k] = r
        /\ \A j \in Slot!Queries : j # k => query'[j] = query[j]
    BY <1>0, <2>1, <2>a, QueryWritten
  <2>4. "accounts" \in Slot!Queries /\ "session" \in Slot!Queries
    BY DEF Slot!Queries
  <2>5. /\ connect'.pc = connect.pc /\ connect'.id = connect.id
        /\ connect'.handle = connect.handle /\ connect'.form = connect.form
        /\ connect'.unread = (connect.unread \/ lost) /\ connect'.unread \in BOOLEAN
    BY <1>0, <2>1
  <2>6. connect'.pc = "refreshing" => Toured'
    BY <2>1, <2>a, <2>3, <2>4, <2>5 DEF SlotInv, Toured
  <2>7. connect'.pc = "refreshing" => Reread'
    BY <2>1, <2>a, <2>3, <2>4, <2>5 DEF SlotInv, Reread, Current
  <2>8. RequestsOk
    <3>1. connect' \in [pc : {"idle", "looking", "verifying", "raced", "marking", "refreshing"},
                        form : Slot!Forms \cup {Nobody}, handle : Handles \cup {Nobody},
                        id : 0..MaxAccounts, unread : BOOLEAN]
      BY <1>0, <2>1
    <3>2. QED BY <1>0, <2>1, <2>5, <3>1 DEF RequestsOk, SlotInv, Slot!TypeOK
  <2>9. QED BY <1>0, <1>1, <1>2, <1>7, <2>1, <2>3, <2>6, <2>7, <2>8
\* Queries invalidated by something that is not the tab's own refresh.
<1>13. ASSUME NEW qs, query' = Slot!Invalidated(qs) \/ query' = query, "session" \notin qs,
              awaiting' = awaiting, Slot!SameScreen,
              UNCHANGED <<made, onboarded, connect, removal, resync>>, ServerOk,
              account' = account \/ (account # Nobody /\ account' # Nobody /\ account'.id = account.id)
       PROVE  SlotInv'
  <2>1. CASE query' = query
    BY <1>0, <1>1, <1>4, <1>5, <1>7, <1>8, <1>13, <2>1
  <2>2. CASE query' = Slot!Invalidated(qs)
    <3>1. "accounts" \in Slot!Queries /\ "session" \in Slot!Queries
      BY DEF Slot!Queries
    <3>2. /\ QueryTyped' /\ query'["session"] = query["session"]
          /\ query'["accounts"].data = query["accounts"].data
          /\ query'["accounts"].got \in {Unknown, query["accounts"].got}
      BY <1>0, <1>13, <2>2, <3>1, QueryInvalidated
    <3>3. \A a : Current(a) => Current(a)'
      BY <1>13, StaysCurrent
    <3>4. connect'.pc = "refreshing" => Reread' /\ Toured'
      BY <1>13, <3>2, <3>3 DEF SlotInv, Reread, Toured
    <3>5. QED BY <1>0, <1>1, <1>4, <1>7, <1>13, <3>2, <3>4
  <2>3. QED BY <1>13, <2>1, <2>2
<1>14. CASE Slot!TryAgain
  BY <1>2, <1>13, <1>14 DEF Slot!TryAgain
\* Other tabs and devices, and the syncs.
<1>15. ASSUME NEW h \in Handles, Slot!ConnectElsewhere(h) PROVE SlotInv'
  <2>a. /\ account' = [id |-> made + 1, handle |-> h, active |-> TRUE] /\ made' = made + 1
        /\ made < MaxAccounts /\ onboarded' \in {onboarded, TRUE}
        /\ UNCHANGED <<archive, query, awaiting, watching, page, refused, opened, confirming, step, connect,
                       removal, resync>>
    BY <1>15 DEF Slot!ConnectElsewhere, Slot!NewAccount, Slot!Elsewhere
  <2>b. made + 1 \in 1..MaxAccounts
    BY <1>0, <2>a
  <2>c. onboarded' \in BOOLEAN
    BY <1>0, <2>a
  <2>1. /\ account' = [id |-> made + 1, handle |-> h, active |-> TRUE] /\ made' = made + 1
        /\ made + 1 \in 1..MaxAccounts /\ onboarded' \in BOOLEAN
        /\ onboarded' \in {onboarded, TRUE}
        /\ UNCHANGED <<archive, query, awaiting, watching, page, refused, opened, confirming, step, connect,
                       removal, resync>>
    BY <2>a, <2>b, <2>c
  <2>2. account' \in Slot!Accounts /\ account'.id = made + 1
    BY <2>1 DEF Slot!Accounts
  <2>3. ServerOk /\ made' >= made /\ made' \in 0..MaxAccounts
    BY <1>0, <2>1, <2>2 DEF ServerOk
  <2>4. connect'.pc = "refreshing" => Reread' /\ Toured'
    <3>1. account' = Nobody \/ (account' # Nobody /\ account'.id = made + 1)
      BY <2>2
    <3>2. QED BY <1>8, <2>1, <3>1
  <2>5. QED BY <1>0, <1>1, <1>3, <1>4, <1>5, <2>1, <2>3, <2>4
<1>16. CASE Slot!RemoveElsewhere
  <2>1. /\ account' = Nobody /\ UNCHANGED <<made, onboarded, query, awaiting, watching, page, refused, opened,
                                            confirming, step, connect, removal, resync>>
        /\ archive' \in BOOLEAN
    BY <1>16 DEF Slot!RemoveElsewhere, Slot!Removed, Slot!Elsewhere
  <2>2. ServerOk
    BY <1>0, <2>1 DEF ServerOk
  <2>3. QED BY <1>0, <1>1, <1>3, <1>4, <1>5, <1>8, <2>1, <2>2
<1>17. CASE Slot!SyncEnds
  <2>1. /\ account # Nobody /\ account' = [account EXCEPT !.active = FALSE]
        /\ archive' \in BOOLEAN
        /\ query' = Slot!Invalidated({"accounts", "games"}) \/ query' = query
        /\ Slot!SameScreen
        /\ UNCHANGED <<made, onboarded, awaiting, connect, removal, resync>>
    BY <1>0, <1>17 DEF Slot!SyncEnds
  <2>2. account' \in Slot!Accounts /\ account'.id = account.id
    BY <1>0, <2>1 DEF Slot!Accounts
  <2>3. ServerOk /\ (account' = Nobody \/ account' # Nobody)
    BY <1>0, <2>1, <2>2 DEF ServerOk, SlotInv
  <2>4. CASE account' # Nobody
    BY <1>13, <2>1, <2>2, <2>3, <2>4
  <2>5. CASE account' = Nobody
    BY <2>2, <2>5, SlotAssumption DEF Slot!Accounts
  <2>6. QED BY <2>4, <2>5
\* The dialogs.
<1>18. ASSUME NEW o \in BOOLEAN, NEW c \in BOOLEAN, NEW s \in 0..ImportStep, Slot!Touch(o, c, s)
       PROVE  SlotInv'
  <2>1. /\ UNCHANGED <<account, made, onboarded, archive, query, awaiting, page, connect, removal,
                       resync>>
        /\ Slot!Rendered(o, c, s, watching)
    BY <1>18 DEF Slot!Touch
  <2>2. ScreenOk
    BY <1>0, <1>6, <2>1
  <2>3. QED BY <1>0, <1>1, <1>2, <1>4, <1>5, <1>8, <2>1, <2>2
<1>19. CASE Slot!OpenDialog \/ Slot!CloseDialog \/ Slot!AskRemoval \/ Slot!CancelRemoval
  BY <1>0, <1>18, <1>19
  DEF Slot!OpenDialog, Slot!CloseDialog, Slot!AskRemoval, Slot!CancelRemoval
<1>20. CASE Slot!NextSlide \/ Slot!Back
  <2>1. /\ step < ImportStep => step + 1 \in 0..ImportStep
        /\ step = ImportStep => step - 1 \in 0..ImportStep
        /\ ImportStep \in 0..ImportStep
    BY <1>0
  <2>2. QED BY <1>0, <1>18, <1>20, <2>1 DEF Slot!NextSlide, Slot!Back
<1>21. CASE Slot!Reload
  <2>1. /\ query' = Slot!Loaded(onboarded) /\ Slot!Rendered(FALSE, FALSE, 0, FALSE)
        /\ connect.pc = "idle" /\ page' \in Slot!Pages
        /\ UNCHANGED <<account, made, onboarded, archive, awaiting, connect, removal, resync>>
    BY <1>21 DEF Slot!Reload, Slot!Busy, Slot!Importing
  <2>0. 0 \in 0..ImportStep
    BY <1>0
  <2>2. QueryTyped'
    <3>1. /\ Unknown \in Slot!Answers("accounts") /\ Unknown \in Slot!Answers("games")
          /\ Unknown \in Slot!Answers("session") /\ onboarded \in Slot!Answers("session")
      BY <1>0 DEF Slot!Answers
    <3>2. \A k \in Slot!Queries :
            query'[k] \in [data : Slot!Answers(k), fetching : BOOLEAN, got : Slot!Answers(k), failed : BOOLEAN]
      BY <2>1, <3>1 DEF Slot!Loaded, Slot!FirstLoad, Slot!Queries
    <3>3. query' = [k \in Slot!Queries |-> query'[k]]
      BY <2>1 DEF Slot!Loaded
    <3>4. QED BY <3>2, <3>3 DEF QueryTyped
  <2>3. ScreenOk
    BY <1>6, <2>0, <2>1
  <2>4. RequestsOk
    BY <1>0, <2>1 DEF RequestsOk, SlotInv, Slot!TypeOK
  <2>5. QED BY <1>0, <1>1, <1>2, <2>1, <2>2, <2>3, <2>4
\* The connect form.
<1>22. ASSUME NEW h \in Typed, NEW f \in Slot!Forms, Slot!Submit(h, f) PROVE SlotInv'
  <2>1. /\ connect' = [pc |-> "looking", form |-> f, handle |-> h, id |-> 0, unread |-> FALSE]
        /\ watching' = TRUE
        /\ removal.pc = "idle" /\ resync = "idle"
        /\ UNCHANGED <<account, made, onboarded, archive, query, awaiting, page, refused, opened, confirming,
                       step, removal, resync>>
    BY <1>22 DEF Slot!Submit, Slot!Busy, Slot!NoConnect
  <2>2. ScreenOk
    BY <1>0, <2>1 DEF ScreenOk, SlotInv
  <2>3. h \in Handles
    BY SlotAssumption
  <2>4. RequestsOk
    BY <1>0, <2>1, <2>3 DEF RequestsOk, SlotInv, Slot!TypeOK
  <2>5. QED BY <1>0, <1>1, <1>2, <1>5, <2>1, <2>2, <2>4
<1> DEFINE Going == [pc : {"verifying", "raced", "marking"}, form : Slot!Forms,
                     handle : Handles, id : 0..MaxAccounts, unread : BOOLEAN]
<1>23. ASSUME NEW next \in Going,
              connect.pc # "idle", Slot!ConnectGoes(next),
              ServerOk, next.id <= made'
       PROVE  SlotInv'
  <2>1. /\ connect' = next /\ next.pc # "refreshing"
        /\ UNCHANGED <<query, awaiting, watching, page, refused, opened, confirming, step, removal, resync>>
    BY <1>23 DEF Slot!ConnectGoes
  <2>2. RequestsOk
    BY <1>0, <1>23, <2>1 DEF RequestsOk, SlotInv, Slot!TypeOK
  <2>3. QED BY <1>0, <1>1, <1>3, <1>5, <1>23, <2>1, <2>2
<1>24. ASSUME NEW refusal \in BOOLEAN, Slot!ConnectEnds(refusal), connect.pc # "idle", ServerOk
       PROVE  SlotInv'
  <2>1. /\ connect' = [pc |-> "idle", form |-> Nobody, handle |-> Nobody, id |-> 0, unread |-> FALSE]
        /\ refused' = IF watching /\ refusal THEN refused \cup {connect.form} ELSE refused
        /\ watching' = FALSE
        /\ UNCHANGED <<query, awaiting, page, opened, confirming, step, removal, resync>>
    BY <1>24 DEF Slot!ConnectEnds, Slot!NoConnect
  <2>2. refused' \subseteq Slot!Forms
    BY <1>0, <1>24, <2>1 DEF SlotInv
  <2>3. ScreenOk
    BY <1>0, <2>1, <2>2 DEF ScreenOk, SlotInv
  <2>4. made' \in 0..MaxAccounts
    BY <1>24 DEF ServerOk
  <2>5. RequestsOk
    BY <1>0, <2>1, <2>4 DEF RequestsOk, SlotInv, Slot!TypeOK
  <2>6. QED BY <1>0, <1>1, <1>5, <1>24, <2>1, <2>3, <2>5
<1>25. ASSUME connect.pc # "idle", account # Nobody, Slot!AlreadyTracked, ServerOk,
              UNCHANGED <<account, made>>
       PROVE  SlotInv'
  <2>1. /\ account.id \in 0..MaxAccounts /\ account.id <= made'
        /\ connect.handle \in Handles /\ connect.form \in Slot!Forms
    BY <1>0, <1>25 DEF SlotInv, Slot!Accounts
  <2>2. CASE Slot!ConnectGoes([connect EXCEPT !.pc = "marking", !.id = account.id])
    <3> DEFINE next == [connect EXCEPT !.pc = "marking", !.id = account.id]
    <3>1. /\ next \in Going
          /\ next.id = account.id
      BY <1>0, <2>1
    <3> HIDE DEF next
    <3>2. QED BY <1>23, <1>25, <2>1, <2>2, <3>1 DEF next
  <2>3. CASE Slot!ConnectEnds(TRUE)
    BY <1>24, <1>25, <2>3
  <2>4. QED BY <1>25, <2>2, <2>3 DEF Slot!AlreadyTracked
<1>26. ASSUME NEW pc \in {"verifying", "raced"}, connect.pc # "idle", ServerOk, made' = made,
              Slot!ConnectGoes([connect EXCEPT !.pc = pc])
       PROVE  SlotInv'
  <2> DEFINE next == [connect EXCEPT !.pc = pc]
  <2>1. /\ next \in Going
        /\ next.id <= made'
    BY <1>0, <1>26 DEF SlotInv
  <2>2. Slot!ConnectGoes(next)
    BY <1>26
  <2> HIDE DEF next
  <2>3. QED BY <1>23, <1>26, <2>1, <2>2
<1>27. CASE Slot!Look
  <2>1. connect.pc # "idle" /\ ServerOk /\ UNCHANGED <<account, made>>
    BY <1>2, <1>27 DEF Slot!Look
  <2>2. CASE account = Nobody
    <3>1. Slot!ConnectGoes([connect EXCEPT !.pc = "verifying"])
      BY <1>27, <2>2 DEF Slot!Look
    <3>2. QED BY <1>26, <2>1, <3>1
  <2>3. CASE account # Nobody
    BY <1>25, <1>27, <2>1, <2>3 DEF Slot!Look
  <2>4. QED BY <2>2, <2>3
<1>28. CASE Slot!ConnectFails
  BY <1>2, <1>24, <1>28 DEF Slot!ConnectFails
<1>29. CASE Slot!Insert
  <2>1. CASE account # Nobody
    <3>1. /\ Slot!ConnectGoes([connect EXCEPT !.pc = "raced"]) /\ connect.pc # "idle"
          /\ UNCHANGED <<account, made, onboarded, archive>>
      BY <1>29, <2>1 DEF Slot!Insert
    <3>2. QED BY <1>2, <1>26, <3>1
  <2>2. CASE account = Nobody
    <3> DEFINE next == [connect EXCEPT !.pc = "marking", !.id = made + 1]
    <3>1. /\ made < MaxAccounts /\ account' = Slot!NewAccount(connect.handle)
          /\ made' = made + 1
          /\ Slot!ConnectGoes(next) /\ connect.pc # "idle"
          /\ UNCHANGED <<onboarded, archive>>
      BY <1>29, <2>2 DEF Slot!Insert
    <3>2. connect.handle \in Handles /\ connect.form \in Slot!Forms
      BY <1>0, <3>1 DEF SlotInv
    <3>3. made + 1 \in 1..MaxAccounts /\ made + 1 \in 0..MaxAccounts /\ made + 1 <= made'
      BY <1>0, <3>1
    <3>4. account' \in Slot!Accounts /\ account'.id = made + 1
      BY <3>1, <3>2, <3>3 DEF Slot!NewAccount, Slot!Accounts
    <3>5. ServerOk
      BY <1>0, <3>1, <3>3, <3>4 DEF ServerOk
    <3>6. /\ next \in Going
          /\ next.id = made + 1
      BY <1>0, <3>2, <3>3
    <3> HIDE DEF next
    <3>7. next.id <= made'
      BY <3>3, <3>6
    <3>8. QED BY <1>23, <3>1, <3>5, <3>6, <3>7
  <2>3. QED BY <2>1, <2>2
<1>30. CASE Slot!LookAgain
  <2>1. connect.pc # "idle" /\ ServerOk /\ UNCHANGED <<account, made>>
    BY <1>2, <1>30 DEF Slot!LookAgain
  <2>2. CASE account = Nobody
    BY <1>24, <1>30, <2>1, <2>2 DEF Slot!LookAgain
  <2>3. CASE account # Nobody
    BY <1>25, <1>30, <2>1, <2>3 DEF Slot!LookAgain
  <2>4. QED BY <2>2, <2>3
<1>31. CASE Slot!Mark
  <2> DEFINE unread == query["accounts"].data = Unknown /\ query["accounts"].got # Unknown
  <2>1. /\ connect.pc = "marking" /\ onboarded' = TRUE
        /\ awaiting' = {"accounts", "session"}
        /\ connect' = [connect EXCEPT !.pc = "refreshing", !.unread = unread]
        /\ query' = Slot!Invalidated({"accounts", "session"}) /\ Slot!SameScreen
        /\ UNCHANGED <<account, made, archive, removal, resync>>
    BY <1>31 DEF Slot!Mark, Slot!Listed
  <2>2. "accounts" \in Slot!Queries /\ "session" \in Slot!Queries
    BY DEF Slot!Queries
  <2>3. /\ QueryTyped' /\ query'["accounts"].data = query["accounts"].data
        /\ ~unread => query'["accounts"].got = Unknown
    BY <1>0, <2>1, <2>2, QueryInvalidated
  <2>4. /\ connect'.pc = "refreshing" /\ connect'.unread = unread /\ connect'.id = connect.id
        /\ connect'.handle = connect.handle /\ connect'.form = connect.form
    BY <1>0, <2>1
  <2>5. Reread' /\ Toured'
    BY <2>1, <2>3, <2>4 DEF Reread, Toured
  <2>6. ServerOk
    BY <1>0, <2>1 DEF ServerOk, SlotInv
  <2>7. RequestsOk
    <3>1. connect' \in [pc : {"idle", "looking", "verifying", "raced", "marking", "refreshing"},
                        form : Slot!Forms \cup {Nobody}, handle : Handles \cup {Nobody},
                        id : 0..MaxAccounts, unread : BOOLEAN]
      BY <1>0, <2>1
    <3>2. QED BY <1>0, <2>1, <2>4, <3>1 DEF RequestsOk, SlotInv, Slot!TypeOK
  <2>8. QED BY <1>1, <1>7, <2>1, <2>2, <2>3, <2>5, <2>6, <2>7
<1>32. CASE Slot!Leave
  <2>1. /\ connect' = [pc |-> "idle", form |-> Nobody, handle |-> Nobody, id |-> 0, unread |-> FALSE]
        /\ UNCHANGED <<account, made, onboarded, archive, query, awaiting, removal, resync>>
        /\ page' \in Slot!Pages
        /\ \E o \in BOOLEAN : Slot!Rendered(o, confirming, step, FALSE)
    BY <1>0, <1>32 DEF Slot!Leave, Slot!NoConnect, Slot!Pages
  <2>2. ScreenOk
    BY <1>0, <1>6, <2>1
  <2>3. RequestsOk
    BY <1>0, <2>1 DEF RequestsOk, SlotInv, Slot!TypeOK
  <2>4. QED BY <1>0, <1>1, <1>2, <1>5, <2>1, <2>2, <2>3
\* The removal and the sync by hand, while no account is being connected.
<1>33. ASSUME connect.pc = "idle", connect' = connect, ServerOk, ScreenOk, QueryTyped',
              awaiting' \subseteq Slot!Queries, made' >= made,
              removal' \in [pc : {"idle", "sent", "refreshing"}, id : 0..MaxAccounts],
              resync' \in {"idle", "sent", "refreshing"},
              removal'.pc # "idle" => resync' = "idle"
       PROVE  SlotInv'
  <2>1. connect.id <= made'
    BY <1>0, <1>33 DEF SlotInv, ServerOk
  <2>2. RequestsOk
    BY <1>0, <1>33, <2>1 DEF RequestsOk
  <2>3. QED BY <1>1, <1>33, <2>2
<1>34. CASE Slot!ConfirmRemoval
  <2>1. /\ confirming /\ connect.pc = "idle" /\ resync = "idle"
        /\ removal' = [pc |-> "sent", id |-> query["accounts"].data.id] /\ watching' = TRUE
        /\ UNCHANGED <<account, made, onboarded, archive, query, awaiting, page, refused, opened, confirming,
                       step, connect, resync>>
    BY <1>34 DEF Slot!ConfirmRemoval, Slot!Busy, Slot!Importing, Slot!Listed
  <2>2. query["accounts"].data \in Slot!Rows
    BY <1>0, <2>1 DEF SlotInv, Slot!Queries, Slot!Answers
  <2>3. query["accounts"].data.id \in 0..MaxAccounts
    BY <2>2 DEF Slot!Rows
  <2>4. ScreenOk
    BY <1>0, <2>1 DEF ScreenOk, SlotInv
  <2>5. QED BY <1>0, <1>2, <1>5, <1>33, <2>1, <2>3, <2>4
<1>35. CASE Slot!Remove
  <2>1. /\ removal.pc = "sent" /\ account' = Nobody /\ archive' = FALSE
        /\ UNCHANGED <<made, onboarded, connect, resync>>
        /\ removal' = [removal EXCEPT !.pc = "refreshing"]
        /\ query' = Slot!Invalidated({"accounts", "games"})
        /\ awaiting' = {"accounts", "games"}
        /\ Slot!SameScreen
    BY <1>35 DEF Slot!Remove, Slot!Removed
  <2>2. connect.pc = "idle" /\ resync = "idle"
    BY <2>1 DEF SlotInv
  <2>3. QueryTyped'
    BY <1>0, <2>1, QueryInvalidated
  <2>4. ServerOk
    BY <1>0, <2>1 DEF ServerOk
  <2>5. awaiting' \subseteq Slot!Queries
    BY <2>1 DEF Slot!Queries
  <2>6. removal' \in [pc : {"idle", "sent", "refreshing"}, id : 0..MaxAccounts]
    BY <1>0, <2>1
  <2>7. QED BY <1>0, <1>7, <1>33, <2>1, <2>2, <2>3, <2>4, <2>5, <2>6
<1>36. CASE Slot!RemovalFails \/ Slot!RemovalDone
  <2>1. /\ removal.pc # "idle" /\ removal' = [pc |-> "idle", id |-> 0]
        /\ UNCHANGED <<account, made, onboarded, archive, query, awaiting, page, connect, resync>>
        /\ Slot!Rendered(opened, confirming /\ ~watching, step, FALSE)
    BY <1>36 DEF Slot!RemovalFails, Slot!RemovalDone, Slot!NoRemoval
  <2>2. connect.pc = "idle" /\ resync \in {"idle", "sent", "refreshing"}
    BY <2>1 DEF SlotInv, Slot!TypeOK
  <2>3. (confirming /\ ~watching) \in BOOLEAN
    OBVIOUS
  <2>4. ScreenOk
    BY <1>0, <1>6, <2>1, <2>3
  <2>5. QED BY <1>0, <1>2, <1>5, <1>33, <2>1, <2>2, <2>4
<1>37. CASE Slot!RequestSync
  <2>1. /\ connect.pc = "idle" /\ removal.pc = "idle" /\ resync' = "sent"
        /\ watching' = TRUE
        /\ UNCHANGED <<account, made, onboarded, archive, query, awaiting, page, refused, opened, confirming,
                       step, connect, removal>>
    BY <1>37 DEF Slot!RequestSync, Slot!Busy, Slot!Importing
  <2>2. ScreenOk
    BY <1>0, <2>1 DEF ScreenOk, SlotInv
  <2>3. QED BY <1>0, <1>2, <1>5, <1>33, <2>1, <2>2
<1>38. CASE Slot!SyncAnswered
  <2>1. /\ resync = "sent" /\ resync' = "refreshing" /\ awaiting' = {"accounts"}
        /\ \/ account # Nobody /\ account' = [account EXCEPT !.active = TRUE]
           \/ account' = account
        /\ query' = Slot!Invalidated({"accounts"}) /\ Slot!SameScreen
        /\ UNCHANGED <<made, onboarded, archive, connect, removal>>
    BY <1>38 DEF Slot!SyncAnswered
  <2>2. connect.pc = "idle" /\ removal.pc = "idle"
    BY <2>1 DEF SlotInv
  <2>3. QueryTyped' /\ awaiting' \subseteq Slot!Queries
    BY <1>0, <2>1, QueryInvalidated DEF Slot!Queries
  <2>4. ServerOk
    <3>1. CASE account # Nobody /\ account' = [account EXCEPT !.active = TRUE]
      <4>1. account' \in Slot!Accounts /\ account'.id = account.id
        BY <1>0, <3>1 DEF Slot!Accounts
      <4>2. QED BY <1>0, <2>1, <3>1, <4>1 DEF ServerOk, SlotInv
    <3>2. CASE account' = account
      BY <1>2, <2>1, <3>2
    <3>3. QED BY <2>1, <3>1, <3>2
  <2>5. QED BY <1>0, <1>7, <1>33, <2>1, <2>2, <2>3, <2>4
<1>39. CASE Slot!SyncRequested
  <2>1. /\ resync = "refreshing" /\ resync' = "idle" /\ watching' = FALSE
        /\ UNCHANGED <<account, made, onboarded, archive, query, awaiting, page, refused, opened, confirming,
                       step, connect, removal>>
    BY <1>39 DEF Slot!SyncRequested
  <2>2. connect.pc = "idle"
    BY <2>1 DEF SlotInv
  <2>3. ScreenOk
    BY <1>0, <2>1 DEF ScreenOk, SlotInv
  <2>4. QED BY <1>0, <1>2, <1>5, <1>33, <2>1, <2>2, <2>3
<1>40. CASE Slot!Visit
  <2>1. /\ UNCHANGED <<account, made, onboarded, archive, query, awaiting, connect, removal, resync>>
        /\ page' \in Slot!Pages /\ Slot!Rendered(opened, confirming, step, watching)
    BY <1>40 DEF Slot!Visit, Slot!Pages
  <2>2. ScreenOk
    BY <1>0, <1>6, <2>1
  <2>3. QED BY <1>0, <1>1, <1>2, <1>4, <1>5, <1>8, <2>1, <2>2
<1>41. CASE UNCHANGED Slot!vars
  <2>1. UNCHANGED <<account, made, onboarded, archive, query, awaiting, watching, page, refused, opened,
                    confirming, step, connect, removal, resync>>
    BY <1>41 DEF Slot!vars
  <2>2. QED BY <1>0, <1>1, <1>2, <1>3, <1>4, <1>5, <1>8, <2>1
<1>42. QED
  BY <1>9, <1>11, <1>12, <1>14, <1>15, <1>16, <1>17, <1>19, <1>20, <1>21, <1>22, <1>27,
     <1>28, <1>29,
     <1>30, <1>31, <1>32, <1>34, <1>35, <1>36, <1>37, <1>38, <1>39, <1>40,
     <1>41 DEF Slot!Next

LEMMA SlotPart == AllSpec => Slot!Spec
<1>1. Starts => Slot!Init
  BY DEF Starts
<1>2. [AnyStep]_allVars => [Slot!Next]_Slot!vars
  <2>1. ASSUME AnyStep PROVE [Slot!Next]_Slot!vars
    BY <2>1 DEF AnyStep, Alone, slotVars, Slot!vars, Slot!serverVars, Slot!cacheVars,
                Slot!uiVars
  <2>2. ASSUME UNCHANGED allVars PROVE UNCHANGED Slot!vars
    BY <2>2 DEF allVars, slotVars, Slot!vars, Slot!serverVars, Slot!cacheVars, Slot!uiVars
  <2>3. QED BY <2>1, <2>2
<1>3. QED BY <1>1, <1>2, PTL DEF AllSpec, Slot!Spec

\* The connect form closes, or leaves its page, over fresh data: the account
\* it connected, if it still exists, is listed, and the session knows that
\* the tour is over, whatever other refreshes ran meanwhile, unless the refresh
\* failed or joined a first load of the accounts that had read them already.
THEOREM FormLeavesOnFresh == AllSpec => LeavesOnFresh
<1> DEFINE Fresh == connect.pc = "refreshing" /\ connect'.pc # "refreshing" =>
                      /\ \/ query["session"].data = TRUE \/ query["session"].failed
                      /\ \/ connect.unread
                         \/ account = Nobody \/ account.id # connect.id
                         \/ Slot!Listed \notin {Nobody, Unknown} /\ Slot!Listed.id = connect.id
<1>1. SlotInv /\ [Slot!Next]_Slot!vars => [Fresh]_Slot!vars
  <2> SUFFICES ASSUME SlotInv, Slot!Next, connect.pc = "refreshing", connect'.pc # "refreshing"
               PROVE  Fresh
    OBVIOUS
  <2> USE DEF Slot!serverVars, Slot!cacheVars, Slot!uiVars
  <2>1. connect' # connect
    OBVIOUS
  <2>6. \A k : ~Slot!FetchFails(k)
    BY DEF Slot!FetchFails, SlotInv, Slot!TypeOK
  <2>2. removal.pc = "idle" /\ resync = "idle"
    BY DEF SlotInv
  <2>3. Slot!Leave
    BY <2>1, <2>6, <2>2
       DEF Slot!Next, Slot!Read, Slot!LandAccounts, Slot!LandGames, Slot!LandSession,
           Slot!Landed,
           Slot!TryAgain, Slot!ConnectElsewhere, Slot!Elsewhere,
           Slot!Submit,
           Slot!RemoveElsewhere, Slot!SyncEnds, Slot!Visit, Slot!Reload, Slot!OpenDialog,
           Slot!CloseDialog,
           Slot!AskRemoval, Slot!CancelRemoval, Slot!NextSlide, Slot!Back, Slot!Touch,
           Slot!Look,
           Slot!ConnectFails, Slot!Insert, Slot!LookAgain, Slot!Mark, Slot!ConfirmRemoval,
           Slot!Remove,
           Slot!RemovalFails, Slot!RemovalDone, Slot!RequestSync, Slot!SyncAnswered,
           Slot!SyncRequested, Slot!Busy, Slot!Importing
  <2>4. awaiting = {}
    BY <2>3 DEF Slot!Leave
  <2>5. QED BY <2>4 DEF SlotInv, Current, Slot!Listed
<1>2. SlotInv /\ [Slot!Next]_Slot!vars => SlotInv'
  BY SlotNext
<1> HIDE DEF Fresh
<1>3. Slot!Spec => [][Fresh]_Slot!vars
  BY <1>1, <1>2, SlotInit, PTL DEF Slot!Spec
<1>4. QED BY <1>3, SlotPart DEF LeavesOnFresh, Slot!LeavesOnFresh, Fresh

-----------------------------------------------------------------------------
(* The fetch from a provider, whatever fails in whichever pass, for any    *)
(* number of games and months and any page size.                           *)

Walks == [pc : {"idle", "month", "page", "commit"}, months : SUBSET Provider!Months, last : Nat,
          next : Nat, got : SUBSET Provider!Games, advancing : BOOLEAN, failures : SUBSET Provider!Reasons]

ProviderTyped ==
  /\ provider \in {"chess_com", "lichess"} /\ kind \in [Provider!Games -> Provider!Kinds]
  /\ ended \in [Provider!Games -> 0..MaxMonths] /\ now \in Provider!Months
  /\ cursor \in Nat /\ from \in Nat /\ stored \in SUBSET Provider!Games
  /\ walk \in Walks
  /\ overtaken \in SUBSET Provider!Games /\ (provider = "chess_com" => overtaken = {})

\* No game has ended in a month to come.
Chronicle == \A g \in Provider!Games : ended[g] <= now

Readable(g) == ended[g] # 0 /\ kind[g] = "standard"

\* Of Chess.com: what lies before the cursor is stored, and what lies before a
\* month still to be read is stored or lies in another of them, unless a month
\* failed.
Checkpoints ==
  provider = "chess_com" =>
    /\ cursor <= now
    /\ \A g \in Provider!Games : Readable(g) /\ from <= ended[g] /\ ended[g] < cursor => g \in stored
    /\ walk.pc # "page" /\ (walk.pc = "month" => walk.months # {})
    /\ \A m \in walk.months : m <= now
    /\ walk.pc # "idle" => walk.next = cursor
    /\ walk.pc = "month" /\ walk.advancing =>
         \A g \in Provider!Games, m \in walk.months :
           Readable(g) /\ from <= ended[g] /\ ended[g] < m =>
             g \in stored \/ ended[g] \in walk.months

\* Of Lichess: what lies before the cursor is stored, or ended when the cursor
\* was past it, and what lies before the cursor of the page under way was read
\* with it, unless it ended since.
Pages ==
  provider = "lichess" =>
    /\ \A g \in Provider!Games : g < cursor /\ Readable(g) => g \in stored \cup overtaken
    /\ walk.pc # "month"
    /\ walk.pc = "page" => walk.next = cursor /\ walk.got = {}
    /\ walk.pc = "commit" =>
         \A g \in Provider!Games : g < walk.next /\ Readable(g) =>
           g \in stored \cup walk.got \cup overtaken

ProviderInv == ProviderTyped /\ Chronicle /\ Checkpoints /\ Pages

-----------------------------------------------------------------------------
LEMMA MinOf ==
  ASSUME NEW S \in SUBSET Nat, S # {}
  PROVE  Provider!Min(S) \in S /\ \A y \in S : Provider!Min(S) <= y
<1>1. PICK x \in S : \A y \in S : ~(<<y, x>> \in OpToRel(<, Nat))
  BY NatLessThanWellFounded, WFMin
<1>2. \A y \in S : x <= y
  <2>1. \A y \in S : ~(y < x)
    BY <1>1 DEF OpToRel
  <2>2. QED BY <2>1
<1>3. QED BY <1>2 DEF Provider!Min

LEMMA MaxOf ==
  ASSUME NEW N \in Nat, NEW S \in SUBSET (0..N), S # {}
  PROVE  Provider!Max(S) \in S /\ \A y \in S : y <= Provider!Max(S)
<1> DEFINE T == {N - y : y \in S}
<1>1. \A y \in S : y \in 0..N /\ N - y \in Nat
  OBVIOUS
<1>2. T \in SUBSET Nat /\ T # {}
  BY <1>1
<1>3. \A y \in S : N - y \in T
  OBVIOUS
<1> HIDE DEF T
<1>4. Provider!Min(T) \in T /\ \A y \in S : Provider!Min(T) <= N - y
  BY <1>2, <1>3, MinOf
<1>5. PICK x \in S : Provider!Min(T) = N - x
  BY <1>4 DEF T
<1>6. \A y \in S : x >= y
  BY <1>1, <1>4, <1>5
<1>7. QED BY <1>6 DEF Provider!Max

\* The instance counts as FiniteSets does.
LEMMA SameCount == \A S : Provider!Cardinality(S) = Cardinality(S)
BY DEF Provider!Cardinality, Cardinality

\* A part of a set of months or games is no larger than the set.
LEMMA Fewer ==
  ASSUME NEW N \in Nat, NEW S \in SUBSET (1..N), NEW T \in SUBSET S
  PROVE  /\ Provider!Cardinality(T) \in Nat /\ Provider!Cardinality(S) \in Nat
         /\ Provider!Cardinality(T) <= Provider!Cardinality(S)
<1>1. IsFiniteSet(S)
  <2>1. IsFiniteSet(1..N)
    BY FS_Interval
  <2>2. QED BY <2>1, FS_Subset
<1>2. QED BY <1>1, FS_Subset, FS_CardinalityType, SameCount

LEMMA FetchInit == Provider!Init => ProviderInv
<1> SUFFICES ASSUME Provider!Init PROVE ProviderInv
  OBVIOUS
<1>1. Provider!Idle \in Walks /\ Provider!Idle.pc = "idle" /\ Provider!Idle.months = {}
  BY DEF Provider!Idle, Walks
<1>2. ProviderTyped
  BY <1>1, ProviderAssumption DEF Provider!Init, ProviderTyped, Provider!Months
<1>3. /\ \A g \in Provider!Games : ended[g] = 0 /\ ~(g < cursor)
      /\ cursor = 0 /\ now = 1 /\ walk.pc = "idle" /\ walk.months = {} /\ overtaken = {}
  BY <1>1 DEF Provider!Init, Provider!Games
<1>4. Chronicle
  BY <1>3 DEF Chronicle
<1>5. Checkpoints
  BY <1>3 DEF Checkpoints, Readable
<1>6. Pages
  BY <1>3 DEF Pages
<1>7. QED BY <1>2, <1>4, <1>5, <1>6 DEF ProviderInv

-----------------------------------------------------------------------------
LEMMA EndGameKeeps ==
  ASSUME ProviderInv, NEW g \in Provider!Games, Provider!EndGame(g)
  PROVE  ProviderInv'
<1>1. /\ ended[g] = 0 /\ ended' = [ended EXCEPT ![g] = now]
      /\ overtaken' = IF provider = "lichess" /\ (g < cursor \/ g < walk.next)
                        THEN overtaken \cup {g} ELSE overtaken
      /\ UNCHANGED <<provider, kind, now, cursor, from, stored, walk>>
  BY DEF Provider!EndGame, Provider!storedVars
<1>2. /\ ended' \in [Provider!Games -> 0..MaxMonths] /\ ended'[g] = now
      /\ \A h \in Provider!Games \ {g} : ended'[h] = ended[h]
  BY <1>1 DEF ProviderInv, ProviderTyped, Provider!Months
<1>3. ProviderTyped'
  BY <1>1, <1>2 DEF ProviderInv, ProviderTyped
<1>4. Chronicle'
  BY <1>1, <1>2 DEF ProviderInv, ProviderTyped, Chronicle, Provider!Months, Provider!Games
<1>5. Checkpoints'
  <2> SUFFICES ASSUME provider = "chess_com" PROVE Checkpoints'
    BY <1>1 DEF Checkpoints
  <2>1. cursor <= now /\ cursor \in Nat /\ now \in Nat
    BY DEF ProviderInv, ProviderTyped, Checkpoints, Provider!Months
  <2>2. \A m \in walk.months : m <= now /\ m \in Nat
    BY DEF ProviderInv, ProviderTyped, Checkpoints, Walks, Provider!Months
  <2>3. ASSUME NEW h \in Provider!Games, Readable(h)', from <= ended'[h], ended'[h] < cursor
        PROVE  h \in stored
    BY <1>1, <1>2, <2>1, <2>3 DEF ProviderInv, Checkpoints, Readable
  <2>4. ASSUME walk.pc = "month", walk.advancing, NEW h \in Provider!Games, NEW m \in walk.months,
               Readable(h)', from <= ended'[h], ended'[h] < m
        PROVE  h \in stored \/ ended'[h] \in walk.months
    <3>1. h # g
      BY <1>2, <2>1, <2>2, <2>4
    <3>2. QED BY <1>1, <1>2, <2>4, <3>1 DEF ProviderInv, Checkpoints, Readable
  <2>5. QED BY <1>1, <2>3, <2>4 DEF ProviderInv, Checkpoints
<1>6. Pages'
  BY <1>1, <1>2 DEF ProviderInv, Pages, Readable
<1>7. QED BY <1>3, <1>4, <1>5, <1>6 DEF ProviderInv

LEMMA BeginMonthKeeps ==
  ASSUME ProviderInv, Provider!BeginMonth
  PROVE  ProviderInv'
<1>1. /\ now < MaxMonths /\ now' = now + 1
      /\ UNCHANGED <<provider, kind, ended, cursor, from, stored, walk, overtaken>>
  BY DEF Provider!BeginMonth, Provider!storedVars
<1>2. now \in Nat /\ now' \in Provider!Months /\ \A m \in walk.months : m \in Nat
  BY <1>1, ProviderAssumption DEF ProviderInv, ProviderTyped, Provider!Months, Walks
<1>3. ProviderTyped'
  BY <1>1, <1>2 DEF ProviderInv, ProviderTyped
<1>4. Chronicle'
  BY <1>1, <1>2 DEF ProviderInv, ProviderTyped, Chronicle
<1>5. Checkpoints'
  BY <1>1, <1>2 DEF ProviderInv, ProviderTyped, Checkpoints, Readable
<1>6. Pages'
  BY <1>1 DEF ProviderInv, Pages, Readable
<1>7. QED BY <1>3, <1>4, <1>5, <1>6 DEF ProviderInv

-----------------------------------------------------------------------------
\* The months of a pass are listed, and with one of them every later listed
\* month from the cursor on.
LEMMA NewestUpwards ==
  ASSUME NEW listed \in SUBSET Provider!Months, NEW m \in Provider!Newest(listed), NEW n \in listed, m <= n
  PROVE  n \in Provider!Newest(listed)
<1> DEFINE Above(k) == {j \in listed : j > k}
<1>1. m \in Nat /\ n \in Nat /\ \A j \in listed : j \in Nat
  BY DEF Provider!Newest, Provider!Months
<1>2. Above(n) \in SUBSET Above(m) /\ Above(m) \in SUBSET (1..MaxMonths)
  <2>1. \A j \in listed : j > n => j > m
    BY <1>1
  <2>2. \A j \in listed : j \in 1..MaxMonths
    BY DEF Provider!Months
  <2>3. QED BY <2>1, <2>2
<1>3. Provider!Cardinality(Above(n)) <= Provider!Cardinality(Above(m))
      /\ Provider!Cardinality(Above(n)) \in Nat /\ Provider!Cardinality(Above(m)) \in Nat
  BY <1>2, Fewer, ProviderAssumption
<1>4. Provider!Cardinality(Above(m)) < Bootstrap
  BY DEF Provider!Newest
<1>5. Provider!Cardinality(Above(n)) < Bootstrap
  BY <1>3, <1>4, ProviderAssumption
<1>6. QED BY <1>5 DEF Provider!Newest

LEMMA ReadIndexKeeps ==
  ASSUME ProviderInv, Provider!ReadIndex
  PROVE  ProviderInv'
<1>1. /\ provider = "chess_com" /\ UNCHANGED <<provider, kind, ended, now, cursor, stored, overtaken>>
  BY DEF Provider!ReadIndex, Provider!archiveVars
<1>2. PICK thisMonth \in {{}, {now}} :
        LET listed == {m \in Provider!Months : Provider!Archive(m) # {}} \cup thisMonth
            months == IF cursor = 0 THEN Provider!Newest(listed)
                                    ELSE {m \in listed : m >= cursor}
        IN /\ walk' = [Provider!Idle EXCEPT !.pc = IF months = {} THEN "commit" ELSE "month",
                                   !.months = months, !.next = cursor,
                                   !.last = Provider!Max({0} \cup listed)]
           /\ from' = IF cursor = 0 THEN Provider!Min(months \cup {now}) ELSE from
  BY DEF Provider!ReadIndex
<1> DEFINE listed == {m \in Provider!Months : Provider!Archive(m) # {}} \cup thisMonth
           months == IF cursor = 0 THEN Provider!Newest(listed) ELSE {m \in listed : m >= cursor}
           c == IF months = {} THEN "commit" ELSE "month"
<1>3. /\ now \in Provider!Months /\ Provider!Months \subseteq 1..MaxMonths
      /\ MaxMonths \in Nat /\ cursor \in Nat
  BY ProviderAssumption DEF ProviderInv, ProviderTyped, Provider!Months
<1>4. listed \in SUBSET Provider!Months /\ \A g \in Provider!Games : ended[g] # 0 => ended[g] \in listed
  <2>1. ASSUME NEW g \in Provider!Games, ended[g] # 0 PROVE ended[g] \in Provider!Months /\ g \in Provider!Archive(ended[g])
    BY <2>1, ProviderAssumption
    DEF ProviderInv, ProviderTyped, Provider!Months, Provider!Archive
  <2>2. QED BY <1>3, <2>1
<1>5. \A m \in listed : m <= now
  <2>1. \A m \in Provider!Months : Provider!Archive(m) # {} => m <= now
    BY DEF Provider!Archive, ProviderInv, Chronicle
  <2>2. \A m \in thisMonth : m <= now
    BY <1>3 DEF Provider!Months
  <2>3. QED BY <2>1, <2>2
<1> HIDE DEF listed
<1>6. months \in SUBSET listed
  BY DEF Provider!Newest
<1> HIDE DEF months
<1>0. \A m \in listed : m \in Nat
  BY <1>3, <1>4
<1>7. Provider!Max({0} \cup listed) \in Nat
  <2>1. {0} \cup listed \in SUBSET (0..MaxMonths)
    BY <1>3, <1>4 DEF Provider!Months
  <2>2. Provider!Max({0} \cup listed) \in {0} \cup listed
    BY <1>3, <2>1, MaxOf
  <2>3. QED BY <2>1, <2>2
<1>8. cursor = 0 => /\ from' \in months \cup {now} /\ \A m \in months : from' <= m
  <2>1. months \cup {now} \in SUBSET Nat
    BY <1>0, <1>3, <1>6
  <2>2. Provider!Min(months \cup {now}) \in months \cup {now}
        /\ \A m \in months \cup {now} : Provider!Min(months \cup {now}) <= m
    BY <2>1, MinOf
  <2>3. cursor = 0 => from' = Provider!Min(months \cup {now})
    BY <1>2 DEF months, listed
  <2>4. QED BY <2>2, <2>3
<1>9. cursor # 0 => from' = from
  BY <1>2
<1>10. walk' = [pc |-> c, months |-> months, last |-> Provider!Max({0} \cup listed), next |-> cursor,
                got |-> {}, advancing |-> TRUE, failures |-> {}]
  BY <1>2 DEF Provider!Idle, listed, months
<1>11. from' \in Nat
  BY <1>0, <1>3, <1>6, <1>8, <1>9 DEF ProviderInv, ProviderTyped
<1>12. ASSUME NEW g \in Provider!Games, NEW m \in months, Readable(g), from' <= ended[g], ended[g] < m
       PROVE  g \in stored \/ ended[g] \in months
  <2>1. /\ ended[g] \in listed /\ ended[g] \in Nat /\ m \in listed /\ m \in Nat
        /\ m <= now /\ now \in Nat
    <3>1. ended[g] \in listed /\ m \in listed
      BY <1>4, <1>6, <1>12 DEF Readable
    <3>2. QED BY <1>0, <1>3, <1>5, <3>1
  <2>2. CASE cursor = 0
    <3>1. from' \in months
      BY <1>8, <1>12, <2>1, <2>2
    <3>2. QED BY <1>4, <1>12, <2>1, <2>2, <3>1, NewestUpwards DEF months
  <2>3. CASE cursor # 0 /\ ended[g] < cursor
    BY <1>1, <1>9, <1>12, <2>3 DEF ProviderInv, Checkpoints
  <2>4. CASE cursor # 0 /\ ended[g] >= cursor
    BY <2>1, <2>4 DEF months
  <2>5. QED BY <1>3, <2>1, <2>2, <2>3, <2>4
<1>13. walk' \in Walks
  BY <1>3, <1>4, <1>6, <1>7, <1>10 DEF Walks
<1>14. ProviderTyped'
  BY <1>1, <1>11, <1>13 DEF ProviderInv, ProviderTyped
<1>15. Chronicle'
  BY <1>1 DEF ProviderInv, Chronicle
<1>16. walk'.pc = c /\ walk'.months = months /\ walk'.next = cursor
  BY <1>10
<1>17. Checkpoints'
  <2>1. \A g \in Provider!Games : Readable(g) /\ from' <= ended[g] /\ ended[g] < cursor => g \in stored
    <3>1. CASE cursor = 0
      BY <3>1 DEF ProviderInv, ProviderTyped
    <3>2. CASE cursor # 0
      BY <1>1, <1>9, <3>2 DEF ProviderInv, Checkpoints
    <3>3. QED BY <3>1, <3>2
  <2>2. \A m \in months : m <= now
    BY <1>5, <1>6
  <2>3. QED BY <1>1, <1>12, <1>16, <2>1, <2>2 DEF ProviderInv, Checkpoints, Readable
<1>18. Pages'
  BY <1>1 DEF Pages
<1>19. QED BY <1>14, <1>15, <1>17, <1>18 DEF ProviderInv

-----------------------------------------------------------------------------
LEMMA MonthIsFirst ==
  ASSUME ProviderInv, walk.pc = "month"
  PROVE  /\ provider = "chess_com" /\ walk \in Walks
         /\ Provider!Month \in walk.months /\ Provider!Month \in Nat
         /\ Provider!Month <= now
         /\ \A m \in walk.months : Provider!Month <= m /\ m \in Nat
<1>1. provider = "chess_com" /\ walk \in Walks /\ walk.months # {}
  BY DEF ProviderInv, ProviderTyped, Pages, Checkpoints
<1>2. walk.months \in SUBSET Nat
  BY <1>1 DEF Walks, Provider!Months
<1>3. Provider!Month \in walk.months /\ \A m \in walk.months : Provider!Month <= m
  BY <1>1, <1>2, MinOf DEF Provider!Month
<1>4. QED BY <1>1, <1>2, <1>3 DEF ProviderInv, Checkpoints

\* A month is taken off the walk, whatever else it brought.
LEMMA WalkedOn ==
  ASSUME NEW p \in Walks
  PROVE  /\ Provider!Walked(p) \in Walks
         /\ Provider!Walked(p).months = p.months \ {Provider!Month}
         /\ Provider!Walked(p).pc = IF p.months = {Provider!Month} THEN "commit" ELSE p.pc
         /\ Provider!Walked(p).next = p.next /\ Provider!Walked(p).advancing = p.advancing
<1> DEFINE c == IF p.months = {Provider!Month} THEN "commit" ELSE p.pc
<1>1. Provider!Walked(p) = [p EXCEPT !.months = p.months \ {Provider!Month}, !.pc = c]
  BY DEF Provider!Walked
<1>2. /\ p.months \ {Provider!Month} \in SUBSET Provider!Months
      /\ c \in {"idle", "month", "page", "commit"}
  BY DEF Walks
<1> HIDE DEF c
<1>3. /\ Provider!Walked(p) \in Walks
      /\ Provider!Walked(p).months = p.months \ {Provider!Month}
      /\ Provider!Walked(p).pc = c
      /\ Provider!Walked(p).next = p.next /\ Provider!Walked(p).advancing = p.advancing
  BY <1>1, <1>2 DEF Walks
<1>4. QED BY <1>3 DEF c

\* A month that leaves no game behind, or stops the advance.
LEMMA MonthTaken ==
  ASSUME ProviderInv, walk.pc = "month", NEW p \in Walks, walk' = Provider!Walked(p),
         p.months = walk.months, p.pc = "month", p.next = cursor',
         stored \subseteq stored', stored' \subseteq Provider!Games,
         cursor' = cursor \/ (cursor' = Provider!Month /\ walk.advancing),
         UNCHANGED <<provider, kind, ended, now, from, overtaken>>,
         p.advancing => /\ walk.advancing
                        /\ \A g \in Provider!Games : Readable(g) /\ ended[g] = Provider!Month => g \in stored'
  PROVE  ProviderInv'
<1>1. /\ provider = "chess_com" /\ Provider!Month \in walk.months
      /\ Provider!Month \in Nat /\ Provider!Month <= now
      /\ \A m \in walk.months : Provider!Month <= m /\ m \in Nat
  BY MonthIsFirst
<1>2. /\ walk' \in Walks /\ walk'.months = walk.months \ {Provider!Month}
      /\ walk'.pc = IF walk.months = {Provider!Month} THEN "commit" ELSE "month"
      /\ walk'.next = cursor' /\ walk'.advancing = p.advancing
  BY WalkedOn
<1>3. ProviderTyped'
  BY <1>1, <1>2 DEF ProviderInv, ProviderTyped
<1>4. Chronicle'
  BY DEF ProviderInv, Chronicle
<1>5. Pages'
  BY <1>1 DEF Pages
<1>6. Checkpoints'
  <2>1. ASSUME NEW g \in Provider!Games, NEW m \in walk.months, walk.advancing,
               Readable(g), from <= ended[g], ended[g] < m
        PROVE  g \in stored \/ ended[g] \in walk.months
    BY <1>1, <2>1 DEF ProviderInv, Checkpoints
  <2>2. ASSUME NEW g \in Provider!Games, Readable(g), from <= ended[g], ended[g] < cursor'
        PROVE  g \in stored'
    <3>1. CASE cursor' = cursor
      BY <1>1, <2>2, <3>1 DEF ProviderInv, Checkpoints
    <3>2. CASE cursor' = Provider!Month /\ walk.advancing
      <4>1. ended[g] \in Nat
        BY DEF ProviderInv, ProviderTyped
      <4>2. ended[g] \notin walk.months
        BY <1>1, <2>2, <3>2, <4>1
      <4>3. QED BY <1>1, <2>1, <2>2, <3>2, <4>2
    <3>3. QED BY <3>1, <3>2
  <2>3. ASSUME walk'.pc = "month", walk'.advancing, NEW g \in Provider!Games, NEW m \in walk'.months,
               Readable(g), from <= ended[g], ended[g] < m
        PROVE  g \in stored' \/ ended[g] \in walk'.months
    <3>1. g \in stored \/ ended[g] \in walk.months
      BY <1>2, <2>1, <2>3
    <3>2. ended[g] = Provider!Month => g \in stored'
      BY <1>2, <2>3
    <3>3. QED BY <1>2, <3>1, <3>2
  <2>4. cursor' <= now /\ \A m \in walk'.months : m <= now
    BY <1>1, <1>2 DEF ProviderInv, Checkpoints
  <2>5. walk'.pc # "page" /\ (walk'.pc = "month" => walk'.months # {})
    BY <1>1, <1>2
  <2>6. QED BY <1>2, <2>2, <2>3, <2>4, <2>5 DEF Checkpoints, Readable
<1>7. QED BY <1>3, <1>4, <1>5, <1>6 DEF ProviderInv

LEMMA UnpublishedKeeps ==
  ASSUME ProviderInv, Provider!Unpublished
  PROVE  ProviderInv'
<1>1. /\ walk.pc = "month" /\ Provider!Archive(Provider!Month) = {}
      /\ walk' = Provider!Walked(walk)
  BY DEF Provider!Unpublished
<1>2. UNCHANGED <<provider, kind, ended, now, cursor, from, stored, overtaken>>
  BY DEF Provider!Unpublished, Provider!archiveVars, Provider!storedVars
<1>3. walk \in Walks /\ walk.next = cursor
  BY <1>1, MonthIsFirst DEF ProviderInv, Checkpoints
<1>4. \A g \in Provider!Games : ended[g] # Provider!Month
  BY <1>1 DEF Provider!Archive
<1>5. /\ stored \subseteq stored' /\ stored' \subseteq Provider!Games /\ walk.next = cursor'
      /\ (cursor' = cursor \/ (cursor' = Provider!Month /\ walk.advancing))
      /\ UNCHANGED <<provider, kind, ended, now, from, overtaken>>
  BY <1>2, <1>3 DEF ProviderInv, ProviderTyped
<1>6. walk.advancing =>
        /\ walk.advancing
        /\ \A g \in Provider!Games : Readable(g) /\ ended[g] = Provider!Month => g \in stored'
  BY <1>4
<1>7. QED BY <1>1, <1>3, <1>5, <1>6, MonthTaken

LEMMA MonthFailsKeeps ==
  ASSUME ProviderInv, Provider!MonthFails
  PROVE  ProviderInv'
<1>1. PICK reason \in {"http-error", "invalid-response"} : walk' = Provider!Walked(Provider!Hold(walk, {reason}))
  BY DEF Provider!MonthFails
<1> DEFINE p == Provider!Hold(walk, {reason})
<1>2. walk.pc = "month" /\ UNCHANGED <<provider, kind, ended, now, cursor, from, stored, overtaken>>
  BY DEF Provider!MonthFails, Provider!archiveVars, Provider!storedVars
<1>3. walk \in Walks /\ walk.next = cursor /\ stored \subseteq Provider!Games
  BY <1>2, MonthIsFirst DEF ProviderInv, Checkpoints, ProviderTyped
<1>4. /\ p \in Walks /\ p.months = walk.months /\ p.pc = walk.pc /\ p.next = walk.next
      /\ p.advancing = FALSE
  <2>1. walk.failures \cup {reason} \in SUBSET Provider!Reasons
    BY <1>3 DEF Walks, Provider!Reasons
  <2>2. QED BY <1>3, <2>1 DEF Provider!Hold, Walks
<1> HIDE DEF p
<1>5. walk' = Provider!Walked(p)
  BY <1>1 DEF p
<1>6. /\ stored \subseteq stored' /\ stored' \subseteq Provider!Games /\ p.next = cursor'
      /\ (cursor' = cursor \/ (cursor' = Provider!Month /\ walk.advancing))
      /\ UNCHANGED <<provider, kind, ended, now, from, overtaken>>
      /\ p.months = walk.months /\ p.pc = "month"
  BY <1>2, <1>3, <1>4
<1>7. p.advancing =>
        /\ walk.advancing
        /\ \A g \in Provider!Games : Readable(g) /\ ended[g] = Provider!Month => g \in stored'
  BY <1>4
<1>8. QED BY <1>2, <1>4, <1>5, <1>6, <1>7, MonthTaken

LEMMA ReportedReasons ==
  ASSUME NEW games \in SUBSET Provider!Games
  PROVE  /\ Provider!Reported(games) \in SUBSET Provider!Reasons
         /\ Provider!Standard(games) \in SUBSET Provider!Games
BY DEF Provider!Reported, Provider!Reasons, Provider!Standard

LEMMA ReadMonthKeeps ==
  ASSUME ProviderInv, Provider!ReadMonth
  PROVE  ProviderInv'
<1> DEFINE games == Provider!Archive(Provider!Month)
           read == [walk EXCEPT !.got = walk.got \cup Provider!Standard(games),
                                !.failures = walk.failures \cup Provider!Reported(games)]
<1>1. /\ walk.pc = "month" /\ walk \in Walks /\ walk.next = cursor
      /\ stored \subseteq Provider!Games
      /\ Provider!Month \in walk.months /\ Provider!Month \in Nat /\ Provider!Month <= now
  BY MonthIsFirst DEF Provider!ReadMonth, ProviderInv, Checkpoints, ProviderTyped
<1>2. games \in SUBSET Provider!Games
  BY DEF Provider!Archive
<1> HIDE DEF games
<1>3. /\ read \in Walks /\ read.months = walk.months /\ read.pc = "month"
      /\ read.next = cursor /\ read.advancing = walk.advancing
  BY <1>1, <1>2, ReportedReasons DEF Walks
<1>4. \/ /\ walk.advancing /\ walk' = Provider!Walked([read EXCEPT !.next = Provider!Month]) /\ cursor' = Provider!Month
         /\ stored' = stored \cup Provider!Standard(games)
         /\ UNCHANGED <<Provider!archiveVars, from, overtaken>>
      \/ walk' = Provider!Walked(Provider!Hold(read, {})) /\ UNCHANGED <<Provider!archiveVars, Provider!storedVars, overtaken>>
  BY DEF Provider!ReadMonth, games
<1> HIDE DEF read
<1>5. CASE /\ walk.advancing
           /\ walk' = Provider!Walked([read EXCEPT !.next = Provider!Month])
           /\ cursor' = Provider!Month
           /\ stored' = stored \cup Provider!Standard(games)
           /\ UNCHANGED <<Provider!archiveVars, from, overtaken>>
  <2> DEFINE p == [read EXCEPT !.next = Provider!Month]
  <2>1. /\ p \in Walks /\ p.months = walk.months /\ p.pc = "month"
        /\ p.next = Provider!Month
        /\ p.advancing = walk.advancing
    BY <1>1, <1>3 DEF Walks
  <2>2. \A g \in Provider!Games : Readable(g) /\ ended[g] = Provider!Month => g \in stored'
    BY <1>5 DEF Readable, Provider!Standard, Provider!Archive, games
  <2>3. /\ stored \subseteq stored' /\ stored' \subseteq Provider!Games
        /\ UNCHANGED <<provider, kind, ended, now, from, overtaken>>
    BY <1>1, <1>2, <1>5, ReportedReasons DEF Provider!archiveVars
  <2> HIDE DEF p
  <2>4. walk' = Provider!Walked(p) /\ p.next = cursor'
    BY <1>5, <2>1 DEF p
  <2>5. cursor' = cursor \/ (cursor' = Provider!Month /\ walk.advancing)
    BY <1>5
  <2>6. p.advancing => /\ walk.advancing
                       /\ \A g \in Provider!Games : Readable(g) /\ ended[g] = Provider!Month => g \in stored'
    BY <1>5, <2>2
  <2>7. QED BY <1>1, <2>1, <2>3, <2>4, <2>5, <2>6, MonthTaken
<1>6. CASE /\ walk' = Provider!Walked(Provider!Hold(read, {}))
           /\ UNCHANGED <<Provider!archiveVars, Provider!storedVars, overtaken>>
  <2> DEFINE p == Provider!Hold(read, {})
  <2>1. /\ p \in Walks /\ p.months = walk.months /\ p.pc = "month" /\ p.next = cursor
        /\ p.advancing = FALSE
    BY <1>3 DEF Provider!Hold, Walks
  <2>2. UNCHANGED <<provider, kind, ended, now, cursor, from, stored, overtaken>>
    BY <1>6 DEF Provider!archiveVars, Provider!storedVars
  <2> HIDE DEF p
  <2>3. walk' = Provider!Walked(p)
    BY <1>6 DEF p
  <2>4. /\ stored \subseteq stored' /\ stored' \subseteq Provider!Games /\ p.next = cursor'
        /\ (cursor' = cursor \/ (cursor' = Provider!Month /\ walk.advancing))
        /\ UNCHANGED <<provider, kind, ended, now, from, overtaken>>
    BY <1>1, <2>1, <2>2
  <2>5. p.advancing => /\ walk.advancing
                       /\ \A g \in Provider!Games : Readable(g) /\ ended[g] = Provider!Month => g \in stored'
    BY <2>1
  <2>6. QED BY <1>1, <2>1, <2>3, <2>4, <2>5, MonthTaken
<1>7. QED BY <1>4, <1>5, <1>6

-----------------------------------------------------------------------------
\* Only the page under way changes.
LEMMA PageTurned ==
  ASSUME ProviderInv, provider = "lichess", walk' \in Walks, UNCHANGED <<Provider!archiveVars, Provider!storedVars>>,
         overtaken' \subseteq overtaken, \A g \in overtaken \ overtaken' : g >= cursor,
         walk'.pc \in {"page", "commit"},
         walk'.pc = "page" => walk'.next = cursor /\ walk'.got = {},
         walk'.pc = "commit" => \A g \in Provider!Games : g < walk'.next /\ Readable(g) =>
           g \in stored \cup walk'.got \cup overtaken'
  PROVE  ProviderInv'
<1>1. UNCHANGED <<provider, kind, ended, now, cursor, from, stored>>
  BY DEF Provider!archiveVars, Provider!storedVars
<1>2. ProviderTyped' /\ Chronicle' /\ Checkpoints'
  BY <1>1 DEF ProviderInv, ProviderTyped, Chronicle, Checkpoints
<1>3. ASSUME NEW g \in Provider!Games, g < cursor, Readable(g)
      PROVE  g \in stored \cup overtaken'
  <2>1. g \in stored \cup overtaken
    BY <1>3 DEF ProviderInv, Pages
  <2>2. g \in Nat /\ cursor \in Nat
    BY ProviderAssumption DEF ProviderInv, ProviderTyped, Provider!Games
  <2>3. QED BY <1>3, <2>1, <2>2
<1>4. Pages'
  BY <1>1, <1>3 DEF Pages, Readable
<1>5. QED BY <1>2, <1>4 DEF ProviderInv

LEMMA AskPageKeeps ==
  ASSUME ProviderInv, Provider!AskPage
  PROVE  ProviderInv'
<1>1. walk' = [pc |-> "page", months |-> {}, last |-> 0, next |-> cursor, got |-> {},
               advancing |-> TRUE, failures |-> {}]
  BY DEF Provider!AskPage, Provider!Idle
<1>2. /\ cursor \in Nat /\ provider = "lichess"
      /\ UNCHANGED <<Provider!archiveVars, Provider!storedVars, overtaken>>
  BY DEF Provider!AskPage, ProviderInv, ProviderTyped
<1>3. walk' \in Walks /\ walk'.pc = "page" /\ walk'.next = cursor /\ walk'.got = {}
  BY <1>1, <1>2 DEF Walks
<1>4. QED BY <1>2, <1>3, PageTurned

LEMMA PageFailsKeeps ==
  ASSUME ProviderInv, Provider!PageFails
  PROVE  ProviderInv'
<1>1. PICK reason \in {"http-error", "invalid-response"} :
        walk' = [walk EXCEPT !.pc = "commit", !.failures = {reason}]
  BY DEF Provider!PageFails
<1>2. /\ walk.pc = "page" /\ walk \in Walks /\ provider = "lichess"
      /\ walk.next = cursor /\ walk.got = {}
      /\ UNCHANGED <<Provider!archiveVars, Provider!storedVars, overtaken>>
  BY DEF Provider!PageFails, ProviderInv, ProviderTyped, Checkpoints, Pages
<1>3. /\ walk' \in Walks /\ walk'.pc = "commit" /\ walk'.next = cursor /\ walk'.got = {}
  BY <1>1, <1>2 DEF Walks, Provider!Reasons
<1>4. \A g \in Provider!Games : g < walk'.next /\ Readable(g) =>
        g \in stored \cup walk'.got \cup overtaken'
  BY <1>2, <1>3 DEF ProviderInv, Pages
<1>5. QED BY <1>2, <1>3, <1>4, PageTurned

LEMMA ReadPageKeeps ==
  ASSUME ProviderInv, Provider!ReadPage
  PROVE  ProviderInv'
<1> DEFINE garbled == {g \in Provider!Page : kind[g] = "garbled"}
           before == {g \in Provider!Standard(Provider!Page) : \A h \in garbled : g < h}
           marks == {cursor} \cup {g + 1 : g \in before}
           newer == {g \in Provider!Games : ended[g] # 0 /\ g >= cursor}
<1>1. /\ walk.pc = "page" /\ walk \in Walks /\ provider = "lichess" /\ cursor \in Nat
      /\ overtaken' = overtaken \ Provider!Page
      /\ UNCHANGED <<Provider!archiveVars, Provider!storedVars>>
      /\ walk' = [walk EXCEPT !.pc = "commit", !.got = Provider!Standard(Provider!Page),
                              !.failures = Provider!Reported(Provider!Page), !.next = Provider!Max(marks)]
  BY DEF Provider!ReadPage, ProviderInv, ProviderTyped, Checkpoints
<1>2. /\ Provider!Page \in SUBSET Provider!Games
      /\ before \in SUBSET Provider!Standard(Provider!Page)
      /\ Provider!Standard(Provider!Page) \in SUBSET Provider!Page
  BY DEF Provider!Page, Provider!Standard
<1> HIDE DEF before
<1>3. \A g \in Provider!Games : g \in 1..MaxGames /\ g \in Nat
  BY ProviderAssumption DEF Provider!Games
<1>4. marks \in SUBSET (0..(cursor + MaxGames + 1)) /\ marks # {}
  <2>1. \A g \in before : g + 1 \in 0..(cursor + MaxGames + 1)
    BY <1>1, <1>2, <1>3, ProviderAssumption
  <2>2. cursor \in 0..(cursor + MaxGames + 1)
    BY <1>1, ProviderAssumption
  <2>3. QED BY <2>1, <2>2
<1>5. Provider!Max(marks) \in marks /\ Provider!Max(marks) \in Nat
  <2>1. cursor + MaxGames + 1 \in Nat
    BY <1>1, ProviderAssumption
  <2> HIDE DEF marks
  <2>2. Provider!Max(marks) \in marks
    BY <1>4, <2>1, MaxOf
  <2>3. 0..(cursor + MaxGames + 1) \in SUBSET Nat
    BY <2>1
  <2>4. QED BY <1>4, <2>2, <2>3
<1>6. /\ walk' \in Walks /\ walk'.pc = "commit"
      /\ walk'.got = Provider!Standard(Provider!Page)
      /\ walk'.next = Provider!Max(marks)
  <2>1. /\ Provider!Reported(Provider!Page) \in SUBSET Provider!Reasons
        /\ Provider!Standard(Provider!Page) \in SUBSET Provider!Games
    BY <1>2, ReportedReasons
  <2> HIDE DEF marks
  <2>2. QED BY <1>1, <1>5, <2>1 DEF Walks
<1>7. ASSUME NEW g \in Provider!Games, g < Provider!Max(marks), Readable(g)
      PROVE  g \in stored \cup Provider!Standard(Provider!Page) \cup (overtaken \ Provider!Page)
  <2>1. CASE g < cursor
    <3>1. g \in stored \cup overtaken
      BY <1>1, <1>7, <2>1 DEF ProviderInv, Pages
    <3>2. g \notin Provider!Page
      BY <1>1, <1>3, <2>1 DEF Provider!Page
    <3>3. QED BY <3>1, <3>2
  <2>2. CASE g >= cursor
    <3>0. Provider!Max(marks) # cursor
      BY <1>1, <1>3, <1>5, <1>7, <2>2
    <3>1. PICK h \in before : Provider!Max(marks) = h + 1
      BY <1>5, <3>0
    <3>2. h \in Provider!Page /\ h \in Provider!Games /\ h \in newer
      BY <1>2 DEF Provider!Page
    <3>3. g <= h /\ g \in Nat /\ h \in Nat
      BY <1>3, <1>7, <3>1, <3>2
    <3>4. ended[g] # 0
      BY <1>7 DEF Readable
    <3>5. g \in newer
      BY <2>2, <3>4
    <3>6. g \in Provider!Page
      <4> DEFINE Before(k) == {j \in newer : j < k}
      <4>1. \A j \in newer : j \in Nat /\ j \in 1..MaxGames
        BY <1>3
      <4>2. Before(g) \in SUBSET Before(h) /\ Before(h) \in SUBSET (1..MaxGames)
        <5>1. \A j \in newer : j < g => j < h
          BY <3>3, <4>1
        <5>2. \A j \in newer : j \in 1..MaxGames
          BY <4>1
        <5> HIDE DEF newer
        <5>3. QED BY <5>1, <5>2
      <4>3. /\ Provider!Cardinality(Before(g)) <= Provider!Cardinality(Before(h))
            /\ Provider!Cardinality(Before(g)) \in Nat
            /\ Provider!Cardinality(Before(h)) \in Nat
        BY <4>2, Fewer, ProviderAssumption
      <4>4. Provider!Cardinality(Before(h)) < PageSize
        BY <3>2 DEF Provider!Page
      <4>5. Provider!Cardinality(Before(g)) < PageSize
        BY <4>3, <4>4, ProviderAssumption
      <4>6. QED BY <3>5, <4>5 DEF Provider!Page
    <3>7. QED BY <1>7, <3>6 DEF Readable, Provider!Standard
  <2>3. QED BY <1>1, <1>3, <2>1, <2>2
<1> HIDE DEF marks
<1>8. overtaken' \subseteq overtaken /\ \A g \in overtaken \ overtaken' : g >= cursor
  BY <1>1 DEF Provider!Page
<1>9. QED BY <1>1, <1>6, <1>7, <1>8, PageTurned

-----------------------------------------------------------------------------
\* A pass is over: what it read is stored, or nothing of it.
LEMMA Over ==
  ASSUME ProviderInv, walk' = Provider!Idle, UNCHANGED <<provider, kind, ended, now, from, overtaken>>,
         stored \subseteq stored', stored' \subseteq Provider!Games,
         cursor' = cursor \/ (walk.pc = "commit" /\ cursor' = walk.next
                              /\ stored' = stored \cup walk.got)
  PROVE  ProviderInv'
<1>1. Provider!Idle \in Walks /\ Provider!Idle.pc = "idle" /\ Provider!Idle.months = {}
  BY DEF Provider!Idle, Walks
<1>2. cursor' \in Nat
  BY DEF ProviderInv, ProviderTyped, Walks
<1>3. ProviderTyped' /\ Chronicle'
  BY <1>1, <1>2 DEF ProviderInv, ProviderTyped, Chronicle
<1>4. Checkpoints'
  <2> SUFFICES ASSUME provider = "chess_com" PROVE Checkpoints'
    BY DEF Checkpoints
  <2>1. cursor' = cursor
    BY DEF ProviderInv, Checkpoints
  <2>2. QED BY <1>1, <2>1 DEF ProviderInv, Checkpoints, Readable
<1>5. Pages'
  <2> SUFFICES ASSUME provider = "lichess" PROVE Pages'
    BY DEF Pages
  <2>1. \A g \in Provider!Games : g < cursor' /\ Readable(g) => g \in stored' \cup overtaken
    BY DEF ProviderInv, Pages
  <2>2. QED BY <1>1, <2>1 DEF Pages, Readable
<1>6. QED BY <1>3, <1>4, <1>5 DEF ProviderInv

LEMMA CommitKeeps ==
  ASSUME ProviderInv, Provider!Commit
  PROVE  ProviderInv'
<1>1. /\ walk.pc = "commit" /\ stored' = stored \cup walk.got /\ walk' = Provider!Idle
      /\ (cursor' = cursor \/ cursor' = walk.next)
      /\ UNCHANGED <<provider, kind, ended, now, from, overtaken>>
  BY DEF Provider!Commit, Provider!archiveVars
<1>2. stored \subseteq stored' /\ stored' \subseteq Provider!Games
  BY <1>1 DEF ProviderInv, ProviderTyped, Walks
<1>3. QED BY <1>1, <1>2, Over

LEMMA AbortKeeps ==
  ASSUME ProviderInv, Provider!Abort
  PROVE  ProviderInv'
<1>1. /\ walk' = Provider!Idle
      /\ UNCHANGED <<provider, kind, ended, now, cursor, from, stored, overtaken>>
  BY DEF Provider!Abort, Provider!archiveVars, Provider!storedVars
<1>2. stored \subseteq Provider!Games
  BY DEF ProviderInv, ProviderTyped
<1>3. QED BY <1>1, <1>2, Over

LEMMA FetchNext ==
  ASSUME ProviderInv, [Provider!Next]_Provider!vars
  PROVE  ProviderInv'
<1>1. ASSUME UNCHANGED Provider!vars PROVE ProviderInv'
  <2>1. UNCHANGED <<provider, kind, ended, now, cursor, from, stored, walk, overtaken>>
    BY <1>1 DEF Provider!vars, Provider!archiveVars, Provider!storedVars
  <2>2. QED BY <2>1 DEF ProviderInv, ProviderTyped, Chronicle, Checkpoints, Pages, Readable
<1>2. QED
  BY <1>1, EndGameKeeps, BeginMonthKeeps, ReadIndexKeeps, UnpublishedKeeps,
     MonthFailsKeeps, ReadMonthKeeps, AskPageKeeps, ReadPageKeeps, PageFailsKeeps,
     CommitKeeps, AbortKeeps DEF Provider!Next

LEMMA ProviderPart == AllSpec => Provider!Spec
<1>1. Starts => Provider!Init
  BY DEF Starts
<1>2. [AnyStep]_allVars => [Provider!Next]_Provider!vars
  <2>1. ASSUME AnyStep PROVE [Provider!Next]_Provider!vars
    BY <2>1 DEF AnyStep, Alone, providerVars, Provider!vars, Provider!archiveVars,
                Provider!storedVars
  <2>2. ASSUME UNCHANGED allVars PROVE UNCHANGED Provider!vars
    BY <2>2 DEF allVars, providerVars, Provider!vars, Provider!archiveVars,
                Provider!storedVars
  <2>3. QED BY <2>1, <2>2
<1>3. QED BY <1>1, <1>2, PTL DEF AllSpec, Provider!Spec

\* Whatever failed, in whichever pass, no game that can be read lies before the
\* cursor without being stored (fetchChessCom, fetchLichess, syncAccount).
THEOREM NothingSkipped == AllSpec => []CursorSkipsNothing
<1>1. ASSUME ProviderInv PROVE CursorSkipsNothing
  <2>1. CASE provider = "chess_com"
    BY <1>1, <2>1
    DEF ProviderInv, Checkpoints, Readable, CursorSkipsNothing, Provider!CursorSkipsNothing,
        Provider!Position
  <2>2. CASE provider = "lichess"
    BY <1>1, <2>2
    DEF ProviderInv, Pages, Readable, CursorSkipsNothing, Provider!CursorSkipsNothing,
        Provider!Position
  <2>3. QED BY <1>1, <2>1, <2>2 DEF ProviderInv, ProviderTyped
<1>2. QED BY ProviderPart, FetchInit, FetchNext, <1>1, PTL DEF Provider!Spec

\* Months and positions stay within those there may be.
ProviderBounded ==
  /\ cursor \in 0..(MaxGames + MaxMonths + 1) /\ from \in 0..MaxMonths
  /\ walk.last \in 0..MaxMonths /\ walk.next \in 0..(MaxGames + MaxMonths + 1)

LEMMA WalkedKeepsLast == \A p \in Walks : Provider!Walked(p).last = p.last
BY DEF Provider!Walked, Walks

LEMMA HoldTyped ==
  ASSUME NEW p \in Walks, NEW reasons \in SUBSET Provider!Reasons
  PROVE  /\ Provider!Hold(p, reasons) \in Walks
         /\ Provider!Hold(p, reasons).last = p.last
         /\ Provider!Hold(p, reasons).next = p.next
BY DEF Provider!Hold, Walks

LEMMA ProviderInBounds ==
  ASSUME ProviderInv, ProviderInv', ProviderBounded, [Provider!Next]_Provider!vars
  PROVE  ProviderBounded'
<1> USE DEF Provider!archiveVars, Provider!storedVars
<1> DEFINE Positions == 0..(MaxGames + MaxMonths + 1)
<1>0. /\ MaxGames \in Nat /\ MaxMonths \in Nat /\ cursor \in Positions
      /\ from \in 0..MaxMonths
      /\ walk.last \in 0..MaxMonths /\ walk.next \in Positions
      /\ now \in 1..MaxMonths /\ walk \in Walks /\ walk.months \in SUBSET (1..MaxMonths)
  BY ProviderAssumption
  DEF ProviderBounded, ProviderInv, ProviderTyped, Provider!Months, Walks
<1>1. 0 \in Positions /\ 0 \in 0..MaxMonths /\ \A m \in 1..MaxMonths : m \in Positions /\ m \in 0..MaxMonths
  BY <1>0
<1>2. \A g \in Provider!Games : g + 1 \in Positions
  BY <1>0 DEF Provider!Games
<1> HIDE DEF Positions
<1>3. Provider!Idle.last = 0 /\ Provider!Idle.next = 0
  BY DEF Provider!Idle
<1>4. UNCHANGED <<cursor, from, walk>> => ProviderBounded'
  BY <1>0 DEF ProviderBounded, Positions
<1>5. CASE \E g \in Provider!Games : Provider!EndGame(g)
  BY <1>4, <1>5 DEF Provider!EndGame
<1>6. CASE Provider!BeginMonth
  BY <1>4, <1>6 DEF Provider!BeginMonth
<1>7. CASE Provider!ReadIndex
  <2>1. PICK recent \in {{}, {now}} :
          LET listed == {m \in Provider!Months : Provider!Archive(m) # {}} \cup recent
              months == IF cursor = 0 THEN Provider!Newest(listed) ELSE {m \in listed : m >= cursor}
          IN  /\ walk' = [Provider!Idle EXCEPT !.pc = IF months = {} THEN "commit" ELSE "month",
                                               !.months = months, !.next = cursor,
                                               !.last = Provider!Max({0} \cup listed)]
              /\ from' = IF cursor = 0 THEN Provider!Min(months \cup {now}) ELSE from
              /\ UNCHANGED cursor
    BY <1>7 DEF Provider!ReadIndex
  <2> DEFINE listed == {m \in Provider!Months : Provider!Archive(m) # {}} \cup recent
             months == IF cursor = 0 THEN Provider!Newest(listed) ELSE {m \in listed : m >= cursor}
  <2>2. listed \subseteq 1..MaxMonths
    BY <1>0 DEF Provider!Months
  <2>3. months \subseteq listed
    BY DEF Provider!Newest
  <2>4. walk'.next = cursor /\ walk'.last = Provider!Max({0} \cup listed) /\ cursor' = cursor
        /\ from' = IF cursor = 0 THEN Provider!Min(months \cup {now}) ELSE from
    BY <2>1 DEF Provider!Idle
  <2> HIDE DEF listed, months
  <2>5. Provider!Max({0} \cup listed) \in {0} \cup listed
    <3>1. {0} \cup listed \subseteq 0..MaxMonths /\ MaxMonths \in Nat
      BY <1>0, <2>2
    <3>2. QED BY <3>1, MaxOf
  <2>6. Provider!Min(months \cup {now}) \in months \cup {now}
    <3>1. months \cup {now} \in SUBSET Nat
      BY <1>0, <2>2, <2>3
    <3>2. QED BY <3>1, MinOf
  <2>7. walk'.last \in 0..MaxMonths /\ from' \in 0..MaxMonths
    BY <1>0, <1>1, <2>2, <2>3, <2>4, <2>5, <2>6
  <2>8. QED BY <1>0, <2>4, <2>7 DEF ProviderBounded, Positions
\* A month read or failed.
<1>8. ASSUME NEW p \in Walks, p.last = walk.last, p.next \in Positions,
             walk' = Provider!Walked(p), cursor' \in Positions, UNCHANGED from
      PROVE  ProviderBounded'
  BY <1>0, <1>8, WalkedOn, WalkedKeepsLast DEF ProviderBounded, Positions
<1>9. CASE Provider!Unpublished \/ Provider!MonthFails \/ Provider!ReadMonth
  <2>1. walk.pc = "month"
    BY <1>9 DEF Provider!Unpublished, Provider!MonthFails, Provider!ReadMonth
  <2>2. Provider!Month \in 1..MaxMonths /\ Provider!Month \in Positions
    BY <1>0, <1>1, <2>1, MonthIsFirst
  <2>3. CASE Provider!Unpublished
    BY <1>0, <1>8, <2>3 DEF Provider!Unpublished
  <2>4. CASE Provider!MonthFails
    <3>1. PICK reason \in {"http-error", "invalid-response"} :
            walk' = Provider!Walked(Provider!Hold(walk, {reason}))
      BY <2>4 DEF Provider!MonthFails
    <3>2. {reason} \in SUBSET Provider!Reasons
      BY DEF Provider!Reasons
    <3>3. Provider!Hold(walk, {reason}) \in Walks /\ Provider!Hold(walk, {reason}).last = walk.last
          /\ Provider!Hold(walk, {reason}).next = walk.next
      BY <1>0, <3>2, HoldTyped
    <3>4. QED BY <1>0, <1>8, <2>4, <3>1, <3>3 DEF Provider!MonthFails
  <2>5. CASE Provider!ReadMonth
    <3> DEFINE games == Provider!Archive(Provider!Month)
               read == [walk EXCEPT !.got = walk.got \cup Provider!Standard(games),
                                    !.failures = walk.failures \cup Provider!Reported(games)]
    <3>1. games \in SUBSET Provider!Games
      BY DEF Provider!Archive
    <3> HIDE DEF games
    <3>2. read \in Walks /\ read.last = walk.last /\ read.next = walk.next
      BY <1>0, <3>1, ReportedReasons DEF Walks
    <3>3. \/ walk' = Provider!Walked([read EXCEPT !.next = Provider!Month])
             /\ cursor' = Provider!Month /\ UNCHANGED from
          \/ walk' = Provider!Walked(Provider!Hold(read, {})) /\ UNCHANGED <<cursor, from>>
      BY <2>5 DEF Provider!ReadMonth, games
    <3> HIDE DEF read
    <3>4. CASE walk' = Provider!Walked([read EXCEPT !.next = Provider!Month])
               /\ cursor' = Provider!Month /\ UNCHANGED from
      <4> DEFINE p == [read EXCEPT !.next = Provider!Month]
      <4>1. Provider!Month \in Nat
        BY <1>0, <2>2
      <4>2. p \in Walks /\ p.last = walk.last /\ p.next = Provider!Month
        BY <3>2, <4>1 DEF Walks
      <4> HIDE DEF p
      <4>3. walk' = Provider!Walked(p)
        BY <3>4 DEF p
      <4>4. QED BY <1>8, <2>2, <3>4, <4>2, <4>3
    <3>5. CASE /\ walk' = Provider!Walked(Provider!Hold(read, {}))
               /\ UNCHANGED <<cursor, from>>
      <4>1. {} \in SUBSET Provider!Reasons
        OBVIOUS
      <4>2. Provider!Hold(read, {}) \in Walks /\ Provider!Hold(read, {}).last = walk.last
            /\ Provider!Hold(read, {}).next = walk.next
        BY <3>2, <4>1, HoldTyped
      <4>3. QED BY <1>0, <1>8, <3>5, <4>2
    <3>6. QED BY <3>3, <3>4, <3>5
  <2>6. QED BY <1>9, <2>3, <2>4, <2>5
<1>10. CASE Provider!AskPage
  BY <1>0, <1>1, <1>3, <1>10 DEF Provider!AskPage, Provider!Idle, ProviderBounded, Positions
<1>11. CASE Provider!PageFails
  BY <1>0, <1>11 DEF Provider!PageFails, ProviderBounded, Positions, Walks
<1>12. CASE Provider!ReadPage
  <2> DEFINE garbled == {g \in Provider!Page : kind[g] = "garbled"}
             before == {g \in Provider!Standard(Provider!Page) : \A h \in garbled : g < h}
             marks == {cursor} \cup {g + 1 : g \in before}
  <2>1. /\ walk'.next = Provider!Max(marks) /\ walk'.last = walk.last
        /\ UNCHANGED <<cursor, from>>
    BY <1>0, <1>12 DEF Provider!ReadPage, Walks
  <2>2. before \subseteq Provider!Games
    BY DEF Provider!Page, Provider!Standard
  <2> HIDE DEF before
  <2>3. \A g \in before : g + 1 \in Positions
    BY <1>2, <2>2
  <2>4. marks \in SUBSET Positions /\ marks # {}
    BY <1>0, <2>3
  <2> HIDE DEF marks
  <2>5. Provider!Max(marks) \in Positions
    <3>1. MaxGames + MaxMonths + 1 \in Nat
      BY <1>0
    <3>2. marks \in SUBSET (0..(MaxGames + MaxMonths + 1))
      BY <2>4 DEF Positions
    <3>3. Provider!Max(marks) \in marks
      BY <2>4, <3>1, <3>2, MaxOf
    <3>4. QED BY <2>4, <3>3
  <2>6. QED BY <1>0, <2>1, <2>5 DEF ProviderBounded, Positions
<1>13. CASE Provider!Commit \/ Provider!Abort
  BY <1>0, <1>1, <1>3, <1>13 DEF Provider!Commit, Provider!Abort, ProviderBounded, Positions
<1>14. CASE UNCHANGED Provider!vars
  BY <1>4, <1>14 DEF Provider!vars
<1>15. QED
  BY <1>5, <1>6, <1>7, <1>9, <1>10, <1>11, <1>12, <1>13, <1>14 DEF Provider!Next

LEMMA ProviderStaysTyped == AllSpec => []Provider!TypeOK
<1> DEFINE Inv == ProviderInv /\ ProviderBounded
<1>1. Provider!Init => Inv
  <2>1. Provider!Init => ProviderBounded
    BY ProviderAssumption DEF Provider!Init, ProviderBounded, Provider!Idle
  <2>2. QED BY <2>1, FetchInit
<1>2. Inv /\ [Provider!Next]_Provider!vars => Inv'
  BY FetchNext, ProviderInBounds
<1>3. Inv => Provider!TypeOK
  <2> SUFFICES ASSUME Inv PROVE Provider!TypeOK
    OBVIOUS
  <2>1. ProviderTyped
    BY DEF ProviderInv
  <2>2. /\ walk.pc \in {"idle", "month", "page", "commit"}
        /\ walk.months \subseteq Provider!Months
        /\ walk.got \subseteq Provider!Games /\ walk.advancing \in BOOLEAN
        /\ walk.failures \subseteq Provider!Reasons
    BY <2>1 DEF ProviderTyped, Walks
  <2>3. QED BY <2>1, <2>2 DEF ProviderTyped, ProviderBounded, Provider!TypeOK
<1> HIDE DEF Inv
<1>4. QED BY ProviderPart, <1>1, <1>2, <1>3, PTL DEF Provider!Spec

-----------------------------------------------------------------------------
(* The import of a PGN, for any texts, batches and number of requests.     *)

\* What a request went past is in the library, and a request that is done
\* went past everything; the forms of a request are those of TypeOK.
WentPast(i) ==
  \A n \in 1..Len(Manual!Rows(i)) : n <= imports[i].start => Manual!Rows(i)[n] \in library
PgnInv ==
  /\ Manual!TypeOK
  /\ \A i, j \in Manual!Slots : i # j => imports[i].inserted \cap imports[j].inserted = {}
  /\ UNION {imports[i].inserted : i \in Manual!Slots} = library
  /\ \A i \in Manual!Slots : imports[i].pc # "unsent" =>
       /\ imports[i].of \in Manual!Texts
       /\ WentPast(i)
       /\ imports[i].pc = "saved" => imports[i].start >= Len(Manual!Rows(i))

LEMMA PgnInit == Manual!Init => PgnInv
<1> SUFFICES ASSUME Manual!Init PROVE PgnInv
  OBVIOUS
<1>1. /\ Manual!Unsent \in Manual!Imports /\ Manual!Unsent.pc = "unsent"
      /\ Manual!Unsent.inserted = {}
  BY DEF Manual!Unsent, Manual!Imports
<1>2. /\ imports \in [Manual!Slots -> Manual!Imports]
      /\ \A i \in Manual!Slots : imports[i].pc = "unsent" /\ imports[i].inserted = {}
  BY <1>1 DEF Manual!Init
<1>3. /\ text = Blank /\ file = Blank /\ reading = {} /\ pending = 0 /\ library = {}
      /\ open \in BOOLEAN /\ side \in BOOLEAN
  BY DEF Manual!Init
<1>4. Manual!TypeOK
  BY <1>2, <1>3, TextsAssumption DEF Manual!TypeOK
<1>5. UNION {imports[i].inserted : i \in Manual!Slots} = {}
  BY <1>2
<1>6. QED BY <1>2, <1>3, <1>4, <1>5 DEF PgnInv

\* The rows of a text, and what a batch of them takes in.
LEMMA RowsTyped ==
  ASSUME PgnInv, NEW i \in Manual!Slots, imports[i].pc # "unsent"
  PROVE  /\ Manual!Rows(i) \in Seq(Manual!Games) /\ Len(Manual!Rows(i)) \in Nat
         /\ imports[i] \in Manual!Imports /\ imports[i].start \in Nat
<1>1. Manual!Rows(i) \in Seq(Manual!Games)
  BY TextsAssumption DEF PgnInv, Manual!Rows
<1>2. QED BY <1>1, LenProperties DEF PgnInv, Manual!TypeOK, Manual!Imports

LEMMA BatchTaken ==
  ASSUME NEW S, NEW rows \in Seq(S), NEW b \in Nat, NEW e \in Nat, b < e, e <= Len(rows)
  PROVE  Manual!ToSet(SubSeq(rows, b + 1, e)) = {rows[n] : n \in (b + 1)..e}
<1> DEFINE sub == SubSeq(rows, b + 1, e)
<1>1. /\ DOMAIN sub = 1..(e - b)
      /\ \A k \in 1..(e - b) : sub[k] = rows[b + k]
  BY SubSeqProperties, LenProperties
<1> HIDE DEF sub
<1>2. Manual!ToSet(sub) = {sub[k] : k \in 1..(e - b)}
  BY <1>1 DEF Manual!ToSet
<1>3. ASSUME NEW k \in 1..(e - b) PROVE sub[k] \in {rows[n] : n \in (b + 1)..e}
  <2>1. b + k \in (b + 1)..e
    OBVIOUS
  <2>2. QED BY <1>1, <2>1
<1>4. ASSUME NEW n \in (b + 1)..e PROVE rows[n] \in {sub[k] : k \in 1..(e - b)}
  <2>1. n - b \in 1..(e - b) /\ b + (n - b) = n
    OBVIOUS
  <2>2. sub[n - b] = rows[n]
    BY <1>1, <2>1
  <2>3. QED BY <2>1, <2>2
<1>5. QED BY <1>2, <1>3, <1>4 DEF sub

LEMMA PgnNext == PgnInv /\ [Manual!Next]_Manual!vars => PgnInv'
<1> SUFFICES ASSUME PgnInv, [Manual!Next]_Manual!vars PROVE PgnInv'
  OBVIOUS
<1> USE DEF Manual!formVars
<1>0. /\ Manual!TypeOK /\ imports \in [Manual!Slots -> Manual!Imports]
      /\ library \subseteq Manual!Games
  BY DEF PgnInv, Manual!TypeOK
\* What happens to the form alone.
<1>1. ASSUME UNCHANGED <<imports, library>>,
             open' \in BOOLEAN, side' \in BOOLEAN, text' \in Manual!Texts \cup {Blank},
             file' \in Files \cup {Blank}, reading' \subseteq Files, pending' \in 0..MaxImports
      PROVE  PgnInv'
  <2>1. Manual!TypeOK'
    BY <1>0, <1>1 DEF Manual!TypeOK
  <2>2. \A i \in Manual!Slots : WentPast(i)' <=> WentPast(i)
    BY <1>1 DEF WentPast, Manual!Rows
  <2>3. \A i \in Manual!Slots : Manual!Rows(i)' = Manual!Rows(i)
    BY <1>1 DEF Manual!Rows
  <2>4. QED BY <1>1, <2>1, <2>2, <2>3 DEF PgnInv
<1>2. /\ open \in BOOLEAN /\ side \in BOOLEAN /\ text \in Manual!Texts \cup {Blank}
      /\ file \in Files \cup {Blank} /\ reading \subseteq Files /\ pending \in 0..MaxImports
      /\ 0 \in 0..MaxImports
  BY <1>0, TextsAssumption DEF Manual!TypeOK
\* A request that goes on, or is heard of, with the games it counts.
<1>3. ASSUME NEW i \in Manual!Slots, NEW r \in Manual!Imports, imports' = [imports EXCEPT ![i] = r],
             r.of = imports[i].of, imports[i].pc # "unsent", r.pc # "unsent",
             r.inserted = imports[i].inserted, library' = library, r.start = imports[i].start,
             r.pc = "saved" => r.start >= Len(Manual!Rows(i)),
             open' \in BOOLEAN, side' \in BOOLEAN, text' \in Manual!Texts \cup {Blank},
             file' \in Files \cup {Blank}, reading' \subseteq Files, pending' \in 0..MaxImports
      PROVE  PgnInv'
  <2>1. imports' \in [Manual!Slots -> Manual!Imports] /\ imports'[i] = r
        /\ \A j \in Manual!Slots : j # i => imports'[j] = imports[j]
    BY <1>0, <1>3
  <2>2. Manual!TypeOK'
    BY <1>0, <1>3, <2>1 DEF Manual!TypeOK
  <2>3. \A j \in Manual!Slots : /\ Manual!Rows(j)' = Manual!Rows(j)
                               /\ imports'[j].inserted = imports[j].inserted
                               /\ imports'[j].start = imports[j].start
                               /\ imports'[j].of = imports[j].of
    BY <1>3, <2>1 DEF Manual!Rows
  <2>4. \A j \in Manual!Slots : WentPast(j) => WentPast(j)'
    BY <1>3, <2>3 DEF WentPast
  <2>5. \A j \in Manual!Slots : imports'[j].pc # "unsent" =>
          /\ imports[j].pc # "unsent"
          /\ imports'[j].pc = "saved" => imports'[j].start >= Len(Manual!Rows(j))
    BY <1>3, <2>1 DEF PgnInv
  <2>6. UNION {imports'[j].inserted : j \in Manual!Slots} = library'
    BY <1>3, <2>3 DEF PgnInv
  <2>7. QED BY <2>2, <2>3, <2>4, <2>5, <2>6 DEF PgnInv
<1>4. CASE Manual!Open \/ Manual!Close \/ Manual!RemoveFile \/ Manual!Answer
  BY <1>1, <1>2, <1>4
  DEF Manual!Open, Manual!Close, Manual!RemoveFile, Manual!Answer, Manual!Fresh, Manual!Edit
<1>5. ASSUME NEW f \in Files, Manual!Pick(f) \/ Manual!Read(f) PROVE PgnInv'
  BY <1>1, <1>2, <1>5 DEF Manual!Pick, Manual!Read, Manual!Texts
<1>6. ASSUME NEW t \in Pasted, Manual!Paste(t) PROVE PgnInv'
  BY <1>1, <1>2, <1>6 DEF Manual!Paste, Manual!Edit, Manual!Texts
<1>7. CASE Manual!Submit
  <2>1. PICK i \in Manual!Slots :
          /\ text # Blank /\ imports[i] = Manual!Unsent
          /\ imports' = [imports EXCEPT ![i] = [Manual!Unsent EXCEPT !.pc = "saving", !.of = text]]
          /\ pending' = i /\ UNCHANGED <<open, text, file, reading, side, library>>
    BY <1>7 DEF Manual!Submit, Manual!CanSubmit
  <2> DEFINE r == [Manual!Unsent EXCEPT !.pc = "saving", !.of = text]
  <2>2. /\ text \in Manual!Texts /\ r \in Manual!Imports /\ r.pc = "saving" /\ r.of = text
        /\ r.start = 0 /\ r.inserted = {} /\ Manual!Unsent.inserted = {}
    BY <2>1, <1>2 DEF Manual!Unsent, Manual!Imports
  <2> HIDE DEF r
  <2>3. /\ imports' \in [Manual!Slots -> Manual!Imports] /\ imports'[i] = r
        /\ \A j \in Manual!Slots : j # i => imports'[j] = imports[j]
    BY <1>0, <2>1, <2>2 DEF r
  <2>4. Manual!TypeOK'
    BY <1>0, <1>2, <2>1, <2>3 DEF Manual!TypeOK, Manual!Slots
  <2>5. \A j \in Manual!Slots : imports'[j].inserted = imports[j].inserted
    BY <2>1, <2>2, <2>3
  <2>6. \A j \in Manual!Slots : j # i => /\ Manual!Rows(j)' = Manual!Rows(j)
                                         /\ WentPast(j) => WentPast(j)'
    BY <2>1, <2>3 DEF Manual!Rows, WentPast
  <2>7. WentPast(i)'
    <3>1. \A n \in 1..Len(Manual!Rows(i)') : ~(n <= imports'[i].start)
      BY <2>2, <2>3
    <3>2. QED BY <3>1 DEF WentPast
  <2>8. UNION {imports'[j].inserted : j \in Manual!Slots} = library'
    BY <2>1, <2>5 DEF PgnInv
  <2>9. QED BY <2>2, <2>3, <2>4, <2>5, <2>6, <2>7, <2>8 DEF PgnInv
<1>8. ASSUME NEW i \in Manual!Slots, Manual!SaveBatch(i) PROVE PgnInv'
  <2> DEFINE rows == Manual!Rows(i)
             b == imports[i].start
             e == Manual!Min({b + BatchSize, Len(rows)})
             batch == Manual!Batch(i)
  <2>1. /\ imports[i].pc = "saving" /\ b < Len(rows) /\ library' = library \cup batch
        /\ imports' = [imports EXCEPT ![i].start = b + BatchSize,
                                      ![i].inserted = imports[i].inserted \cup (batch \ library)]
        /\ UNCHANGED <<open, text, file, reading, side, pending>>
    BY <1>8 DEF Manual!SaveBatch, Manual!Inserted
  <2>2. /\ rows \in Seq(Manual!Games) /\ Len(rows) \in Nat /\ b \in Nat
        /\ imports[i] \in Manual!Imports
        /\ BatchSize \in Nat \ {0}
    BY <2>1, RowsTyped, TextsAssumption
  <2>3. e \in {b + BatchSize, Len(rows)} /\ e <= b + BatchSize /\ e <= Len(rows)
    BY <2>2 DEF Manual!Min
  <2>4. batch = Manual!ToSet(SubSeq(rows, b + 1, e))
    BY DEF Manual!Batch
  <2> HIDE DEF e, batch, rows, b
  <2>5. e \in Nat /\ b < e
    BY <2>1, <2>2, <2>3
  <2>6. batch = {rows[n] : n \in (b + 1)..e}
    BY <2>2, <2>3, <2>4, <2>5, BatchTaken
  <2>7. batch \subseteq Manual!Games
    <3>1. \A n \in (b + 1)..e : n \in 1..Len(rows)
      BY <2>2, <2>3, <2>5
    <3>2. \A n \in 1..Len(rows) : rows[n] \in Manual!Games
      BY <2>2, ElementOfSeq
    <3>3. QED BY <2>6, <3>1, <3>2
  <2>8. /\ imports' \in [Manual!Slots -> Manual!Imports]
        /\ imports'[i].start = b + BatchSize /\ imports'[i].of = imports[i].of
        /\ imports'[i].pc = "saving"
        /\ imports'[i].inserted = imports[i].inserted \cup (batch \ library)
        /\ \A j \in Manual!Slots : j # i => imports'[j] = imports[j]
    <3>1. [[imports[i] EXCEPT !.start = b + BatchSize]
             EXCEPT !.inserted = imports[i].inserted \cup (batch \ library)] \in Manual!Imports
      <4>1. b + BatchSize \in Nat
        BY <2>2
      <4>2. imports[i].inserted \cup (batch \ library) \in SUBSET Manual!Games
        BY <2>2, <2>7 DEF Manual!Imports
      <4>3. [imports[i] EXCEPT !.start = b + BatchSize] \in Manual!Imports
        BY <2>2, <4>1 DEF Manual!Imports
      <4>4. QED BY <4>2, <4>3 DEF Manual!Imports
    <3>2. /\ imports'[i] = [[imports[i] EXCEPT !.start = b + BatchSize]
                              EXCEPT !.inserted = imports[i].inserted \cup (batch \ library)]
          /\ \A j \in Manual!Slots : j # i => imports'[j] = imports[j]
          /\ imports' = [imports EXCEPT ![i] = imports'[i]]
      BY <2>1, <1>0
    <3>3. imports' \in [Manual!Slots -> Manual!Imports]
      BY <3>1, <3>2, <1>0
    <3>4. QED BY <3>2, <3>3, <2>1, <2>2 DEF Manual!Imports
  <2>9. Manual!TypeOK'
    BY <1>0, <1>2, <2>1, <2>7, <2>8 DEF Manual!TypeOK
  <2>10. \A j \in Manual!Slots : imports[j].inserted \subseteq library
    BY DEF PgnInv
  <2>11. \A j, k \in Manual!Slots : j # k => imports'[j].inserted \cap imports'[k].inserted = {}
    BY <2>8, <2>10 DEF PgnInv
  <2>12. UNION {imports'[j].inserted : j \in Manual!Slots} = library'
    <3>1. library = UNION {imports[j].inserted : j \in Manual!Slots}
      BY DEF PgnInv
    <3>2. \A j \in Manual!Slots : imports'[j].inserted \subseteq library'
      BY <2>1, <2>8, <2>10
    <3>3. \A g \in library' : \E j \in Manual!Slots : g \in imports'[j].inserted
      BY <3>1, <2>1, <2>8
    <3>4. QED BY <3>2, <3>3
  <2>13. \A j \in Manual!Slots : Manual!Rows(j)' = Manual!Rows(j)
    BY <2>8 DEF Manual!Rows
  <2>14. \A j \in Manual!Slots : j # i /\ WentPast(j) => WentPast(j)'
    BY <2>1, <2>8, <2>13 DEF WentPast
  <2>15. WentPast(i)'
    <3>1. ASSUME NEW n \in 1..Len(rows), n <= b + BatchSize PROVE rows[n] \in library'
      <4>1. CASE n <= b
        <5>1. WentPast(i)
          BY <2>1 DEF PgnInv
        <5>2. QED BY <4>1, <5>1, <2>1 DEF WentPast, rows, b
      <4>2. CASE n > b
        <5>1. n \in (b + 1)..e
          BY <4>2, <3>1, <2>2, <2>3, <2>5
        <5>2. QED BY <5>1, <2>1, <2>6
      <4>3. QED BY <4>1, <4>2, <2>2
    <3>2. QED BY <3>1, <2>8, <2>13 DEF WentPast, rows
  <2>16. QED BY <2>1, <2>8, <2>9, <2>11, <2>12, <2>13, <2>14, <2>15 DEF PgnInv
<1>9. ASSUME NEW i \in Manual!Slots,
             Manual!Saved(i) \/ Manual!Fail(i) \/ Manual!HearReceipt(i) \/ Manual!HearFailure(i)
      PROVE  PgnInv'
  <2> DEFINE r == imports'[i]
  <2>0. imports[i] \in Manual!Imports
    BY <1>0
  <2>1. /\ imports' = [imports EXCEPT ![i] = r] /\ r \in Manual!Imports
        /\ r.of = imports[i].of /\ r.inserted = imports[i].inserted
        /\ r.start = imports[i].start
        /\ imports[i].pc # "unsent" /\ r.pc # "unsent" /\ library' = library
        /\ r.pc = "saved" => imports[i].pc = "saved" \/ imports[i].start >= Len(Manual!Rows(i))
    <3>1. CASE Manual!Saved(i)
      BY <1>0, <2>0, <3>1 DEF Manual!Saved, Manual!Imports
    <3>2. CASE Manual!Fail(i)
      BY <1>0, <2>0, <3>2 DEF Manual!Fail, Manual!Imports
    <3>3. CASE Manual!HearReceipt(i)
      BY <1>0, <2>0, <3>3 DEF Manual!HearReceipt, Manual!Imports
    <3>4. CASE Manual!HearFailure(i)
      BY <1>0, <2>0, <3>4 DEF Manual!HearFailure, Manual!Imports
    <3>5. QED BY <1>9, <3>1, <3>2, <3>3, <3>4
  <2>2. r.pc = "saved" => r.start >= Len(Manual!Rows(i))
    BY <2>1 DEF PgnInv
  <2>3. /\ open' \in BOOLEAN /\ side' \in BOOLEAN /\ text' \in Manual!Texts \cup {Blank}
        /\ file' \in Files \cup {Blank} /\ reading' \subseteq Files
        /\ pending' \in 0..MaxImports
    BY <1>2, <1>9
    DEF Manual!Saved, Manual!Fail, Manual!HearReceipt, Manual!HearFailure, Manual!Fresh
  <2>4. QED BY <1>3, <2>1, <2>2, <2>3
<1>10. CASE Manual!Over \/ UNCHANGED Manual!vars
  BY <1>1, <1>2, <1>10 DEF Manual!Over, Manual!vars
<1>11. QED BY <1>4, <1>5, <1>6, <1>7, <1>8, <1>9, <1>10 DEF Manual!Next

LEMMA PgnPart == AllSpec => Manual!Spec
<1>1. Starts => Manual!Init
  BY DEF Starts
<1>2. [AnyStep]_allVars => [Manual!Next]_Manual!vars
  <2>1. ASSUME AnyStep PROVE [Manual!Next]_Manual!vars
    BY <2>1 DEF AnyStep, Alone, pgnVars, Manual!vars, Manual!formVars
  <2>2. ASSUME UNCHANGED allVars PROVE UNCHANGED Manual!vars
    BY <2>2 DEF allVars, pgnVars, Manual!vars, Manual!formVars
  <2>3. QED BY <2>1, <2>2
<1>3. QED BY <1>1, <1>2, PTL DEF AllSpec, Manual!Spec

\* Whatever was sent twice, at once or after a failure halfway, no two imports
\* count the same game as theirs and every game stored is counted by one; a
\* receipt is given only when all its games are in the library (importPgn).
THEOREM GamesCountedOnce == AllSpec => []EveryRowCountedOnce
<1>1. PgnInv => EveryRowCountedOnce
  <2> SUFFICES ASSUME PgnInv, NEW i \in Manual!Slots, imports[i].pc = "saved"
               PROVE  Manual!ToSet(Manual!Rows(i)) \subseteq library
    BY DEF PgnInv, EveryRowCountedOnce, Manual!EveryRowCountedOnce
  <2>1. /\ imports[i].pc # "unsent" /\ WentPast(i)
        /\ imports[i].start >= Len(Manual!Rows(i))
    BY DEF PgnInv
  <2>2. /\ Manual!Rows(i) \in Seq(Manual!Games) /\ Len(Manual!Rows(i)) \in Nat
        /\ imports[i].start \in Nat
    BY <2>1, RowsTyped
  <2>3. DOMAIN Manual!Rows(i) = 1..Len(Manual!Rows(i))
    BY <2>2, LenProperties
  <2>4. QED BY <2>1, <2>2, <2>3 DEF WentPast, Manual!ToSet
<1>2. QED BY PgnPart, PgnInit, PgnNext, <1>1, PTL DEF Manual!Spec

-----------------------------------------------------------------------------
(* The list of games, for any terms, pages and history.                    *)

\* A box that waits for nothing and awaits nothing holds the term of the URL.
ListInv ==
  /\ List!TypeOK
  /\ timer = Off /\ asked = Off => draft = search.term

LEMMA ListTerms ==
  /\ List!Terms \subseteq Drafts /\ Off \notin List!Terms /\ NoTerm \in List!Terms
  /\ \A term \in List!Terms : TermOf[term] = term
  /\ \A d \in Drafts : TermOf[d] \in List!Terms
  /\ List!First \in List!Searches
BY FieldAssumption DEF List!Terms, List!First, List!Searches

LEMMA ListInit == List!Init => ListInv
<1> SUFFICES ASSUME List!Init PROVE ListInv
  OBVIOUS
<1>1. /\ draft = NoTerm /\ timer = Off /\ asked = Off /\ entries = <<List!First>> /\ at = 1
      /\ search = List!First /\ previous = Off
      /\ cached \in BOOLEAN /\ fetching \in BOOLEAN /\ failed \in BOOLEAN
  BY DEF List!Init
<1>2. entries \in Seq(List!Searches) /\ Len(entries) = 1
  BY <1>1, ListTerms
<1>3. List!First.term = NoTerm
  BY DEF List!First
<1>4. QED BY <1>1, <1>2, <1>3, ListTerms, FieldAssumption DEF ListInv, List!TypeOK

\* Whatever renders, a box that comes to rest holds the term shown.
LEMMA Rendered ==
  ASSUME NEW here \in Drafts, NEW wait \in List!Waits \cup {Off}, NEW term \in List!Terms \cup {Off},
         NEW shown \in List!Searches, List!Render(here, wait, term, shown)
  PROVE  /\ draft' \in Drafts /\ timer' \in List!Waits \cup {Off}
         /\ asked' \in List!Terms \cup {Off}
         /\ timer' = Off /\ asked' = Off => draft' = shown.term
<1>1. shown.term \in Drafts
  BY ListTerms DEF List!Searches
<1>2. QED BY <1>1 DEF List!Render

\* The URLs of the history stay searches, within the bound.
LEMMA HistoryTyped ==
  ASSUME List!TypeOK, NEW s \in List!Searches, List!Goes(s) \/ List!Replace(s)
  PROVE  /\ entries' \in Seq(List!Searches) /\ Len(entries') <= MaxEntries
         /\ at' \in 1..Len(entries')
<1>0. entries \in Seq(List!Searches) /\ Len(entries) \in Nat /\ at \in 1..Len(entries) /\ at \in Nat
      /\ MaxEntries \in Nat /\ Len(entries) <= MaxEntries
  BY LenProperties, FieldAssumption DEF List!TypeOK
<1>1. CASE UNCHANGED <<entries, at>>
  BY <1>0, <1>1
<1>2. CASE at < MaxEntries /\ List!Push(s)
  <2> DEFINE past == SubSeq(entries, 1, at)
  <2>1. past \in Seq(List!Searches) /\ Len(past) = at
    BY <1>0, SubSeqProperties
  <2> HIDE DEF past
  <2>2. Append(past, s) \in Seq(List!Searches) /\ Len(Append(past, s)) = at + 1
    BY <2>1, AppendProperties
  <2>3. entries' = Append(past, s) /\ at' = at + 1
    BY <1>2 DEF List!Push, past
  <2>4. QED BY <1>0, <1>2, <2>2, <2>3
<1>3. CASE List!Replace(s)
  BY <1>0, <1>3, ExceptSeq DEF List!Replace
<1>4. QED BY <1>1, <1>2, <1>3 DEF List!Goes, List!urlVars

LEMMA CurrentUrl ==
  ASSUME List!TypeOK
  PROVE  /\ entries[at] \in List!Searches
         /\ \A term \in List!Terms, p \in 1..MaxPage, on \in BOOLEAN :
              /\ [entries[at] EXCEPT !.term = term, !.page = p] \in List!Searches
              /\ [entries[at] EXCEPT !.narrowed = on, !.page = p] \in List!Searches
              /\ [entries[at] EXCEPT !.page = p] \in List!Searches
<1>1. entries[at] \in List!Searches
  BY ElementOfSeq DEF List!TypeOK
<1>2. QED BY <1>1 DEF List!Searches

LEMMA ListNext == ListInv /\ [List!Next]_List!vars => ListInv'
<1> SUFFICES ASSUME ListInv, [List!Next]_List!vars PROVE ListInv'
  OBVIOUS
<1> USE DEF List!boxVars, List!urlVars, List!queryVars
<1>0. /\ List!TypeOK /\ 1 \in 1..MaxPage /\ entries[at] \in List!Searches
      /\ draft \in Drafts /\ timer \in List!Waits \cup {Off}
      /\ asked \in List!Terms \cup {Off}
      /\ search \in List!Searches
  <2>1. List!TypeOK
    BY DEF ListInv
  <2>2. entries[at] \in List!Searches
    BY <2>1, CurrentUrl
  <2>3. QED BY <2>1, <2>2, FieldAssumption DEF List!TypeOK
<1>1. ASSUME NEW here \in Drafts, NEW wait \in List!Waits \cup {Off}, NEW term \in List!Terms \cup {Off},
             List!Render(here, wait, term, search), UNCHANGED <<search, cached, previous, fetching, failed>>,
             entries' \in Seq(List!Searches) /\ Len(entries') <= MaxEntries /\ at' \in 1..Len(entries')
      PROVE  ListInv'
  BY <1>0, <1>1, Rendered DEF ListInv, List!TypeOK
<1>2. ASSUME UNCHANGED <<draft, timer, asked, search>>,
             entries' \in Seq(List!Searches) /\ Len(entries') <= MaxEntries /\ at' \in 1..Len(entries'),
             cached' \in BOOLEAN /\ fetching' \in BOOLEAN /\ failed' \in BOOLEAN /\ previous' = previous
      PROVE  ListInv'
  BY <1>0, <1>2 DEF ListInv, List!TypeOK
<1>3. ASSUME NEW c \in List!Waits, List!Commits(c)
      PROVE  /\ entries' \in Seq(List!Searches) /\ Len(entries') <= MaxEntries
             /\ at' \in 1..Len(entries')
  <2>1. c.term \in List!Terms
    BY <1>3 DEF List!Waits
  <2>2. [entries[at] EXCEPT !.term = c.term, !.page = 1] \in List!Searches
    BY <1>0, <2>1, CurrentUrl
  <2>3. QED BY <1>0, <1>3, <2>2, HistoryTyped DEF List!Commits
<1>4. /\ entries \in Seq(List!Searches) /\ Len(entries) <= MaxEntries
      /\ at \in 1..Len(entries)
      /\ Len(entries) \in Nat
      /\ cached \in BOOLEAN /\ fetching \in BOOLEAN /\ failed \in BOOLEAN
  BY <1>0, LenProperties DEF List!TypeOK
<1>5. ASSUME NEW here \in Drafts, List!Type(here) PROVE ListInv'
  BY <1>0, <1>1, <1>4, <1>5, ListTerms DEF List!Type, List!Waits, List!Refines
<1>6. CASE List!PauseEnds
  <2>1. timer \in List!Waits /\ timer.term \in List!Terms
    BY <1>0, <1>6 DEF List!PauseEnds, List!Waits
  <2>2. QED BY <1>0, <1>1, <1>3, <1>6, <2>1 DEF List!PauseEnds
<1>7. CASE List!Clear
  <2> DEFINE c == [term |-> NoTerm, refines |-> List!Refines]
  <2>1. c \in List!Waits /\ NoTerm \in Drafts /\ NoTerm \in List!Terms
    BY ListTerms, FieldAssumption DEF List!Waits, List!Refines
  <2>2. List!Commits(c) /\ List!Render(NoTerm, Off, NoTerm, search)
        /\ UNCHANGED <<search, cached, previous, fetching, failed>>
    BY <1>7 DEF List!Clear
  <2> HIDE DEF c
  <2>3. QED BY <1>0, <1>1, <1>3, <2>1, <2>2
<1>8. CASE List!Narrow
  <2>1. PICK on \in BOOLEAN : on = ~entries[at].narrowed
    BY <1>0 DEF List!Searches
  <2>2. [entries[at] EXCEPT !.narrowed = ~@, !.page = 1] \in List!Searches
    <3>1. [entries[at] EXCEPT !.narrowed = on, !.page = 1] \in List!Searches
      BY <1>0, CurrentUrl, ListTerms
    <3>2. QED BY <2>1, <3>1
  <2>3. QED BY <1>0, <1>2, <1>4, <1>8, <2>2, HistoryTyped DEF List!Narrow
<1>9. CASE List!Move(at - 1) \/ List!Move(at + 1)
  <2>1. at' \in 1..Len(entries)
    BY <1>9 DEF List!Move
  <2>2. UNCHANGED <<draft, timer, asked, entries, search, cached, previous, fetching, failed>>
    BY <1>9 DEF List!Move
  <2>3. /\ entries' \in Seq(List!Searches) /\ Len(entries') <= MaxEntries
        /\ at' \in 1..Len(entries')
        /\ cached' \in BOOLEAN /\ fetching' \in BOOLEAN /\ failed' \in BOOLEAN
    BY <1>4, <2>1, <2>2
  <2>4. QED BY <1>2, <2>2, <2>3
<1>10. ASSUME NEW p \in 1..MaxPage, List!TurnPage(p) PROVE ListInv'
  <2>1. [entries[at] EXCEPT !.page = p] \in List!Searches
    BY <1>0, CurrentUrl, ListTerms
  <2>2. /\ entries' \in Seq(List!Searches) /\ Len(entries') <= MaxEntries
        /\ at' \in 1..Len(entries')
    BY <1>0, <1>10, <2>1, HistoryTyped DEF List!TurnPage
  <2>3. QED BY <1>2, <1>4, <1>10, <2>2 DEF List!TurnPage
<1>11. CASE List!Arrive
  <2>1. /\ search' = entries[at] /\ List!Render(draft, timer, asked, search')
        /\ UNCHANGED <<entries, at>>
        /\ previous' \in {search, previous} /\ failed' \in BOOLEAN /\ cached' \in BOOLEAN
        /\ fetching' \in BOOLEAN
    BY <1>11 DEF List!Arrive
  <2>2. /\ draft' \in Drafts /\ timer' \in List!Waits \cup {Off}
        /\ asked' \in List!Terms \cup {Off}
        /\ timer' = Off /\ asked' = Off => draft' = search'.term
    BY <1>0, <2>1, Rendered
  <2>3. QED BY <1>0, <2>1, <2>2 DEF ListInv, List!TypeOK
<1>12. CASE List!Invalidate \/ List!Load \/ List!LoadFails
  <2>1. /\ cached' \in BOOLEAN /\ fetching' \in BOOLEAN /\ failed' \in BOOLEAN
        /\ UNCHANGED <<draft, timer, asked, entries, at, search, previous>>
    BY <1>4, <1>12 DEF List!Invalidate, List!Load, List!LoadFails
  <2>2. QED BY <1>2, <1>4, <2>1
<1>13. CASE UNCHANGED List!vars
  BY <1>2, <1>4, <1>13 DEF List!vars
<1>14. QED BY <1>5, <1>6, <1>7, <1>8, <1>9, <1>10, <1>11, <1>12, <1>13 DEF List!Next

LEMMA ListPart == AllSpec => List!Spec
<1>1. Starts => List!Init
  BY DEF Starts
<1>2. [AnyStep]_allVars => [List!Next]_List!vars
  <2>1. ASSUME AnyStep PROVE [List!Next]_List!vars
    BY <2>1 DEF AnyStep, Alone, listVars, List!vars, List!boxVars, List!urlVars,
                List!queryVars
  <2>2. ASSUME UNCHANGED allVars PROVE UNCHANGED List!vars
    BY <2>2 DEF allVars, listVars, List!vars, List!boxVars, List!urlVars, List!queryVars
  <2>3. QED BY <2>1, <2>2
<1>3. QED BY <1>1, <1>2, PTL DEF AllSpec, List!Spec

\* Whatever was typed, cleared, narrowed, gone back to or turned meanwhile,
\* once nothing waits or is awaited the rows are of the term in the field and
\* of the filters shown (useGamesSearch, listGames).
THEOREM RowsAreOfTheField == AllSpec => []RowsAnswerTheField
<1>1. ListInv => RowsAnswerTheField
  <2> SUFFICES ASSUME ListInv, timer = Off, asked = Off, List!Rows # Off
               PROVE  List!Narrowing(List!Rows) = <<TermOf[draft], search.narrowed>>
    BY DEF RowsAnswerTheField, List!RowsAnswerTheField
  <2>1. List!Narrowing(List!Rows) = List!Narrowing(search)
    BY DEF List!Rows, List!StandIn
  <2>2. TermOf[draft] = search.term
    BY ListTerms DEF ListInv, List!TypeOK, List!Searches
  <2>3. QED BY <2>1, <2>2 DEF List!Narrowing
<1>2. QED BY ListPart, ListInit, ListNext, <1>1, PTL DEF List!Spec
===============================================================================
