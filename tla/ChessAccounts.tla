------------------------------ MODULE ChessAccounts ------------------------------
(***************************************************************************)
(* A provider's slot as one tab sees and changes it.  The server holds at  *)
(* most one account in it; connecting confirms the handle with the         *)
(* provider between reading the slot and filling it.  The tab shows the    *)
(* slot as a row of the connections screen, and covers the application     *)
(* with the onboarding dialog, from three cached queries, which its own    *)
(* changes refresh before they count as done.  Other tabs and devices      *)
(* change the slot meanwhile.                                              *)
(*                                                                         *)
(* Abstractions.  Both providers behave alike; one slot is modelled.  A    *)
(* sync is active or over (SyncJobs has its life).  The library is whether *)
(* it has games; nothing was pasted as PGN.  The form stands in three      *)
(* places: a slide of the onboarding dialog, the dialog of the row and the *)
(* import page.  The person is on the connections screen or on the import  *)
(* page, whose redirect may name any other screen and here names the first.*)
(***************************************************************************)
EXTENDS Naturals

CONSTANTS
  Handles,
  Typed,         \* bound: those this tab's person types
  MaxAccounts,   \* bound: accounts connected
  ImportStep,    \* bound: the slides of the onboarding dialog before its form
  Nobody,        \* no account
  Unknown        \* not read yet

VARIABLES
  account,     \* the account in the slot, or Nobody
  made,        \* accounts connected so far
  onboarded,
  archive,     \* the library has games
  query,       \* the cached queries
  awaiting,    \* the refetches the mutation under way waits for
  watching,    \* the component that asked for it is still mounted
  connect, removal, resync,
  page,        \* the screen the person is on
  refused,     \* the forms told that another handle is in the slot
  opened,      \* the connect dialog of the row
  confirming,  \* the row's confirmation
  step         \* the slide of the onboarding dialog

serverVars == <<account, made, onboarded, archive>>
cacheVars  == <<query, awaiting>>
uiVars     == <<watching, page, refused, opened, confirming, step>>
vars == <<serverVars, cacheVars, uiVars, connect, removal, resync>>

-----------------------------------------------------------------------------
Queries   == {"accounts", "games", "session"}
Pages      == {"connections", "import"}
Forms      == {"tour", "row", "page"}
Accounts   == [id : 1..MaxAccounts, handle : Handles, active : BOOLEAN]
Rows       == [id : 1..MaxAccounts, active : BOOLEAN]
Answers(q) == (IF q = "accounts" THEN Rows \cup {Nobody} ELSE BOOLEAN) \cup {Unknown}

TypeOK ==
  /\ account \in Accounts \cup {Nobody} /\ made \in 0..MaxAccounts
  /\ onboarded \in BOOLEAN /\ archive \in BOOLEAN
  /\ DOMAIN query = Queries
  /\ \A q \in Queries : query[q] \in [data : Answers(q), fetching : BOOLEAN, got : Answers(q),
                                     failed : BOOLEAN]
  /\ awaiting \subseteq Queries
  /\ watching \in BOOLEAN
  /\ connect \in [pc : {"idle", "looking", "verifying", "raced", "marking", "refreshing"},
                  form : Forms \cup {Nobody}, handle : Handles \cup {Nobody},
                  id : 0..MaxAccounts, unread : BOOLEAN]
  /\ removal \in [pc : {"idle", "sent", "refreshing"}, id : 0..MaxAccounts]
  /\ resync \in {"idle", "sent", "refreshing"}
  /\ page \in Pages /\ refused \subseteq Forms
  /\ opened \in BOOLEAN /\ confirming \in BOOLEAN /\ step \in 0..ImportStep

FirstLoad == [data |-> Unknown, fetching |-> TRUE, got |-> Unknown, failed |-> FALSE]
\* unread is history: the refresh after the connection failed to read the
\* accounts, or joined a first load that had read them already.
NoConnect == [pc |-> "idle", form |-> Nobody, handle |-> Nobody, id |-> 0, unread |-> FALSE]
NoRemoval == [pc |-> "idle", id |-> 0]

\* The guard of the signed-in routes has read the session.
Loaded(knows) == [q \in Queries |->
  IF q = "session" THEN [FirstLoad EXCEPT !.data = knows, !.fetching = FALSE] ELSE FirstLoad]

Init ==
  /\ account = Nobody /\ made = 0
  /\ onboarded \in BOOLEAN /\ archive = FALSE
  /\ query = Loaded(onboarded)
  /\ awaiting = {} /\ watching = FALSE
  /\ page \in Pages /\ refused = {} /\ opened = FALSE /\ confirming = FALSE /\ step = 0
  /\ connect = NoConnect
  /\ removal = NoRemoval /\ resync = "idle"

-----------------------------------------------------------------------------
\* What the screens decide from the cache.
Listed       == query["accounts"].data
Ready        == Listed # Unknown /\ ~query["accounts"].failed
ConnectedRow == page = "connections" /\ Ready /\ Listed # Nobody
AvailableRow == page = "connections" /\ Ready /\ Listed = Nobody

\* onboardingState.
Onboarding ==
  IF query["games"].failed \/ query["accounts"].failed THEN "error"
  ELSE IF query["games"].data = Unknown \/ Listed = Unknown THEN "loading"
  ELSE IF query["games"].data = TRUE THEN "ready"
  ELSE IF Listed # Nobody /\ Listed.active THEN "syncing"
  ELSE IF query["session"].data = TRUE \/ Listed # Nobody THEN "no-games"
  ELSE "onboarding"
Covered == Onboarding \in {"onboarding", "syncing"}

\* The forms on the screen: a slide of the onboarding dialog, the row's dialog,
\* and the import page, which has no loader and does not wait for the rows.
Shown == {f \in Forms : \/ f = "tour" /\ Onboarding = "onboarding" /\ step = ImportStep
                        \/ f = "row"  /\ AvailableRow /\ opened
                        \/ f = "page" /\ page = "import"}
\* An account in the slot, listed or named by a refusal, replaces the field;
\* what the onboarding dialog covers is out of reach.
FormOpen(f) ==
  /\ f \in Shown \ refused /\ (Covered => f = "tour")
  /\ Listed \in {Nobody, Unknown}

Importing == connect.pc # "idle"

\* What is left mounted keeps its state; an overlay, a row or a form that
\* appears anew starts from nothing.
Rendered(o, c, s, w) ==
  /\ step' = IF Covered' THEN s ELSE 0
  /\ opened' = (o /\ AvailableRow')
  /\ confirming' = (c /\ ConnectedRow')
  /\ refused' = refused \cap Shown'
  /\ watching' = (w /\ IF Importing THEN connect.form \in Shown' ELSE ConnectedRow')
SameScreen == page' = page /\ Rendered(opened, confirming, step, watching)

-----------------------------------------------------------------------------
\* The cache.  A fetch of the accounts reads them some time before its answer
\* lands; the other two are read as they land.
Row(a)  == IF a = Nobody THEN Nobody ELSE [id |-> a.id, active |-> a.active]

\* Fault: a fetch under way is joined, whatever it has read.
RefetchedJoined(q) == [query[q] EXCEPT !.fetching = TRUE]

\* A fetch under way is cancelled and started again, but a first load is joined.
Refetched(q) ==
  IF query[q].data = Unknown
  THEN [query[q] EXCEPT !.fetching = TRUE, !.failed = FALSE]
  ELSE [query[q] EXCEPT !.fetching = TRUE, !.got = Unknown]
Invalidated(qs) == [q \in Queries |-> IF q \in qs THEN Refetched(q) ELSE query[q]]

Read ==
  /\ query["accounts"].fetching /\ query["accounts"].got = Unknown
  /\ query' = [query EXCEPT !["accounts"].got = Row(account)]
  /\ UNCHANGED <<serverVars, awaiting, uiVars, connect, removal, resync>>

Landed(q, answer) ==
  /\ query' = [query EXCEPT ![q] = [FirstLoad EXCEPT !.data = answer, !.fetching = FALSE]]
  /\ awaiting' = awaiting \ {q}
  /\ SameScreen
  /\ UNCHANGED <<serverVars, connect, removal, resync>>

LandAccounts == /\ query["accounts"].got # Unknown
                /\ Landed("accounts", query["accounts"].got)
LandGames    == query["games"].fetching /\ Landed("games", archive)
LandSession  == query["session"].fetching /\ Landed("session", onboarded)

\* Bound: one query has failed at a time.
FetchFails(q) ==
  /\ query[q].fetching /\ \A r \in Queries : ~query[r].failed
  /\ query' = [query EXCEPT ![q] = [@ EXCEPT !.fetching = FALSE, !.got = Unknown,
                                             !.failed = TRUE]]
  /\ connect' = [connect EXCEPT
       !.unread = @ \/ (connect.pc = "refreshing" /\ q = "accounts" /\ q \in awaiting)]
  /\ awaiting' = awaiting \ {q}
  /\ SameScreen
  /\ UNCHANGED <<serverVars, removal, resync>>

\* Offered where the rows would be.
TryAgain ==
  /\ page = "connections" /\ query["accounts"].failed
  /\ query' = Invalidated({"accounts"})
  /\ SameScreen
  /\ UNCHANGED <<serverVars, awaiting, connect, removal, resync>>

-----------------------------------------------------------------------------
\* The server's side of other tabs and devices, and of the syncs.
NewAccount(h) == [id |-> made + 1, handle |-> h, active |-> TRUE]
Elsewhere == UNCHANGED <<cacheVars, uiVars, connect, removal, resync>>

\* The account is committed before the person is marked, and the process may
\* stop between the two.
ConnectElsewhere(h) ==
  /\ account = Nobody /\ made < MaxAccounts
  /\ account' = NewAccount(h) /\ made' = made + 1
  /\ onboarded' \in {onboarded, TRUE}
  /\ UNCHANGED archive /\ Elsewhere

\* The account goes with its games.
Removed ==
  /\ account' = Nobody /\ archive' = FALSE
  /\ UNCHANGED <<made, onboarded>>
RemoveElsewhere == account # Nobody /\ Removed /\ Elsewhere

\* The tab hears of it, if its event stream is up; how soon is SyncEvents'
\* matter.
SyncEnds ==
  /\ account # Nobody /\ account.active
  /\ account' = [account EXCEPT !.active = FALSE]
  /\ archive' \in {archive, TRUE}
  /\ query' \in {query, Invalidated({"accounts", "games"})}
  /\ SameScreen
  /\ UNCHANGED <<made, onboarded, awaiting, connect, removal, resync>>

-----------------------------------------------------------------------------
\* What the person does to the dialogs.
Touch(o, c, s) ==
  /\ UNCHANGED <<serverVars, cacheVars, page, connect, removal, resync>>
  /\ Rendered(o, c, s, watching)
\* Bound: this tab has one request on its way at a time.
Busy == Importing \/ removal.pc # "idle" \/ resync # "idle"

OpenDialog   == ~Covered /\ AvailableRow /\ ~opened /\ Touch(TRUE, confirming, step)
CloseDialog  == ~Covered /\ opened /\ Touch(FALSE, confirming, step)
AskRemoval   == ~Covered /\ ConnectedRow /\ ~confirming /\ Touch(opened, TRUE, step)
CancelRemoval ==
  /\ confirming /\ ~(watching /\ removal.pc # "idle")
  /\ Touch(opened, FALSE, step)
\* "Next" or "Skip"; and "Back", which an import under way disables.
NextSlide == /\ Onboarding = "onboarding" /\ step < ImportStep
             /\ \E s \in {step + 1, ImportStep} : Touch(opened, confirming, s)
Back == /\ Onboarding = "onboarding" /\ step = ImportStep /\ ~Importing
        /\ Touch(opened, confirming, step - 1)

\* The person goes to another screen; what covers it stays.  Bound: to the import
\* page by loading it.
Visit ==
  /\ page = "import" /\ page' = "connections"
  /\ UNCHANGED <<serverVars, cacheVars, connect, removal, resync>>
  /\ Rendered(opened, confirming, step, watching)

Reload ==
  /\ ~Busy
  /\ page' \in Pages
  /\ query' = Loaded(onboarded)
  /\ Rendered(FALSE, FALSE, 0, FALSE)
  /\ UNCHANGED <<serverVars, awaiting, connect, removal, resync>>

-----------------------------------------------------------------------------
\* The connect form.
Submit(h, f) ==
  /\ FormOpen(f) /\ ~Busy
  /\ connect' = [NoConnect EXCEPT !.pc = "looking", !.form = f, !.handle = h]
  /\ watching' = TRUE
  /\ UNCHANGED <<serverVars, cacheVars, page, refused, opened, confirming, step, removal, resync>>

ConnectGoes(next) ==
  /\ connect' = next
  /\ UNCHANGED <<cacheVars, uiVars, removal, resync>>

\* The form, if it is still there, says what went wrong.
ConnectEnds(refusal) ==
  /\ connect' = NoConnect
  /\ refused' = IF watching /\ refusal THEN refused \cup {connect.form} ELSE refused
  /\ watching' = FALSE
  /\ UNCHANGED <<cacheVars, page, opened, confirming, step, removal, resync>>

\* alreadyTracked: the same handle is connected, another one is refused.
AlreadyTracked ==
  \/ /\ account.handle = connect.handle
     /\ ConnectGoes([connect EXCEPT !.pc = "marking", !.id = account.id])
  \/ account.handle # connect.handle /\ ConnectEnds(TRUE)

\* The slot is read before the provider is asked.
Look ==
  /\ connect.pc = "looking"
  /\ IF account = Nobody THEN ConnectGoes([connect EXCEPT !.pc = "verifying"])
                         ELSE AlreadyTracked
  /\ UNCHANGED serverVars

\* The provider has no such handle or no answer, or the request fails on its way.
ConnectFails ==
  /\ connect.pc \in {"looking", "verifying", "marking"}
  /\ ConnectEnds(FALSE)
  /\ UNCHANGED serverVars

\* One transaction: the account, its first job and the delivery.
Insert ==
  /\ connect.pc = "verifying"
  /\ \/ /\ account = Nobody /\ made < MaxAccounts
        /\ account' = NewAccount(connect.handle) /\ made' = made + 1
        /\ ConnectGoes([connect EXCEPT !.pc = "marking", !.id = made + 1])
     \/ /\ account # Nobody
        /\ ConnectGoes([connect EXCEPT !.pc = "raced"])
        /\ UNCHANGED <<account, made>>
  /\ UNCHANGED <<onboarded, archive>>

\* The account that won; it may have been removed since.
LookAgain ==
  /\ connect.pc = "raced"
  /\ IF account = Nobody THEN ConnectEnds(FALSE) ELSE AlreadyTracked
  /\ UNCHANGED serverVars

\* The answer comes once the person is marked, and the cache is refreshed.
Mark ==
  /\ connect.pc = "marking"
  /\ onboarded' = TRUE
  /\ connect' = [connect EXCEPT !.pc = "refreshing",
                                !.unread = Listed = Unknown /\ query["accounts"].got # Unknown]
  /\ query' = Invalidated({"accounts", "session"})
  /\ awaiting' = {"accounts", "session"}
  /\ SameScreen
  /\ UNCHANGED <<account, made, archive, removal, resync>>

\* The row's dialog closes, though a row that has appeared anew since keeps its
\* own; onboarding stays at the form until it steps aside; and the import page
\* navigates, wherever the person has gone meanwhile.
Leave ==
  /\ connect.pc = "refreshing" /\ awaiting = {}
  /\ connect' = NoConnect
  /\ page' = IF connect.form = "page" THEN "connections" ELSE page
  /\ UNCHANGED <<serverVars, cacheVars, removal, resync>>
  /\ \E o \in {opened /\ (connect.form = "row" => ~watching), opened /\ connect.form # "row"} :
       Rendered(o, confirming, step, FALSE)

-----------------------------------------------------------------------------
\* The removal of the account the row is about.
ConfirmRemoval ==
  /\ confirming /\ ~Busy
  /\ removal' = [pc |-> "sent", id |-> Listed.id]
  /\ watching' = TRUE
  /\ UNCHANGED <<serverVars, cacheVars, page, refused, opened, confirming, step, connect, resync>>

Remove ==
  /\ removal.pc = "sent" /\ account # Nobody /\ account.id = removal.id
  /\ Removed
  /\ removal' = [removal EXCEPT !.pc = "refreshing"]
  /\ query' = Invalidated({"accounts", "games"})
  /\ awaiting' = {"accounts", "games"}
  /\ SameScreen
  /\ UNCHANGED <<connect, resync>>

\* Not there any more, or the request fails.
RemovalFails ==
  /\ removal.pc = "sent"
  /\ removal' = NoRemoval
  /\ UNCHANGED <<serverVars, cacheVars, page, connect, resync>>
  /\ Rendered(opened, confirming /\ ~watching, step, FALSE)

RemovalDone ==
  /\ removal.pc = "refreshing" /\ awaiting = {}
  /\ removal' = NoRemoval
  /\ UNCHANGED <<serverVars, cacheVars, page, connect, resync>>
  /\ Rendered(opened, confirming /\ ~watching, step, FALSE)

-----------------------------------------------------------------------------
\* A sync by hand, of the row or of every account.
Syncing == \/ watching /\ resync # "idle"
           \/ Listed.active

RequestSync ==
  /\ ~Covered /\ ConnectedRow /\ ~Syncing /\ ~Busy
  /\ resync' = "sent"
  /\ watching' = TRUE
  /\ UNCHANGED <<serverVars, cacheVars, page, refused, opened, confirming, step, connect, removal>>

\* Accepted, or refused: gone, too soon or failed.  The list is refreshed anyway.
SyncAnswered ==
  /\ resync = "sent"
  /\ \/ /\ account # Nobody
        /\ account' = [account EXCEPT !.active = TRUE]
     \/ UNCHANGED account
  /\ resync' = "refreshing"
  /\ query' = Invalidated({"accounts"})
  /\ awaiting' = {"accounts"}
  /\ SameScreen
  /\ UNCHANGED <<made, onboarded, archive, connect, removal>>

SyncRequested ==
  /\ resync = "refreshing" /\ awaiting = {}
  /\ resync' = "idle" /\ watching' = FALSE
  /\ UNCHANGED <<serverVars, cacheVars, page, refused, opened, confirming, step, connect, removal>>

-----------------------------------------------------------------------------
Next ==
  \/ Read \/ LandAccounts \/ LandGames \/ LandSession
  \/ \E q \in Queries : FetchFails(q)
  \/ TryAgain
  \/ \E h \in Handles : ConnectElsewhere(h)
  \/ \E h \in Typed, f \in Forms : Submit(h, f)
  \/ RemoveElsewhere \/ SyncEnds \/ Visit \/ Reload
  \/ OpenDialog \/ CloseDialog \/ AskRemoval \/ CancelRemoval \/ NextSlide \/ Back
  \/ Look \/ ConnectFails \/ Insert \/ LookAgain \/ Mark \/ Leave
  \/ ConfirmRemoval \/ Remove \/ RemovalFails \/ RemovalDone
  \/ RequestSync \/ SyncAnswered \/ SyncRequested

Spec == Init /\ [][Next]_vars

-----------------------------------------------------------------------------
\* A form that closes or navigates does so over fresh data: the account it
\* connected, if it still exists, is listed, and the session knows the tour is
\* over, whatever other refreshes ran (connect-account, useImportGames).  Two
\* cases are not covered.  The refresh may fail.  And the import page can be
\* sent before the first load of the accounts is answered: the refresh joins
\* that load, and if it had read the slot before the account was inserted, the
\* page leaves over rows that lack it, whatever connect-account's comment says.
LeavesOnFresh ==
  [][connect.pc = "refreshing" /\ connect'.pc # "refreshing" =>
       /\ \/ query["session"].data = TRUE \/ query["session"].failed
       /\ \/ connect.unread
          \/ account = Nobody \/ account.id # connect.id
          \/ Listed \notin {Nobody, Unknown} /\ Listed.id = connect.id]_vars
=============================================================================
