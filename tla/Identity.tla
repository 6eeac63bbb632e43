------------------------------- MODULE Identity -------------------------------
(***************************************************************************)
(* Who the person at one tab is: to the server, by the session the         *)
(* browser's cookie names; to the tab, by the cached session query, which  *)
(* the guards of /login and of the signed-in routes decide by.  A request  *)
(* carries the cookie it was sent with, and its answer is whatever that    *)
(* session is worth when the server reads it.                              *)
(*                                                                         *)
(* Abstractions.  The request "data" stands for every cached read of the   *)
(* API, "change" for every mutation of it.  Only this tab changes the      *)
(* cookie; a link of an e-mail and the way back from Google load it        *)
(* afresh, and whether one still works is Better Auth's to say.  The       *)
(* screens that ask for a link to reset the password, and that change it   *)
(* by one, are one screen.  Addresses, passwords and texts are left out.   *)
(***************************************************************************)
EXTENDS IdentityConstants, FiniteSets

VARIABLES
  owner, live,   \* of the sessions so far
  cookie,        \* the session the browser's cookie names; 0 is none
  screen, nav,   \* the screen shown, and the one whose guard waits for the session
  session, data, \* the cached queries
  request,       \* the requests on their way
  signingIn,
  leaving

serverVars == <<owner, live>>
cacheVars  == <<session, data>>
vars       == <<serverVars, cookie, screen, nav, cacheVars, request, signingIn, leaving>>

-----------------------------------------------------------------------------
Sessions == 1..MaxSessions
Whom     == People \cup {Nobody}
Kinds    == {"session", "data", "change"}
Leaves   == {"out", "everywhere"}
Requests == [pc : {"idle", "sent", "read"}, as : 0..MaxSessions, who : Whom]
Idle     == [pc |-> "idle", as |-> 0, who |-> Nobody]
NoSignIn == [pc |-> "idle", who |-> Nobody]

TypeOK ==
  /\ owner \in [Sessions -> Whom] /\ live \subseteq Sessions
  /\ cookie \in 0..MaxSessions
  /\ screen \in {"blank", "login", "public", "app"} /\ nav \in {"none", "login", "app"}
  /\ session \in Whom \cup {Unread} /\ data \in People \cup {Unread}
  /\ request \in [Kinds -> Requests]
  /\ signingIn \in [pc : {"idle", "sent", "accepted"}, who : Whom]
  /\ leaving \in Leaves \cup {"no", "done"}

\* Who the server takes a request for: the session's user, if it still lives.
Identified(s) == IF s \in live THEN owner[s] ELSE Nobody
SentAs(s) == [pc |-> "sent", as |-> s, who |-> Nobody]
Sent == SentAs(cookie)
Asking(k) == [request EXCEPT ![k] = Sent]

\* The tab loads and its guard asks for the session.
Loads(dest, by) ==
  /\ screen' = (IF dest = "public" THEN "public" ELSE "blank")
  /\ nav' = (IF dest = "public" THEN "none" ELSE dest)
  /\ cookie' = by
  /\ session' = Unread /\ data' = Unread
  /\ request' = [k \in Kinds |-> IF k = "session" /\ dest # "public"
                                 THEN SentAs(by) ELSE Idle]
  /\ signingIn' = NoSignIn /\ leaving' = "no"

Init ==
  /\ owner = [s \in Sessions |-> Nobody] /\ live = {}
  /\ cookie = 0 /\ session = Unread /\ data = Unread
  /\ screen = "blank" /\ nav = "app"
  /\ request = [k \in Kinds |-> IF k = "session" THEN SentAs(0) ELSE Idle]
  /\ signingIn = NoSignIn /\ leaving = "no"

-----------------------------------------------------------------------------
\* Navigation.  Both guards decide alike: the signed-in screens for somebody,
\* /login for nobody, and a cached answer is not asked for again.
Wall(who) == IF who \in People THEN "app" ELSE "login"
Go(dest) ==
  IF session # Unread
  THEN screen' = Wall(session) /\ nav' = "none" /\ UNCHANGED request
  ELSE /\ nav' = dest /\ UNCHANGED screen
       /\ request' = IF request["session"].pc = "idle" THEN Asking("session") ELSE request

Navigate ==
  /\ \/ screen = "app" /\ Go("app")
     \/ screen = "public" /\ Go("login")
     \/ screen = "login" /\ screen' = "public" /\ nav' = "none" /\ UNCHANGED request
  /\ UNCHANGED <<serverVars, cookie, cacheVars, signingIn, leaving>>

Reload ==
  /\ signingIn.pc # "sent" /\ leaving = "no"
  /\ Loads("app", cookie)
  /\ UNCHANGED serverVars

-----------------------------------------------------------------------------
\* The requests of the signed-in screens.
Ask(k) ==
  /\ screen = "app" /\ request[k].pc = "idle"
  /\ k = "change" => leaving = "no" /\ signingIn.pc = "idle"
  /\ request' = Asking(k)
  /\ UNCHANGED <<serverVars, cookie, screen, nav, cacheVars, signingIn, leaving>>

\* getSession answers some time before it is heard; the routes behind
\* sessionMiddleware are answered as they are heard.
ServeSession ==
  /\ request["session"].pc = "sent"
  /\ request' = [request EXCEPT !["session"] =
                    [pc |-> "read", as |-> 0, who |-> Identified(request["session"].as)]]
  /\ UNCHANGED <<serverVars, cookie, screen, nav, cacheVars, signingIn, leaving>>

LandSession ==
  /\ request["session"].pc = "read"
  /\ session' = request["session"].who
  /\ request' = [request EXCEPT !["session"] = Idle]
  /\ IF nav = "none" THEN UNCHANGED <<screen, nav>>
                     ELSE screen' = Wall(session') /\ nav' = "none"
  /\ UNCHANGED <<serverVars, cookie, data, signingIn, leaving>>

\* A lookup that failed is no answer: the guard sends the person to /login,
\* whose own guard asks once more.
SessionUnavailable ==
  /\ request["session"].pc # "idle"
  /\ \/ nav = "app" /\ nav' = "login" /\ UNCHANGED screen /\ request' = Asking("session")
     \/ /\ nav = "login" /\ nav' = "none" /\ screen' = "login"
        /\ request' = [request EXCEPT !["session"] = Idle]
     \/ /\ nav = "none" /\ UNCHANGED <<screen, nav>>
        /\ request' = [request EXCEPT !["session"] = Idle]
  /\ UNCHANGED <<serverVars, cookie, cacheVars, signingIn, leaving>>

\* onUnauthorized: the cached session is nobody's, and the tab goes to /login
\* unless it is there.
Unauthorized ==
  /\ session' = Nobody
  /\ IF screen = "login" THEN UNCHANGED <<screen, nav>>
                         ELSE screen' = "login" /\ nav' = "none"
  /\ UNCHANGED data

LandData ==
  /\ request["data"].pc = "sent"
  /\ request' = [request EXCEPT !["data"] = Idle]
  /\ \/ /\ request["data"].as \in live /\ data' = owner[request["data"].as]
        /\ UNCHANGED <<session, screen, nav>>
     \/ request["data"].as \notin live /\ Unauthorized
  /\ UNCHANGED <<serverVars, cookie, signingIn, leaving>>

\* A change that was made has the reads asked for again.
LandChange ==
  /\ request["change"].pc = "sent"
  /\ \/ /\ request["change"].as \in live
        /\ request' = [request EXCEPT !["change"] = Idle,
                                      !["data"] = IF screen = "app" THEN Sent ELSE request["data"]]
        /\ UNCHANGED <<cacheVars, screen, nav>>
     \/ /\ request["change"].as \notin live
        /\ request' = [request EXCEPT !["change"] = Idle]
        /\ Unauthorized
  /\ UNCHANGED <<serverVars, cookie, signingIn, leaving>>

RequestFails(k) ==
  /\ k # "session" /\ request[k].pc # "idle"
  /\ request' = [request EXCEPT ![k] = Idle]
  /\ UNCHANGED <<serverVars, cookie, screen, nav, cacheVars, signingIn, leaving>>

-----------------------------------------------------------------------------
\* Signing in.
\* Bound: people come in the order of their numbers, which tells them apart no
\* less.
NewSession == Cardinality({s \in Sessions : owner[s] # Nobody}) + 1
Opens(p) ==
  /\ NewSession \in Sessions
  /\ \A q \in People : q < p => \E s \in Sessions : owner[s] = q
  /\ owner' = [owner EXCEPT ![NewSession] = p] /\ live' = live \cup {NewSession}

SubmitPassword(p) ==
  /\ screen = "login" /\ signingIn.pc = "idle" /\ leaving = "no"
  /\ signingIn' = [pc |-> "sent", who |-> p]
  /\ UNCHANGED <<serverVars, cookie, screen, nav, cacheVars, request, leaving>>

AcceptPassword ==
  /\ signingIn.pc = "sent" /\ Opens(signingIn.who)
  /\ cookie' = NewSession
  /\ signingIn' = [signingIn EXCEPT !.pc = "accepted"]
  /\ UNCHANGED <<screen, nav, cacheVars, request, leaving>>

\* Wrong credentials, an address not confirmed, or no server.
RefusePassword ==
  /\ signingIn.pc = "sent"
  /\ signingIn' = NoSignIn
  /\ UNCHANGED <<serverVars, cookie, screen, nav, cacheVars, request, leaving>>

\* Fault: the reads on their way are left to land.
ForgottenData == data' = Unread /\ UNCHANGED request

\* Every query goes, and with it what was on its way for one; a change goes on.
Forgotten ==
  /\ data' = Unread
  /\ request' = [request EXCEPT !["session"] = Idle, !["data"] = Idle]

SignedIn ==
  /\ signingIn.pc = "accepted"
  /\ Forgotten
  /\ session' = signingIn.who
  /\ screen' = "app" /\ nav' = "none"
  /\ signingIn' = NoSignIn
  /\ UNCHANGED <<serverVars, cookie, leaving>>

\* The way back from Google, or from an e-mail's link, loads the tab with a
\* session, or at /login without a new one.
Return(p) ==
  /\ signingIn.pc # "sent" /\ leaving = "no"
  /\ \/ Opens(p) /\ Loads("app", NewSession)
     \/ Loads("login", cookie) /\ UNCHANGED serverVars

OpenResetLink ==
  /\ signingIn.pc # "sent" /\ leaving = "no"
  /\ Loads("public", cookie)
  /\ UNCHANGED serverVars

\* Changing the password ends every session of the account.
ResetPassword(p) ==
  /\ screen = "public"
  /\ live' = {s \in live : owner[s] # p}
  /\ UNCHANGED <<owner, cookie, screen, nav, cacheVars, request, signingIn, leaving>>

-----------------------------------------------------------------------------
\* Leaving: a sign-out, or a sign-out everywhere; the deletion of the account
\* ends every session of it in the same way.  Bound: the person has one
\* sign-in, leave or change under way.
AskLeave(kind) ==
  /\ screen = "app" /\ leaving = "no"
  /\ signingIn.pc = "idle" /\ request["change"].pc = "idle"
  /\ leaving' = kind
  /\ UNCHANGED <<serverVars, cookie, screen, nav, cacheVars, request, signingIn>>

ServeLeave ==
  /\ \/ leaving = "out" /\ live' = live \ {cookie}
     \/ /\ leaving = "everywhere" /\ cookie \in live
        /\ live' = {s \in live : owner[s] # owner[cookie]}
  /\ cookie' = 0 /\ leaving' = "done"
  /\ UNCHANGED <<owner, screen, nav, cacheVars, request, signingIn>>

\* A sign-out is settled by its failure too; the others stay and say so.
LeaveFails ==
  /\ leaving \in Leaves
  /\ leaving' = IF leaving = "out" THEN "done" ELSE "no"
  /\ UNCHANGED <<serverVars, cookie, screen, nav, cacheVars, request, signingIn>>

\* The cache is cleared, then the tab goes to /login, whose guard asks again.
Leave ==
  /\ leaving = "done"
  /\ session' = Unread /\ data' = Unread
  /\ request' = [request EXCEPT !["session"] = Sent, !["data"] = Idle]
  /\ nav' = "login"
  /\ leaving' = "no"
  /\ UNCHANGED <<serverVars, cookie, screen, signingIn>>

\* Expiry, or one of the above on another device.
SessionEnds(s) ==
  /\ s \in live
  /\ live' = live \ {s}
  /\ UNCHANGED <<owner, cookie, screen, nav, cacheVars, request, signingIn, leaving>>

-----------------------------------------------------------------------------
Next ==
  \/ Navigate \/ Reload
  \/ \E k \in Kinds : Ask(k) \/ RequestFails(k)
  \/ ServeSession \/ LandSession \/ SessionUnavailable \/ LandData \/ LandChange
  \/ \E p \in People : SubmitPassword(p) \/ Return(p) \/ ResetPassword(p)
  \/ AcceptPassword \/ RefusePassword \/ SignedIn
  \/ OpenResetLink
  \/ \E kind \in Leaves : AskLeave(kind)
  \/ ServeLeave \/ LeaveFails \/ Leave
  \/ \E s \in Sessions : SessionEnds(s)

Spec == Init /\ [][Next]_vars

-----------------------------------------------------------------------------
\* Whatever was on its way when the person changed, the data a signed-in
\* screen shows is that of the person it names (use-sign-in: "the previous
\* user's data must not stay visible"); while a sign-in the server accepted is
\* being answered, the tab still shows the one before.
ShownIsOfTheSession ==
  screen = "app" /\ session \in People /\ signingIn.pc # "accepted"
    => data \in {Unread, session}

\* Only an answer about the browser's own session, or the person, takes the
\* tab from the signed-in screens to /login; but a change is not taken back by
\* a sign-in, and its late 401 does (query-client, router).
ThrownOutByOwnSession ==
  [][screen = "app" /\ screen' = "login" =>
       \/ cookie \notin live \/ signingIn.pc = "accepted"
       \/ nav # "none" \/ session = Nobody
       \/ request["change"].pc = "sent" /\ request'["change"].pc = "idle"]_vars

\* The tab that leaves the signed-in screens for /login, as it does once a
\* sign-out has settled, gets there, whatever became of the request
\* (use-sign-out: "even if the request failed, this browser should stop showing
\* somebody's games").
SignedOutStaysOut ==
  [][screen = "app" /\ nav = "login" /\ nav' = "none" => screen' # "app"]_vars
=============================================================================
