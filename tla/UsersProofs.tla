------------------------------ MODULE UsersProofs ------------------------------
(***************************************************************************)
(* Proofs about the parts of MCComponents that keep users: their sessions  *)
(* (Identity), the first of them (FirstUser), their picture (Avatar) and the*)
(* budgets of requests (RateLimit).                                        *)
(***************************************************************************)
EXTENDS MCComponents, SequenceTheorems, TLAPS

-----------------------------------------------------------------------------
(* Sessions, for any people and any number of sessions.                    *)

\* The inductive invariant.  Short of a sign-in the server accepted and the
\* tab has yet to hear of, everything the tab has, and everything on its way
\* to it, is one person's or nobody's: the cookie, the cached session and data,
\* and the two reads.  A change may be another's: it carries no data.
Shape ==
  /\ owner \in [Person!Sessions -> Person!Whom] /\ live \subseteq Person!Sessions
  /\ cookie \in 0..MaxSessions
  /\ request \in [Person!Kinds -> Person!Requests]
  /\ signingIn \in [pc : {"idle", "sent", "accepted"}, who : Person!Whom]

Of(s, q) == s # 0 => owner[s] = q
Held(q) == Of(cookie, q) /\ session \in {Unread, Nobody, q} /\ data \in {Unread, q}
Coming(q) ==
  /\ Of(request["data"].as, q) /\ Of(request["session"].as, q)
  /\ request["session"].who \in {Nobody, q}

StaysWhileSigningIn == signingIn.pc # "idle" => leaving = "no"
AcceptedIsCookies ==
  signingIn.pc = "accepted" => cookie \in Person!Sessions /\ owner[cookie] = signingIn.who
OnePerson == signingIn.pc # "accepted" => \E q \in Person!Whom : Held(q) /\ Coming(q)

PersonInv == Shape /\ StaysWhileSigningIn /\ AcceptedIsCookies /\ OnePerson

-----------------------------------------------------------------------------
\* The records a request can be.
LEMMA SentIs == Person!Sent = [pc |-> "sent", as |-> cookie, who |-> Nobody]
BY DEF Person!Sent, Person!SentAs

LEMMA RequestsMade ==
  ASSUME Shape
  PROVE  /\ Person!Idle \in Person!Requests /\ Person!Sent \in Person!Requests
         /\ 0 \in 0..MaxSessions /\ 0 \notin Person!Sessions
BY IdentityAssumption, SentIs
DEF Shape, Person!Idle, Person!Requests, Person!Whom, Person!Sessions

\* One request replaced: the others are as they were.
LEMMA Replaced ==
  ASSUME Shape, NEW k \in Person!Kinds, NEW r \in Person!Requests
  PROVE  /\ [request EXCEPT ![k] = r] \in [Person!Kinds -> Person!Requests]
         /\ [request EXCEPT ![k] = r][k] = r
         /\ \A j \in Person!Kinds : j # k => [request EXCEPT ![k] = r][j] = request[j]
BY DEF Shape

LEMMA ReplacedTwo ==
  ASSUME Shape, NEW k \in Person!Kinds, NEW l \in Person!Kinds, k # l, NEW r \in Person!Requests, NEW u \in Person!Requests
  PROVE  /\ [request EXCEPT ![k] = r, ![l] = u] \in [Person!Kinds -> Person!Requests]
         /\ [request EXCEPT ![k] = r, ![l] = u][k] = r
         /\ [request EXCEPT ![k] = r, ![l] = u][l] = u
BY DEF Shape

\* A tab that is loaded holds nothing, and asks by its new cookie.
LEMMA LoadsOf ==
  ASSUME Shape, NEW dest, NEW by \in 0..MaxSessions, NEW q \in Person!Whom, Person!Loads(dest, by),
         owner' \in [Person!Sessions -> Person!Whom], live' \subseteq Person!Sessions, by # 0 => owner'[by] = q
  PROVE  PersonInv'
<1>0. /\ Person!Idle = [pc |-> "idle", as |-> 0, who |-> Nobody]
      /\ Person!Idle \in Person!Requests
      /\ Person!SentAs(by) = [pc |-> "sent", as |-> by, who |-> Nobody]
      /\ [pc |-> "sent", as |-> by, who |-> Nobody] \in Person!Requests
  BY RequestsMade DEF Person!Idle, Person!SentAs, Person!Requests, Person!Whom
<1>1. /\ request' \in [Person!Kinds -> Person!Requests]
      /\ request'["data"] = Person!Idle
      /\ request'["session"] \in {Person!Idle, [pc |-> "sent", as |-> by, who |-> Nobody]}
  BY <1>0 DEF Person!Loads, Person!Kinds
<1>2. signingIn' = [pc |-> "idle", who |-> Nobody] /\ leaving' = "no" /\ cookie' = by
      /\ session' = Unread /\ data' = Unread
  BY DEF Person!Loads, Person!NoSignIn
<1>3. Shape'
  BY <1>1, <1>2 DEF Shape, Person!Whom
<1>4. Held(q)'
  BY <1>2 DEF Held, Of
<1>5. Coming(q)'
  BY <1>0, <1>1 DEF Coming, Of
<1>6. QED BY <1>2, <1>3, <1>4, <1>5
          DEF PersonInv, StaysWhileSigningIn, AcceptedIsCookies, OnePerson

LEMMA Initially == Person!Init => PersonInv
<1> SUFFICES ASSUME Person!Init PROVE PersonInv
  OBVIOUS
<1>0. /\ Person!Idle = [pc |-> "idle", as |-> 0, who |-> Nobody]
      /\ Person!SentAs(0) = [pc |-> "sent", as |-> 0, who |-> Nobody]
      /\ Person!Idle \in Person!Requests
      /\ [pc |-> "sent", as |-> 0, who |-> Nobody] \in Person!Requests
  BY IdentityAssumption DEF Person!Idle, Person!SentAs, Person!Requests, Person!Whom
<1>1. /\ request \in [Person!Kinds -> Person!Requests] /\ request["data"] = Person!Idle
      /\ request["session"] = [pc |-> "sent", as |-> 0, who |-> Nobody]
  BY <1>0 DEF Person!Init, Person!Kinds
<1>2. Shape
  BY <1>1, IdentityAssumption
  DEF Person!Init, Shape, Person!NoSignIn, Person!Whom, Person!Sessions
<1>3. Held(Nobody) /\ Coming(Nobody)
  BY <1>0, <1>1 DEF Person!Init, Held, Coming, Of
<1>4. QED BY <1>2, <1>3
          DEF Person!Init, PersonInv, StaysWhileSigningIn, AcceptedIsCookies, OnePerson,
              Person!NoSignIn, Person!Whom

-----------------------------------------------------------------------------
\* What every step but a sign-in and a load does: it forgets, asks by the
\* cookie there is, or takes in what was on its way.
Heard == request["data"].as # 0 /\ data' = owner[request["data"].as]
Answered ==
  request'["session"] = [pc |-> "read", as |-> 0, who |-> Person!Identified(request["session"].as)]

LEMMA Continues ==
  ASSUME PersonInv, owner' = owner, live' \subseteq Person!Sessions,
         cookie' = cookie \/ (cookie' = 0 /\ signingIn.pc = "idle"),
         signingIn' \in [pc : {"idle", "sent", "accepted"}, who : Person!Whom],
         signingIn' = signingIn \/ (signingIn.pc # "accepted" /\ signingIn'.pc # "accepted"),
         signingIn'.pc # "idle" => leaving' = "no",
         session' \in {session, Unread, Nobody, request["session"].who},
         data' \in {data, Unread} \/ Heard,
         request' \in [Person!Kinds -> Person!Requests],
         request'["data"] \in {request["data"], Person!Idle, Person!Sent},
         request'["session"] \in {request["session"], Person!Idle, Person!Sent} \/ Answered
  PROVE  PersonInv'
<1>0. Shape /\ 0 \in 0..MaxSessions /\ 0 \notin Person!Sessions
  BY RequestsMade DEF PersonInv
<1>1. Shape'
  BY <1>0 DEF Shape
<1>2. AcceptedIsCookies'
  BY DEF PersonInv, AcceptedIsCookies
<1>3. StaysWhileSigningIn'
  BY DEF StaysWhileSigningIn
<1>4. OnePerson'
  <2>1. CASE signingIn'.pc = "accepted"
    BY <2>1 DEF OnePerson
  <2>2. CASE signingIn'.pc # "accepted"
    <3>1. PICK q \in Person!Whom : Held(q) /\ Coming(q)
      BY <2>2 DEF PersonInv, OnePerson
    <3>2. Held(q)'
      <4>1. Of(cookie, q)'
        BY <3>1 DEF Held, Of
      <4>2. session' \in {Unread, Nobody, q}
        BY <3>1 DEF Held, Coming
      <4>3. data' \in {Unread, q}
        BY <3>1 DEF Held, Coming, Of, Heard
      <4>4. QED BY <4>1, <4>2, <4>3 DEF Held
    <3>3. /\ Person!Idle.as = 0 /\ Person!Idle.who = Nobody /\ Person!Sent.as = cookie
          /\ Person!Sent.who = Nobody
      BY SentIs DEF Person!Idle
    <3>4. Of(cookie, q)
      BY <3>1 DEF Held
    <3>5. Of(request'["data"].as, q)
      BY <3>1, <3>3, <3>4 DEF Coming, Of
    <3>6. Of(request'["session"].as, q) /\ request'["session"].who \in {Nobody, q}
      <4>1. CASE request'["session"] \in {request["session"], Person!Idle, Person!Sent}
        BY <4>1, <3>1, <3>3, <3>4 DEF Coming, Of
      <4>2. CASE Answered
        <5>1. request'["session"].as = 0
              /\ request'["session"].who = Person!Identified(request["session"].as)
          BY <4>2 DEF Answered
        <5>2. Person!Identified(request["session"].as) \in {Nobody, q}
          <6>1. CASE request["session"].as = 0
            BY <6>1, <1>0 DEF Person!Identified, Shape
          <6>2. CASE request["session"].as # 0
            BY <6>2, <3>1 DEF Person!Identified, Coming, Of
          <6>3. QED BY <6>1, <6>2
        <5>3. QED BY <5>1, <5>2 DEF Of
      <4>3. QED BY <4>1, <4>2
    <3>7. Coming(q)'
      BY <3>5, <3>6 DEF Coming, Of
    <3>8. QED BY <3>2, <3>7 DEF OnePerson
  <2>3. QED BY <2>1, <2>2
<1>5. QED BY <1>1, <1>2, <1>3, <1>4 DEF PersonInv

-----------------------------------------------------------------------------
LEMMA PersonKept ==
  ASSUME PersonInv, [Person!Next]_Person!vars
  PROVE  PersonInv'
<1>0. /\ Shape /\ Person!Idle \in Person!Requests /\ Person!Sent \in Person!Requests
      /\ 0 \notin Person!Sessions
      /\ live \subseteq Person!Sessions /\ request \in [Person!Kinds -> Person!Requests]
      /\ signingIn \in [pc : {"idle", "sent", "accepted"}, who : Person!Whom]
      /\ cookie \in 0..MaxSessions /\ owner \in [Person!Sessions -> Person!Whom]
      /\ "session" \in Person!Kinds /\ "data" \in Person!Kinds /\ "change" \in Person!Kinds
  BY RequestsMade DEF PersonInv, Shape, Person!Kinds
<1>s. signingIn.pc # "idle" => leaving = "no"
  BY DEF PersonInv, StaysWhileSigningIn
<1>a. /\ Person!Asking("session") \in [Person!Kinds -> Person!Requests]
      /\ Person!Asking("session")["session"] = Person!Sent
      /\ Person!Asking("session")["data"] = request["data"]
  BY <1>0, Replaced DEF Person!Asking
<1>i. /\ [request EXCEPT !["session"] = Person!Idle] \in [Person!Kinds -> Person!Requests]
      /\ [request EXCEPT !["session"] = Person!Idle]["session"] = Person!Idle
      /\ [request EXCEPT !["session"] = Person!Idle]["data"] = request["data"]
  BY <1>0, Replaced
<1>d. \A k \in Person!Kinds :
      /\ [request EXCEPT ![k] = Person!Idle] \in [Person!Kinds -> Person!Requests]
      /\ [request EXCEPT ![k] = Person!Idle]["data"] \in {request["data"], Person!Idle}
      /\ k # "session" => [request EXCEPT ![k] = Person!Idle]["session"] = request["session"]
  BY <1>0, Replaced
<1>1. CASE Person!Navigate
  <2>1. request' = request \/ request' = Person!Asking("session")
    BY <1>1 DEF Person!Navigate, Person!Go
  <2>2. /\ request' \in [Person!Kinds -> Person!Requests]
        /\ request'["data"] = request["data"]
        /\ request'["session"] \in {request["session"], Person!Sent}
    BY <2>1, <1>0, <1>a
  <2>3. QED BY <1>1, <2>2, <1>0, <1>s, Continues
            DEF Person!Navigate, Person!serverVars, Person!cacheVars
<1>2. CASE Person!Reload
  <2>1. PICK q \in Person!Whom : cookie # 0 => owner[cookie] = q
    BY <1>0 DEF Person!Whom, Person!Sessions
  <2>2. QED BY <1>2, <2>1, <1>0, LoadsOf DEF Person!Reload, Person!serverVars
<1>3. ASSUME NEW k \in Person!Kinds, Person!Ask(k) PROVE PersonInv'
  <2>1. request' = [request EXCEPT ![k] = Person!Sent]
    BY <1>3 DEF Person!Ask, Person!Asking
  <2>2. /\ request' \in [Person!Kinds -> Person!Requests]
        /\ request'["data"] \in {request["data"], Person!Sent}
        /\ request'["session"] \in {request["session"], Person!Sent}
    BY <2>1, <1>0, Replaced
  <2>3. QED BY <1>3, <2>2, <1>0, <1>s, Continues
            DEF Person!Ask, Person!serverVars, Person!cacheVars
<1>4. ASSUME NEW k \in Person!Kinds, Person!RequestFails(k) PROVE PersonInv'
  <2>1. /\ request' \in [Person!Kinds -> Person!Requests]
        /\ request'["data"] \in {request["data"], Person!Idle}
        /\ request'["session"] = request["session"]
    BY <1>4, <1>d DEF Person!RequestFails
  <2>2. QED BY <1>4, <2>1, <1>0, <1>s, Continues
            DEF Person!RequestFails, Person!serverVars, Person!cacheVars
<1>5. CASE Person!ServeSession
  <2> DEFINE r == [pc |-> "read", as |-> 0, who |-> Person!Identified(request["session"].as)]
  <2>1. Person!Identified(request["session"].as) \in Person!Whom
    BY <1>0 DEF Person!Identified, Person!Whom
  <2>2. r \in Person!Requests
    BY <2>1, <1>0, RequestsMade DEF Person!Requests
  <2>3. request' = [request EXCEPT !["session"] = r]
    BY <1>5 DEF Person!ServeSession
  <2>4. /\ request' \in [Person!Kinds -> Person!Requests]
        /\ request'["data"] = request["data"]
        /\ request'["session"] = r
    BY <2>2, <2>3, <1>0, Replaced
  <2>5. Answered
    BY <2>4 DEF Answered
  <2>6. QED BY <1>5, <2>4, <2>5, <1>0, <1>s, Continues
            DEF Person!ServeSession, Person!serverVars, Person!cacheVars
<1>6. CASE Person!LandSession
  <2>1. /\ request' \in [Person!Kinds -> Person!Requests]
        /\ request'["data"] = request["data"]
        /\ request'["session"] = Person!Idle
    BY <1>6, <1>i DEF Person!LandSession
  <2>2. QED BY <1>6, <2>1, <1>0, <1>s, Continues DEF Person!LandSession, Person!serverVars
<1>7. CASE Person!SessionUnavailable
  <2>1. /\ request' \in [Person!Kinds -> Person!Requests]
        /\ request'["data"] = request["data"]
        /\ request'["session"] \in {Person!Idle, Person!Sent}
    BY <1>7, <1>i, <1>a DEF Person!SessionUnavailable
  <2>2. QED BY <1>7, <2>1, <1>0, <1>s, Continues
            DEF Person!SessionUnavailable, Person!serverVars, Person!cacheVars
<1>8. CASE Person!LandData
  <2>1. /\ request' \in [Person!Kinds -> Person!Requests]
        /\ request'["data"] \in {request["data"], Person!Idle}
        /\ request'["session"] = request["session"]
    BY <1>8, <1>0, <1>d DEF Person!LandData
  <2>2. /\ session' \in {session, Nobody}
        /\ data' = data \/ Heard
    BY <1>8, <1>0 DEF Person!LandData, Person!Unauthorized, Heard
  <2>3. QED BY <1>8, <2>1, <2>2, <1>0, <1>s, Continues
            DEF Person!LandData, Person!serverVars
<1>9. CASE Person!LandChange
  <2> DEFINE r == IF screen = "app" THEN Person!Sent ELSE request["data"]
  <2>0. r \in Person!Requests /\ r \in {request["data"], Person!Sent}
    BY <1>0
  <2>1. /\ request' \in [Person!Kinds -> Person!Requests]
        /\ request'["data"] \in {request["data"], Person!Sent}
        /\ request'["session"] = request["session"]
    <3>1. CASE request' = [request EXCEPT !["change"] = Person!Idle, !["data"] = r]
      BY <3>1, <2>0, <1>0
    <3>2. CASE request' = [request EXCEPT !["change"] = Person!Idle]
      BY <3>2, <1>0, Replaced
    <3>3. QED BY <1>9, <3>1, <3>2 DEF Person!LandChange
  <2>2. session' \in {session, Nobody} /\ data' = data
    BY <1>9 DEF Person!LandChange, Person!Unauthorized, Person!cacheVars
  <2>3. QED BY <1>9, <2>1, <2>2, <1>0, <1>s, Continues
            DEF Person!LandChange, Person!serverVars
<1>10. ASSUME NEW p \in People, Person!SubmitPassword(p) PROVE PersonInv'
  <2>1. signingIn' = [pc |-> "sent", who |-> p] /\ signingIn.pc = "idle" /\ leaving' = "no"
    BY <1>10 DEF Person!SubmitPassword
  <2>2. QED BY <1>10, <2>1, <1>0, Continues
            DEF Person!SubmitPassword, Person!serverVars, Person!cacheVars, Person!Whom
<1>11. ASSUME NEW p \in People, Person!Return(p) PROVE PersonInv'
  <2>1. CASE Person!Opens(p) /\ Person!Loads("app", Person!NewSession)
    <3>1. /\ Person!NewSession \in Person!Sessions
          /\ owner' = [owner EXCEPT ![Person!NewSession] = p]
          /\ live' \subseteq Person!Sessions
      BY <2>1, <1>0 DEF Person!Opens
    <3>2. /\ owner' \in [Person!Sessions -> Person!Whom]
          /\ owner'[Person!NewSession] = p /\ p \in Person!Whom
      BY <3>1, <1>0 DEF Person!Whom
    <3>3. Person!NewSession \in 0..MaxSessions
      BY <3>1, IdentityAssumption DEF Person!Sessions
    <3>4. QED BY <2>1, <3>1, <3>2, <3>3, <1>0, LoadsOf
  <2>2. CASE Person!Loads("login", cookie) /\ UNCHANGED Person!serverVars
    <3>1. PICK q \in Person!Whom : cookie # 0 => owner[cookie] = q
      BY <1>0 DEF Person!Whom, Person!Sessions
    <3>2. QED BY <2>2, <3>1, <1>0, LoadsOf DEF Person!serverVars
  <2>3. QED BY <1>11, <2>1, <2>2 DEF Person!Return
<1>12. ASSUME NEW p \in People, Person!ResetPassword(p) PROVE PersonInv'
  BY <1>12, <1>0, <1>s, Continues DEF Person!ResetPassword, Person!cacheVars
<1>13. CASE Person!AcceptPassword
  <2>1. /\ Person!NewSession \in Person!Sessions
        /\ owner' = [owner EXCEPT ![Person!NewSession] = signingIn.who]
        /\ live' \subseteq Person!Sessions /\ cookie' = Person!NewSession
    BY <1>13, <1>0 DEF Person!AcceptPassword, Person!Opens
  <2>2. /\ owner' \in [Person!Sessions -> Person!Whom] /\ owner'[cookie'] = signingIn.who
        /\ cookie' \in 0..MaxSessions
    BY <2>1, <1>0, IdentityAssumption DEF Person!Sessions
  <2>3. /\ signingIn' = [pc |-> "accepted", who |-> signingIn.who] /\ leaving' = "no"
        /\ request' = request
    BY <1>13, <1>0, <1>s DEF Person!AcceptPassword
  <2>4. Shape'
    BY <2>1, <2>2, <2>3, <1>0 DEF Shape
  <2>5. QED BY <2>1, <2>2, <2>3, <2>4
            DEF PersonInv, StaysWhileSigningIn, AcceptedIsCookies, OnePerson
<1>14. CASE Person!RefusePassword
  BY <1>14, <1>0, <1>s, Continues
  DEF Person!RefusePassword, Person!NoSignIn, Person!Whom, Person!serverVars,
      Person!cacheVars
<1>15. CASE Person!SignedIn
  <2>0. PICK q \in Person!Whom : q = signingIn.who
    BY <1>0
  <2>1. /\ request' \in [Person!Kinds -> Person!Requests]
        /\ request'["session"] = Person!Idle
        /\ request'["data"] = Person!Idle
    BY <1>15, <1>0, ReplacedTwo DEF Person!SignedIn, Person!Forgotten
  <2>2. /\ cookie \in Person!Sessions /\ owner[cookie] = signingIn.who
        /\ signingIn.who \in Person!Whom
        /\ UNCHANGED <<owner, live, cookie>>
    BY <1>15, <1>0 DEF Person!SignedIn, PersonInv, AcceptedIsCookies, Person!serverVars
  <2>3. /\ signingIn' = [pc |-> "idle", who |-> Nobody] /\ session' = signingIn.who
        /\ data' = Unread
    BY <1>15 DEF Person!SignedIn, Person!Forgotten, Person!NoSignIn
  <2>4. Shape'
    BY <2>1, <2>2, <2>3, <1>0 DEF Shape, Person!Whom
  <2>5. Held(q)'
    BY <2>0, <2>2, <2>3 DEF Held, Of
  <2>6. Coming(q)'
    BY <2>1 DEF Coming, Of, Person!Idle
  <2>7. QED BY <2>2, <2>3, <2>4, <2>5, <2>6
            DEF PersonInv, StaysWhileSigningIn, AcceptedIsCookies, OnePerson
<1>16. CASE Person!OpenResetLink
  <2>1. PICK q \in Person!Whom : cookie # 0 => owner[cookie] = q
    BY <1>0 DEF Person!Whom, Person!Sessions
  <2>2. QED BY <1>16, <2>1, <1>0, LoadsOf DEF Person!OpenResetLink, Person!serverVars
<1>17. ASSUME NEW way \in Person!Leaves, Person!AskLeave(way) PROVE PersonInv'
  BY <1>17, <1>0, Continues DEF Person!AskLeave, Person!serverVars, Person!cacheVars
<1>18. CASE Person!ServeLeave
  <2>1. signingIn.pc = "idle" /\ live' \subseteq Person!Sessions
    BY <1>18, <1>0, <1>s DEF Person!ServeLeave
  <2>2. QED BY <1>18, <2>1, <1>0, Continues DEF Person!ServeLeave, Person!cacheVars
<1>19. CASE Person!LeaveFails
  <2>1. signingIn.pc = "idle"
    BY <1>19, <1>s DEF Person!LeaveFails, Person!Leaves
  <2>2. QED BY <1>19, <2>1, <1>0, Continues
            DEF Person!LeaveFails, Person!serverVars, Person!cacheVars
<1>20. CASE Person!Leave
  <2>1. /\ request' \in [Person!Kinds -> Person!Requests]
        /\ request'["session"] = Person!Sent
        /\ request'["data"] = Person!Idle
    BY <1>20, <1>0, ReplacedTwo DEF Person!Leave
  <2>2. signingIn.pc = "idle"
    BY <1>20, <1>s DEF Person!Leave
  <2>3. QED BY <1>20, <2>1, <2>2, <1>0, Continues DEF Person!Leave, Person!serverVars
<1>21. ASSUME NEW s \in Person!Sessions, Person!SessionEnds(s) PROVE PersonInv'
  BY <1>21, <1>0, <1>s, Continues DEF Person!SessionEnds, Person!cacheVars
<1>22. CASE UNCHANGED Person!vars
  BY <1>22, <1>0, <1>s, Continues DEF Person!vars, Person!serverVars, Person!cacheVars
<1>23. QED
  BY <1>1, <1>2, <1>3, <1>4, <1>5, <1>6, <1>7, <1>8, <1>9, <1>10, <1>11, <1>12, <1>13,
     <1>14, <1>15, <1>16, <1>17, <1>18, <1>19, <1>20, <1>21, <1>22 DEF Person!Next

LEMMA PersonPart == AllSpec => Person!Spec
<1>1. Starts => Person!Init
  BY DEF Starts
<1>2. [AnyStep]_allVars => [Person!Next]_Person!vars
  <2>1. ASSUME AnyStep PROVE [Person!Next]_Person!vars
    BY <2>1 DEF AnyStep, Alone, personVars, Person!vars, Person!serverVars, Person!cacheVars
  <2>2. ASSUME UNCHANGED allVars PROVE UNCHANGED Person!vars
    BY <2>2 DEF allVars, personVars, Person!vars, Person!serverVars, Person!cacheVars
  <2>3. QED BY <2>1, <2>2
<1>3. QED BY <1>1, <1>2, PTL DEF AllSpec, Person!Spec

\* Whatever was on its way when the person changed, the data a signed-in screen
\* shows is that of the person it names (use-sign-in, clearing the cache).
THEOREM DataIsOfThePerson == AllSpec => []ShownIsOfTheSession
<1>1. PersonInv => ShownIsOfTheSession
  BY IdentityAssumption
  DEF PersonInv, OnePerson, Held, ShownIsOfTheSession, Person!ShownIsOfTheSession
<1>2. QED BY PersonPart, Initially, PersonKept, <1>1, PTL DEF Person!Spec

\* Whoever is signed in, or asks to be, is somebody; and short of a sign-in the
\* tab has yet to hear of, the read of the data on its way is that of the
\* cookie, unless there is none any more.
PersonTyped ==
  /\ Person!TypeOK
  /\ \A s \in live : owner[s] \in People
  /\ signingIn.pc # "idle" => signingIn.who \in People
  /\ request["data"].pc = "sent" /\ signingIn.pc # "accepted" =>
       request["data"].as = cookie \/ cookie = 0

LEMMA PersonTypedInit == Person!Init => PersonTyped
BY IdentityAssumption
DEF Person!Init, PersonTyped, Person!TypeOK, Person!Idle, Person!NoSignIn, Person!SentAs,
    Person!Requests, Person!Whom, Person!Kinds, Person!Sessions, Person!Leaves

\* A tab that loads.
LEMMA LoadsTyped ==
  ASSUME PersonTyped, NEW dest \in {"app", "login", "public"}, NEW by \in 0..MaxSessions,
         Person!Loads(dest, by), owner' \in [Person!Sessions -> Person!Whom],
         live' \subseteq Person!Sessions, \A s \in live' : owner'[s] \in People
  PROVE  PersonTyped'
BY IdentityAssumption
DEF Person!Loads, PersonTyped, Person!TypeOK, Person!Idle, Person!NoSignIn, Person!SentAs,
    Person!Requests, Person!Whom, Person!Kinds, Person!Sessions, Person!Leaves

\* A session that opens is somebody's.
LEMMA OpensTyped ==
  ASSUME PersonTyped, NEW p \in People, Person!Opens(p)
  PROVE  /\ owner' \in [Person!Sessions -> Person!Whom] /\ live' \subseteq Person!Sessions
         /\ \A s \in live' : owner'[s] \in People
         /\ Person!NewSession \in Person!Sessions /\ Person!NewSession \in 0..MaxSessions
<1>1. /\ owner' = [owner EXCEPT ![Person!NewSession] = p]
      /\ live' = live \cup {Person!NewSession}
      /\ Person!NewSession \in Person!Sessions
  BY DEF Person!Opens
<1> HIDE DEF Person!NewSession
<1>2. p \in Person!Whom
  BY DEF Person!Whom
<1>3. QED BY <1>1, <1>2 DEF PersonTyped, Person!TypeOK, Person!Sessions

LEMMA PersonTypedNext == PersonTyped /\ [Person!Next]_Person!vars => PersonTyped'
<1> SUFFICES ASSUME PersonTyped, [Person!Next]_Person!vars PROVE PersonTyped'
  OBVIOUS
<1> USE DEF Person!serverVars, Person!cacheVars
<1>0. /\ owner \in [Person!Sessions -> Person!Whom] /\ live \subseteq Person!Sessions
      /\ cookie \in 0..MaxSessions
      /\ screen \in {"blank", "login", "public", "app"} /\ nav \in {"none", "login", "app"}
      /\ session \in Person!Whom \cup {Unread} /\ data \in People \cup {Unread}
      /\ request \in [Person!Kinds -> Person!Requests]
      /\ signingIn \in [pc : {"idle", "sent", "accepted"}, who : Person!Whom]
      /\ leaving \in {"out", "everywhere", "no", "done"}
      /\ \A s \in live : owner[s] \in People
      /\ signingIn.pc # "idle" => signingIn.who \in People
      /\ request["data"].pc = "sent" /\ signingIn.pc # "accepted" =>
           request["data"].as = cookie \/ cookie = 0
  BY DEF PersonTyped, Person!TypeOK, Person!Leaves
<1>1. /\ Person!Idle \in Person!Requests /\ Person!Sent \in Person!Requests
      /\ Person!Idle.pc = "idle" /\ Person!Sent.as = cookie
      /\ 0 \in 0..MaxSessions
  BY <1>0, IdentityAssumption
  DEF Person!Idle, Person!Sent, Person!SentAs, Person!Requests, Person!Whom
<1>2. "session" \in Person!Kinds /\ "data" \in Person!Kinds /\ "change" \in Person!Kinds
  BY DEF Person!Kinds
<1>3. /\ Person!NoSignIn \in [pc : {"idle", "sent", "accepted"}, who : Person!Whom]
      /\ Person!NoSignIn.pc = "idle"
  BY DEF Person!NoSignIn, Person!Whom
\* What remains to be shown of a step that neither opens a session nor loads.
<1> DEFINE
     ScreenOk == screen' \in {"blank", "login", "public", "app"} /\ nav' \in {"none", "login", "app"}
     CacheOk == session' \in Person!Whom \cup {Unread} /\ data' \in People \cup {Unread}
     AskedOk == /\ request' \in [Person!Kinds -> Person!Requests]
                /\ \/ request'["data"].pc # "sent" \/ request'["data"].as = cookie
                   \/ request'["data"] = request["data"]
<1>4. ASSUME ScreenOk, CacheOk, AskedOk, UNCHANGED <<owner, cookie>>, live' \subseteq live,
             signingIn' = signingIn \/ (signingIn' = Person!NoSignIn /\ signingIn.pc # "accepted"),
             leaving' \in {"out", "everywhere", "no", "done"}
      PROVE  PersonTyped'
  BY <1>0, <1>3, <1>4
  DEF PersonTyped, Person!TypeOK, Person!Leaves, Person!Sessions, Person!Whom,
                     Person!Kinds, Person!Requests
<1>5. UNCHANGED <<screen, nav>> => ScreenOk
  BY <1>0
<1>6. UNCHANGED <<session, data>> => CacheOk
  BY <1>0
<1>7. UNCHANGED request => AskedOk
  BY <1>0
<1>8. ASSUME NEW k \in Person!Kinds, NEW r \in Person!Requests,
             request' = [request EXCEPT ![k] = r],
             k = "data" => r.pc # "sent" \/ r.as = cookie
      PROVE  AskedOk
  BY <1>0, <1>2, <1>8
<1>9. ASSUME NEW k \in {"session", "change"}, NEW r \in Person!Requests, NEW u \in Person!Requests,
             request' = [request EXCEPT ![k] = r, !["data"] = u],
             u.pc # "sent" \/ u.as = cookie \/ u = request["data"]
      PROVE  AskedOk
  BY <1>0, <1>2, <1>9
<1> HIDE DEF ScreenOk, CacheOk, AskedOk, Person!Idle, Person!Sent, Person!NoSignIn
<1>10. \A who : Person!Wall(who) \in {"app", "login"}
  BY DEF Person!Wall
<1>11. ASSUME NEW dest \in {"app", "login"}, Person!Go(dest) PROVE ScreenOk /\ AskedOk
  BY <1>0, <1>1, <1>2, <1>7, <1>8, <1>10, <1>11 DEF Person!Go, Person!Asking, ScreenOk
<1>12. CASE Person!Navigate
  <2>1. ScreenOk /\ AskedOk
    BY <1>0, <1>7, <1>11, <1>12 DEF Person!Navigate, ScreenOk
  <2>2. QED BY <1>0, <1>4, <1>6, <1>12, <2>1 DEF Person!Navigate
<1>13. CASE Person!Reload
  BY <1>0, <1>13, LoadsTyped DEF Person!Reload
<1>14. ASSUME NEW k \in Person!Kinds, Person!Ask(k) PROVE PersonTyped'
  BY <1>0, <1>1, <1>4, <1>5, <1>6, <1>8, <1>14 DEF Person!Ask, Person!Asking
<1>15. ASSUME NEW k \in Person!Kinds, Person!RequestFails(k) PROVE PersonTyped'
  BY <1>0, <1>1, <1>4, <1>5, <1>6, <1>8, <1>15 DEF Person!RequestFails
<1>16. CASE Person!ServeSession
  <2> DEFINE r == [pc |-> "read", as |-> 0, who |-> Person!Identified(request["session"].as)]
  <2>1. Person!Identified(request["session"].as) \in Person!Whom
    BY <1>0 DEF Person!Identified, Person!Whom
  <2>2. r \in Person!Requests
    BY <1>1, <2>1 DEF Person!Requests
  <2> HIDE DEF r
  <2>3. AskedOk
    BY <1>2, <1>8, <1>16, <2>2 DEF Person!ServeSession, r
  <2>4. QED BY <1>0, <1>4, <1>5, <1>6, <1>16, <2>3 DEF Person!ServeSession
<1>17. CASE Person!LandSession
  <2>1. AskedOk
    BY <1>1, <1>2, <1>8, <1>17 DEF Person!LandSession
  <2>2. CacheOk
    BY <1>0, <1>2, <1>17 DEF Person!LandSession, Person!Requests, CacheOk
  <2>3. ScreenOk
    BY <1>0, <1>10, <1>17 DEF Person!LandSession, ScreenOk
  <2>4. QED BY <1>0, <1>4, <1>17, <2>1, <2>2, <2>3 DEF Person!LandSession
<1>18. CASE Person!SessionUnavailable
  <2>1. AskedOk
    BY <1>1, <1>2, <1>8, <1>18 DEF Person!SessionUnavailable, Person!Asking
  <2>2. ScreenOk
    BY <1>0, <1>18 DEF Person!SessionUnavailable, ScreenOk
  <2>3. QED BY <1>0, <1>4, <1>6, <1>18, <2>1, <2>2 DEF Person!SessionUnavailable
<1>19. Person!Unauthorized => ScreenOk /\ CacheOk
  BY <1>0 DEF Person!Unauthorized, ScreenOk, CacheOk, Person!Whom
<1>20. CASE Person!LandData
  <2>1. AskedOk
    BY <1>1, <1>2, <1>8, <1>20 DEF Person!LandData
  <2>2. ScreenOk /\ CacheOk
    BY <1>0, <1>5, <1>19, <1>20 DEF Person!LandData, CacheOk
  <2>3. QED BY <1>0, <1>4, <1>20, <2>1, <2>2 DEF Person!LandData
<1>21. CASE Person!LandChange
  <2>1. AskedOk
    <3>1. CASE request' = [request EXCEPT !["change"] = Person!Idle]
      BY <1>1, <1>2, <1>8, <3>1
    <3>2. CASE request' = [request EXCEPT !["change"] = Person!Idle,
                             !["data"] = IF screen = "app" THEN Person!Sent ELSE request["data"]]
      BY <1>0, <1>1, <1>2, <1>9, <3>2
    <3>3. QED BY <1>21, <3>1, <3>2 DEF Person!LandChange
  <2>2. ScreenOk /\ CacheOk
    BY <1>5, <1>6, <1>19, <1>21 DEF Person!LandChange
  <2>3. QED BY <1>0, <1>4, <1>21, <2>1, <2>2 DEF Person!LandChange
<1>22. ASSUME NEW p \in People, Person!SubmitPassword(p) PROVE PersonTyped'
  BY <1>0, <1>22 DEF Person!SubmitPassword, PersonTyped, Person!TypeOK, Person!Whom,
                     Person!Sessions,
                     Person!Kinds, Person!Requests, Person!Leaves
<1>23. CASE Person!AcceptPassword
  <2>1. /\ Person!Opens(signingIn.who) /\ signingIn.who \in People
        /\ cookie' = Person!NewSession /\ signingIn' = [signingIn EXCEPT !.pc = "accepted"]
        /\ UNCHANGED <<screen, nav, session, data, request, leaving>>
    BY <1>0, <1>23 DEF Person!AcceptPassword
  <2>2. /\ owner' \in [Person!Sessions -> Person!Whom] /\ live' \subseteq Person!Sessions
        /\ \A s \in live' : owner'[s] \in People /\ cookie' \in 0..MaxSessions
    BY <2>1, OpensTyped
  <2>3. cookie' \in 0..MaxSessions
    BY <2>1, OpensTyped
  <2>4. signingIn' \in [pc : {"idle", "sent", "accepted"}, who : Person!Whom] /\ signingIn'.pc = "accepted"
        /\ signingIn'.who = signingIn.who
    BY <1>0, <2>1
  <2>5. QED BY <1>0, <2>1, <2>2, <2>3, <2>4
            DEF PersonTyped, Person!TypeOK, Person!Whom, Person!Sessions, Person!Kinds,
                Person!Requests, Person!Leaves
<1>24. CASE Person!RefusePassword
  BY <1>0, <1>4, <1>5, <1>6, <1>7, <1>24 DEF Person!RefusePassword
<1>25. CASE Person!SignedIn
  <2>1. /\ data' = Unread /\ session' = signingIn.who /\ screen' = "app" /\ nav' = "none"
        /\ request' = [request EXCEPT !["session"] = Person!Idle, !["data"] = Person!Idle]
        /\ signingIn' = Person!NoSignIn /\ UNCHANGED <<owner, live, cookie, leaving>>
    BY <1>25 DEF Person!SignedIn, Person!Forgotten
  <2>2. request' \in [Person!Kinds -> Person!Requests] /\ request'["data"].pc = "idle"
    BY <1>0, <1>1, <1>2, <2>1
  <2>3. session' \in Person!Whom
    BY <1>0, <2>1
  <2>4. QED BY <1>0, <1>3, <2>1, <2>2, <2>3
            DEF PersonTyped, Person!TypeOK, Person!Whom, Person!Sessions, Person!Kinds,
                Person!Requests, Person!Leaves
<1>26. ASSUME NEW p \in People, Person!Return(p) PROVE PersonTyped'
  <2>1. CASE Person!Opens(p) /\ Person!Loads("app", Person!NewSession)
    BY <2>1, LoadsTyped, OpensTyped
  <2>2. CASE Person!Loads("login", cookie) /\ UNCHANGED <<owner, live>>
    BY <1>0, <2>2, LoadsTyped
  <2>3. QED BY <1>26, <2>1, <2>2 DEF Person!Return
<1>27. CASE Person!OpenResetLink
  BY <1>0, <1>27, LoadsTyped DEF Person!OpenResetLink
<1>28. ASSUME NEW p \in People, Person!ResetPassword(p) PROVE PersonTyped'
  BY <1>0, <1>4, <1>5, <1>6, <1>7, <1>28 DEF Person!ResetPassword
<1>29. ASSUME NEW k \in Person!Leaves, Person!AskLeave(k) PROVE PersonTyped'
  BY <1>0, <1>4, <1>5, <1>6, <1>7, <1>29 DEF Person!AskLeave, Person!Leaves
<1>30. CASE Person!ServeLeave
  <2>1. /\ live' \subseteq live /\ cookie' = 0 /\ leaving' = "done"
        /\ UNCHANGED <<owner, screen, nav, session, data, request, signingIn>>
    BY <1>30 DEF Person!ServeLeave
  <2>2. QED BY <1>0, <1>1, <2>1
            DEF PersonTyped, Person!TypeOK, Person!Whom, Person!Sessions,
                               Person!Kinds, Person!Requests, Person!Leaves
<1>31. CASE Person!LeaveFails
  BY <1>0, <1>4, <1>5, <1>6, <1>7, <1>31 DEF Person!LeaveFails
<1>32. CASE Person!Leave
  <2>1. AskedOk
    BY <1>1, <1>9, <1>32 DEF Person!Leave
  <2>2. ScreenOk /\ CacheOk
    BY <1>0, <1>32 DEF Person!Leave, ScreenOk, CacheOk
  <2>3. QED BY <1>0, <1>4, <1>32, <2>1, <2>2 DEF Person!Leave
<1>33. ASSUME NEW s \in Person!Sessions, Person!SessionEnds(s) PROVE PersonTyped'
  BY <1>0, <1>4, <1>5, <1>6, <1>7, <1>33 DEF Person!SessionEnds
<1>34. CASE UNCHANGED Person!vars
  BY <1>0, <1>4, <1>5, <1>6, <1>7, <1>34 DEF Person!vars
<1>35. QED
  BY <1>12, <1>13, <1>14, <1>15, <1>16, <1>17, <1>18, <1>20, <1>21, <1>22, <1>23, <1>24,
     <1>25, <1>26,
     <1>27, <1>28, <1>29, <1>30, <1>31, <1>32, <1>33, <1>34 DEF Person!Next

\* Only an answer about the browser's own session, or the person, takes the
\* tab from the signed-in screens to /login, but for the late 401 of a change,
\* which a sign-in does not take back (query-client, router).
THEOREM NobodyIsThrownOut == AllSpec => ThrownOutByOwnSession
<1> DEFINE Own == screen = "app" /\ screen' = "login" =>
                    \/ cookie \notin live \/ signingIn.pc = "accepted"
                    \/ nav # "none" \/ session = Nobody
                    \/ request["change"].pc = "sent" /\ request'["change"].pc = "idle"
<1>1. PersonTyped /\ [Person!Next]_Person!vars => [Own]_Person!vars
  <2> SUFFICES ASSUME PersonTyped, Person!Next, screen = "app", screen' = "login", nav = "none",
                      cookie \in live, signingIn.pc # "accepted", session # Nobody
               PROVE  request["change"].pc = "sent" /\ request'["change"].pc = "idle"
    OBVIOUS
  <2>1. /\ session \in People \cup {Unread} /\ cookie # 0
        /\ request \in [Person!Kinds -> Person!Requests]
    BY DEF PersonTyped, Person!TypeOK, Person!Whom, Person!Sessions
  <2>2. ~Person!Navigate
    BY <2>1 DEF Person!Navigate, Person!Go, Person!Wall
  <2>3. ~Person!LandData
    BY <2>1 DEF Person!LandData, PersonTyped, Person!Unauthorized
  <2>4. CASE Person!LandChange
    BY <2>1, <2>4 DEF Person!LandChange, Person!Idle, Person!Kinds
  <2>5. Person!LandChange
    BY <2>2, <2>3
    DEF Person!Next, Person!Reload, Person!Loads, Person!Ask, Person!RequestFails,
        Person!ServeSession,
        Person!LandSession, Person!SessionUnavailable, Person!SubmitPassword, Person!Return,
        Person!ResetPassword, Person!AcceptPassword, Person!RefusePassword, Person!SignedIn,
        Person!OpenResetLink, Person!AskLeave, Person!ServeLeave, Person!LeaveFails,
        Person!Leave,
        Person!SessionEnds
  <2>6. QED BY <2>4, <2>5
<1> HIDE DEF Own
<1>2. Person!Spec => [][Own]_Person!vars
  BY <1>1, PersonTypedInit, PersonTypedNext, PTL DEF Person!Spec
<1>3. QED BY <1>2, PersonPart DEF ThrownOutByOwnSession, Person!ThrownOutByOwnSession, Own

-----------------------------------------------------------------------------
(* The first user, for any number of processes and addresses.              *)

Records == [id : Nat \ {0}, email : Emails \cup {NoOne}, verified : BOOLEAN, first : BOOLEAN]

Kinds ==
  /\ boot \in [Instances -> Startup!Stages] /\ env \in [Instances -> Startup!Environments]
  /\ founded \in [Instances -> Nat] /\ ids \in Nat
  /\ users \subseteq Records

\* Who is at the guarded part of a start has the lock, and only between its
\* sign-up and its confirmation does a start answer for a user.
Guarded ==
  /\ ~broken => \A i \in Instances : boot[i] \in Startup!Locked => holder = i
  /\ \A i \in Instances : boot[i] # "confirms" => founded[i] = 0

\* NoOne was provisioned before the start that is about to sign up, and nobody
\* twice.
Single ==
  ~broken => /\ \A i \in Instances : boot[i] = "signs up" => Startup!FirstUsers = {}
             /\ \A u, v \in Startup!FirstUsers : u = v

Confirmed ==
  \A u \in Startup!FirstUsers :
    u.verified \/ u.id \in cutOff \/ \E i \in Instances : founded[i] = u.id

LEMMA StartInit == Startup!Init => Kinds /\ Guarded /\ Single /\ Confirmed
<1> SUFFICES ASSUME Startup!Init PROVE Kinds /\ Guarded /\ Single /\ Confirmed
  OBVIOUS
<1>1. Startup!Unset \in Startup!Environments
  BY DEF Startup!Unset, Startup!Environments
<1>2. Kinds
  BY <1>1 DEF Startup!Init, Kinds, Startup!Stages
<1>3. Guarded
  BY DEF Startup!Init, Guarded, Startup!Locked
<1>4. Single /\ Confirmed
  BY DEF Startup!Init, Single, Confirmed, Startup!FirstUsers
<1>5. QED BY <1>2, <1>3, <1>4

\* What the end of a process does, whether it dies or a sign-up is refused.
LEMMA ExitKeeps ==
  ASSUME Kinds, Guarded, Single, Confirmed, NEW i \in Instances,
         Startup!Exits(i), UNCHANGED <<users, ids, broken>>
  PROVE  Kinds' /\ Guarded' /\ Single' /\ Confirmed'
<1>1. Startup!Unset \in Startup!Environments
  BY DEF Startup!Unset, Startup!Environments
<1>2. Kinds'
  BY <1>1 DEF Startup!Exits, Kinds, Startup!Stages
<1>3. boot'[i] = "down" /\ founded'[i] = 0
  BY DEF Startup!Exits, Kinds
<1>4. \A j \in Instances \ {i} : boot'[j] = boot[j] /\ founded'[j] = founded[j]
  BY DEF Startup!Exits, Kinds
<1>5. \A j \in Instances \ {i} : holder = j => holder' = j
  BY DEF Startup!Exits
<1>6. Guarded'
  BY <1>3, <1>4, <1>5 DEF Guarded, Startup!Locked
<1>7. Single'
  BY <1>3, <1>4 DEF Single, Startup!FirstUsers
<1>8. ASSUME NEW u \in Startup!FirstUsers
      PROVE  u.verified \/ u.id \in cutOff' \/ \E j \in Instances : founded'[j] = u.id
  <2>1. u \in Records
    BY DEF Startup!FirstUsers, Kinds
  <2>2. CASE u.verified \/ u.id \in cutOff
    BY <2>2 DEF Startup!Exits
  <2>3. CASE \E j \in Instances : founded[j] = u.id
    <3>1. PICK j \in Instances : founded[j] = u.id
      BY <2>3
    <3>2. CASE j = i
      BY <1>3, <3>1, <3>2 DEF Startup!Exits
    <3>3. CASE j # i
      BY <1>4, <3>1, <3>3
    <3>4. QED BY <3>2, <3>3
  <2>4. QED BY <2>2, <2>3 DEF Confirmed
<1>9. Confirmed'
  BY <1>8 DEF Confirmed, Startup!FirstUsers
<1>10. QED BY <1>2, <1>6, <1>7, <1>9

\* A step that leaves the table, the users made and who answers for them.
LEMMA TableKept ==
  ASSUME Single, Confirmed, UNCHANGED <<founded, users, cutOff>>, broken => broken',
         \A i \in Instances : boot'[i] = "signs up" => boot[i] = "signs up" \/ users = {}
  PROVE  Single' /\ Confirmed'
<1>1. Startup!FirstUsers' = Startup!FirstUsers
  BY DEF Startup!FirstUsers
<1>2. users = {} => Startup!FirstUsers = {}
  BY DEF Startup!FirstUsers
<1>3. Single'
  BY <1>1, <1>2 DEF Single
<1>4. Confirmed'
  BY <1>1 DEF Confirmed
<1>5. QED BY <1>3, <1>4

\* One process: where it is, and what it answers for, is all that changes.
LEMMA Moved ==
  ASSUME Kinds, NEW i \in Instances, NEW b \in Startup!Stages, boot' = [boot EXCEPT ![i] = b]
  PROVE  /\ boot' \in [Instances -> Startup!Stages] /\ boot'[i] = b
         /\ \A j \in Instances \ {i} : boot'[j] = boot[j]
BY DEF Kinds

LEMMA NextKeeps ==
  ASSUME Kinds, Guarded, Single, Confirmed, [Startup!Next]_Startup!vars
  PROVE  Kinds' /\ Guarded' /\ Single' /\ Confirmed'
<1>1. ASSUME NEW i \in Instances, Startup!Start(i)
      PROVE  Kinds' /\ Guarded' /\ Single' /\ Confirmed'
  <2>1. PICK e \in Startup!Environments, password \in BOOLEAN :
          IF Startup!Accepted(e, password)
          THEN /\ env' = [env EXCEPT ![i] = e]
               /\ boot' = [boot EXCEPT ![i] = IF e.credentials = NoOne THEN "serves" ELSE "asks"]
          ELSE UNCHANGED <<env, boot>>
    BY <1>1 DEF Startup!Start
  <2>2. boot[i] = "down" /\ UNCHANGED <<founded, users, holder, ids, broken, cutOff>>
    BY <1>1 DEF Startup!Start
  <2>3. env' \in [Instances -> Startup!Environments]
    BY <2>1 DEF Kinds
  <2>4. /\ boot' \in [Instances -> Startup!Stages]
        /\ \A j \in Instances : boot'[j] \in Startup!Locked => boot[j] = boot'[j]
        /\ \A j \in Instances : boot'[j] # "confirms" => boot[j] # "confirms"
    BY <2>1, <2>2 DEF Kinds, Startup!Stages, Startup!Locked
  <2>5. Kinds' /\ Guarded'
    BY <2>2, <2>3, <2>4 DEF Kinds, Guarded
  <2>6. \A j \in Instances : boot'[j] = "signs up" => boot[j] = "signs up"
    BY <2>4 DEF Startup!Locked
  <2>7. QED BY <2>2, <2>5, <2>6, TableKept
<1>2. ASSUME NEW i \in Instances, Startup!TryAcquire(i)
      PROVE  Kinds' /\ Guarded' /\ Single' /\ Confirmed'
  <2>1. boot[i] = "asks" /\ UNCHANGED <<env, founded, users, ids, broken, cutOff>>
    BY <1>2 DEF Startup!TryAcquire
  <2>2. PICK b \in {"counts", "serves"} :
          /\ boot' = [boot EXCEPT ![i] = b]
          /\ b = "counts" => holder = NoOne /\ holder' = i
          /\ b = "serves" => holder' = holder
    BY <1>2 DEF Startup!TryAcquire
  <2>3. /\ boot' \in [Instances -> Startup!Stages] /\ boot'[i] = b
        /\ \A j \in Instances \ {i} : boot'[j] = boot[j]
    BY <2>2, Moved DEF Startup!Stages
  <2>4. Kinds'
    BY <2>1, <2>3 DEF Kinds
  <2>5. Guarded'
    BY <2>1, <2>2, <2>3, StartAssumption DEF Guarded, Startup!Locked
  <2>6. QED BY <2>1, <2>3, <2>4, <2>5, TableKept
<1>3. ASSUME NEW i \in Instances, Startup!CountUsers(i)
      PROVE  Kinds' /\ Guarded' /\ Single' /\ Confirmed'
  <2>1. boot[i] = "counts" /\ UNCHANGED <<env, founded, users, holder, ids, broken, cutOff>>
    BY <1>3 DEF Startup!CountUsers
  <2>2. PICK b \in {"signs up", "releases"} :
          boot' = [boot EXCEPT ![i] = b] /\ (b = "signs up" => users = {})
    BY <1>3 DEF Startup!CountUsers
  <2>3. /\ boot' \in [Instances -> Startup!Stages] /\ boot'[i] = b
        /\ \A j \in Instances \ {i} : boot'[j] = boot[j]
    BY <2>2, Moved DEF Startup!Stages
  <2>4. Kinds'
    BY <2>1, <2>3 DEF Kinds
  <2>5. Guarded'
    BY <2>1, <2>2, <2>3 DEF Guarded, Startup!Locked
  <2>6. QED BY <2>1, <2>2, <2>3, <2>4, <2>5, TableKept
<1>4. ASSUME NEW i \in Instances, Startup!SignUp(i)
      PROVE  Kinds' /\ Guarded' /\ Single' /\ Confirmed'
  <2>1. CASE Startup!Taken(env[i].credentials)
    BY <1>4, <2>1, ExitKeeps DEF Startup!SignUp
  <2>2. CASE ~Startup!Taken(env[i].credentials)
    <3> DEFINE u == [id |-> ids + 1, email |-> env[i].credentials,
                     verified |-> FALSE, first |-> TRUE]
    <3>1. /\ boot[i] = "signs up" /\ ids' = ids + 1 /\ users' = users \cup {u}
          /\ founded' = [founded EXCEPT ![i] = ids + 1]
          /\ boot' = [boot EXCEPT ![i] = "confirms"]
          /\ UNCHANGED <<env, holder, cutOff, broken>>
      BY <1>4, <2>2 DEF Startup!SignUp
    <3>2. /\ boot' \in [Instances -> Startup!Stages] /\ boot'[i] = "confirms"
          /\ \A j \in Instances \ {i} : boot'[j] = boot[j]
      BY <3>1, Moved DEF Startup!Stages
    <3>3. /\ founded' \in [Instances -> Nat] /\ founded'[i] = ids + 1
          /\ \A j \in Instances \ {i} : founded'[j] = founded[j]
      <4>1. ids + 1 \in Nat
        BY DEF Kinds
      <4>2. QED BY <3>1, <4>1 DEF Kinds
    <3>4. u \in Records /\ u.first /\ u.id = ids + 1
      BY DEF Records, Kinds, Startup!Environments
    <3> HIDE DEF u
    <3>5. Kinds'
      BY <3>1, <3>2, <3>3, <3>4 DEF Kinds
    <3>6. Guarded'
      BY <3>1, <3>2, <3>3 DEF Guarded, Startup!Locked
    <3>7. Startup!FirstUsers' = Startup!FirstUsers \cup {u}
      BY <3>1, <3>4 DEF Startup!FirstUsers
    <3>8. Single'
      <4>1. ASSUME ~broken PROVE Startup!FirstUsers = {} /\ \A j \in Instances \ {i} : boot[j] # "signs up"
        BY <3>1, <4>1 DEF Single, Guarded, Startup!Locked
      <4>2. QED BY <3>1, <3>2, <3>7, <4>1 DEF Single
    <3>9. Confirmed'
      <4>1. ASSUME NEW v \in Startup!FirstUsers, \E j \in Instances : founded[j] = v.id
            PROVE  \E j \in Instances : founded'[j] = v.id
        <5>1. PICK j \in Instances : founded[j] = v.id
          BY <4>1
        <5>2. v.id # 0
          BY DEF Startup!FirstUsers, Kinds, Records
        <5>3. CASE j # i
          BY <3>3, <5>1, <5>3
        <5>4. CASE j = i
          BY <3>1, <5>1, <5>2, <5>4 DEF Guarded
        <5>5. QED BY <5>3, <5>4
      <4>2. \E j \in Instances : founded'[j] = u.id
        BY <3>3, <3>4
      <4>3. QED BY <3>1, <3>7, <4>1, <4>2 DEF Confirmed
    <3>10. QED BY <3>5, <3>6, <3>8, <3>9
  <2>3. QED BY <2>1, <2>2
<1>5. ASSUME NEW i \in Instances, Startup!MarkVerified(i)
      PROVE  Kinds' /\ Guarded' /\ Single' /\ Confirmed'
  <2> DEFINE Marked(u) == IF u.id = founded[i] THEN [u EXCEPT !.verified = TRUE] ELSE u
  <2>1. /\ boot[i] = "confirms" /\ users' = {Marked(u) : u \in users}
        /\ founded' = [founded EXCEPT ![i] = 0] /\ boot' = [boot EXCEPT ![i] = "releases"]
        /\ UNCHANGED <<env, holder, ids, broken, cutOff>>
    BY <1>5 DEF Startup!MarkVerified
  <2>2. /\ boot' \in [Instances -> Startup!Stages] /\ boot'[i] = "releases"
        /\ \A j \in Instances \ {i} : boot'[j] = boot[j]
    BY <2>1, Moved DEF Startup!Stages
  <2>3. /\ founded' \in [Instances -> Nat] /\ founded'[i] = 0
        /\ \A j \in Instances \ {i} : founded'[j] = founded[j]
    BY <2>1 DEF Kinds
  <2>4. ASSUME NEW u \in users
        PROVE  /\ Marked(u) \in Records /\ Marked(u).first = u.first /\ Marked(u).id = u.id
               /\ u.verified \/ u.id = founded[i] => Marked(u).verified
    <3>1. u \in Records
      BY DEF Kinds
    <3>2. QED BY <3>1 DEF Records
  <2> HIDE DEF Marked
  <2>5. Kinds'
    BY <2>1, <2>2, <2>3, <2>4 DEF Kinds
  <2>6. Guarded'
    BY <2>1, <2>2, <2>3 DEF Guarded, Startup!Locked
  <2>7. \A w \in Startup!FirstUsers' : \E u \in Startup!FirstUsers : w = Marked(u)
    BY <2>1, <2>4 DEF Startup!FirstUsers
  <2>8. Single'
    <3>1. ASSUME ~broken PROVE \A j \in Instances : boot'[j] # "signs up"
      BY <2>1, <2>2, <3>1 DEF Guarded, Startup!Locked
    <3>2. ASSUME ~broken PROVE \A w, x \in Startup!FirstUsers' : w = x
      BY <2>7, <3>2 DEF Single
    <3>3. QED BY <2>1, <3>1, <3>2 DEF Single
  <2>9. ASSUME NEW w \in Startup!FirstUsers'
        PROVE  w.verified \/ w.id \in cutOff' \/ \E j \in Instances : founded'[j] = w.id
    <3>1. PICK u \in Startup!FirstUsers : w = Marked(u)
      BY <2>7
    <3>2. u \in users
      BY DEF Startup!FirstUsers
    <3>3. CASE u.verified \/ u.id \in cutOff \/ u.id = founded[i]
      BY <2>1, <2>4, <3>1, <3>2, <3>3
    <3>4. CASE \E j \in Instances \ {i} : founded[j] = u.id
      BY <2>3, <2>4, <3>1, <3>2, <3>4
    <3>5. QED BY <3>3, <3>4 DEF Confirmed
  <2>10. Confirmed'
    BY <2>9 DEF Confirmed
  <2>11. QED BY <2>5, <2>6, <2>8, <2>10
<1>6. ASSUME NEW i \in Instances, Startup!Release(i)
      PROVE  Kinds' /\ Guarded' /\ Single' /\ Confirmed'
  <2>1. /\ boot[i] = "releases" /\ boot' = [boot EXCEPT ![i] = "serves"]
        /\ holder' = IF holder = i THEN NoOne ELSE holder
        /\ UNCHANGED <<env, founded, users, ids, broken, cutOff>>
    BY <1>6 DEF Startup!Release
  <2>2. /\ boot' \in [Instances -> Startup!Stages] /\ boot'[i] = "serves"
        /\ \A j \in Instances \ {i} : boot'[j] = boot[j]
    BY <2>1, Moved DEF Startup!Stages
  <2>3. Kinds'
    BY <2>1, <2>2 DEF Kinds
  <2>4. Guarded'
    BY <2>1, <2>2 DEF Guarded, Startup!Locked
  <2>5. QED BY <2>1, <2>2, <2>3, <2>4, TableKept
<1>7. ASSUME NEW i \in Instances, Startup!Die(i)
      PROVE  Kinds' /\ Guarded' /\ Single' /\ Confirmed'
  BY <1>7, ExitKeeps DEF Startup!Die
<1>8. ASSUME NEW i \in Instances, Startup!LoseConnection(i)
      PROVE  Kinds' /\ Guarded' /\ Single' /\ Confirmed'
  <2>1. broken' = TRUE /\ UNCHANGED <<boot, env, founded, users, ids, cutOff>>
    BY <1>8 DEF Startup!LoseConnection
  <2>2. Kinds' /\ Guarded'
    BY <2>1 DEF Kinds, Guarded
  <2>3. QED BY <2>1, <2>2, TableKept
<1>9. ASSUME NEW i \in Instances, Startup!Register(i)
      PROVE  Kinds' /\ Guarded' /\ Single' /\ Confirmed'
  <2>1. PICK m \in Emails : users' = users \cup
          {[id |-> ids + 1, email |-> m, verified |-> TRUE, first |-> FALSE]}
    BY <1>9 DEF Startup!Register
  <2>2. ids' = ids + 1 /\ UNCHANGED <<boot, env, founded, holder, broken, cutOff>>
    BY <1>9 DEF Startup!Register
  <2>3. Kinds'
    <3>1. [id |-> ids + 1, email |-> m, verified |-> TRUE, first |-> FALSE] \in Records
      BY DEF Kinds, Records
    <3>2. ids + 1 \in Nat
      BY DEF Kinds
    <3>3. QED BY <2>1, <2>2, <3>1, <3>2 DEF Kinds
  <2>4. Guarded'
    BY <2>2 DEF Guarded
  <2>5. Startup!FirstUsers' = Startup!FirstUsers
    BY <2>1 DEF Startup!FirstUsers
  <2>6. QED BY <2>2, <2>3, <2>4, <2>5 DEF Single, Confirmed
<1>10. ASSUME NEW i \in Instances, Startup!DeleteUser(i)
       PROVE  Kinds' /\ Guarded' /\ Single' /\ Confirmed'
  <2>1. /\ users' \subseteq users
        /\ UNCHANGED <<boot, env, founded, holder, ids, broken, cutOff>>
    BY <1>10 DEF Startup!DeleteUser
  <2>2. Startup!FirstUsers' \subseteq Startup!FirstUsers
    BY <2>1 DEF Startup!FirstUsers
  <2>3. Kinds' /\ Guarded'
    BY <2>1 DEF Kinds, Guarded
  <2>4. Single' /\ Confirmed'
    BY <2>1, <2>2 DEF Single, Confirmed
  <2>5. QED BY <2>3, <2>4
<1>11. ASSUME UNCHANGED Startup!vars PROVE Kinds' /\ Guarded' /\ Single' /\ Confirmed'
  BY <1>11 DEF Startup!vars, Kinds, Guarded, Single, Confirmed, Startup!FirstUsers
<1>12. QED
  BY <1>1, <1>2, <1>3, <1>4, <1>5, <1>6, <1>7, <1>8, <1>9, <1>10, <1>11 DEF Startup!Next

LEMMA StartupPart == AllSpec => Startup!Spec
<1>1. Starts => Startup!Init
  BY DEF Starts
<1>2. [AnyStep]_allVars => [Startup!Next]_Startup!vars
  <2>1. ASSUME AnyStep PROVE [Startup!Next]_Startup!vars
    BY <2>1 DEF AnyStep, Alone, startupVars, Startup!vars
  <2>2. ASSUME UNCHANGED allVars PROVE UNCHANGED Startup!vars
    BY <2>2 DEF allVars, startupVars, Startup!vars
  <2>3. QED BY <2>1, <2>2
<1>3. QED BY <1>1, <1>2, PTL DEF AllSpec, Startup!Spec

\* However many processes start at once and whoever of them dies: unless the
\* connection under the lock broke, at most one user was provisioned, and its
\* address is confirmed unless the start that made it is still at it or died
\* (bootstrapUser).
THEOREM FirstUserIsOne == AllSpec => []OneFirstUser
<1> DEFINE Inv == Kinds /\ Guarded /\ Single /\ Confirmed
<1>1. Startup!Init => Inv
  BY StartInit
<1>2. Inv /\ [Startup!Next]_Startup!vars => Inv'
  BY NextKeeps
<1>3. Inv => OneFirstUser
  BY DEF Single, Confirmed, OneFirstUser, Startup!OneFirstUser
<1>4. QED BY StartupPart, <1>1, <1>2, <1>3, PTL DEF Startup!Spec

\* Of every process, user and start: who is about to sign somebody up has
\* credentials for it.
StartupTyped ==
  /\ Startup!TypeOK
  /\ \A i \in Instances : boot[i] \in {"asks", "counts", "signs up"} => env[i].credentials # NoOne

LEMMA StartupTypedInit == Startup!Init => StartupTyped
<1> SUFFICES ASSUME Startup!Init PROVE StartupTyped
  OBVIOUS
<1>1. Startup!Unset \in Startup!Environments /\ 0 \in 0..MaxUsers
  BY StartAssumption DEF Startup!Unset, Startup!Environments
<1>2. broken \in BOOLEAN
  BY DEF Startup!Init
<1>3. QED
  BY <1>1, <1>2 DEF Startup!Init, StartupTyped, Startup!TypeOK, Startup!Stages

LEMMA StartupTypedNext == StartupTyped /\ [Startup!Next]_Startup!vars => StartupTyped'
<1> SUFFICES ASSUME StartupTyped, [Startup!Next]_Startup!vars PROVE StartupTyped'
  OBVIOUS
<1> USE DEF Startup!Stages, Startup!Environments, Startup!Users
<1>0. /\ boot \in [Instances -> Startup!Stages]
      /\ env \in [Instances -> Startup!Environments]
      /\ founded \in [Instances -> 0..MaxUsers] /\ users \subseteq Startup!Users
      /\ holder \in Instances \cup {NoOne} /\ ids \in 0..MaxUsers
      /\ broken \in BOOLEAN /\ cutOff \subseteq 1..MaxUsers
      /\ \A i \in Instances : boot[i] \in {"asks", "counts", "signs up"} => env[i].credentials # NoOne
  BY DEF StartupTyped, Startup!TypeOK
<1>1. Startup!Unset \in Startup!Environments /\ MaxUsers \in Nat /\ 0 \in 0..MaxUsers
  BY StartAssumption DEF Startup!Unset
<1>m. /\ ids \in 0..MaxUsers /\ MaxUsers \in Nat
      /\ \A i \in Instances : founded[i] \in 0..MaxUsers
  BY <1>0, <1>1
<1>2. ASSUME NEW i \in Instances, Startup!Exits(i), UNCHANGED <<users, ids, broken>>
      PROVE  StartupTyped'
  <2>1. {founded[i]} \ {0} \subseteq 1..MaxUsers
    BY <1>m
  <2>2. QED BY <1>0, <1>1, <1>2, <2>1 DEF Startup!Exits, StartupTyped, Startup!TypeOK
<1>3. ASSUME NEW i \in Instances, Startup!Start(i) PROVE StartupTyped'
  BY <1>0, <1>3 DEF Startup!Start, StartupTyped, Startup!TypeOK
<1>4. ASSUME NEW i \in Instances,
             Startup!TryAcquire(i) \/ Startup!CountUsers(i) \/ Startup!Release(i)
      PROVE  StartupTyped'
  BY <1>0, <1>4
  DEF Startup!TryAcquire, Startup!CountUsers, Startup!Release, StartupTyped, Startup!TypeOK
<1>5. ASSUME NEW i \in Instances, Startup!SignUp(i) PROVE StartupTyped'
  <2>1. CASE Startup!Taken(env[i].credentials)
    BY <1>2, <1>5, <2>1 DEF Startup!SignUp
  <2>2. CASE ~Startup!Taken(env[i].credentials)
    <3> DEFINE u == [id |-> ids', email |-> env[i].credentials, verified |-> FALSE, first |-> TRUE]
    <3>1. /\ ids' = ids + 1 /\ ids < MaxUsers
          /\ users' = users \cup {u}
          /\ founded' = [founded EXCEPT ![i] = ids']
          /\ boot' = [boot EXCEPT ![i] = "confirms"]
          /\ UNCHANGED <<env, holder, cutOff, broken>>
          /\ boot[i] = "signs up"
      BY <1>5, <2>2 DEF Startup!SignUp
    <3>a. ids' = ids + 1 /\ ids < MaxUsers
      BY <3>1
    <3>2. ids' \in 1..MaxUsers /\ ids' \in 0..MaxUsers
      BY <1>m, <3>a
    <3>3. env[i].credentials \in Emails
      BY <1>0, <3>1
    <3>4. u \in Startup!Users
      BY <3>2, <3>3
    <3> HIDE DEF u
    <3>5. QED BY <1>0, <3>1, <3>2, <3>4 DEF StartupTyped, Startup!TypeOK
  <2>3. QED BY <2>1, <2>2
<1>6. ASSUME NEW i \in Instances, Startup!MarkVerified(i) PROVE StartupTyped'
  <2>1. \A u \in Startup!Users : [u EXCEPT !.verified = TRUE] \in Startup!Users
    OBVIOUS
  <2>2. users' \subseteq Startup!Users
    <3>1. users' = {IF u.id = founded[i] THEN [u EXCEPT !.verified = TRUE] ELSE u : u \in users}
      BY <1>6 DEF Startup!MarkVerified
    <3>2. ASSUME NEW u \in users
          PROVE  (IF u.id = founded[i] THEN [u EXCEPT !.verified = TRUE] ELSE u) \in Startup!Users
      <4>1. u \in Startup!Users
        BY <1>0
      <4> HIDE DEF Startup!Users
      <4>2. QED BY <2>1, <4>1
    <3> HIDE DEF Startup!Users
    <3>3. QED BY <3>1, <3>2
  <2>3. QED BY <1>0, <1>1, <1>6, <2>2 DEF Startup!MarkVerified, StartupTyped, Startup!TypeOK
<1>7. ASSUME NEW i \in Instances, Startup!Die(i) PROVE StartupTyped'
  BY <1>2, <1>7 DEF Startup!Die
<1>8. ASSUME NEW i \in Instances, Startup!LoseConnection(i) PROVE StartupTyped'
  BY <1>0, <1>8 DEF Startup!LoseConnection, StartupTyped, Startup!TypeOK
<1>9. ASSUME NEW i \in Instances, Startup!Register(i) PROVE StartupTyped'
  <2>1. PICK m \in Emails :
          users' = users \cup {[id |-> ids + 1, email |-> m, verified |-> TRUE, first |-> FALSE]}
    BY <1>9 DEF Startup!Register
  <2>2. /\ ids < MaxUsers /\ ids' = ids + 1
        /\ UNCHANGED <<boot, env, founded, holder, broken, cutOff>>
    BY <1>9 DEF Startup!Register
  <2>a. ids' = ids + 1 /\ ids < MaxUsers
    BY <2>2
  <2>3. ids + 1 \in 1..MaxUsers /\ ids' \in 0..MaxUsers
    BY <1>m, <2>a
  <2>4. [id |-> ids + 1, email |-> m, verified |-> TRUE, first |-> FALSE] \in Startup!Users
    BY <2>3
  <2>5. QED BY <1>0, <2>1, <2>2, <2>3, <2>4 DEF StartupTyped, Startup!TypeOK
<1>10. ASSUME NEW i \in Instances, Startup!DeleteUser(i) PROVE StartupTyped'
  BY <1>0, <1>10 DEF Startup!DeleteUser, StartupTyped, Startup!TypeOK
<1>11. CASE UNCHANGED Startup!vars
  BY <1>0, <1>11 DEF Startup!vars, StartupTyped, Startup!TypeOK
<1>12. QED
  BY <1>3, <1>4, <1>5, <1>6, <1>7, <1>8, <1>9, <1>10, <1>11 DEF Startup!Next

-----------------------------------------------------------------------------
(* The picture of an account, for any number of picks, crops and requests. *)

\* The crop that would be saved, like those being encoded, is of a picture
\* already picked, and of that one the newest asked for or an older one.
CropInv ==
  /\ Picture!TypeOK
  /\ \A c \in encoding : c.of <= picks
  /\ cropped.of <= picks /\ source <= picks
  /\ cropped.of # 0 => cropped.at <= latest[cropped.of]

\* While requests come one after the other: one runs at most, and none once
\* the account is gone; between its two steps a save has stored bytes, a
\* removal has the row say "none", and a deletion has taken the bytes.
OnItsWay(i) == sent[i].pc \in Picture!Running
Midway(i, what) == sent[i].pc = "second" /\ sent[i].kind = what
TookBytes(i) == sent[i].kind = "delete" /\ sent[i].pc \in {"second", "done", "halfway"}
InTurn ==
  /\ \A i, j \in Picture!Slots : OnItsWay(i) /\ OnItsWay(j) => i = j
  /\ \A i \in Picture!Slots : OnItsWay(i) => ~gone
  /\ \A i \in Picture!Slots :
       /\ Midway(i, "set") => object # 0
       /\ Midway(i, "remove") => row = "none"
       /\ Midway(i, "delete") => object = 0
  /\ gone => object = 0
  /\ row = "custom" /\ object = 0 => \E i \in Picture!Slots : TookBytes(i)
PictureInv ==
  /\ CropInv
  /\ \A i \in Picture!Slots : sent[i].kind = "set" /\ OnItsWay(i) => sent[i].pic # 0
  /\ ~overlapped => InTurn

LEMMA PictureInit == Picture!Init => PictureInv
<1> SUFFICES ASSUME Picture!Init PROVE PictureInv
  OBVIOUS
<1>1. CropInv
  <2>1. /\ sent \in [Picture!Slots -> [pc : Picture!Running \cup {"unsent", "done", "failed", "halfway"},
                                      kind : Picture!Kinds, pic : 0..MaxPicks]]
        /\ latest \in [Picture!Picks -> 0..MaxCrops]
    BY BoundsAssumption DEF Picture!Init, Picture!Unsent, Picture!Kinds
  <2>2. cropped \in Picture!Crops \cup {Picture!NoCrop} /\ cropped.of = 0
    BY DEF Picture!Init, Picture!NoCrop
  <2>3. /\ row = "provider" /\ object = 0 /\ gone \in BOOLEAN /\ overlapped \in BOOLEAN
        /\ source = 0 /\ picks = 0 /\ encoding = {} /\ save = 0 /\ remove = 0
    BY DEF Picture!Init
  <2>4. Picture!TypeOK
    BY <2>1, <2>2, <2>3, BoundsAssumption DEF Picture!TypeOK
  <2>5. QED BY <2>2, <2>3, <2>4 DEF CropInv
<1>2. \A i \in Picture!Slots : sent[i].pc = "unsent"
  BY DEF Picture!Init, Picture!Unsent
<1>3. row # "custom" /\ ~gone
  BY DEF Picture!Init
<1>4. QED
  BY <1>1, <1>2, <1>3 DEF PictureInv, InTurn, OnItsWay, Midway, TookBytes, Picture!Running

\* What the fields of a request may be.
LEMMA Requests ==
  ASSUME Picture!TypeOK, NEW i \in Picture!Slots
  PROVE  /\ sent[i].pc \in {"first", "second", "unsent", "done", "failed", "halfway"}
         /\ sent[i].kind \in {"set", "remove", "delete"} /\ sent[i].pic \in 0..MaxPicks
         /\ sent[i] = [pc |-> sent[i].pc, kind |-> sent[i].kind, pic |-> sent[i].pic]
BY DEF Picture!TypeOK, Picture!Running, Picture!Kinds

\* A request that goes on: its fields, and the others as they were.
LEMMA Advanced ==
  ASSUME Picture!TypeOK, NEW i \in Picture!Slots, NEW to \in {"second", "done", "failed", "halfway"},
         Picture!Advance(i, to)
  PROVE  /\ sent' \in [Picture!Slots -> [pc : Picture!Running \cup {"unsent", "done", "failed", "halfway"},
                                         kind : Picture!Kinds, pic : 0..MaxPicks]]
         /\ sent'[i].pc = to /\ sent'[i].kind = sent[i].kind /\ sent'[i].pic = sent[i].pic
         /\ \A j \in Picture!Slots : j # i => sent'[j] = sent[j]
BY DEF Picture!TypeOK, Picture!Running, Picture!Advance

LEMMA CropNext == CropInv /\ [Picture!Next]_Picture!vars => CropInv'
<1> SUFFICES ASSUME CropInv, [Picture!Next]_Picture!vars PROVE CropInv'
  OBVIOUS
<1> USE DEF Picture!serverVars, Picture!dialogVars
<1>0. /\ Picture!TypeOK
      /\ cropped \in Picture!Crops \cup {Picture!NoCrop}
      /\ latest \in [Picture!Picks -> 0..MaxCrops] /\ source \in 0..MaxPicks
      /\ picks \in 0..MaxPicks
      /\ MaxPicks \in Nat /\ MaxCrops \in Nat \ {0} /\ MaxRequests \in Nat
  BY BoundsAssumption DEF CropInv, Picture!TypeOK
<1>1. ASSUME Picture!Pick PROVE CropInv'
  <2>1. /\ picks' \in Picture!Picks /\ source' = picks' /\ cropped' = cropped
        /\ latest' = [latest EXCEPT ![picks'] = 1]
        /\ encoding' = encoding \cup {[of |-> picks', at |-> 1]}
    BY <1>0, <1>1 DEF Picture!Pick, Picture!Picks
  <2>2. latest' \in [Picture!Picks -> 0..MaxCrops] /\ 1 \in 1..MaxCrops
    BY <2>1, <1>0
  <2>3. encoding' \subseteq Picture!Crops
    BY <2>1, <2>2, <1>0 DEF Picture!Crops, Picture!TypeOK
  <2>4. cropped.of # 0 => cropped.of \in Picture!Picks /\ cropped.at \in 1..MaxCrops
    BY <1>0 DEF Picture!Crops, Picture!NoCrop
  <2>5. /\ picks' = picks + 1 /\ cropped'.of <= picks'
        /\ cropped'.of # 0 => cropped'.at <= latest'[cropped'.of]
    BY <1>1, <2>1, <2>4, <1>0
    DEF CropInv, Picture!Pick, Picture!NoCrop, Picture!Crops, Picture!Picks
  <2>a. \A c \in encoding' : c.of <= picks'
    <3>1. \A c \in encoding : c.of \in Nat /\ c.of <= picks
      BY DEF CropInv, Picture!TypeOK, Picture!Crops, Picture!Picks
    <3>2. QED BY <3>1, <2>1, <2>5, <1>0
  <2>6. QED BY <1>0, <1>1, <2>1, <2>2, <2>3, <2>5, <2>a
            DEF CropInv, Picture!TypeOK, Picture!Pick, Picture!Picks
<1>2. ASSUME Picture!Drag PROVE CropInv'
  <2>1. /\ source \in Picture!Picks /\ cropped' = cropped
        /\ latest[source] + 1 \in 1..MaxCrops
        /\ latest' = [latest EXCEPT ![source] = latest[source] + 1]
        /\ encoding' = encoding \cup {[of |-> source, at |-> latest'[source]]}
    BY <1>0, <1>2 DEF Picture!Drag, Picture!Picks
  <2>2. latest' \in [Picture!Picks -> 0..MaxCrops] /\ latest'[source] \in 1..MaxCrops
    BY <2>1, <1>0
  <2>3. encoding' \subseteq Picture!Crops
    BY <2>1, <2>2, <1>0 DEF Picture!Crops, Picture!TypeOK
  <2>4. cropped.of # 0 => cropped.of \in Picture!Picks /\ cropped.at \in 1..MaxCrops
    BY <1>0 DEF Picture!Crops, Picture!NoCrop
  <2>5. cropped'.of # 0 => cropped'.at <= latest'[cropped'.of]
    BY <2>1, <2>4, <1>0 DEF CropInv
  <2>a. source <= picks /\ \A c \in encoding' : c.of <= picks'
    BY <2>1, <1>0, <1>2 DEF CropInv, Picture!Drag
  <2>6. QED BY <1>0, <1>2, <2>1, <2>2, <2>3, <2>5, <2>a
            DEF CropInv, Picture!TypeOK, Picture!Drag
<1>3. ASSUME NEW c \in Picture!Crops, Picture!Encoded(c) PROVE CropInv'
  <2>1. /\ cropped' = cropped \/ (cropped' = c /\ c.at = latest[c.of])
        /\ latest' = latest /\ encoding' \subseteq encoding
    BY <1>3 DEF Picture!Encoded, Picture!Reported
  <2>2. c.of \in Picture!Picks /\ c.at \in Nat
    BY DEF Picture!Crops
  <2>3. /\ cropped' \in Picture!Crops \cup {Picture!NoCrop} /\ cropped'.of <= picks
        /\ \A d \in encoding' : d.of <= picks
    BY <2>1, <1>0, <1>3 DEF CropInv, Picture!Encoded
  <2>4. cropped'.of # 0 => cropped'.at <= latest'[cropped'.of]
    BY <2>1, <2>2, <1>0 DEF CropInv
  <2>5. QED BY <1>0, <1>3, <2>1, <2>3, <2>4 DEF CropInv, Picture!TypeOK, Picture!Encoded
<1>4. ASSUME Picture!CloseDialog PROVE CropInv'
  BY <1>0, <1>4 DEF CropInv, Picture!TypeOK, Picture!CloseDialog, Picture!Closed,
                    Picture!NoCrop
<1>5. ASSUME NEW what \in Picture!Kinds, NEW pic \in 0..MaxPicks, Picture!Sends(what, pic),
             UNCHANGED <<row, object, gone, source, picks, latest, encoding, cropped>>
      PROVE  CropInv'
  <2>1. PICK i \in Picture!Slots :
          /\ sent' = [sent EXCEPT ![i] = [pc |-> "first", kind |-> what, pic |-> pic]]
          /\ overlapped' = (overlapped \/ \E j \in Picture!Slots : sent[j].pc \in Picture!Running)
          /\ save' = IF what = "set" THEN i ELSE IF what = "remove" THEN 0 ELSE save
          /\ remove' = IF what = "remove" THEN i ELSE remove
    BY <1>5 DEF Picture!Sends
  <2>2. /\ sent' \in [Picture!Slots -> [pc : Picture!Running \cup {"unsent", "done", "failed", "halfway"},
                                        kind : Picture!Kinds, pic : 0..MaxPicks]]
    BY <2>1, <1>0 DEF Picture!TypeOK, Picture!Running
  <2>3. save' \in 0..MaxRequests /\ remove' \in 0..MaxRequests /\ overlapped' \in BOOLEAN
    BY <2>1, <1>0 DEF Picture!TypeOK, Picture!Slots
  <2>4. QED BY <1>0, <1>5, <2>2, <2>3 DEF CropInv, Picture!TypeOK
<1>6. ASSUME Picture!Submit \/ Picture!RemovePicture \/ Picture!DeleteAccount PROVE CropInv'
  <2>1. cropped # Picture!NoCrop => cropped.of \in 0..MaxPicks
    BY <1>0 DEF Picture!Crops, Picture!Picks
  <2>2. QED BY <1>0, <1>5, <1>6, <2>1
    DEF Picture!Submit, Picture!RemovePicture, Picture!DeleteAccount, Picture!Kinds
<1>7. ASSUME Picture!Fade PROVE CropInv'
  BY <1>0, <1>7 DEF CropInv, Picture!TypeOK, Picture!Fade
<1>8. ASSUME NEW i \in Picture!Slots, NEW to \in {"second", "done", "failed", "halfway"},
             Picture!Advance(i, to), UNCHANGED <<overlapped, picks, latest, encoding, save, remove>>,
             \/ UNCHANGED <<source, cropped>>
             \/ Picture!Closed,
             row' \in {"provider", "custom", "none"}, object' \in 0..MaxPicks, gone' \in BOOLEAN
      PROVE  CropInv'
  <2>1. /\ source' \in 0..MaxPicks /\ cropped' \in Picture!Crops \cup {Picture!NoCrop}
        /\ source' <= picks /\ cropped'.of <= picks
    BY <1>0, <1>8 DEF CropInv, Picture!Closed, Picture!NoCrop
  <2>2. cropped'.of # 0 => cropped'.at <= latest'[cropped'.of]
    BY <1>0, <1>8 DEF CropInv, Picture!Closed, Picture!NoCrop
  <2>3. QED BY <1>0, <1>8, <2>1, <2>2, Advanced DEF CropInv, Picture!TypeOK
<1>9. ASSUME NEW i \in Picture!Slots, Picture!Handle(i) PROVE CropInv'
  <2>1. /\ row' \in {"provider", "custom", "none"} /\ object' \in 0..MaxPicks
        /\ gone' \in BOOLEAN
    <3>1. /\ row \in {"provider", "custom", "none"} /\ object \in 0..MaxPicks
          /\ gone \in BOOLEAN
          /\ sent[i].pic \in 0..MaxPicks /\ 0 \in 0..MaxPicks
      BY <1>0, Requests DEF Picture!TypeOK
    <3>2. /\ row' \in {row, "custom", "none"} /\ object' \in {object, 0, sent[i].pic}
          /\ gone' \in {gone, TRUE}
      BY <1>9
      DEF Picture!Handle, Picture!SetAvatar, Picture!RemoveAvatar,
          Picture!DeleteUserAndAvatar,
          Picture!PutObject, Picture!RemoveObject, Picture!WriteRow, Picture!DeleteUser
    <3>3. QED BY <3>1, <3>2
  <2>2. Picture!Halfway(i) \/ Picture!Answered(i)
    BY <1>9 DEF Picture!Handle, Picture!SetAvatar, Picture!RemoveAvatar,
                Picture!DeleteUserAndAvatar
  <2>3. CASE Picture!Halfway(i)
    BY <2>1, <2>3, <1>8 DEF Picture!Halfway
  <2>4. CASE Picture!Answered(i)
    BY <2>1, <2>4, <1>8 DEF Picture!Answered
  <2>5. QED BY <2>2, <2>3, <2>4
<1>10. ASSUME NEW i \in Picture!Slots, Picture!Fail(i) PROVE CropInv'
  BY <1>0, <1>10, <1>8 DEF Picture!Fail, Picture!TypeOK
<1>11. ASSUME UNCHANGED Picture!vars PROVE CropInv'
  BY <1>0, <1>11 DEF CropInv, Picture!TypeOK, Picture!vars
<1>12. QED BY <1>1, <1>2, <1>3, <1>4, <1>6, <1>7, <1>9, <1>10, <1>11
           DEF Picture!Next, Picture!Over

LEMMA PictureNext == PictureInv /\ [Picture!Next]_Picture!vars => PictureInv'
<1> SUFFICES ASSUME PictureInv, [Picture!Next]_Picture!vars PROVE PictureInv'
  OBVIOUS
<1> USE DEF Picture!serverVars, Picture!dialogVars
<1>0. CropInv /\ CropInv' /\ Picture!TypeOK
  BY CropNext DEF PictureInv, CropInv
<1> DEFINE Saves == \A i \in Picture!Slots : sent[i].kind = "set" /\ OnItsWay(i) => sent[i].pic # 0
<1>1. Saves /\ (~overlapped => InTurn)
  BY DEF PictureInv
<1>2. ASSUME UNCHANGED <<row, object, gone, sent, overlapped>> PROVE PictureInv'
  <2>1. Saves'
    BY <1>1, <1>2 DEF OnItsWay
  <2>2. InTurn => InTurn'
    BY <1>2 DEF InTurn, OnItsWay, Midway, TookBytes
  <2>3. QED BY <1>0, <1>1, <1>2, <2>1, <2>2 DEF PictureInv
<1>3. ASSUME NEW what \in Picture!Kinds, NEW pic \in 0..MaxPicks, Picture!Sends(what, pic),
             UNCHANGED <<row, object, gone>>, ~gone, what = "set" => pic # 0
      PROVE  PictureInv'
  <2>1. PICK i \in Picture!Slots :
          /\ sent[i] = Picture!Unsent
          /\ sent' = [sent EXCEPT ![i] = [pc |-> "first", kind |-> what, pic |-> pic]]
          /\ overlapped' = (overlapped \/ \E j \in Picture!Slots : sent[j].pc \in Picture!Running)
    BY <1>3 DEF Picture!Sends
  <2>2. /\ sent'[i].pc = "first" /\ sent'[i].kind = what /\ sent'[i].pic = pic
        /\ \A j \in Picture!Slots : j # i => sent'[j] = sent[j]
        /\ sent[i].pc = "unsent"
    BY <2>1, <1>0 DEF Picture!TypeOK, Picture!Unsent
  <2>3. Saves'
    BY <2>2, <1>1, <1>3 DEF OnItsWay
  <2>4. ASSUME ~overlapped' PROVE InTurn'
    <3>1. InTurn /\ \A j \in Picture!Slots : ~OnItsWay(j)
      BY <2>1, <2>4, <1>0, <1>1 DEF OnItsWay, Picture!TypeOK
    <3>2. \A j \in Picture!Slots : OnItsWay(j)' => j = i
      BY <2>2, <3>1 DEF OnItsWay
    <3>3. \A j \in Picture!Slots : ~(sent'[j].pc = "second")
      BY <2>2, <3>1 DEF OnItsWay, Picture!Running
    <3>4. \A j \in Picture!Slots : TookBytes(j) => TookBytes(j)'
      BY <2>2 DEF TookBytes
    <3>5. QED BY <3>1, <3>2, <3>3, <3>4, <1>3 DEF InTurn, Midway
  <2>5. QED BY <1>0, <2>3, <2>4 DEF PictureInv
<1>4. ASSUME Picture!Submit \/ Picture!RemovePicture \/ Picture!DeleteAccount PROVE PictureInv'
  <2>1. cropped # Picture!NoCrop => cropped.of \in 0..MaxPicks /\ cropped.of # 0
    BY <1>0 DEF Picture!TypeOK, Picture!Crops, Picture!Picks
  <2>2. QED BY <1>3, <1>4, <2>1, BoundsAssumption
    DEF Picture!Submit, Picture!RemovePicture, Picture!DeleteAccount, Picture!Kinds
<1>5. ASSUME NEW i \in Picture!Slots, NEW to \in {"second", "done", "failed", "halfway"},
             OnItsWay(i), Picture!Advance(i, to), overlapped' = overlapped,
             InTurn => /\ to = "second" /\ sent[i].kind = "set" => object' # 0
                       /\ to = "second" /\ sent[i].kind = "remove" => row' = "none"
                       /\ to = "second" /\ sent[i].kind = "delete" => object' = 0
                       /\ gone' => object' = 0
                       /\ gone' /\ ~gone => to # "second"
                       /\ row' = "custom" /\ object' = 0 =>
                            TookBytes(i)' \/ \E j \in Picture!Slots \ {i} : TookBytes(j)
      PROVE  PictureInv'
  <2>1. /\ sent'[i].pc = to /\ sent'[i].kind = sent[i].kind /\ sent'[i].pic = sent[i].pic
        /\ \A j \in Picture!Slots : j # i => sent'[j] = sent[j]
    BY <1>0, <1>5, Advanced
  <2>2. Saves'
    BY <2>1, <1>1, <1>5 DEF OnItsWay
  <2>3. ASSUME InTurn PROVE InTurn'
    <3>1. \A j \in Picture!Slots : OnItsWay(j)' => j = i
      BY <2>1, <2>3, <1>5 DEF InTurn, OnItsWay
    <3>2. OnItsWay(i)' => to = "second"
      BY <2>1 DEF OnItsWay, Picture!Running
    <3>3. ~gone
      BY <2>3, <1>5 DEF InTurn
    <3>4. \A j \in Picture!Slots : j # i /\ TookBytes(j) => TookBytes(j)'
      BY <2>1 DEF TookBytes
    <3>5. \A j \in Picture!Slots :
            /\ Midway(j, "set")' => object' # 0
            /\ Midway(j, "remove")' => row' = "none"
            /\ Midway(j, "delete")' => object' = 0
      <4>1. \A j \in Picture!Slots : sent'[j].pc = "second" => j = i
        BY <3>1 DEF OnItsWay, Picture!Running
      <4>2. QED BY <4>1, <2>1, <2>3, <1>5 DEF Midway
    <3>6. QED BY <3>1, <3>2, <3>3, <3>4, <3>5, <2>3, <1>5 DEF InTurn
  <2>4. QED BY <1>0, <1>1, <1>5, <2>2, <2>3 DEF PictureInv
<1>6. ASSUME NEW i \in Picture!Slots, Picture!Handle(i) PROVE PictureInv'
  <2> USE DEF Picture!PutObject, Picture!RemoveObject, Picture!WriteRow, Picture!DeleteUser,
              Picture!Halfway, Picture!Answered
  <2>1. sent[i].pc \in {"first", "second"} /\ OnItsWay(i)
    BY <1>6 DEF Picture!Handle, Picture!SetAvatar, Picture!RemoveAvatar,
                Picture!DeleteUserAndAvatar, OnItsWay, Picture!Running
  <2>2. InTurn => ~gone
    BY <2>1 DEF InTurn
  <2>3. ASSUME NEW to \in {"second", "done"}, Picture!Advance(i, to)
        PROVE  /\ sent'[i].pc = to /\ sent'[i].kind = sent[i].kind
               /\ TookBytes(i) => TookBytes(i)'
    BY <1>0, <2>3, Advanced DEF TookBytes
  <2>4. CASE sent[i].kind = "set" /\ Picture!SetAvatar(i)
    <3>1. ~TookBytes(i)
      BY <2>4 DEF TookBytes
    <3>2. CASE sent[i].pc = "first"
      <4>1. /\ object' = sent[i].pic /\ sent[i].pic # 0
            /\ UNCHANGED <<row, gone, overlapped>>
            /\ Picture!Advance(i, "second")
        BY <2>1, <2>4, <3>2, <1>1 DEF Picture!SetAvatar
      <4>2. QED BY <4>1, <1>5, <2>1, <2>2, <2>4
    <3>3. CASE sent[i].pc = "second"
      <4>1. /\ UNCHANGED <<object, gone, overlapped>> /\ Picture!Advance(i, "done")
        BY <2>4, <3>3 DEF Picture!SetAvatar
      <4>2. InTurn => object # 0 /\ ~gone
        BY <2>2, <2>4, <3>3 DEF InTurn, Midway
      <4>3. QED BY <4>1, <4>2, <1>5, <2>1
    <3>4. QED BY <2>1, <3>2, <3>3
  <2>5. CASE sent[i].kind = "remove" /\ Picture!RemoveAvatar(i)
    <3>1. ~TookBytes(i)
      BY <2>5 DEF TookBytes
    <3>2. CASE sent[i].pc = "first"
      <4>1. /\ row' = (IF gone THEN row ELSE "none") /\ UNCHANGED <<object, gone, overlapped>>
            /\ Picture!Advance(i, "second")
        BY <2>5, <3>2 DEF Picture!RemoveAvatar
      <4>2. QED BY <4>1, <1>5, <2>1, <2>2, <2>5
    <3>3. CASE sent[i].pc = "second"
      <4>1. /\ object' = 0 /\ UNCHANGED <<row, gone, overlapped>>
            /\ Picture!Advance(i, "done")
        BY <2>5, <3>3 DEF Picture!RemoveAvatar
      <4>2. InTurn => row = "none"
        BY <2>5, <3>3 DEF InTurn, Midway
      <4>3. QED BY <4>1, <4>2, <1>5, <2>1
    <3>4. QED BY <2>1, <3>2, <3>3
  <2>6. CASE sent[i].kind = "delete" /\ Picture!DeleteUserAndAvatar(i)
    <3>1. CASE sent[i].pc = "first"
      <4>1. /\ object' = 0 /\ UNCHANGED <<row, gone, overlapped>>
            /\ Picture!Advance(i, "second")
        BY <2>6, <3>1 DEF Picture!DeleteUserAndAvatar
      <4>2. TookBytes(i)'
        BY <4>1, <2>3, <2>6 DEF TookBytes
      <4>3. QED BY <4>1, <4>2, <1>5, <2>1, <2>2, <2>6
    <3>2. CASE sent[i].pc = "second"
      <4>1. /\ gone' = TRUE /\ UNCHANGED <<row, object, overlapped>>
            /\ Picture!Advance(i, "done")
        BY <2>6, <3>2 DEF Picture!DeleteUserAndAvatar
      <4>2. TookBytes(i)'
        BY <4>1, <2>3, <2>6 DEF TookBytes
      <4>3. InTurn => object = 0
        BY <2>6, <3>2 DEF InTurn, Midway
      <4>4. QED BY <4>1, <4>2, <4>3, <1>5, <2>1
    <3>3. QED BY <2>1, <3>1, <3>2
  <2>7. QED BY <1>6, <2>4, <2>5, <2>6 DEF Picture!Handle
<1>7. ASSUME NEW i \in Picture!Slots, Picture!Fail(i) PROVE PictureInv'
  <2>1. /\ OnItsWay(i) /\ UNCHANGED <<row, object, gone, overlapped>>
        /\ \/ sent[i].pc = "first" /\ Picture!Advance(i, "failed")
           \/ sent[i].pc = "second" /\ Picture!Advance(i, "halfway")
    BY <1>7 DEF Picture!Fail, OnItsWay, Picture!Running
  <2>2. CASE sent[i].pc = "first" /\ Picture!Advance(i, "failed")
    <3>1. ~TookBytes(i)
      BY <2>2 DEF TookBytes
    <3>2. InTurn /\ row' = "custom" /\ object' = 0 => \E j \in Picture!Slots \ {i} : TookBytes(j)
      BY <3>1, <2>1 DEF InTurn
    <3>3. InTurn => ~gone
      BY <2>1 DEF InTurn
    <3>4. QED BY <2>1, <2>2, <3>2, <3>3, <1>5
  <2>3. CASE sent[i].pc = "second" /\ Picture!Advance(i, "halfway")
    <3>1. TookBytes(i) => TookBytes(i)'
      BY <2>3, <1>0, Advanced DEF TookBytes
    <3>2. InTurn /\ row' = "custom" /\ object' = 0 =>
                      TookBytes(i)' \/ \E j \in Picture!Slots \ {i} : TookBytes(j)
      BY <3>1, <2>1 DEF InTurn
    <3>3. InTurn => ~gone
      BY <2>1 DEF InTurn
    <3>4. QED BY <2>1, <2>3, <3>2, <3>3, <1>5
  <2>4. QED BY <2>1, <2>2, <2>3
<1>8. ASSUME \/ Picture!Pick \/ Picture!Drag \/ Picture!CloseDialog \/ Picture!Fade
             \/ Picture!Over \/ UNCHANGED Picture!vars
             \/ \E c \in Picture!Crops : Picture!Encoded(c)
      PROVE  PictureInv'
  BY <1>2, <1>8 DEF Picture!Pick, Picture!Drag, Picture!CloseDialog, Picture!Fade,
                    Picture!Over,
                    Picture!Encoded, Picture!vars
<1>9. QED BY <1>4, <1>6, <1>7, <1>8 DEF Picture!Next

LEMMA PicturePart == AllSpec => Picture!Spec
<1>1. Starts => Picture!Init
  BY DEF Starts
<1>2. [AnyStep]_allVars => [Picture!Next]_Picture!vars
  <2>1. ASSUME AnyStep PROVE [Picture!Next]_Picture!vars
    BY <2>1 DEF AnyStep, Alone, avatarVars, Picture!vars, Picture!serverVars,
                Picture!dialogVars
  <2>2. ASSUME UNCHANGED allVars PROVE UNCHANGED Picture!vars
    BY <2>2 DEF allVars, avatarVars, Picture!vars, Picture!serverVars, Picture!dialogVars
  <2>3. QED BY <2>1, <2>2
<1>3. QED BY <1>1, <1>2, PTL DEF AllSpec, Picture!Spec

\* Requests one after the other, whichever step of theirs fails, leave no row
\* that shows bytes nobody stored and no bytes of an account that is gone
\* (set-avatar, remove-avatar, delete-account).
THEOREM PictureIsStored == AllSpec => []RowAndBytesAgree
<1>1. PictureInv => RowAndBytesAgree
  BY DEF PictureInv, InTurn, TookBytes, OnItsWay, RowAndBytesAgree, Picture!RowAndBytesAgree
<1>2. QED BY PicturePart, PictureInit, PictureNext, <1>1, PTL DEF Picture!Spec

\* No crop of a picture is replaced by an older one of it (image-cropper).
THEOREM CropsGoForward == AllSpec => CropNeverGoesBack
<1>1. CropInv /\ [Picture!Next]_Picture!vars =>
        [cropped'.of = cropped.of => cropped'.at >= cropped.at]_cropped
  <2> SUFFICES ASSUME CropInv, Picture!Next, cropped' # cropped, cropped'.of = cropped.of
               PROVE  cropped'.at >= cropped.at
    BY DEF Picture!vars, Picture!dialogVars
  <2>1. /\ cropped \in Picture!Crops \cup {Picture!NoCrop}
        /\ latest \in [Picture!Picks -> 0..MaxCrops]
    BY DEF CropInv, Picture!TypeOK
  <2>2. /\ cropped = Picture!NoCrop => cropped.of = 0 /\ cropped.at = 0
        /\ cropped # Picture!NoCrop =>
             cropped.of \in Picture!Picks /\ cropped.of # 0 /\ cropped.at \in 1..MaxCrops
    BY <2>1 DEF Picture!NoCrop, Picture!Crops, Picture!Picks
  <2>3. CASE \E c \in Picture!Crops : Picture!Encoded(c)
    <3>1. PICK c \in Picture!Crops : cropped' = c /\ c.at = latest[c.of]
      BY <2>3 DEF Picture!Encoded, Picture!Reported
    <3>2. c.of \in Picture!Picks /\ c.of # 0 /\ c.at \in 1..MaxCrops
      BY DEF Picture!Crops, Picture!Picks
    <3>3. QED BY <3>1, <3>2, <2>2 DEF CropInv
  <2>4. CASE Picture!Closed
    BY <2>2, <2>4 DEF Picture!Closed, Picture!NoCrop
  <2>5. Picture!Closed \/ \E c \in Picture!Crops : Picture!Encoded(c)
    BY DEF Picture!Next, Picture!Pick, Picture!Drag, Picture!CloseDialog, Picture!Submit,
           Picture!RemovePicture, Picture!DeleteAccount, Picture!Fade, Picture!Over,
           Picture!Handle,
           Picture!SetAvatar, Picture!RemoveAvatar, Picture!DeleteUserAndAvatar,
           Picture!Fail,
           Picture!Halfway, Picture!Answered, Picture!vars, Picture!dialogVars
  <2>6. QED BY <2>3, <2>4, <2>5
<1>2. PictureInv => CropInv
  BY DEF PictureInv
<1>3. QED
  BY PicturePart, PictureInit, PictureNext, <1>1, <1>2, PTL
  DEF Picture!Spec, CropNeverGoesBack, Picture!CropNeverGoesBack

-----------------------------------------------------------------------------
(* The request budgets, for any budgets, window and clock.                 *)

\* The wait a refusal announces is never shorter than the window is open, and
\* less than a second longer.
LEMMA RoundedUp ==
  ASSUME NEW s \in Nat \ {0}, NEW n \in Nat
  PROVE  /\ ((n + s - 1) \div s) \in Nat
         /\ ((n + s - 1) \div s) * s >= n /\ ((n + s - 1) \div s) * s <= n + s - 1
OBVIOUS

LEMMA FunctionIsSeq ==
  ASSUME NEW S, NEW k \in Nat, NEW f \in [1..k -> S]
  PROVE  f \in Seq(S) /\ Len(f) = k
OBVIOUS

LEMMA WindowOpen == Budgets!Open \in Nat \ {0} /\ Budgets!Open >= Steps
BY BoundsAssumption DEF Budgets!Open

LEMMA WaitAnnounced ==
  ASSUME Budgets!TypeOK, NEW k \in Budgets!Keys, left[k] > 0
  PROVE  LET wait == Budgets!RetryAfter(k) * Steps
         IN  wait \in 0..(Budgets!Open + Steps) /\ left[k] <= wait
<1> DEFINE s == Steps  n == left[k]
<1>1. s \in Nat \ {0} /\ n \in Nat \ {0} /\ n <= Budgets!Open /\ Budgets!Open \in Nat
  BY BoundsAssumption, WindowOpen DEF Budgets!TypeOK
<1>2. CASE n <= s
  <2>1. Budgets!RetryAfter(k) = 1
    BY <1>2 DEF Budgets!RetryAfter
  <2>2. QED BY <2>1, <1>1, <1>2
<1>3. CASE n > s
  <2>1. Budgets!RetryAfter(k) = (n + s - 1) \div s
    BY <1>1, <1>3 DEF Budgets!RetryAfter
  <2> HIDE DEF s, n
  <2>2. /\ ((n + s - 1) \div s) \in Nat
        /\ ((n + s - 1) \div s) * s >= n /\ ((n + s - 1) \div s) * s <= n + s - 1
    BY <1>1, RoundedUp
  <2> DEFINE q == ((n + s - 1) \div s) * s
  <2>3. q \in Nat
    BY <1>1, <2>2
  <2> HIDE DEF q
  <2>4. q \in 0..(Budgets!Open + s) /\ n <= q
    BY <1>1, <2>2, <2>3 DEF q
  <2>5. QED BY <2>1, <2>4 DEF q, s, n
<1>4. QED BY <1>1, <1>2, <1>3

\* Of the requests the observer logged, the first m were let through before
\* the window that is open, so they are a window old by the time it closes,
\* and the counter knows of all the others.
Before(m) ==
  /\ m <= Budgets!Budget(watched)
  /\ \A n \in 1..m : passed[n] <= left[watched]
  /\ Len(passed) - m <= hits[watched]
  /\ Len(passed) - m <= Budgets!Budget(watched)

BudgetInv ==
  /\ Budgets!TypeOK
  /\ told # -1 => left[watched] > 0 /\ left[watched] <= told
  /\ left[watched] = 0 => Len(passed) <= Budgets!Budget(watched)
  /\ left[watched] > 0 => \E m \in 0..Len(passed) : Before(m)

LEMMA BudgetInit == Budgets!Init => BudgetInv
<1> SUFFICES ASSUME Budgets!Init PROVE BudgetInv
  OBVIOUS
<1>1. Budgets!TypeOK
  BY WindowOpen, BoundsAssumption DEF Budgets!Init, Budgets!TypeOK
<1>2. QED BY <1>1, WindowOpen, BoundsAssumption
          DEF Budgets!Init, BudgetInv, Budgets!TypeOK, Budgets!Budget

LEMMA Counted ==
  ASSUME BudgetInv, NEW k \in Budgets!Keys, Budgets!Increment(k),
         waiting' \in [Budgets!Imports -> 0..MaxWaiting], UNCHANGED <<redis, watched>>
  PROVE  BudgetInv'
<1> DEFINE B == Budgets!Budget(watched)
<1>1. /\ B \in Nat \ {0} /\ Budgets!Budget(watched)' = B /\ Budgets!Budget(k) \in Nat \ {0}
      /\ Budgets!Open \in Nat \ {0} /\ watched \in Budgets!Keys
  BY BoundsAssumption, WindowOpen DEF Budgets!Budget, BudgetInv, Budgets!TypeOK
<1>2. /\ hits \in [Budgets!Keys -> Nat] /\ left \in [Budgets!Keys -> 0..Budgets!Open]
      /\ passed \in Seq(1..Budgets!Open) /\ told \in -1..(Budgets!Open + Steps)
  BY DEF BudgetInv, Budgets!TypeOK
<1> DEFINE hit == Budgets!Hits(k)  late == Budgets!Refused(k)  until == Budgets!Left(k)
<1>3. hit \in Nat /\ until \in 1..Budgets!Open /\ (late <=> hit > Budgets!Budget(k))
  BY <1>1, <1>2 DEF Budgets!Hits, Budgets!Left, Budgets!Refused
<1>4. /\ hits' = [hits EXCEPT ![k] = IF hit > Budgets!Budget(k) + 1
                                     THEN Budgets!Budget(k) + 1 ELSE hit]
      /\ left' = [left EXCEPT ![k] = until]
      /\ passed' = IF k = watched /\ ~late THEN Append(passed, Budgets!Open) ELSE passed
      /\ told' = IF k = watched /\ late /\ told = -1 THEN Budgets!RetryAfter(k) * Steps ELSE told
  BY DEF Budgets!Increment
<1>5. late => left[k] > 0 /\ until = left[k]
  BY <1>1, <1>2, <1>3 DEF Budgets!Hits, Budgets!Left
<1>6. late => /\ Budgets!RetryAfter(k) * Steps \in 0..(Budgets!Open + Steps)
               /\ left[k] <= Budgets!RetryAfter(k) * Steps
  BY <1>5, WaitAnnounced DEF BudgetInv
<1>7. left[k] = 0 => hit = 1
  BY DEF Budgets!Hits
<1>8. left[k] > 0 => hit = hits[k] + 1 /\ until = left[k]
  BY <1>2 DEF Budgets!Hits, Budgets!Left
<1> HIDE DEF hit, late, until, B
<1>9. /\ hits' \in [Budgets!Keys -> Nat] /\ left' \in [Budgets!Keys -> 0..Budgets!Open]
      /\ passed' \in Seq(1..Budgets!Open) /\ told' \in -1..(Budgets!Open + Steps)
  <2>1. hits' \in [Budgets!Keys -> Nat] /\ left' \in [Budgets!Keys -> 0..Budgets!Open]
    BY <1>1, <1>2, <1>3, <1>4
  <2>2. passed' \in Seq(1..Budgets!Open)
    <3>1. Budgets!Open \in 1..Budgets!Open
      BY <1>1
    <3>2. Append(passed, Budgets!Open) \in Seq(1..Budgets!Open)
      BY <3>1, <1>2, AppendProperties
    <3>3. QED BY <3>2, <1>2, <1>4
  <2>3. told' \in -1..(Budgets!Open + Steps)
    BY <1>2, <1>4, <1>6
  <2>4. QED BY <2>1, <2>2, <2>3
<1>10. Budgets!TypeOK'
  BY <1>9 DEF BudgetInv, Budgets!TypeOK
<1>11. CASE k # watched
  <2>1. /\ hits'[watched] = hits[watched] /\ left'[watched] = left[watched]
        /\ passed' = passed /\ told' = told /\ watched' = watched
    BY <1>1, <1>2, <1>4, <1>11
  <2>2. \A m : Before(m) => Before(m)'
    BY <2>1, <1>1 DEF Before, B
  <2>3. QED BY <2>1, <2>2, <1>1, <1>10 DEF BudgetInv, B
<1>12. CASE k = watched /\ late
  <2>1. /\ hit = hits[k] + 1 /\ left'[watched] = left[watched] /\ left[watched] > 0
        /\ hits'[watched] = IF hit > B + 1 THEN B + 1 ELSE hit
        /\ passed' = passed /\ watched' = watched /\ hit > B
    BY <1>1, <1>2, <1>3, <1>4, <1>5, <1>8, <1>12 DEF B
  <2>2. PICK m \in 0..Len(passed) : Before(m)
    BY <2>1 DEF BudgetInv
  <2>3. Before(m)'
    <3>1. Len(passed) - m <= hits'[watched]
      BY <2>1, <2>2, <1>1, <1>2, LenProperties DEF Before, B
    <3>2. QED BY <3>1, <2>1, <2>2, <1>1 DEF Before, B
  <2>4. told' # -1 => left'[watched] <= told'
    BY <1>2, <1>4, <1>6, <1>12, <2>1 DEF BudgetInv
  <2>5. QED BY <2>1, <2>3, <2>4, <1>1, <1>10 DEF BudgetInv, B
<1>13. CASE k = watched /\ ~late
  <2> DEFINE L == Len(passed)
  <2>1. /\ hit \in Nat /\ hit <= B /\ hits'[watched] = hit /\ left'[watched] = until
        /\ passed' = Append(passed, Budgets!Open) /\ watched' = watched /\ told' = told
        /\ until > 0
    BY <1>1, <1>2, <1>3, <1>4, <1>13 DEF B
  <2>2. /\ L \in Nat /\ Len(passed') = L + 1
        /\ \A n \in 1..L : passed'[n] = passed[n] /\ passed[n] \in 1..Budgets!Open
    BY <1>1, <1>2, <2>1, AppendProperties, LenProperties, ElementOfSeq
  <2>3. ASSUME NEW m \in 0..L, m <= B, L - m + 1 <= hit,
               \A n \in 1..m : passed[n] <= until
        PROVE  Before(m)'
    <3>1. \A n \in 1..m : n \in 1..L
      BY <2>2
    <3>2. /\ m <= B /\ \A n \in 1..m : passed'[n] <= left'[watched]
          /\ Len(passed') - m <= hits'[watched] /\ Len(passed') - m <= B
      BY <2>1, <2>2, <2>3, <3>1, <1>1
    <3>3. QED BY <3>2, <2>1, <1>1 DEF Before
  <2>4. \E m \in 0..L : Before(m)'
    <3>1. CASE left[k] = 0
      <4>1. L \in 0..L /\ L <= B
        BY <2>2, <3>1, <1>13 DEF BudgetInv, B
      <4>2. hit = 1 /\ until = Budgets!Open
        BY <3>1, <1>7 DEF until, Budgets!Left
      <4>3. \A n \in 1..L : passed[n] <= until
        BY <2>2, <4>2, <1>1
      <4>4. L - L + 1 <= hit
        BY <2>2, <4>2
      <4>5. QED BY <4>1, <4>3, <4>4, <2>3
    <3>2. CASE left[k] > 0
      <4>1. PICK m \in 0..L : Before(m)
        BY <3>2, <1>13 DEF BudgetInv
      <4>2. hit = hits[watched] + 1 /\ until = left[watched]
        BY <3>2, <1>8, <1>13
      <4>3. m <= B /\ L - m + 1 <= hit /\ \A n \in 1..m : passed[n] <= until
        BY <4>1, <4>2, <2>2, <1>1, <1>2 DEF Before, B
      <4>4. QED BY <4>1, <4>3, <2>3
    <3>3. QED BY <3>1, <3>2, <1>2, <1>1, <1>13
  <2>5. \A m \in 0..L : m \in 0..Len(passed')
    BY <2>2
  <2>6. told' # -1 => left'[watched] <= told'
    <3>1. told # -1 => left[k] > 0 /\ left[k] <= told
      BY <1>13 DEF BudgetInv
    <3>2. QED BY <3>1, <2>1, <1>8
  <2>7. QED BY <2>1, <2>4, <2>5, <2>6, <1>1, <1>10 DEF BudgetInv
<1>14. QED BY <1>11, <1>12, <1>13

LEMMA Ticked == BudgetInv /\ Budgets!Tick => BudgetInv'
<1> SUFFICES ASSUME BudgetInv, Budgets!Tick PROVE BudgetInv'
  OBVIOUS
<1> DEFINE B == Budgets!Budget(watched)  L == Len(passed)  w == watched
<1>1. /\ B \in Nat \ {0} /\ Budgets!Budget(watched)' = B
      /\ Budgets!Open \in Nat \ {0} /\ w \in Budgets!Keys /\ watched' = w
  BY BoundsAssumption, WindowOpen
  DEF Budgets!Budget, BudgetInv, Budgets!TypeOK, Budgets!Tick
<1>2. /\ hits \in [Budgets!Keys -> Nat] /\ left \in [Budgets!Keys -> 0..Budgets!Open]
      /\ passed \in Seq(1..Budgets!Open) /\ told \in -1..(Budgets!Open + Steps)
      /\ L \in Nat /\ \A n \in 1..L : passed[n] \in 1..Budgets!Open
  BY LenProperties, ElementOfSeq DEF BudgetInv, Budgets!TypeOK
<1>3. PICK old \in 0..L :
        /\ \A n \in 1..L : passed[n] = 1 <=> n <= old
        /\ passed' = [n \in 1..(L - old) |-> passed[n + old] - 1]
  BY DEF Budgets!Tick
<1>4. /\ left' = [k \in Budgets!Keys |-> IF left[k] = 0 THEN 0 ELSE left[k] - 1]
      /\ hits' = [k \in Budgets!Keys |-> IF left[k] <= 1 THEN 0 ELSE hits[k]]
      /\ told' = IF left[w] <= 1 \/ told = -1 THEN -1 ELSE told - 1
      /\ waiting' = waiting /\ redis' = redis
  BY DEF Budgets!Tick
<1> HIDE DEF B, L, w
<1>5. /\ L - old \in 0..L
      /\ \A n \in 1..(L - old) : /\ n + old \in 1..L /\ passed[n + old] \in 2..Budgets!Open
                                 /\ passed'[n] = passed[n + old] - 1
  <2>1. L - old \in 0..L
    BY <1>2, <1>3
  <2>2. ASSUME NEW n \in 1..(L - old)
        PROVE  /\ n + old \in 1..L /\ passed[n + old] \in 2..Budgets!Open
               /\ passed'[n] = passed[n + old] - 1
    <3>1. n + old \in 1..L /\ ~(n + old <= old)
      BY <1>2, <1>3
    <3>2. passed[n + old] # 1 /\ passed[n + old] \in 1..Budgets!Open
      BY <3>1, <1>2, <1>3
    <3>3. QED BY <3>1, <3>2, <1>1, <1>3
  <2>3. QED BY <2>1, <2>2
<1>6. passed' \in Seq(1..Budgets!Open) /\ Len(passed') = L - old
  <2>1. \A n \in 1..(L - old) : passed[n + old] - 1 \in 1..Budgets!Open
    BY <1>5, <1>1
  <2>2. passed' \in [1..(L - old) -> 1..Budgets!Open]
    BY <2>1, <1>3
  <2>3. L - old \in Nat
    BY <1>5
  <2>4. QED BY <2>2, <2>3, FunctionIsSeq
<1>7. told' \in -1..(Budgets!Open + Steps)
  <2>1. Budgets!Open + Steps \in Nat
    BY <1>1, BoundsAssumption
  <2>2. QED BY <1>2, <1>4, <2>1
<1>8. Budgets!TypeOK'
  <2>1. hits' \in [Budgets!Keys -> Nat] /\ left' \in [Budgets!Keys -> 0..Budgets!Open]
    BY <1>1, <1>2, <1>4
  <2>2. QED BY <2>1, <1>1, <1>4, <1>6, <1>7 DEF BudgetInv, Budgets!TypeOK, w
<1>9. left[w] \in Nat /\ left'[w] = IF left[w] = 0 THEN 0 ELSE left[w] - 1
  BY <1>1, <1>2, <1>4
<1>10. told' # -1 => left'[w] > 0 /\ left'[w] <= told'
  <2>1. told # -1 => left[w] > 0 /\ left[w] <= told
    BY DEF BudgetInv, w
  <2>2. QED BY <2>1, <1>2, <1>4, <1>9
<1>11. CASE left[w] = 0
  <2>1. left'[w] = 0 /\ Len(passed') <= B
    BY <1>1, <1>2, <1>3, <1>5, <1>6, <1>9, <1>11 DEF BudgetInv, B, L, w
  <2>2. QED BY <2>1, <1>1, <1>8, <1>10 DEF BudgetInv
<1>12. CASE left[w] > 0
  <2>1. PICK m \in 0..L : Before(m)
    BY <1>12 DEF BudgetInv, w, L
  <2>2. /\ m <= B /\ \A n \in 1..m : passed[n] <= left[w]
        /\ L - m <= hits[w] /\ L - m <= B
    BY <2>1 DEF Before, w, B, L
  <2>3. CASE left[w] = 1
    <3>1. m <= old
      <4>1. CASE m = 0
        BY <4>1, <1>3
      <4>2. CASE m > 0
        <5>1. m \in 1..m /\ m \in 1..L
          BY <4>2
        <5>2. passed[m] = 1
          BY <5>1, <2>2, <2>3, <1>2
        <5>3. QED BY <5>1, <5>2, <1>3
      <4>3. QED BY <4>1, <4>2
    <3>2. left'[w] = 0 /\ Len(passed') <= B
      BY <3>1, <2>2, <2>3, <1>1, <1>2, <1>3, <1>6, <1>9
    <3>3. QED BY <3>2, <1>1, <1>8, <1>10 DEF BudgetInv
  <2>4. CASE left[w] > 1
    <3> DEFINE rest == IF m >= old THEN m - old ELSE 0
    <3>1. rest \in 0..Len(passed') /\ rest <= B /\ Len(passed') - rest <= L - m
      BY <2>2, <1>1, <1>2, <1>3, <1>5, <1>6
    <3>2. /\ left'[w] = left[w] - 1 /\ hits'[w] = hits[w] /\ left'[w] > 0
      BY <2>4, <1>1, <1>4, <1>9
    <3>3. ASSUME NEW n \in 1..rest PROVE passed'[n] <= left'[w]
      <4>1. n \in 1..(L - old) /\ n + old \in 1..m /\ n + old \in 1..L
        BY <1>2, <1>3
      <4>2. passed[n + old] <= left[w] /\ passed'[n] = passed[n + old] - 1
        BY <4>1, <2>2, <1>5
      <4>3. passed[n + old] \in Nat /\ left[w] \in Nat
        BY <4>1, <1>2, <1>9, <1>1
      <4>4. QED BY <4>2, <4>3, <3>2
    <3> HIDE DEF rest
    <3>4. Len(passed') - rest <= hits'[w] /\ Len(passed') - rest <= B
      <4>1. hits[w] \in Nat /\ Len(passed') - rest \in Int /\ L - m \in Int
        BY <1>1, <1>2, <1>5, <1>6, <3>1
      <4>2. QED BY <4>1, <2>2, <3>1, <3>2, <1>1
    <3>5. Before(rest)'
      BY <3>1, <3>3, <3>4, <1>1 DEF Before
    <3>6. QED BY <3>1, <3>2, <3>5, <1>1, <1>8, <1>10 DEF BudgetInv
  <2>5. QED BY <2>3, <2>4, <1>9, <1>12
<1>13. QED BY <1>9, <1>11, <1>12

LEMMA BudgetNext == BudgetInv /\ [Budgets!Next]_Budgets!vars => BudgetInv'
<1> SUFFICES ASSUME BudgetInv, [Budgets!Next]_Budgets!vars PROVE BudgetInv'
  OBVIOUS
<1>1. ASSUME UNCHANGED <<hits, left, passed, told, watched>>, redis' \in BOOLEAN,
             waiting' \in [Budgets!Imports -> 0..MaxWaiting]
      PROVE  BudgetInv'
  <2>1. Budgets!TypeOK'
    BY <1>1 DEF BudgetInv, Budgets!TypeOK
  <2>2. \A m : Before(m)' <=> Before(m)
    BY <1>1 DEF Before, Budgets!Budget
  <2>3. QED BY <1>1, <2>1, <2>2 DEF BudgetInv, Budgets!Budget
<1>2. ASSUME NEW k \in Budgets!Keys, Budgets!Arrive(k) PROVE BudgetInv'
  <2>1. waiting' \in [Budgets!Imports -> 0..MaxWaiting] /\ UNCHANGED <<redis, watched>>
    BY <1>2, BoundsAssumption DEF Budgets!Arrive, BudgetInv, Budgets!TypeOK
  <2>2. "api" \in Budgets!Keys
    BY DEF Budgets!Keys
  <2>3. CASE redis
    BY <2>1, <2>2, <2>3, <1>2, Counted DEF Budgets!Arrive
  <2>4. CASE ~redis
    BY <2>1, <2>4, <1>2, <1>1 DEF Budgets!Arrive, BudgetInv, Budgets!TypeOK
  <2>5. QED BY <2>3, <2>4
<1>3. ASSUME NEW k \in Budgets!Imports, Budgets!Import(k) PROVE BudgetInv'
  <2>1. waiting' \in [Budgets!Imports -> 0..MaxWaiting] /\ UNCHANGED <<redis, watched>>
    BY <1>3, BoundsAssumption DEF Budgets!Import, BudgetInv, Budgets!TypeOK
  <2>2. k \in Budgets!Keys
    BY DEF Budgets!Keys
  <2>3. CASE redis
    BY <2>1, <2>2, <2>3, <1>3, Counted DEF Budgets!Import
  <2>4. CASE ~redis
    BY <2>1, <2>4, <1>3, <1>1 DEF Budgets!Import, BudgetInv, Budgets!TypeOK
  <2>5. QED BY <2>3, <2>4
<1>4. CASE Budgets!Outage \/ Budgets!Answers
  BY <1>4, <1>1 DEF Budgets!Outage, Budgets!Answers, BudgetInv, Budgets!TypeOK
<1>5. CASE UNCHANGED Budgets!vars
  BY <1>5, <1>1 DEF Budgets!vars, BudgetInv, Budgets!TypeOK
<1>6. QED BY <1>2, <1>3, <1>4, <1>5, Ticked DEF Budgets!Next

LEMMA BudgetPart == AllSpec => Budgets!Spec
<1>1. Starts => Budgets!Init
  BY DEF Starts
<1>2. [AnyStep]_allVars => [Budgets!Next]_Budgets!vars
  <2>1. ASSUME AnyStep PROVE [Budgets!Next]_Budgets!vars
    BY <2>1 DEF AnyStep, Alone, budgetVars, Budgets!vars
  <2>2. ASSUME UNCHANGED allVars PROVE UNCHANGED Budgets!vars
    BY <2>2 DEF allVars, budgetVars, Budgets!vars
  <2>3. QED BY <2>1, <2>2
<1>3. QED BY <1>1, <1>2, PTL DEF AllSpec, Budgets!Spec

\* Whoever waits as long as the first refusal of a window said finds that
\* window closed (retryAfterSeconds).
THEOREM WaitSuffices == AllSpec => []WaitIsEnough
<1>1. BudgetInv => WaitIsEnough
  BY DEF BudgetInv, WaitIsEnough, Budgets!WaitIsEnough
<1>2. QED BY BudgetPart, BudgetInit, BudgetNext, <1>1, PTL DEF Budgets!Spec

\* Whatever stretch of a window's length one looks at, a subject got at most
\* twice its budget through while Redis counted (createRateLimiter).
THEOREM BudgetHolds == AllSpec => []TwiceTheBudgetAtMost
<1>1. BudgetInv => TwiceTheBudgetAtMost
  <2> SUFFICES ASSUME BudgetInv PROVE Len(passed) <= 2 * Budgets!Budget(watched)
    BY DEF TwiceTheBudgetAtMost, Budgets!TwiceTheBudgetAtMost
  <2> DEFINE B == Budgets!Budget(watched)  L == Len(passed)
  <2>1. B \in Nat /\ L \in Nat /\ left[watched] \in Nat
    BY BoundsAssumption, WindowOpen, LenProperties
    DEF Budgets!Budget, BudgetInv, Budgets!TypeOK
  <2>2. CASE left[watched] = 0
    BY <2>1, <2>2 DEF BudgetInv
  <2>3. CASE left[watched] > 0
    <3>1. PICK m \in 0..L : m <= B /\ L - m <= B
      BY <2>3 DEF BudgetInv, Before
    <3>2. QED BY <2>1, <3>1
  <2>4. QED BY <2>1, <2>2, <2>3
<1>2. QED BY BudgetPart, BudgetInit, BudgetNext, <1>1, PTL DEF Budgets!Spec
===============================================================================
