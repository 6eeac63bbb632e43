------------------------------- MODULE FirstUser -------------------------------
(***************************************************************************)
(* How the API processes start, and how the first of them puts the first   *)
(* user into an empty user table: the advisory lock that keeps two of them *)
(* apart, the count, the sign-up and the confirmation of its address, each *)
(* a call to the database beside every other process.                      *)
(*                                                                         *)
(* Abstractions.  An environment says whose credentials it holds, if any,  *)
(* and which ways in are configured, the public ones as one.  Everything   *)
(* a start awaits besides the first user (queue, notifications) either     *)
(* comes to be or ends the process.  Whoever signs in by a public way has  *)
(* proved the address.                                                     *)
(***************************************************************************)
EXTENDS FirstUserConstants, FiniteSets

VARIABLES
  boot,       \* how far each process is
  env,        \* the environment each was started with
  made,       \* the user each has signed up and not confirmed yet; 0 is none
  users,      \* the user table
  holder,     \* whose connection has the advisory lock
  ids,        \* users made so far
  broken,     \* a connection was lost while it had the lock
  cutOff      \* users whose start died before it confirmed them

vars == <<boot, env, made, users, holder, ids, broken, cutOff>>

-----------------------------------------------------------------------------
Environments == [credentials : Emails \cup {NoOne}, public : BOOLEAN]

\* What the start refuses to go on with: no way to sign in.
Accepted(e, password) == password \/ e.public

Users == [id : 1..MaxUsers, email : Emails, verified : BOOLEAN, first : BOOLEAN]
Stages == {"down", "asks", "counts", "signs up", "confirms", "releases", "serves"}
Locked == {"counts", "signs up", "confirms", "releases"}

TypeOK ==
  /\ boot \in [Instances -> Stages] /\ env \in [Instances -> Environments]
  /\ made \in [Instances -> 0..MaxUsers] /\ users \subseteq Users
  /\ holder \in Instances \cup {NoOne}
  /\ ids \in 0..MaxUsers
  /\ broken \in BOOLEAN /\ cutOff \subseteq 1..MaxUsers

Unset == [credentials |-> NoOne, public |-> FALSE]

Init ==
  /\ boot = [i \in Instances |-> "down"] /\ env = [i \in Instances |-> Unset]
  /\ made = [i \in Instances |-> 0] /\ users = {} /\ holder = NoOne
  /\ ids = 0 /\ broken = FALSE /\ cutOff = {}

Taken(m) == \E u \in users : u.email = m

\* The process ends; what its connection had is free again.
Exits(i) ==
  /\ boot' = [boot EXCEPT ![i] = "down"]
  /\ env' = [env EXCEPT ![i] = Unset]
  /\ made' = [made EXCEPT ![i] = 0]
  /\ holder' = IF holder = i THEN NoOne ELSE holder
  /\ cutOff' = cutOff \cup ({made[i]} \ {0})

-----------------------------------------------------------------------------
(* A start.                                                                *)

\* Without credentials there is nobody to provision.
Start(i) ==
  /\ boot[i] = "down"
  /\ \E e \in Environments, password \in BOOLEAN :
       IF Accepted(e, password)
       THEN /\ env' = [env EXCEPT ![i] = e]
            /\ boot' = [boot EXCEPT ![i] = IF e.credentials = NoOne THEN "serves" ELSE "asks"]
       ELSE UNCHANGED <<env, boot>>
  /\ UNCHANGED <<made, users, holder, ids, broken, cutOff>>

\* Fault: the lock is not asked for.
TryAcquireAlways(i) ==
  /\ boot[i] = "asks"
  /\ holder' = i /\ boot' = [boot EXCEPT ![i] = "counts"]
  /\ UNCHANGED <<env, made, users, ids, broken, cutOff>>

\* Somebody alive has the lock: the start goes on without it.
TryAcquire(i) ==
  /\ boot[i] = "asks"
  /\ IF holder = NoOne
     THEN holder' = i /\ boot' = [boot EXCEPT ![i] = "counts"]
     ELSE holder' = holder /\ boot' = [boot EXCEPT ![i] = "serves"]
  /\ UNCHANGED <<env, made, users, ids, broken, cutOff>>

CountUsers(i) ==
  /\ boot[i] = "counts"
  /\ boot' = [boot EXCEPT ![i] = IF users = {} THEN "signs up" ELSE "releases"]
  /\ UNCHANGED <<env, made, users, holder, ids, broken, cutOff>>

\* A sign-up is refused when the address is taken, and the start dies of it.
SignUp(i) ==
  /\ boot[i] = "signs up"
  /\ IF Taken(env[i].credentials)
     THEN Exits(i) /\ UNCHANGED <<users, ids>>
     ELSE /\ ids < MaxUsers /\ ids' = ids + 1
          /\ users' = users \cup {[id |-> ids', email |-> env[i].credentials,
                                   verified |-> FALSE, first |-> TRUE]}
          /\ made' = [made EXCEPT ![i] = ids']
          /\ boot' = [boot EXCEPT ![i] = "confirms"]
          /\ UNCHANGED <<env, holder, cutOff>>
  /\ UNCHANGED broken

MarkVerified(i) ==
  /\ boot[i] = "confirms"
  /\ users' = {IF u.id = made[i] THEN [u EXCEPT !.verified = TRUE] ELSE u : u \in users}
  /\ made' = [made EXCEPT ![i] = 0]
  /\ boot' = [boot EXCEPT ![i] = "releases"]
  /\ UNCHANGED <<env, holder, ids, broken, cutOff>>

\* An unlock of a lock the connection no longer has only warns.
Release(i) ==
  /\ boot[i] = "releases"
  /\ holder' = IF holder = i THEN NoOne ELSE holder
  /\ boot' = [boot EXCEPT ![i] = "serves"]
  /\ UNCHANGED <<env, made, users, ids, broken, cutOff>>

-----------------------------------------------------------------------------
(* What happens beside the starts.                                         *)

\* A signal, a crash, or a call of the start that threw.
Die(i) ==
  /\ boot[i] # "down"
  /\ Exits(i)
  /\ UNCHANGED <<users, ids, broken>>

\* The one connection the lock lives on breaks; the client opens another.
LoseConnection(i) ==
  /\ holder = i /\ boot[i] \in Locked
  /\ holder' = NoOne /\ broken' = TRUE
  /\ UNCHANGED <<boot, env, made, users, ids, cutOff>>

\* A visitor of a process that offers a public way in, at a new address.
Register(i) ==
  /\ boot[i] = "serves" /\ env[i].public /\ ids < MaxUsers
  /\ \E m \in {m \in Emails : ~Taken(m)} :
       users' = users \cup {[id |-> ids + 1, email |-> m, verified |-> TRUE, first |-> FALSE]}
  /\ ids' = ids + 1
  /\ UNCHANGED <<boot, env, made, holder, broken, cutOff>>

\* Somebody deletes the own account, the last one included.
DeleteUser(i) ==
  /\ boot[i] = "serves"
  /\ \E u \in users : users' = users \ {u}
  /\ UNCHANGED <<boot, env, made, holder, ids, broken, cutOff>>

Next == \E i \in Instances :
  \/ Start(i) \/ TryAcquire(i) \/ CountUsers(i) \/ SignUp(i) \/ MarkVerified(i)
  \/ Release(i) \/ Die(i) \/ LoseConnection(i) \/ Register(i) \/ DeleteUser(i)

Spec == Init /\ [][Next]_vars

-----------------------------------------------------------------------------
FirstUsers == {u \in users : u.first}

\* However many processes start at once, with whatever credentials each, and
\* whoever of them dies: unless the connection under the lock broke, at most
\* one of them has provisioned a user, and that user's address is confirmed
\* unless the start that made it is still at it or died before it could
\* (libs/user/bootstrap-user/bootstrap-user.ts, bootstrapUser).
OneFirstUser ==
  broken \/ /\ \A u, v \in FirstUsers : u = v
            /\ \A u \in FirstUsers :
                 u.verified \/ u.id \in cutOff \/ \E i \in Instances : made[i] = u.id

=============================================================================
