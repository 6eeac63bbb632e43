--------------------------- MODULE AccountArchive ---------------------------
(***************************************************************************)
(* What importing promises to the owner of a tracked account, with no job, *)
(* queue or attempt in sight: games come and stay as long as the account   *)
(* does, its cursor covers nothing that was not stored, it is called       *)
(* synced once its whole archive is there, each pass writes one account    *)
(* and none that is not tracked, and disconnecting takes everything.       *)
(***************************************************************************)
EXTENDS Integers

CONSTANTS Accounts, LastMonth

VARIABLES account, cursor, games, synced

vars == <<account, cursor, games, synced>>

Months == 1 .. LastMonth

Init ==
  /\ account = [x \in Accounts |-> "unused"]
  /\ cursor = [x \in Accounts |-> 0]
  /\ games = [x \in Accounts |-> {}]
  /\ synced = [x \in Accounts |-> FALSE]

Track(x) ==
  /\ account[x] = "unused"
  /\ account' = [account EXCEPT ![x] = "tracked"]
  /\ UNCHANGED <<cursor, games, synced>>

\* A pass stores games of any months, and the cursor no further than the
\* months are there.
Store(x) ==
  /\ account[x] = "tracked"
  /\ \E got \in SUBSET Months, c \in 0 .. LastMonth :
       /\ games' = [games EXCEPT ![x] = @ \cup got]
       /\ 1 .. c \subseteq games[x] \cup got
       /\ cursor' = [cursor EXCEPT ![x] = c]
       /\ \/ UNCHANGED synced
          \/ games[x] \cup got = Months /\ synced' = [synced EXCEPT ![x] = TRUE]
  /\ UNCHANGED account

Untrack(x) ==
  /\ account[x] = "tracked"
  /\ account' = [account EXCEPT ![x] = "gone"]
  /\ cursor' = [cursor EXCEPT ![x] = 0]
  /\ games' = [games EXCEPT ![x] = {}]
  /\ synced' = [synced EXCEPT ![x] = FALSE]

Next == \E x \in Accounts : Track(x) \/ Store(x) \/ Untrack(x)

Spec == Init /\ [][Next]_vars
=============================================================================
