---------------------------- MODULE MCSyncJobs ----------------------------
(* Small instances of SyncJobs for TLC. *)
EXTENDS SyncJobs

CONSTANTS x1, x2

\* Both accounts are on one provider, so their jobs share a group.
MCProvider == [x \in Accounts |-> "lichess"]

\* Bound: once a second job was made, no job is delivered more than once.
\* Accounts are numbered in the order of their use.
LoneRetries ==
  /\ made = 2 => \A j \in Jobs : tries[j] <= 1 /\ revived[j] = 0
  /\ account[x1] = "unused" => \A x \in Accounts : account[x] = "unused"
=============================================================================
