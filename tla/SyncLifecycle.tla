--------------------------- MODULE SyncLifecycle ---------------------------
(***************************************************************************)
(* What a sync promises to whoever reads its row, as the reference states  *)
(* it (docs/reference/ingestion.md, "Sync jobs"), with no queue, attempt   *)
(* or lock in sight: a job goes queued -> running -> succeeded | failed,   *)
(* comes back from retrying while it is retried, ends once, is alone       *)
(* active on its account, and leaves only with the account.                *)
(***************************************************************************)
EXTENDS Integers

CONSTANTS Accounts, NoAccount, MaxJobs

VARIABLES owner,  \* the account of each job, NoAccount before its insert
          status  \* "absent" before its insert and after its account left

vars == <<owner, status>>

Jobs          == 1 .. MaxJobs
ActiveStatus  == {"queued", "running", "retrying"}
SettledStatus == {"succeeded", "failed"}

Init ==
  /\ owner = [j \in Jobs |-> NoAccount]
  /\ status = [j \in Jobs |-> "absent"]

Active(x) == {j \in Jobs : owner[j] = x /\ status[j] \in ActiveStatus}

\* A new job, in place of one that died active.
Create(j, x) ==
  /\ owner[j] = NoAccount
  /\ \A k \in Jobs : owner[k] = NoAccount => j <= k
  /\ owner' = [owner EXCEPT ![j] = x]
  /\ status' = [k \in Jobs |-> IF k = j THEN "queued"
                               ELSE IF k \in Active(x) THEN "failed" ELSE status[k]]

Start(j) ==
  /\ status[j] \in ActiveStatus
  /\ status' = [status EXCEPT ![j] = "running"]
  /\ UNCHANGED owner

\* A pass that will be tried again.
Pause(j) ==
  /\ status[j] = "running"
  /\ status' = [status EXCEPT ![j] = "retrying"]
  /\ UNCHANGED owner

Succeed(j) ==
  /\ status[j] = "running"
  /\ status' = [status EXCEPT ![j] = "succeeded"]
  /\ UNCHANGED owner

Fail(j) ==
  /\ status[j] \in ActiveStatus
  /\ status' = [status EXCEPT ![j] = "failed"]
  /\ UNCHANGED owner

Leave(x) ==
  /\ status' = [j \in Jobs |-> IF owner[j] = x THEN "absent" ELSE status[j]]
  /\ UNCHANGED owner

Next ==
  \/ \E j \in Jobs : Start(j) \/ Pause(j) \/ Succeed(j) \/ Fail(j)
  \/ \E x \in Accounts : Leave(x) \/ \E j \in Jobs : Create(j, x)

Spec == Init /\ [][Next]_vars
=============================================================================
