--------------------------- MODULE TaskLifecycle ---------------------------
(***************************************************************************)
(* What the queue promises about one task, whatever the number of nodes    *)
(* and whatever fails: a row is handed to at most one runner in its life;  *)
(* a row that was never handed out ends queued, cancelled, failed or       *)
(* deleted and nothing else; only the runner, or a reaper while the row is *)
(* running, writes an outcome; and once the runner has let go, a row that  *)
(* is not running is written by nobody: it can only be deleted.            *)
(***************************************************************************)
CONSTANT TaskId

VARIABLES
  status,  \* the row, "absent" before and "deleted" after it exists
  runner   \* "unclaimed", then "held" by one runner, then "released"

vars == <<status, runner>>

Statuses == {"absent", "queued", "running", "complete", "failed", "cancelled", "paused",
             "deleted"}
Outcomes == {"complete", "failed", "paused"}

Init ==
  /\ status = [t \in TaskId |-> "absent"]
  /\ runner = [t \in TaskId |-> "unclaimed"]

(* One row, and any number of rows that were all in one of the statuses    *)
(* from, change their status.                                              *)
Assign(t, s) == status' = [status EXCEPT ![t] = s]

Move(from, to) ==
  /\ status' \in [TaskId -> Statuses]
  /\ \A t \in TaskId : status'[t] # status[t] => status[t] \in from /\ status'[t] = to
  /\ UNCHANGED runner

Submit(t) ==
  /\ status[t] = "absent"
  /\ Assign(t, "queued")
  /\ UNCHANGED runner

(* Rows leave the queue without a runner: cancelled, or failed with the    *)
(* task they depend on.                                                    *)
Withdraw == Move({"queued"}, "cancelled") \/ Move({"queued"}, "failed")

Claim(t) ==
  /\ status[t] = "queued" /\ runner[t] = "unclaimed"
  /\ Assign(t, "running")
  /\ runner' = [runner EXCEPT ![t] = "held"]

(* The runner writes an outcome, over whatever a reaper or an earlier      *)
(* attempt of the runner itself has left.                                  *)
Write(t) ==
  /\ runner[t] = "held"
  /\ status[t] # "deleted"
  /\ \E s \in Outcomes : Assign(t, s)
  /\ UNCHANGED runner

(* Runners let go: one at its end, all those of a process at its death.    *)
Release ==
  /\ runner' \in [TaskId -> {"unclaimed", "held", "released"}]
  /\ \A t \in TaskId : runner'[t] # runner[t] => runner[t] = "held" /\ runner'[t] = "released"
  /\ UNCHANGED status

Reap   == Move({"running"}, "failed")
Delete == Move(Statuses \ {"absent", "deleted"}, "deleted")

Next ==
  \/ Release \/ Withdraw \/ Reap \/ Delete
  \/ \E t \in TaskId : Submit(t) \/ Claim(t) \/ Write(t)

Spec == Init /\ [][Next]_vars
=============================================================================
