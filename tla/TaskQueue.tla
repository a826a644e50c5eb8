----------------------------- MODULE TaskQueue -----------------------------
(***************************************************************************)
(* The task queue of the gateway: the rows of the PostgreSQL table tasks,  *)
(* the requests that write them (submit, cancel, delete, tag, retention)   *)
(* and, on every worker node, the polling loop task_worker() with the      *)
(* coroutines _run_task_tracked() it launches.                             *)
(*                                                                         *)
(* The connection pools run with autocommit, so every SQL statement is one *)
(* step, and the steps of one coroutine interleave with everything else    *)
(* at its awaits.  A node may stop between any two steps: its coroutines   *)
(* and counters are lost, its rows stay.                                   *)
(***************************************************************************)
EXTENDS Integers, FiniteSets

CONSTANTS
  TaskId,             \* the rows the table may ever hold
  NoTask,             \* NULL in depends_on; the answer of a claim that found nothing
  Priority,           \* the priority column, chosen by the submitter
  TestTasks,          \* rows labelled __integration_test__, which no worker claims
  Node,               \* gateway processes, each with an embedded worker loop
  NoWorker,           \* NULL in worker_id
  WORKER_CONCURRENCY,
  STABLE_NODE_ID,     \* WORKER_NODE_ID comes from the environment, not a fresh UUID
  DeleteGranted,      \* the role legionforge_gateway may DELETE from tasks; no grant of
                      \* _setup_db_roles lets it, a deployment may have given its own
  MaxCrashes,         \* bound: process deaths in a behaviour
  MaxFaults,          \* bound: statements that raise (lost connection, refused query)
  MaxEdits            \* bound: tag and label edits that refresh updated_at

ASSUME QueueAssumption ==
  /\ NoTask \notin TaskId
  /\ IsFiniteSet(TaskId)
  /\ Priority \in [TaskId -> 1..10]
  /\ TestTasks \subseteq TaskId
  /\ NoWorker \notin Node \X Nat
  /\ WORKER_CONCURRENCY \in Nat \ {0}
  /\ STABLE_NODE_ID \in BOOLEAN /\ DeleteGranted \in BOOLEAN
  /\ MaxCrashes \in Nat /\ MaxFaults \in Nat /\ MaxEdits \in Nat

VARIABLES
  status,      \* tasks.status; "absent" before the INSERT, "deleted" after the DELETE
  depends_on,  \* tasks.depends_on
  worker_id,   \* tasks.worker_id, the node that claimed the row
  created_at,  \* tasks.created_at, as the row's rank in order of insertion
  stale,       \* tasks.updated_at is older than TASK_WATCHDOG_TIMEOUT
  loop,        \* where task_worker() of each node is
  claimed,     \* the row the loop has claimed and not yet launched
  due,         \* _WATCHDOG_INTERVAL_SECONDS have passed since _last_watchdog
  boots,       \* how often the node's process was started again
  active,      \* _active_tasks
  coro,        \* where the coroutine of a task is on a node
  published,   \* terminal events handed to publish_event, per task
  crashes, faults, edits

rowVars  == <<status, depends_on, worker_id, created_at, stale>>
loopVars == <<loop, claimed, due, boots>>
runVars  == <<active, coro, published>>
envVars  == <<crashes, faults, edits>>
vars     == <<rowVars, loopVars, runVars, envVars>>

-----------------------------------------------------------------------------
Statuses == {"queued", "running", "complete", "failed", "cancelled", "paused"}
Terminal == {"complete", "failed", "cancelled"}

LoopStates == {"down", "startup", "check", "claim", "launch", "beat"}

(* "created" until the event loop first runs the coroutine; then the await *)
(* it is about to make; "ending" when only the finally block is left.      *)
CoroStates == {"none", "created", "mark_running", "agent",
               "mark_complete", "publish_complete",
               "mark_paused", "publish_paused",
               "mark_failed", "publish_failed", "fail_dependents", "ending"}

TerminalEvents == {"task_complete", "task_error", "hitl_required"}

TypeOK ==
  /\ status \in [TaskId -> Statuses \cup {"absent", "deleted"}]
  /\ depends_on \in [TaskId -> TaskId \cup {NoTask}]
  /\ worker_id \in [TaskId -> (Node \X Nat) \cup {NoWorker}]
  /\ created_at \in [TaskId -> Nat]
  /\ stale \in [TaskId -> BOOLEAN]
  /\ loop \in [Node -> LoopStates]
  /\ claimed \in [Node -> TaskId \cup {NoTask}]
  /\ due \in [Node -> BOOLEAN]
  /\ boots \in [Node -> Nat]
  /\ active \in [Node -> Int]
  /\ coro \in [Node -> [TaskId -> CoroStates]]
  /\ published \in [TaskId -> SUBSET TerminalEvents]
  /\ crashes \in Nat /\ faults \in Nat /\ edits \in Nat

Exists(t) == status[t] \in Statuses

(* WORKER_NODE_ID: the same in every life of the process, or drawn anew.   *)
NodeId(n) == <<n, IF STABLE_NODE_ID THEN 0 ELSE boots[n]>>

Live(n)      == {t \in TaskId : coro[n][t] # "none"}
Unstarted(n) == {t \in TaskId : coro[n][t] = "created"}
Started(n)   == Live(n) \ Unstarted(n)

Init ==
  /\ status = [t \in TaskId |-> "absent"]
  /\ depends_on = [t \in TaskId |-> NoTask]
  /\ worker_id = [t \in TaskId |-> NoWorker]
  /\ created_at = [t \in TaskId |-> 0]
  /\ stale = [t \in TaskId |-> FALSE]
  /\ loop = [n \in Node |-> "startup"]
  /\ claimed = [n \in Node |-> NoTask]
  /\ due = [n \in Node |-> TRUE]
  /\ boots = [n \in Node |-> 0]
  /\ active = [n \in Node |-> 0]
  /\ coro = [n \in Node |-> [t \in TaskId |-> "none"]]
  /\ published = [t \in TaskId |-> {}]
  /\ crashes = 0 /\ faults = 0 /\ edits = 0

(* An UPDATE that sets status s and updated_at on the rows S, and a        *)
(* statement that does not reach the database.                             *)
SetStatus(S, s) ==
  /\ status' = [t \in TaskId |-> IF t \in S THEN s ELSE status[t]]
  /\ stale'  = [t \in TaskId |-> IF t \in S THEN FALSE ELSE stale[t]]
NoWrite == UNCHANGED <<status, stale>>

Fault == faults < MaxFaults /\ faults' = faults + 1

-----------------------------------------------------------------------------
(* Requests.                                                               *)

(* create_task: depends_on may name any row that exists, whatever its      *)
(* status; the foreign key refuses the others.                             *)
create_task(t, dep) ==
  /\ status[t] = "absent"
  /\ dep = NoTask \/ (dep \in TaskId /\ Exists(dep))
  /\ status' = [status EXCEPT ![t] = "queued"]
  /\ depends_on' = [depends_on EXCEPT ![t] = dep]
  /\ created_at' = [created_at EXCEPT
                      ![t] = Cardinality({u \in TaskId : status[u] # "absent"}) + 1]
  /\ UNCHANGED <<worker_id, stale, loopVars, runVars, envVars>>

(* retry_task: a new row for a failed or cancelled one; the dependency of  *)
(* the original is not copied.                                             *)
retry_task(original, t) ==
  /\ status[original] \in {"failed", "cancelled"}
  /\ create_task(t, NoTask)

(* Variant: the rows are not required to be queued.                        *)
cancel_any_status(S) ==
  /\ \E t \in S : status[t] = "queued"
  /\ SetStatus({t \in S : Exists(t)}, "cancelled")
  /\ UNCHANGED <<depends_on, worker_id, created_at, loopVars, runVars, envVars>>

(* mark_task_cancelled on one row, bulk_cancel_tasks on several: the rows  *)
(* of S that are still queued.                                             *)
cancel_tasks(S) ==
  /\ \E t \in S : status[t] = "queued"
  /\ SetStatus({t \in S : status[t] = "queued"}, "cancelled")
  /\ UNCHANGED <<depends_on, worker_id, created_at, loopVars, runVars, envVars>>

(* DELETE of the rows S; ON DELETE SET NULL on the rows that depend on     *)
(* them.                                                                   *)
delete_rows(S) ==
  /\ S # {} /\ \A t \in S : Exists(t)
  /\ SetStatus(S, "deleted")
  /\ depends_on' = [t \in TaskId |-> IF t \in S \/ depends_on[t] \in S
                                     THEN NoTask ELSE depends_on[t]]
  /\ UNCHANGED <<worker_id, created_at, loopVars, runVars, envVars>>

(* bulk_delete_tasks takes rows in any status; without the privilege the   *)
(* statement raises and changes nothing.                                   *)
bulk_delete_tasks(S) == DeleteGranted /\ delete_rows(S)

(* run_db_maintenance takes the finished rows that were created before the *)
(* retention limit, hence the oldest of them.                              *)
run_db_maintenance ==
  \E limit \in 1..Cardinality(TaskId) :
     delete_rows({t \in TaskId : status[t] \in Terminal /\ created_at[t] <= limit})

(* update_task_tags, update_task_labels, bulk_tag_tasks refresh updated_at *)
(* of a row in any status.                                                 *)
update_tags(t) ==
  /\ Exists(t) /\ stale[t]
  /\ edits < MaxEdits /\ edits' = edits + 1
  /\ stale' = [stale EXCEPT ![t] = FALSE]
  /\ UNCHANGED <<status, depends_on, worker_id, created_at,
                 loopVars, runVars, crashes, faults>>

-----------------------------------------------------------------------------
(* The worker loop of node n.                                              *)

Goto(n, from, to) == loop[n] = from /\ loop' = [loop EXCEPT ![n] = to]

(* Variant: the startup reap waits for the age limit, like the watchdog.   *)
orphans_by_age(n) ==
  {t \in TaskId : status[t] = "running" /\ stale[t] /\ worker_id[t] = NodeId(n)}

Orphans(n) == {t \in TaskId : status[t] = "running" /\ worker_id[t] = NodeId(n)}

(* reap_stale_running_tasks, once, before the loop.  Its return statement  *)
(* raises KeyError after the UPDATE (rows are dicts), which task_worker    *)
(* logs like a statement that failed: either way the loop starts.          *)
reap_stale_running_tasks(n) ==
  /\ Goto(n, "startup", "check")
  /\ \/ SetStatus(Orphans(n), "failed") /\ UNCHANGED faults
     \/ Fault /\ NoWrite
  /\ UNCHANGED <<depends_on, worker_id, created_at, claimed, due, boots, runVars,
                 crashes, edits>>

(* Variant: one slot too many.                                             *)
check_slots_off_by_one(n) ==
  /\ Goto(n, "check", IF active[n] <= WORKER_CONCURRENCY THEN "claim" ELSE "beat")
  /\ UNCHANGED <<rowVars, claimed, due, boots, runVars, envVars>>

(* The test of _active_tasks comes before the await of the claim.          *)
check_slots(n) ==
  /\ Goto(n, "check", IF active[n] < WORKER_CONCURRENCY THEN "claim" ELSE "beat")
  /\ UNCHANGED <<rowVars, claimed, due, boots, runVars, envVars>>

(* Variants: the dependency is not looked at; stuck rows are taken over;    *)
(* failed rows are tried again in place.                                   *)
claimable_any_dependency(t) == status[t] = "queued" /\ t \notin TestTasks

claimable_stuck(t) ==
  /\ status[t] = "queued" \/ (status[t] = "running" /\ stale[t])
  /\ depends_on[t] # NoTask => status[depends_on[t]] = "complete"
  /\ t \notin TestTasks

claimable_failed(t) ==
  /\ status[t] \in {"queued", "failed"}
  /\ depends_on[t] # NoTask => status[depends_on[t]] = "complete"
  /\ t \notin TestTasks

Claimable(t) ==
  /\ status[t] = "queued"
  /\ depends_on[t] # NoTask => status[depends_on[t]] = "complete"
  /\ t \notin TestTasks

(* ORDER BY priority DESC, created_at ASC LIMIT 1.                         *)
Before(t, u) == \/ Priority[t] > Priority[u]
                \/ Priority[t] = Priority[u] /\ created_at[t] < created_at[u]

First(t) == Claimable(t) /\ \A u \in TaskId \ {t} : Claimable(u) => Before(t, u)

(* claim_next_queued_task.  The event loop has run the coroutine that the  *)
(* previous round created before this statement's answer can arrive.       *)
claim_next_queued_task(n) ==
  /\ Unstarted(n) = {}
  /\ \/ \E t \in TaskId :
          /\ First(t)
          /\ Goto(n, "claim", "launch")
          /\ claimed' = [claimed EXCEPT ![n] = t]
          /\ SetStatus({t}, "running")
          /\ worker_id' = [worker_id EXCEPT ![t] = NodeId(n)]
          /\ UNCHANGED faults
     \/ /\ ~ \E t \in TaskId : Claimable(t)
        /\ Goto(n, "claim", "beat")
        /\ UNCHANGED <<status, stale, worker_id, claimed, faults>>
     \/ /\ Fault
        /\ Goto(n, "claim", "check")
        /\ UNCHANGED <<status, stale, worker_id, claimed>>
  /\ UNCHANGED <<depends_on, created_at, due, boots, runVars, crashes, edits>>

(* The answer of the claim is back: create_task for the coroutine.         *)
launch(n) ==
  /\ Goto(n, "launch", "beat")
  /\ coro' = [coro EXCEPT ![n][claimed[n]] = "created"]
  /\ claimed' = [claimed EXCEPT ![n] = NoTask]
  /\ UNCHANGED <<rowVars, due, boots, active, published, envVars>>

(* The connection breaks after the claim was committed: the loop backs off *)
(* and the row stays running with nobody to run it.                        *)
lose_claim(n) ==
  /\ Fault
  /\ Goto(n, "launch", "check")
  /\ claimed' = [claimed EXCEPT ![n] = NoTask]
  /\ UNCHANGED <<rowVars, due, boots, runVars, crashes, edits>>

(* Variant: only rows claimed by a process that is in its present life.    *)
stuck_of_present_nodes ==
  {t \in TaskId : /\ status[t] = "running" /\ stale[t]
                  /\ \E n \in Node : worker_id[t] = NodeId(n)}

Stuck == {t \in TaskId : status[t] = "running" /\ stale[t]}

(* The heartbeat at the end of a round.  reap_stuck_tasks fails every      *)
(* stuck row, of any node; then, if there was one, building its result     *)
(* raises KeyError, so that no coroutine is cancelled and _last_watchdog   *)
(* stays: the watchdog is due again in the next round.  Its statement is   *)
(* awaited too, so that a coroutine launched in this round runs first.     *)
skip_watchdog(n) ==
  /\ ~due[n]
  /\ Goto(n, "beat", "check")
  /\ UNCHANGED <<rowVars, claimed, due, boots, runVars, envVars>>

reap_stuck_tasks(n) ==
  /\ due[n] /\ Unstarted(n) = {}
  /\ Goto(n, "beat", "check")
  /\ \/ /\ SetStatus(Stuck, "failed")
        /\ due' = [due EXCEPT ![n] = Stuck # {}]
        /\ UNCHANGED faults
     \/ Fault /\ NoWrite /\ UNCHANGED due
  /\ UNCHANGED <<depends_on, worker_id, created_at, claimed, boots, runVars,
                 crashes, edits>>

-----------------------------------------------------------------------------
(* The coroutine _run_task_tracked -> run_task of task t on node n.        *)

Step(n, t, from, to) ==
  coro[n][t] = from /\ coro' = [coro EXCEPT ![n][t] = to]

start(n, t) ==
  /\ Step(n, t, "created", "mark_running")
  /\ active' = [active EXCEPT ![n] = @ + 1]
  /\ UNCHANGED <<rowVars, loopVars, published, envVars>>

(* A mark_task_* call: UPDATE tasks by task_id, whatever the status, then  *)
(* INSERT INTO task_events.  The INSERT raises when the row is gone; a     *)
(* fault raises before or after the UPDATE is committed.                   *)
Mark(n, t, from, s, ok, raised) ==
  /\ \/ Exists(t) /\ Step(n, t, from, ok) /\ SetStatus({t}, s) /\ UNCHANGED faults
     \/ ~Exists(t) /\ Step(n, t, from, raised) /\ NoWrite /\ UNCHANGED faults
     \/ /\ Fault /\ Step(n, t, from, raised)
        /\ NoWrite \/ (Exists(t) /\ SetStatus({t}, s))
  /\ UNCHANGED <<depends_on, worker_id, created_at, loopVars, active, published,
                 crashes, edits>>

(* mark_task_running records run_id and leaves the status alone.           *)
mark_task_running(n, t)  == Mark(n, t, "mark_running", status[t], "agent", "mark_failed")
mark_task_complete(n, t) ==
  Mark(n, t, "mark_complete", "complete", "publish_complete", "mark_failed")
(* Variant: a status the CHECK constraint of the table does not know.      *)
mark_task_awaiting(n, t) ==
  Mark(n, t, "mark_paused", "awaiting_approval", "publish_paused", "ending")

mark_task_paused(n, t)   ==
  Mark(n, t, "mark_paused", "paused", "publish_paused", "ending")
mark_task_failed(n, t)   ==
  Mark(n, t, "mark_failed", "failed", "publish_failed", "ending")

(* The agent graph returns, is interrupted at the HITL gate, or raises.    *)
stream_agent(n, t) ==
  /\ \E to \in {"mark_complete", "mark_paused", "mark_failed"} : Step(n, t, "agent", to)
  /\ UNCHANGED <<rowVars, loopVars, active, published, envVars>>

Publish(n, t, from, event, to) ==
  /\ Step(n, t, from, to)
  /\ published' = [published EXCEPT ![t] = @ \cup {event}]
  /\ UNCHANGED <<rowVars, loopVars, active, envVars>>

publish_terminal(n, t) ==
  \/ Publish(n, t, "publish_complete", "task_complete", "ending")
  \/ Publish(n, t, "publish_paused", "hitl_required", "ending")
  \/ Publish(n, t, "publish_failed", "task_error", "fail_dependents")

(* fail_dependent_tasks: the queued rows that depend on t, and not the     *)
(* rows that depend on those.                                              *)
Dependents(t) == {u \in TaskId : status[u] = "queued" /\ depends_on[u] = t}

(* Variant: a failed task leaves its dependents alone.                     *)
fail_dependents_skipped(n, t) ==
  /\ Step(n, t, "fail_dependents", "ending")
  /\ UNCHANGED <<rowVars, loopVars, active, published, envVars>>

fail_dependent_tasks(n, t) ==
  /\ Step(n, t, "fail_dependents", "ending")
  /\ \/ SetStatus(Dependents(t), "failed") /\ UNCHANGED faults
     \/ Fault /\ (NoWrite \/ SetStatus(Dependents(t), "failed"))
  /\ UNCHANGED <<depends_on, worker_id, created_at, loopVars, active, published,
                 crashes, edits>>

(* Variant: the counter is decremented outside the finally block, which a  *)
(* coroutine that raised never reaches.                                    *)
finish_after_success(n, t) ==
  /\ Step(n, t, "ending", "none")
  /\ active' = [active EXCEPT ![n] = IF status[t] = "complete" THEN @ - 1 ELSE @]
  /\ UNCHANGED <<rowVars, loopVars, published, envVars>>

(* The finally block of _run_task_tracked.                                 *)
finish(n, t) ==
  /\ Step(n, t, "ending", "none")
  /\ active' = [active EXCEPT ![n] = @ - 1]
  /\ UNCHANGED <<rowVars, loopVars, published, envVars>>

-----------------------------------------------------------------------------
(* Time and process failure.                                               *)

(* The row has not been updated for TASK_WATCHDOG_TIMEOUT.  Only running   *)
(* rows are ever asked.                                                    *)
grow_stale(t) ==
  /\ status[t] = "running" /\ ~stale[t]
  /\ stale' = [stale EXCEPT ![t] = TRUE]
  /\ UNCHANGED <<status, depends_on, worker_id, created_at, loopVars, runVars, envVars>>

watchdog_interval(n) ==
  /\ loop[n] # "down" /\ ~due[n]
  /\ due' = [due EXCEPT ![n] = TRUE]
  /\ UNCHANGED <<rowVars, loop, claimed, boots, runVars, envVars>>

(* The process dies, or shuts down: CancelledError is not caught by        *)
(* run_task, so a shutdown leaves the rows as a crash does.                *)
crash(n) ==
  /\ loop[n] # "down"
  /\ crashes < MaxCrashes /\ crashes' = crashes + 1
  /\ loop' = [loop EXCEPT ![n] = "down"]
  /\ claimed' = [claimed EXCEPT ![n] = NoTask]
  /\ active' = [active EXCEPT ![n] = 0]
  /\ coro' = [coro EXCEPT ![n] = [t \in TaskId |-> "none"]]
  /\ UNCHANGED <<rowVars, due, boots, published, faults, edits>>

restart(n) ==
  /\ Goto(n, "down", "startup")
  /\ boots' = [boots EXCEPT ![n] = @ + 1]
  /\ due' = [due EXCEPT ![n] = TRUE]
  /\ UNCHANGED <<rowVars, claimed, runVars, envVars>>

-----------------------------------------------------------------------------
Request ==
  \/ \E t \in TaskId, dep \in TaskId \cup {NoTask} : create_task(t, dep)
  \/ \E original, t \in TaskId : retry_task(original, t)
  \/ \E S \in SUBSET TaskId : cancel_tasks(S)
  \/ \E S \in SUBSET TaskId : bulk_delete_tasks(S)
  \/ run_db_maintenance
  \/ \E t \in TaskId : update_tags(t)

task_worker(n) ==
  \/ reap_stale_running_tasks(n)
  \/ check_slots(n)
  \/ claim_next_queued_task(n)
  \/ launch(n)
  \/ lose_claim(n)
  \/ skip_watchdog(n)
  \/ reap_stuck_tasks(n)

run_task(n, t) ==
  \/ start(n, t)
  \/ mark_task_running(n, t)
  \/ stream_agent(n, t)
  \/ mark_task_complete(n, t)
  \/ mark_task_paused(n, t)
  \/ mark_task_failed(n, t)
  \/ publish_terminal(n, t)
  \/ fail_dependent_tasks(n, t)
  \/ finish(n, t)

Environment ==
  \/ \E t \in TaskId : grow_stale(t)
  \/ \E n \in Node : watchdog_interval(n) \/ crash(n) \/ restart(n)

Next ==
  \/ Request
  \/ \E n \in Node : task_worker(n)
  \/ \E n \in Node, t \in TaskId : run_task(n, t)
  \/ Environment

Spec == Init /\ [][Next]_vars

(* A node that is up keeps taking loop rounds; the event loop resumes      *)
(* every coroutine; the LLM request timeout ends every agent run; time     *)
(* passes; a dead process is started again.  Requests are never forced.    *)
Fairness ==
  /\ \A n \in Node : WF_vars(task_worker(n)) /\ WF_vars(watchdog_interval(n))
                     /\ WF_vars(restart(n))
  /\ \A n \in Node, t \in TaskId : WF_vars(run_task(n, t))
  /\ \A t \in TaskId : WF_vars(grow_stale(t))

FairSpec == Spec /\ Fairness

-----------------------------------------------------------------------------
(* What is to hold.                                                        *)

Holds(n, t) == claimed[n] = t \/ coro[n][t] # "none"

(* "_active_tasks ... always consistent" (worker.py:65): whatever path a   *)
(* coroutine takes out of run_task, the counter that admits claims equals  *)
(* the number of coroutines of this process that have started and not      *)
(* ended.                                                                  *)
ActiveCount == \A n \in Node : active[n] = Cardinality(Started(n))

(* task_worker tests _active_tasks before it awaits the claim, and a new   *)
(* coroutine counts only once it has run; still a node never holds more    *)
(* than WORKER_CONCURRENCY + 1 tasks, launched or on the way.              *)
SlotBound ==
  \A n \in Node : Cardinality({t \in TaskId : Holds(n, t)}) <= WORKER_CONCURRENCY + 1

(* What makes SlotBound inductive: a coroutine that has not started yet    *)
(* escapes the test of _active_tasks, but there is at most one, and none   *)
(* while a claim is on its way back.                                       *)
SlotInv ==
  \A n \in Node :
     /\ loop[n] = "launch" => Unstarted(n) = {}
     /\ \A t, u \in Unstarted(n) : t = u
     /\ loop[n] \in {"claim", "launch"} => Cardinality(Live(n)) <= WORKER_CONCURRENCY
     /\ Cardinality(Live(n)) <= WORKER_CONCURRENCY + 1

(* No task is in the hands of two nodes, nor twice in those of one, over   *)
(* crashes, lost answers and reaps; and the holder is the node the row     *)
(* names, which is what the startup reap relies on.                        *)
SingleRunner ==
  \A n \in Node, t \in TaskId : Holds(n, t) =>
     /\ worker_id[t] = NodeId(n)
     /\ \A m \in Node \ {n} : ~Holds(m, t)
     /\ claimed[n] = t => coro[n][t] = "none"

(* What makes SingleRunner inductive: nothing that is held can be claimed  *)
(* again, and a node that is down holds nothing when it comes back under   *)
(* another name.                                                           *)
HolderInv ==
  /\ \A n \in Node : /\ loop[n] = "launch" <=> claimed[n] # NoTask
                     /\ loop[n] = "down" => Live(n) = {}
  /\ \A n \in Node, t \in TaskId : Holds(n, t) => status[t] \notin {"absent", "queued"}
  /\ SingleRunner

(* A running row that names a node past its startup reap is in the hands   *)
(* of that node, as long as no statement has failed: nothing but a fault   *)
(* leaves a row for the watchdog, and a restart with the same WORKER_NODE_ID *)
(* cleans up completely.                                                   *)
NoOrphan ==
  faults = 0 =>
     \A n \in Node, t \in TaskId :
        status[t] = "running" /\ worker_id[t] = NodeId(n)
          /\ loop[n] \notin {"down", "startup"} => Holds(n, t)

(* What a subscriber is told is what the row says: the terminal event that *)
(* run_task publishes agrees with the row from then on, although the       *)
(* mark_task_* updates are unconditional and reapers and cancellations     *)
(* write the same rows.                                                    *)
EventAgreesWithRow ==
  \A t \in TaskId :
     /\ "task_complete" \in published[t] => status[t] \in {"complete", "deleted"}
     /\ "hitl_required" \in published[t] => status[t] \in {"paused", "deleted"}
     /\ "task_error" \in published[t] => status[t] \in {"failed", "deleted"}

(* A row that runs, or has run to an end, while its dependency still       *)
(* exists finds it complete, unless a statement failed after the           *)
(* dependency was marked complete: no reap, crash or cancellation undoes a *)
(* completion that a dependent was started on.                             *)
DependencyComplete ==
  faults = 0 =>
     \A t \in TaskId :
        status[t] \in {"running", "complete", "paused"} /\ depends_on[t] # NoTask
          => status[depends_on[t]] = "complete"

(* The life of every row is the one TaskLifecycle promises.                *)
Runner == [t \in TaskId |->
             IF worker_id[t] = NoWorker THEN "unclaimed"
             ELSE IF \E n \in Node : Holds(n, t) THEN "held" ELSE "released"]

Lifecycle == INSTANCE TaskLifecycle WITH runner <- Runner

RefinesLifecycle == Lifecycle!Spec

(* A claimable row does not stay claimable for ever: some worker takes it, *)
(* or something takes it out of the queue.  It needs every slot to be      *)
(* given back and the loop to survive faults and restarts.                 *)
ClaimableIsTaken == \A t \in TaskId : Claimable(t) ~> ~Claimable(t)

(* No row is running for ever, whoever ran it died, lost the answer of its *)
(* claim, or could not write the outcome: a node's watchdog reaches it.    *)
RunningEnds == \A t \in TaskId : status[t] = "running" ~> status[t] # "running"

(* "If the dependency fails, this task is auto-failed." (routes/tasks.py:169): a  *)
(* row that is queued while its dependency runs does not stay queued for   *)
(* ever once that dependency has failed.                                   *)
Waiting(t, d) == status[t] = "queued" /\ depends_on[t] = d

DependentAutoFailed ==
  \A t \in TaskId : \A d \in TaskId \ {t} :
     []((Waiting(t, d) /\ status[d] = "running")
          => []<> ~(Waiting(t, d) /\ status[d] = "failed"))

(* It does hold as long as no process dies and no statement fails, also    *)
(* when the watchdog is the one that failed the dependency: the coroutine  *)
(* it leaves running writes its outcome again and looks for dependents.    *)
DependentFollows ==
  \A t \in TaskId : \A d \in TaskId \ {t} :
     []((Waiting(t, d) /\ status[d] = "running")
          => []<>(~(Waiting(t, d) /\ status[d] = "failed") \/ crashes + faults > 0))
=============================================================================
