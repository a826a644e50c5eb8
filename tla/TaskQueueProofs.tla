-------------------------- MODULE TaskQueueProofs --------------------------
(***************************************************************************)
(* Theorems about TaskQueue, for every number of tasks and nodes and every *)
(* value of the other constants.                                           *)
(***************************************************************************)
EXTENDS TaskQueue, FiniteSetTheorems, TLAPS

-----------------------------------------------------------------------------
(* Type correctness.                                                       *)

(* The initial state is well typed.                                        *)
LEMMA TypeInit == Init => TypeOK
BY DEF Init, TypeOK, LoopStates, CoroStates, Statuses, TerminalEvents

(* A statement that sets the status of some rows keeps the columns typed.  *)
LEMMA SetStatusType ==
  ASSUME TypeOK, NEW S, NEW s \in Statuses \cup {"absent", "deleted"}, SetStatus(S, s)
  PROVE  /\ status' \in [TaskId -> Statuses \cup {"absent", "deleted"}]
         /\ stale' \in [TaskId -> BOOLEAN]
BY DEF TypeOK, SetStatus

(* Requests keep every variable typed.                                     *)
LEMMA TypeRequest == TypeOK /\ Request => TypeOK'
<1> SUFFICES ASSUME TypeOK, Request PROVE TypeOK'
  OBVIOUS
<1> USE DEF rowVars, loopVars, runVars, envVars
<1>1. ASSUME NEW t \in TaskId, NEW dep \in TaskId \cup {NoTask}, create_task(t, dep)
      PROVE  TypeOK'
  <2>1. Cardinality({u \in TaskId : status[u] # "absent"}) + 1 \in Nat
    BY FS_CardinalityType, FS_Subset, QueueAssumption DEF QueueAssumption
  <2>2. created_at' \in [TaskId -> Nat]
    BY <1>1, <2>1 DEF TypeOK, create_task
  <2> QED
    BY <1>1, <2>2 DEF TypeOK, create_task, Statuses
<1>2. ASSUME NEW S \in SUBSET TaskId, delete_rows(S) PROVE TypeOK'
  <2>1. /\ status' \in [TaskId -> Statuses \cup {"absent", "deleted"}]
        /\ stale' \in [TaskId -> BOOLEAN]
    BY <1>2, SetStatusType DEF delete_rows
  <2> QED
    BY <1>2, <2>1 DEF TypeOK, delete_rows
<1>3. ASSUME NEW S \in SUBSET TaskId, cancel_tasks(S) PROVE TypeOK'
  <2>1. /\ status' \in [TaskId -> Statuses \cup {"absent", "deleted"}]
        /\ stale' \in [TaskId -> BOOLEAN]
    BY <1>3, SetStatusType DEF cancel_tasks, Statuses
  <2> QED
    BY <1>3, <2>1 DEF TypeOK, cancel_tasks
<1>4. ASSUME NEW t \in TaskId, update_tags(t) PROVE TypeOK'
  BY <1>4 DEF TypeOK, update_tags
<1>5. ASSUME NEW original \in TaskId, NEW t \in TaskId, retry_task(original, t)
      PROVE  TypeOK'
  BY <1>1, <1>5 DEF retry_task
<1>6. ASSUME run_db_maintenance PROVE TypeOK'
  BY <1>2, <1>6 DEF run_db_maintenance
<1> QED
  BY <1>1, <1>2, <1>3, <1>4, <1>5, <1>6 DEF Request, bulk_delete_tasks

(* A loop position set by Goto is a loop position.                         *)
LEMMA GotoType ==
  ASSUME TypeOK, NEW n \in Node, NEW from, NEW to \in LoopStates, Goto(n, from, to)
  PROVE  loop' \in [Node -> LoopStates]
BY DEF TypeOK, Goto

(* A coroutine position set by Step is a coroutine position.               *)
LEMMA StepType ==
  ASSUME TypeOK, NEW n \in Node, NEW t \in TaskId, NEW from, NEW to \in CoroStates,
         Step(n, t, from, to)
  PROVE  coro' \in [Node -> [TaskId -> CoroStates]]
BY DEF TypeOK, Step

(* The loop of a node keeps every variable typed.                          *)
LEMMA TypeWorker == TypeOK /\ (\E n \in Node : task_worker(n)) => TypeOK'
<1> SUFFICES ASSUME TypeOK, NEW n \in Node, task_worker(n) PROVE TypeOK'
  OBVIOUS
<1> USE DEF rowVars, loopVars, runVars, envVars
<1>g. \A from : \A to \in LoopStates : Goto(n, from, to) => loop' \in [Node -> LoopStates]
  BY GotoType
<1>s. \A S : \A s \in Statuses : SetStatus(S, s) =>
         /\ status' \in [TaskId -> Statuses \cup {"absent", "deleted"}]
         /\ stale' \in [TaskId -> BOOLEAN]
  BY SetStatusType
<1>f. Fault => faults' \in Nat
  BY DEF Fault, TypeOK
<1>i. NodeId(n) \in Node \X Nat
  BY DEF NodeId, TypeOK
<1>1. CASE reap_stale_running_tasks(n)
  <2>1. loop' \in [Node -> LoopStates]
    BY <1>1, <1>g DEF reap_stale_running_tasks, LoopStates
  <2>2. /\ status' \in [TaskId -> Statuses \cup {"absent", "deleted"}]
        /\ stale' \in [TaskId -> BOOLEAN]
        /\ faults' \in Nat
    BY <1>1, <1>s, <1>f DEF reap_stale_running_tasks, NoWrite, TypeOK, Statuses
  <2> QED
    BY <1>1, <2>1, <2>2 DEF reap_stale_running_tasks, TypeOK
<1>2. CASE check_slots(n)
  <2>1. loop' \in [Node -> LoopStates]
    BY <1>2, <1>g DEF check_slots, LoopStates
  <2> QED
    BY <1>2, <2>1 DEF check_slots, TypeOK
<1>3. CASE claim_next_queued_task(n)
  <2>1. loop' \in [Node -> LoopStates]
    BY <1>3, <1>g DEF claim_next_queued_task, LoopStates
  <2>2. /\ status' \in [TaskId -> Statuses \cup {"absent", "deleted"}]
        /\ stale' \in [TaskId -> BOOLEAN]
        /\ faults' \in Nat
    BY <1>3, <1>s, <1>f DEF claim_next_queued_task, TypeOK, Statuses
  <2>3. /\ claimed' \in [Node -> TaskId \cup {NoTask}]
        /\ worker_id' \in [TaskId -> (Node \X Nat) \cup {NoWorker}]
    <3>1. CASE \E t \in TaskId : /\ claimed' = [claimed EXCEPT ![n] = t]
                                 /\ worker_id' = [worker_id EXCEPT ![t] = NodeId(n)]
      BY <3>1, <1>i DEF TypeOK
    <3>2. CASE UNCHANGED <<claimed, worker_id>>
      BY <3>2 DEF TypeOK
    <3> QED
      BY <1>3, <3>1, <3>2 DEF claim_next_queued_task
  <2> QED
    BY <1>3, <2>1, <2>2, <2>3 DEF claim_next_queued_task, TypeOK
<1>4. CASE launch(n)
  <2>1. loop' \in [Node -> LoopStates]
    BY <1>4, <1>g DEF launch, LoopStates
  <2>2. /\ coro' \in [Node -> [TaskId -> CoroStates]]
        /\ claimed' \in [Node -> TaskId \cup {NoTask}]
    BY <1>4 DEF launch, TypeOK, CoroStates
  <2> QED
    BY <1>4, <2>1, <2>2 DEF launch, TypeOK
<1>5. CASE lose_claim(n)
  <2>1. loop' \in [Node -> LoopStates]
    BY <1>5, <1>g DEF lose_claim, LoopStates
  <2> QED
    BY <1>5, <1>f, <2>1 DEF lose_claim, TypeOK
<1>6. CASE skip_watchdog(n)
  <2>1. loop' \in [Node -> LoopStates]
    BY <1>6, <1>g DEF skip_watchdog, LoopStates
  <2> QED
    BY <1>6, <2>1 DEF skip_watchdog, TypeOK
<1>7. CASE reap_stuck_tasks(n)
  <2>1. loop' \in [Node -> LoopStates]
    BY <1>7, <1>g DEF reap_stuck_tasks, LoopStates
  <2>2. /\ status' \in [TaskId -> Statuses \cup {"absent", "deleted"}]
        /\ stale' \in [TaskId -> BOOLEAN]
        /\ faults' \in Nat
        /\ due' \in [Node -> BOOLEAN]
    BY <1>7, <1>s, <1>f DEF reap_stuck_tasks, NoWrite, TypeOK, Statuses
  <2> QED
    BY <1>7, <2>1, <2>2 DEF reap_stuck_tasks, TypeOK
<1> QED
  BY <1>1, <1>2, <1>3, <1>4, <1>5, <1>6, <1>7 DEF task_worker

(* So does every await of a coroutine.                                     *)
LEMMA TypeMark ==
  ASSUME TypeOK, NEW n \in Node, NEW t \in TaskId, NEW from,
         NEW s \in Statuses \cup {"absent", "deleted"}, NEW ok \in CoroStates, NEW raised \in CoroStates,
         Mark(n, t, from, s, ok, raised)
  PROVE  TypeOK'
<1> USE DEF rowVars, loopVars, runVars, envVars
<1>1. coro' \in [Node -> [TaskId -> CoroStates]]
  BY StepType DEF Mark
<1>2. /\ status' \in [TaskId -> Statuses \cup {"absent", "deleted"}]
      /\ stale' \in [TaskId -> BOOLEAN]
  BY SetStatusType DEF Mark, NoWrite, TypeOK
<1>3. faults' \in Nat
  BY DEF Mark, Fault, TypeOK
<1> QED
  BY <1>1, <1>2, <1>3 DEF Mark, TypeOK

LEMMA TypeRun ==
  TypeOK /\ (\E n \in Node, t \in TaskId : run_task(n, t)) => TypeOK'
<1> SUFFICES ASSUME TypeOK, NEW n \in Node, NEW t \in TaskId, run_task(n, t) PROVE TypeOK'
  OBVIOUS
<1> USE DEF rowVars, loopVars, runVars, envVars
<1>c. /\ {"mark_complete", "mark_paused", "mark_failed", "agent", "none", "mark_running",
           "publish_complete", "publish_paused", "publish_failed", "fail_dependents",
           "ending"} \subseteq CoroStates
      /\ {"complete", "paused", "failed"} \subseteq Statuses
  BY DEF CoroStates, Statuses
<1>g. \A from : \A to \in CoroStates :
         Step(n, t, from, to) => coro' \in [Node -> [TaskId -> CoroStates]]
  BY StepType
<1>1. CASE start(n, t)
  <2>1. coro' \in [Node -> [TaskId -> CoroStates]]
    BY <1>1, <1>c, <1>g DEF start
  <2>2. active' \in [Node -> Int]
    BY <1>1 DEF start, TypeOK
  <2> QED
    BY <1>1, <2>1, <2>2 DEF start, TypeOK
<1>2. CASE mark_task_running(n, t)
  <2>1. status[t] \in Statuses \cup {"absent", "deleted"}
    BY DEF TypeOK
  <2> QED
    BY <1>2, <1>c, <2>1, TypeMark DEF mark_task_running
<1>3. CASE stream_agent(n, t)
  <2>1. coro' \in [Node -> [TaskId -> CoroStates]]
    BY <1>3, <1>c, <1>g DEF stream_agent
  <2> QED
    BY <1>3, <2>1 DEF stream_agent, TypeOK
<1>4. CASE mark_task_complete(n, t)
  BY <1>4, <1>c, TypeMark DEF mark_task_complete
<1>5. CASE mark_task_paused(n, t)
  BY <1>5, <1>c, TypeMark DEF mark_task_paused
<1>6. CASE mark_task_failed(n, t)
  BY <1>6, <1>c, TypeMark DEF mark_task_failed
<1>7. CASE publish_terminal(n, t)
  <2>1. coro' \in [Node -> [TaskId -> CoroStates]]
    BY <1>7, <1>c, <1>g DEF publish_terminal, Publish
  <2>2. published' \in [TaskId -> SUBSET TerminalEvents]
    <3>1. PICK event \in TerminalEvents : published' = [published EXCEPT ![t] = @ \cup {event}]
      BY <1>7 DEF publish_terminal, Publish, TerminalEvents
    <3>2. published[t] \cup {event} \in SUBSET TerminalEvents
      BY DEF TypeOK
    <3> QED
      BY <3>1, <3>2 DEF TypeOK
  <2> QED
    BY <1>7, <2>1, <2>2 DEF publish_terminal, Publish, TypeOK
<1>8. CASE fail_dependent_tasks(n, t)
  <2>1. coro' \in [Node -> [TaskId -> CoroStates]]
    BY <1>8, <1>c, <1>g DEF fail_dependent_tasks
  <2>2. /\ status' \in [TaskId -> Statuses \cup {"absent", "deleted"}]
        /\ stale' \in [TaskId -> BOOLEAN]
    BY <1>8, <1>c, SetStatusType DEF fail_dependent_tasks, NoWrite, TypeOK
  <2>3. faults' \in Nat
    BY <1>8 DEF fail_dependent_tasks, Fault, TypeOK
  <2> QED
    BY <1>8, <2>1, <2>2, <2>3 DEF fail_dependent_tasks, TypeOK
<1>9. CASE finish(n, t)
  <2>1. coro' \in [Node -> [TaskId -> CoroStates]]
    BY <1>9, <1>c, <1>g DEF finish
  <2>2. active' \in [Node -> Int]
    BY <1>9 DEF finish, TypeOK
  <2> QED
    BY <1>9, <2>1, <2>2 DEF finish, TypeOK
<1> QED
  BY <1>1, <1>2, <1>3, <1>4, <1>5, <1>6, <1>7, <1>8, <1>9 DEF run_task

(* So do time and process failures.                                        *)
LEMMA TypeEnvironment == TypeOK /\ Environment => TypeOK'
<1> SUFFICES ASSUME TypeOK, Environment PROVE TypeOK'
  OBVIOUS
<1> USE DEF rowVars, loopVars, runVars, envVars
<1>1. ASSUME NEW t \in TaskId, grow_stale(t) PROVE TypeOK'
  BY <1>1 DEF grow_stale, TypeOK
<1>2. ASSUME NEW n \in Node, watchdog_interval(n) PROVE TypeOK'
  BY <1>2 DEF watchdog_interval, TypeOK
<1>3. ASSUME NEW n \in Node, crash(n) PROVE TypeOK'
  <2>1. coro' \in [Node -> [TaskId -> CoroStates]]
    BY <1>3 DEF crash, TypeOK, CoroStates
  <2>2. /\ loop' \in [Node -> LoopStates]
        /\ claimed' \in [Node -> TaskId \cup {NoTask}]
        /\ active' \in [Node -> Int]
        /\ crashes' \in Nat
    BY <1>3 DEF crash, TypeOK, LoopStates
  <2> QED
    BY <1>3, <2>1, <2>2 DEF crash, TypeOK
<1>4. ASSUME NEW n \in Node, restart(n) PROVE TypeOK'
  BY <1>4 DEF restart, Goto, TypeOK, LoopStates
<1> QED
  BY <1>1, <1>2, <1>3, <1>4 DEF Environment

(* Every variable keeps its type in every behaviour of the queue.          *)
THEOREM TypeCorrect == Spec => []TypeOK
<1>1. TypeOK /\ [Next]_vars => TypeOK'
  <2> SUFFICES ASSUME TypeOK, [Next]_vars PROVE TypeOK'
    OBVIOUS
  <2>1. CASE Next
    BY <2>1, TypeRequest, TypeWorker, TypeRun, TypeEnvironment DEF Next
  <2>2. CASE UNCHANGED vars
    BY <2>2 DEF vars, rowVars, loopVars, runVars, envVars, TypeOK
  <2> QED
    BY <2>1, <2>2
<1> QED
  BY <1>1, TypeInit, PTL DEF Spec

-----------------------------------------------------------------------------
(* The holder of a task.                                                   *)

HolderState == TypeOK /\ HolderInv

(* In the initial state no task is held.                                   *)
LEMMA HolderInit == Init => HolderInv
BY QueueAssumption DEF QueueAssumption, Init, HolderInv, SingleRunner, Holds, Live

(* Steps that give no task to anybody keep the holders right, if they put  *)
(* no held row back into the queue.                                        *)
LEMMA HolderKept ==
  ASSUME HolderState,
         UNCHANGED <<loop, claimed, boots, worker_id>>,
         \A n \in Node, t \in TaskId : coro[n][t] = "none" <=> coro'[n][t] = "none",
         \A t \in TaskId : status[t] \notin {"absent", "queued"}
                           => status'[t] \notin {"absent", "queued"}
  PROVE  HolderInv'
BY DEF HolderState, TypeOK, HolderInv, SingleRunner, Holds, Live, NodeId

(* A statement that sets a status other than queued keeps that condition.  *)
LEMMA NotQueued ==
  ASSUME NEW S, NEW s, s \notin {"absent", "queued"}, SetStatus(S, s)
  PROVE  \A t \in TaskId : status[t] \notin {"absent", "queued"}
                           => status'[t] \notin {"absent", "queued"}
BY DEF SetStatus

(* Requests and the environment, but for a crash and a restart.            *)
LEMMA HolderRequest ==
  ASSUME HolderState, Request
  PROVE  HolderInv'
<1> USE DEF rowVars, loopVars, runVars, envVars
<1>q. ASSUME NEW t \in TaskId, NEW dep \in TaskId \cup {NoTask}, create_task(t, dep)
      PROVE  HolderInv'
  BY <1>q, HolderKept DEF create_task, HolderState, TypeOK
<1>c. ASSUME NEW S \in SUBSET TaskId, cancel_tasks(S) PROVE HolderInv'
  BY <1>c, HolderKept, NotQueued DEF cancel_tasks
<1>d. ASSUME NEW S \in SUBSET TaskId, delete_rows(S) PROVE HolderInv'
  BY <1>d, HolderKept, NotQueued DEF delete_rows
<1>u. ASSUME NEW t \in TaskId, update_tags(t) PROVE HolderInv'
  BY <1>u, HolderKept DEF update_tags
<1>r. ASSUME NEW original \in TaskId, NEW t \in TaskId, retry_task(original, t)
      PROVE  HolderInv'
  BY <1>q, <1>r DEF retry_task
<1>m. ASSUME run_db_maintenance PROVE HolderInv'
  BY <1>d, <1>m DEF run_db_maintenance
<1> QED
  BY <1>q, <1>c, <1>d, <1>u, <1>r, <1>m DEF Request, bulk_delete_tasks

(* A claim takes a row that nobody holds, and launch passes it on to the   *)
(* coroutine.                                                              *)
LEMMA HolderWorker ==
  ASSUME HolderState, NEW n \in Node, task_worker(n)
  PROVE  HolderInv'
<1> USE DEF HolderState, loopVars, runVars
<1>q. NoTask \notin TaskId
  BY QueueAssumption DEF QueueAssumption
<1>move. ASSUME NEW from, NEW to \in {"check", "beat", "claim"}, Goto(n, from, to),
                from \notin {"launch", "down"},
                UNCHANGED <<coro, claimed, boots, worker_id>>,
                \A t \in TaskId : status[t] \notin {"absent", "queued"}
                                  => status'[t] \notin {"absent", "queued"}
         PROVE  HolderInv'
  <2>1. /\ loop'[n] = to /\ loop[n] = from
        /\ \A m \in Node \ {n} : loop'[m] = loop[m]
    BY <1>move DEF Goto, TypeOK
  <2> QED
    BY <1>move, <2>1 DEF HolderInv, SingleRunner, Holds, Live, NodeId
<1>1. CASE reap_stale_running_tasks(n)
  BY <1>1, <1>move, NotQueued DEF reap_stale_running_tasks, NoWrite
<1>2. CASE check_slots(n)
  BY <1>2, <1>move DEF check_slots, rowVars
<1>3. CASE claim_next_queued_task(n)
  <2>1. ASSUME NEW t \in TaskId, First(t), Goto(n, "claim", "launch"),
               claimed' = [claimed EXCEPT ![n] = t], SetStatus({t}, "running"),
               worker_id' = [worker_id EXCEPT ![t] = NodeId(n)]
        PROVE  HolderInv'
    <3>1. /\ loop'[n] = "launch" /\ loop[n] = "claim" /\ claimed'[n] = t
          /\ claimed[n] = NoTask
          /\ \A m \in Node \ {n} : loop'[m] = loop[m] /\ claimed'[m] = claimed[m]
      BY <1>q, <2>1 DEF Goto, TypeOK, HolderInv
    <3>2. \A m \in Node : ~Holds(m, t)
      BY <2>1 DEF First, Claimable, HolderInv
    <3>3. /\ UNCHANGED <<coro, boots>>
          /\ worker_id'[t] = NodeId(n)
          /\ \A u \in TaskId \ {t} : worker_id'[u] = worker_id[u] /\ status'[u] = status[u]
          /\ status'[t] = "running"
      BY <1>3, <2>1 DEF claim_next_queued_task, SetStatus, TypeOK
    <3>4. \A m \in Node, u \in TaskId : Holds(m, u)' <=> Holds(m, u) \/ (m = n /\ u = t)
      BY <1>q, <3>1, <3>3 DEF Holds
    <3>5. \A m \in Node : NodeId(m)' = NodeId(m)
      BY <3>3 DEF NodeId
    <3>6. SingleRunner'
      BY <3>1, <3>2, <3>3, <3>4, <3>5 DEF HolderInv, SingleRunner, Holds
    <3>7. \A m \in Node : /\ loop'[m] = "launch" <=> claimed'[m] # NoTask
                          /\ loop'[m] = "down" => Live(m)' = {}
      BY <1>q, <3>1, <3>3 DEF HolderInv, Live
    <3>8. \A m \in Node, u \in TaskId : Holds(m, u)' => status'[u] \notin {"absent", "queued"}
      BY <3>3, <3>4 DEF HolderInv
    <3> QED
      BY <3>6, <3>7, <3>8 DEF HolderInv
  <2> QED
    BY <1>3, <1>move, <2>1 DEF claim_next_queued_task
<1>4. CASE launch(n)
  <2> DEFINE t == claimed[n]
  <2>1. /\ loop[n] = "launch" /\ loop'[n] = "beat" /\ t \in TaskId /\ claimed'[n] = NoTask
        /\ \A m \in Node \ {n} : loop'[m] = loop[m] /\ claimed'[m] = claimed[m]
        /\ UNCHANGED <<status, worker_id, boots>>
    BY <1>4 DEF launch, Goto, TypeOK, HolderInv, rowVars
  <2>2. /\ coro'[n][t] = "created"
        /\ \A m \in Node, u \in TaskId : (m # n \/ u # t) => coro'[m][u] = coro[m][u]
    BY <1>4, <2>1 DEF launch, TypeOK
  <2>3. \A m \in Node, u \in TaskId : Holds(m, u)' <=> Holds(m, u)
    BY <1>q, <2>1, <2>2 DEF Holds
  <2>4. SingleRunner'
    BY <1>q, <2>1, <2>2, <2>3 DEF HolderInv, SingleRunner, Holds, NodeId
  <2>5. \A m \in Node : /\ loop'[m] = "launch" <=> claimed'[m] # NoTask
                        /\ loop'[m] = "down" => Live(m)' = {}
    BY <2>1, <2>2 DEF HolderInv, Live
  <2> QED
    BY <2>1, <2>3, <2>4, <2>5 DEF HolderInv
<1>5. CASE lose_claim(n)
  <2>1. /\ loop'[n] = "check" /\ claimed'[n] = NoTask
        /\ \A m \in Node \ {n} : loop'[m] = loop[m] /\ claimed'[m] = claimed[m]
        /\ UNCHANGED <<coro, status, worker_id, boots>>
    BY <1>5 DEF lose_claim, Goto, TypeOK, rowVars
  <2> QED
    BY <1>q, <2>1 DEF HolderInv, SingleRunner, Holds, Live, NodeId
<1>6. CASE skip_watchdog(n)
  BY <1>6, <1>move DEF skip_watchdog, rowVars
<1>7. CASE reap_stuck_tasks(n)
  BY <1>7, <1>move, NotQueued DEF reap_stuck_tasks, NoWrite
<1> QED
  BY <1>1, <1>2, <1>3, <1>4, <1>5, <1>6, <1>7 DEF task_worker

(* A coroutine writes its own row only, and lets go of it at the end.      *)
LEMMA HolderRun ==
  ASSUME HolderState, NEW n \in Node, NEW t \in TaskId, run_task(n, t)
  PROVE  HolderInv'
<1> USE DEF HolderState, loopVars
<1>step. ASSUME NEW from \in CoroStates \ {"none"}, NEW to \in CoroStates \ {"none"},
                Step(n, t, from, to)
         PROVE  \A m \in Node, u \in TaskId : coro[m][u] = "none" <=> coro'[m][u] = "none"
  BY <1>step DEF Step, TypeOK
<1>mark. ASSUME NEW from \in CoroStates \ {"none"}, NEW ok \in CoroStates \ {"none"},
                NEW raised \in CoroStates \ {"none"}, NEW s, s \notin {"absent", "queued"},
                Mark(n, t, from, s, ok, raised)
         PROVE  HolderInv'
  <2>1. \A m \in Node, u \in TaskId : coro[m][u] = "none" <=> coro'[m][u] = "none"
    BY <1>mark, <1>step DEF Mark
  <2>2. \A u \in TaskId : status[u] \notin {"absent", "queued"}
                         => status'[u] \notin {"absent", "queued"}
    BY <1>mark, NotQueued DEF Mark, NoWrite
  <2> QED
    BY <1>mark, <2>1, <2>2, HolderKept DEF Mark
<1>c. /\ {"mark_complete", "mark_paused", "mark_failed", "agent", "created", "mark_running",
           "publish_complete", "publish_paused", "publish_failed", "fail_dependents",
           "ending"} \subseteq CoroStates \ {"none"}
  BY DEF CoroStates
<1>1. CASE start(n, t)
  BY <1>1, <1>c, <1>step, HolderKept DEF start, rowVars
<1>2. CASE mark_task_running(n, t)
  <2>1. coro[n][t] = "mark_running"
    BY <1>2 DEF mark_task_running, Mark, Step
  <2>2. status[t] \notin {"absent", "queued"}
    BY <2>1 DEF HolderInv, Holds
  <2> QED
    BY <1>2, <1>c, <1>mark, <2>2 DEF mark_task_running
<1>3. CASE stream_agent(n, t)
  BY <1>3, <1>c, <1>step, HolderKept DEF stream_agent, rowVars
<1>4. CASE mark_task_complete(n, t)
  BY <1>4, <1>c, <1>mark DEF mark_task_complete
<1>5. CASE mark_task_paused(n, t)
  BY <1>5, <1>c, <1>mark DEF mark_task_paused
<1>6. CASE mark_task_failed(n, t)
  BY <1>6, <1>c, <1>mark DEF mark_task_failed
<1>7. CASE publish_terminal(n, t)
  BY <1>7, <1>c, <1>step, HolderKept DEF publish_terminal, Publish, rowVars
<1>8. CASE fail_dependent_tasks(n, t)
  <2>1. \A u \in TaskId : status[u] \notin {"absent", "queued"}
                         => status'[u] \notin {"absent", "queued"}
    BY <1>8, NotQueued DEF fail_dependent_tasks, NoWrite
  <2> QED
    BY <1>8, <1>c, <1>step, <2>1, HolderKept DEF fail_dependent_tasks
<1>9. CASE finish(n, t)
  <2>1. /\ UNCHANGED <<status, worker_id, loop, claimed, boots>>
        /\ coro[n][t] = "ending" /\ coro'[n][t] = "none"
        /\ \A m \in Node, u \in TaskId : (m # n \/ u # t) => coro'[m][u] = coro[m][u]
    BY <1>9 DEF finish, Step, TypeOK, rowVars
  <2> QED
    BY <2>1 DEF HolderInv, SingleRunner, Holds, Live, NodeId
<1> QED
  BY <1>1, <1>2, <1>3, <1>4, <1>5, <1>6, <1>7, <1>8, <1>9 DEF run_task

(* A crash lets go of everything; only then may the node's name change.    *)
LEMMA HolderEnvironment ==
  ASSUME HolderState, Environment
  PROVE  HolderInv'
<1> USE DEF HolderState, rowVars, loopVars, runVars
<1>q. NoTask \notin TaskId
  BY QueueAssumption DEF QueueAssumption
<1>1. ASSUME NEW t \in TaskId, grow_stale(t) PROVE HolderInv'
  BY <1>1, HolderKept DEF grow_stale
<1>2. ASSUME NEW n \in Node, watchdog_interval(n) PROVE HolderInv'
  BY <1>2, HolderKept DEF watchdog_interval
<1>3. ASSUME NEW n \in Node, crash(n) PROVE HolderInv'
  <2>1. /\ loop'[n] = "down" /\ claimed'[n] = NoTask
        /\ \A t \in TaskId : coro'[n][t] = "none"
        /\ \A m \in Node \ {n} : /\ loop'[m] = loop[m] /\ claimed'[m] = claimed[m]
                                 /\ coro'[m] = coro[m]
        /\ UNCHANGED <<status, worker_id, boots>>
    BY <1>3 DEF crash, TypeOK
  <2> QED
    BY <1>q, <2>1 DEF HolderInv, SingleRunner, Holds, Live, NodeId
<1>4. ASSUME NEW n \in Node, restart(n) PROVE HolderInv'
  <2>1. /\ loop[n] = "down" /\ loop'[n] = "startup"
        /\ \A m \in Node \ {n} : loop'[m] = loop[m] /\ boots'[m] = boots[m]
        /\ UNCHANGED <<status, worker_id, claimed, coro>>
    BY <1>4 DEF restart, Goto, TypeOK
  <2>2. \A t \in TaskId : ~Holds(n, t)
    BY <1>q, <2>1 DEF HolderInv, Holds, Live
  <2>3. /\ \A m \in Node, t \in TaskId : Holds(m, t)' <=> Holds(m, t)
        /\ \A m \in Node \ {n} : NodeId(m)' = NodeId(m)
    BY <2>1 DEF Holds, NodeId
  <2>4. SingleRunner'
    BY <2>1, <2>2, <2>3 DEF HolderInv, SingleRunner
  <2> QED
    BY <2>1, <2>3, <2>4 DEF HolderInv, Live
<1> QED
  BY <1>1, <1>2, <1>3, <1>4 DEF Environment

(* The holders are right in every behaviour.                               *)
THEOREM HoldersInvariant == Spec => []HolderInv
<1>1. TypeOK /\ HolderInv /\ [Next]_vars => HolderInv'
  <2> SUFFICES ASSUME HolderState, [Next]_vars PROVE HolderInv'
    BY DEF HolderState
  <2>1. CASE Next
    BY <2>1, HolderRequest, HolderWorker, HolderRun, HolderEnvironment DEF Next
  <2>2. CASE UNCHANGED vars
    BY <2>2, HolderKept DEF vars, rowVars, loopVars, runVars
  <2> QED
    BY <2>1, <2>2
<1> QED
  BY <1>1, HolderInit, TypeCorrect, PTL DEF Spec

(* No task is ever in the hands of two nodes, or twice in those of one,    *)
(* and its row names the node that has it: over any number of nodes,       *)
(* crashes, restarts, lost answers, reaps and deletions.                   *)
THEOREM SingleRunnerInvariant == Spec => []SingleRunner
<1>1. HolderInv => SingleRunner
  BY DEF HolderInv
<1> QED
  BY <1>1, HoldersInvariant, PTL

-----------------------------------------------------------------------------
(* The counter and the slots.                                              *)

(* The sets of coroutines are finite, and a node's coroutines are those    *)
(* that have started and those that have not.                              *)
LEMMA FiniteCoros ==
  \A n \in Node : /\ IsFiniteSet(Live(n))
                  /\ IsFiniteSet(Started(n))
                  /\ Cardinality(Live(n)) \in Nat
                  /\ Cardinality(Started(n)) \in Nat
BY FS_Subset, FS_CardinalityType, QueueAssumption DEF QueueAssumption, Live, Started

LEMMA FiniteCorosNext ==
  \A n \in Node : /\ IsFiniteSet(Live(n)')
                  /\ IsFiniteSet(Started(n)')
                  /\ Cardinality(Live(n)') \in Nat
                  /\ Cardinality(Started(n)') \in Nat
BY FS_Subset, FS_CardinalityType, QueueAssumption DEF QueueAssumption, Live, Started

SlotState == TypeOK /\ HolderInv /\ ActiveCount /\ SlotInv

(* Steps that leave the coroutines and the loop alone keep the counter and *)
(* the slots right.                                                        *)
LEMMA SlotSame ==
  ASSUME SlotState, UNCHANGED <<coro, active, loop, claimed>>
  PROVE  ActiveCount' /\ SlotInv'
BY DEF SlotState, ActiveCount, SlotInv, Live, Unstarted, Started

(* So does an await between the start and the end of a coroutine.          *)
LEMMA SlotBusy ==
  ASSUME SlotState, NEW n \in Node, NEW t \in TaskId,
         NEW from \in CoroStates \ {"none", "created"}, NEW to \in CoroStates \ {"none", "created"},
         Step(n, t, from, to), UNCHANGED <<active, loop, claimed>>
  PROVE  ActiveCount' /\ SlotInv'
<1>1. \A m \in Node : Live(m)' = Live(m) /\ Unstarted(m)' = Unstarted(m)
  BY DEF SlotState, TypeOK, Step, Live, Unstarted
<1>2. \A m \in Node : Started(m)' = Started(m)
  BY <1>1 DEF Started
<1> QED
  BY <1>1, <1>2 DEF SlotState, ActiveCount, SlotInv

(* A coroutine that starts is counted.                                     *)
LEMMA SlotStart ==
  ASSUME SlotState, NEW n \in Node, NEW t \in TaskId, start(n, t)
  PROVE  ActiveCount' /\ SlotInv'
<1> USE DEF SlotState, loopVars
<1>1. \A m \in Node : Live(m)' = Live(m) /\ Unstarted(m)' \subseteq Unstarted(m)
  BY DEF start, TypeOK, Step, Live, Unstarted
<1>2. /\ t \notin Started(n)
      /\ Started(n)' = Started(n) \cup {t}
      /\ \A m \in Node \ {n} : Started(m)' = Started(m)
  BY DEF start, TypeOK, Step, Live, Unstarted, Started
<1>3. Cardinality(Started(n)') = Cardinality(Started(n)) + 1
  BY <1>2, FS_AddElement, FiniteCoros
<1>4. ActiveCount'
  BY <1>2, <1>3 DEF ActiveCount, start, TypeOK
<1>5. SlotInv'
  BY <1>1 DEF SlotInv, start
<1> QED
  BY <1>4, <1>5

(* A coroutine that ends is no longer counted.                             *)
LEMMA SlotFinish ==
  ASSUME SlotState, NEW n \in Node, NEW t \in TaskId, finish(n, t)
  PROVE  ActiveCount' /\ SlotInv'
<1> USE DEF SlotState, loopVars
<1>1. /\ Live(n)' = Live(n) \ {t}
      /\ t \in Live(n) /\ t \in Started(n)
      /\ Started(n)' = Started(n) \ {t}
      /\ \A m \in Node : Unstarted(m)' = Unstarted(m)
      /\ \A m \in Node \ {n} : Started(m)' = Started(m) /\ Live(m)' = Live(m)
  BY DEF finish, TypeOK, Step, Live, Unstarted, Started
<1>2. /\ Cardinality(Started(n)') = Cardinality(Started(n)) - 1
      /\ Cardinality(Live(n)') = Cardinality(Live(n)) - 1
  BY <1>1, FS_RemoveElement, FiniteCoros
<1>3. ActiveCount'
  BY <1>1, <1>2, FiniteCoros DEF ActiveCount, finish, TypeOK
<1>4. SlotInv'
  <2>1. ASSUME NEW m \in Node PROVE Cardinality(Live(m)') <= Cardinality(Live(m))
    <3>1. Cardinality(Live(m)) \in Nat /\ Cardinality(Live(n)) \in Nat
      BY FiniteCoros
    <3>2. CASE m = n
      BY <1>2, <3>1, <3>2
    <3>3. CASE m # n
      BY <1>1, <3>1, <3>3
    <3> QED
      BY <3>2, <3>3
  <2>2. \A m \in Node : Unstarted(m)' = Unstarted(m)
    BY <1>1
  <2>3. \A m \in Node : Cardinality(Live(m)') \in Nat /\ Cardinality(Live(m)) \in Nat
    BY FiniteCoros, FiniteCorosNext
  <2> QED
    BY <2>1, <2>2, <2>3, QueueAssumption DEF SlotInv, finish, QueueAssumption
<1> QED
  BY <1>3, <1>4

(* The rounds of the loop: a claim is only awaited while at most           *)
(* WORKER_CONCURRENCY coroutines exist, one of them perhaps not started.   *)
LEMMA SlotWorker ==
  ASSUME SlotState, NEW n \in Node, task_worker(n)
  PROVE  ActiveCount' /\ SlotInv'
<1> USE DEF SlotState, loopVars, runVars
<1>q. WORKER_CONCURRENCY \in Nat \ {0} /\ NoTask \notin TaskId
  BY QueueAssumption DEF QueueAssumption
<1>same. ASSUME UNCHANGED <<coro, active>>
         PROVE  /\ ActiveCount'
                /\ \A m \in Node : Live(m)' = Live(m) /\ Unstarted(m)' = Unstarted(m)
  BY <1>same DEF ActiveCount, Live, Unstarted, Started
<1>move. ASSUME NEW from, NEW to \in {"check", "beat"}, Goto(n, from, to), from # "launch",
                UNCHANGED <<coro, active, claimed>>
         PROVE  SlotInv'
  <2>1. /\ loop'[n] = to /\ loop[n] = from
        /\ \A m \in Node \ {n} : loop'[m] = loop[m]
    BY <1>move DEF Goto, TypeOK
  <2> QED
    BY <1>move, <1>same, <2>1 DEF SlotInv
<1>1. CASE reap_stale_running_tasks(n)
  BY <1>1, <1>same, <1>move DEF reap_stale_running_tasks
<1>2. CASE check_slots(n)
  <2>1. CASE active[n] < WORKER_CONCURRENCY
    <3>1. /\ loop'[n] = "claim" /\ loop[n] = "check"
          /\ \A m \in Node \ {n} : loop'[m] = loop[m]
      BY <1>2, <2>1 DEF check_slots, Goto, TypeOK
    <3>2. Cardinality(Live(n)) <= WORKER_CONCURRENCY
      <4>1. Cardinality(Started(n)) <= WORKER_CONCURRENCY - 1
        BY <1>q, <2>1, FiniteCoros DEF ActiveCount
      <4>2. CASE Unstarted(n) = {}
        BY <1>q, <4>1, <4>2, FiniteCoros DEF Started
      <4>3. CASE Unstarted(n) # {}
        <5>1. PICK u : u \in Unstarted(n)
          BY <4>3
        <5>2. Live(n) = Started(n) \cup {u} /\ u \notin Started(n)
          BY <5>1 DEF SlotInv, Started, Live, Unstarted
        <5>3. Cardinality(Live(n)) = Cardinality(Started(n)) + 1
          BY <5>2, FS_AddElement, FiniteCoros
        <5> QED
          BY <1>q, <4>1, <5>3, FiniteCoros
      <4> QED
        BY <4>2, <4>3
    <3>3. SlotInv'
      BY <1>2, <1>same, <3>1, <3>2 DEF check_slots, SlotInv
    <3> QED
      BY <1>2, <1>same, <3>3 DEF check_slots
  <2>2. CASE ~(active[n] < WORKER_CONCURRENCY)
    BY <1>2, <1>same, <1>move, <2>2 DEF check_slots
  <2> QED
    BY <2>1, <2>2
<1>3. CASE claim_next_queued_task(n)
  <2>1. ASSUME NEW t \in TaskId, Goto(n, "claim", "launch"),
               claimed' = [claimed EXCEPT ![n] = t]
        PROVE  SlotInv'
    <3>1. /\ loop'[n] = "launch" /\ loop[n] = "claim" /\ claimed'[n] # NoTask
          /\ \A m \in Node \ {n} : loop'[m] = loop[m] /\ claimed'[m] = claimed[m]
      BY <1>q, <2>1 DEF Goto, TypeOK
    <3>2. Unstarted(n) = {} /\ UNCHANGED <<coro, active>>
      BY <1>3 DEF claim_next_queued_task
    <3> QED
      BY <1>same, <3>1, <3>2 DEF SlotInv
  <2>2. UNCHANGED <<coro, active>>
    BY <1>3 DEF claim_next_queued_task
  <2>3. SlotInv'
    BY <1>3, <1>move, <2>1, <2>2 DEF claim_next_queued_task
  <2> QED
    BY <1>same, <2>2, <2>3
<1>4. CASE launch(n)
  <2> DEFINE t == claimed[n]
  <2>1. /\ loop[n] = "launch" /\ loop'[n] = "beat" /\ t \in TaskId /\ claimed'[n] = NoTask
        /\ \A m \in Node \ {n} : loop'[m] = loop[m] /\ claimed'[m] = claimed[m]
    BY <1>4 DEF launch, Goto, TypeOK, HolderInv
  <2>2. coro[n][t] = "none"
    BY <2>1 DEF HolderInv, SingleRunner, Holds
  <2>3. /\ Live(n)' = Live(n) \cup {t} /\ t \notin Live(n)
        /\ Unstarted(n)' = Unstarted(n) \cup {t}
        /\ Started(n)' = Started(n)
        /\ \A m \in Node \ {n} :
              Live(m)' = Live(m) /\ Unstarted(m)' = Unstarted(m) /\ Started(m)' = Started(m)
    BY <1>4, <2>1, <2>2 DEF launch, TypeOK, Live, Unstarted, Started
  <2>4. ActiveCount'
    BY <1>4, <2>3 DEF launch, ActiveCount
  <2>5. Unstarted(n)' = {t}
    BY <2>1, <2>3 DEF SlotInv
  <2>6. Cardinality(Live(n)') = Cardinality(Live(n)) + 1
    BY <2>3, FS_AddElement, FiniteCoros
  <2>7. Cardinality(Live(n)') <= WORKER_CONCURRENCY + 1
    BY <1>q, <2>1, <2>6, FiniteCoros DEF SlotInv
  <2>8. SlotInv'
    BY <2>1, <2>3, <2>5, <2>7 DEF SlotInv
  <2> QED
    BY <2>4, <2>8
<1>5. CASE lose_claim(n)
  <2>1. /\ loop'[n] = "check" /\ claimed'[n] = NoTask
        /\ \A m \in Node \ {n} : loop'[m] = loop[m] /\ claimed'[m] = claimed[m]
        /\ UNCHANGED <<coro, active>>
    BY <1>5 DEF lose_claim, Goto, TypeOK
  <2> QED
    BY <1>same, <2>1 DEF SlotInv
<1>6. CASE skip_watchdog(n)
  BY <1>6, <1>same, <1>move DEF skip_watchdog
<1>7. CASE reap_stuck_tasks(n)
  BY <1>7, <1>same, <1>move DEF reap_stuck_tasks
<1> QED
  BY <1>1, <1>2, <1>3, <1>4, <1>5, <1>6, <1>7 DEF task_worker

(* A crash ends the coroutines and resets the counter; a restart finds     *)
(* none.                                                                   *)
LEMMA SlotEnvironment ==
  ASSUME SlotState, Environment
  PROVE  ActiveCount' /\ SlotInv'
<1> USE DEF SlotState, loopVars, runVars
<1>1. ASSUME NEW t \in TaskId, grow_stale(t) PROVE ActiveCount' /\ SlotInv'
  BY <1>1, SlotSame DEF grow_stale
<1>2. ASSUME NEW n \in Node, watchdog_interval(n) PROVE ActiveCount' /\ SlotInv'
  BY <1>2, SlotSame DEF watchdog_interval
<1>3. ASSUME NEW n \in Node, crash(n) PROVE ActiveCount' /\ SlotInv'
  <2>1. /\ loop'[n] = "down" /\ active'[n] = 0
        /\ Live(n)' = {} /\ Unstarted(n)' = {} /\ Started(n)' = {}
        /\ \A m \in Node \ {n} :
              /\ loop'[m] = loop[m] /\ active'[m] = active[m]
              /\ Live(m)' = Live(m) /\ Unstarted(m)' = Unstarted(m) /\ Started(m)' = Started(m)
    BY <1>3 DEF crash, TypeOK, Live, Unstarted, Started
  <2>2. Cardinality({}) = 0 /\ 0 <= WORKER_CONCURRENCY + 1
    BY FS_EmptySet, QueueAssumption DEF QueueAssumption
  <2> QED
    BY <2>1, <2>2 DEF ActiveCount, SlotInv
<1>4. ASSUME NEW n \in Node, restart(n) PROVE ActiveCount' /\ SlotInv'
  <2>1. /\ loop'[n] = "startup"
        /\ \A m \in Node \ {n} : loop'[m] = loop[m]
        /\ UNCHANGED <<coro, active>>
    BY <1>4 DEF restart, Goto, TypeOK
  <2>2. \A m \in Node : /\ Live(m)' = Live(m) /\ Unstarted(m)' = Unstarted(m)
                        /\ Started(m)' = Started(m)
    BY <2>1 DEF Live, Unstarted, Started
  <2> QED
    BY <2>1, <2>2 DEF ActiveCount, SlotInv
<1> QED
  BY <1>1, <1>2, <1>3, <1>4 DEF Environment

(* Requests do not touch the coroutines.                                   *)
LEMMA SlotRequest ==
  ASSUME SlotState, Request
  PROVE  ActiveCount' /\ SlotInv'
<1>1. UNCHANGED <<coro, active, loop, claimed>>
  BY DEF Request, create_task, retry_task, cancel_tasks, bulk_delete_tasks,
         run_db_maintenance, delete_rows, update_tags, loopVars, runVars
<1> QED
  BY <1>1, SlotSame

(* The awaits of a coroutine.                                              *)
LEMMA SlotRun ==
  ASSUME SlotState, NEW n \in Node, NEW t \in TaskId, run_task(n, t)
  PROVE  ActiveCount' /\ SlotInv'
<1> USE DEF loopVars
<1>1. CASE start(n, t)
  BY <1>1, SlotStart
<1>2. CASE finish(n, t)
  BY <1>2, SlotFinish
<1>3. CASE ~start(n, t) /\ ~finish(n, t)
  <2>1. \E from, to \in CoroStates \ {"none", "created"} : Step(n, t, from, to)
    BY <1>3 DEF run_task, mark_task_running, mark_task_complete, mark_task_paused,
                mark_task_failed, Mark, stream_agent, publish_terminal, Publish,
                fail_dependent_tasks, CoroStates
  <2>2. UNCHANGED <<active, loop, claimed>>
    BY <1>3 DEF run_task, mark_task_running, mark_task_complete, mark_task_paused,
                mark_task_failed, Mark, stream_agent, publish_terminal, Publish,
                fail_dependent_tasks
  <2> QED
    BY <2>1, <2>2, SlotBusy
<1> QED
  BY <1>1, <1>2, <1>3

(* The counter and the slots are right in every behaviour.                 *)
LEMMA SlotInvariant == Spec => [](ActiveCount /\ SlotInv)
<1>1. Init => ActiveCount /\ SlotInv
  <2> SUFFICES ASSUME Init PROVE ActiveCount /\ SlotInv
    OBVIOUS
  <2>1. \A n \in Node : /\ Live(n) = {} /\ Unstarted(n) = {} /\ Started(n) = {}
                        /\ active[n] = 0 /\ loop[n] = "startup"
    BY DEF Init, Live, Unstarted, Started
  <2>2. Cardinality({}) = 0 /\ 0 <= WORKER_CONCURRENCY + 1
    BY FS_EmptySet, QueueAssumption DEF QueueAssumption
  <2> QED
    BY <2>1, <2>2 DEF ActiveCount, SlotInv
<1>2. TypeOK /\ HolderInv /\ ActiveCount /\ SlotInv /\ [Next]_vars
         => ActiveCount' /\ SlotInv'
  <2> SUFFICES ASSUME SlotState, [Next]_vars PROVE ActiveCount' /\ SlotInv'
    BY DEF SlotState
  <2>1. CASE Next
    BY <2>1, SlotRequest, SlotWorker, SlotRun, SlotEnvironment DEF Next
  <2>2. CASE UNCHANGED vars
    BY <2>2, SlotSame DEF vars, rowVars, loopVars, runVars
  <2> QED
    BY <2>1, <2>2
<1> QED
  BY <1>1, <1>2, TypeCorrect, HoldersInvariant, PTL DEF Spec

(* _active_tasks counts the started coroutines of its process, whatever    *)
(* way each of them ended.                                                 *)
THEOREM ActiveCountInvariant == Spec => []ActiveCount
BY SlotInvariant, PTL

(* A node never holds more than WORKER_CONCURRENCY + 1 tasks, for every    *)
(* value of WORKER_CONCURRENCY, although the counter is tested before an   *)
(* await and incremented after it.                                         *)
THEOREM SlotBoundInvariant == Spec => []SlotBound
<1>1. TypeOK /\ HolderInv /\ SlotInv => SlotBound
  <2> SUFFICES ASSUME TypeOK, HolderInv, SlotInv, NEW n \in Node
               PROVE  Cardinality({t \in TaskId : Holds(n, t)}) <= WORKER_CONCURRENCY + 1
    BY DEF SlotBound
  <2>q. WORKER_CONCURRENCY \in Nat /\ NoTask \notin TaskId
    BY QueueAssumption DEF QueueAssumption
  <2>1. CASE claimed[n] = NoTask
    <3>1. {t \in TaskId : Holds(n, t)} = Live(n)
      BY <2>q, <2>1 DEF Holds, Live
    <3> QED
      BY <3>1 DEF SlotInv
  <2>2. CASE claimed[n] # NoTask
    <3>1. {t \in TaskId : Holds(n, t)} = Live(n) \cup {claimed[n]}
      BY <2>2 DEF TypeOK, Holds, Live
    <3>2. Cardinality(Live(n)) <= WORKER_CONCURRENCY
      BY <2>2 DEF HolderInv, SlotInv
    <3>3. Cardinality(Live(n) \cup {claimed[n]}) <= Cardinality(Live(n)) + 1
      <4>1. /\ IsFiniteSet(Live(n))
            /\ Cardinality(Live(n)) \in Nat
        BY FiniteCoros
      <4>2. Cardinality(Live(n) \cup {claimed[n]})
              = IF claimed[n] \in Live(n) THEN Cardinality(Live(n)) ELSE Cardinality(Live(n)) + 1
        BY <4>1, FS_AddElement
      <4> QED
        BY <4>1, <4>2
    <3>4. Cardinality(Live(n)) \in Nat
      BY FiniteCoros
    <3>5. Cardinality(Live(n) \cup {claimed[n]}) \in Nat
      <4>1. IsFiniteSet(Live(n) \cup {claimed[n]})
        BY FS_AddElement, FiniteCoros
      <4> QED
        BY <4>1, FS_CardinalityType
    <3> QED
      BY <2>q, <3>1, <3>2, <3>3, <3>4, <3>5
  <2> QED
    BY <2>1, <2>2
<1> QED
  BY <1>1, TypeCorrect, HoldersInvariant, SlotInvariant, PTL
-----------------------------------------------------------------------------
(* What is published, and what a completed row means for its dependents.   *)

Working == {"created", "mark_running", "agent", "mark_complete", "mark_paused", "mark_failed"}
Publishing == {"publish_complete", "publish_paused", "publish_failed"}
Over == {"fail_dependents", "ending", "none"}

(* What makes EventAgreesWithRow inductive: nothing is published of a row  *)
(* that runs or is still worked on, and a coroutine about to publish has   *)
(* written the row.                                                        *)
EventInv ==
  /\ \A t \in TaskId : status[t] \in {"absent", "queued", "running"} => published[t] = {}
  /\ \A n \in Node, t \in TaskId :
        /\ claimed[n] = t \/ coro[n][t] \in Working \cup Publishing => published[t] = {}
        /\ coro[n][t] = "publish_complete" => status[t] \in {"complete", "deleted"}
        /\ coro[n][t] = "publish_paused" => status[t] \in {"paused", "deleted"}
        /\ coro[n][t] = "publish_failed" => status[t] \in {"failed", "deleted"}
  /\ EventAgreesWithRow

(* What makes NoOrphan and DependencyComplete inductive: without a failed  *)
(* statement a row runs exactly while its coroutine works, completes once, *)
(* and a dependency is complete for as long as its dependent is held.      *)
OrderInv ==
  faults = 0 =>
    /\ \A n \in Node, t \in TaskId :
          /\ status[t] = "running" /\ worker_id[t] = NodeId(n)
               /\ loop[n] \notin {"down", "startup"} => Holds(n, t)
          /\ coro[n][t] \in Publishing \cup {"fail_dependents", "ending"} => status[t] # "running"
          /\ claimed[n] = t \/ coro[n][t] \in Working => status[t] # "complete"
          /\ Holds(n, t) /\ depends_on[t] # NoTask => status[depends_on[t]] = "complete"
    /\ DependencyComplete

HistoryState == TypeOK /\ HolderInv /\ EventInv /\ OrderInv

LEMMA HistoryInit == Init => EventInv /\ OrderInv
BY QueueAssumption
   DEF QueueAssumption, Init, EventInv, OrderInv, EventAgreesWithRow, DependencyComplete,
       Holds, Working, Publishing

(* Steps that publish nothing, and end a status only where nothing has     *)
(* been published.                                                         *)
LEMMA EventKept ==
  ASSUME HistoryState, UNCHANGED published,
         \A t \in TaskId : \/ status'[t] = status[t]
                           \/ status'[t] = "deleted"
                           \/ status[t] \in {"absent", "queued", "running"},
         \A n \in Node, t \in TaskId :
            /\ claimed'[n] = t => claimed[n] = t \/ status[t] = "queued"
            /\ \/ coro'[n][t] = coro[n][t]
               \/ coro'[n][t] \in Over
               \/ coro'[n][t] \in Working /\ (claimed[n] = t \/ coro[n][t] \in Working)
  PROVE  EventInv'
<1> USE DEF HistoryState, EventInv, Working, Publishing, Over
<1>1. ASSUME NEW t \in TaskId, status'[t] \in {"absent", "queued", "running"}
      PROVE  published'[t] = {}
  BY <1>1
<1>2. ASSUME NEW n \in Node, NEW t \in TaskId
      PROVE  /\ claimed'[n] = t \/ coro'[n][t] \in Working \cup Publishing => published'[t] = {}
             /\ coro'[n][t] = "publish_complete" => status'[t] \in {"complete", "deleted"}
             /\ coro'[n][t] = "publish_paused" => status'[t] \in {"paused", "deleted"}
             /\ coro'[n][t] = "publish_failed" => status'[t] \in {"failed", "deleted"}
  BY <1>2
<1>3. EventAgreesWithRow'
  BY DEF EventAgreesWithRow
<1> QED
  BY <1>1, <1>2, <1>3

(* Steps that complete no row, claim nothing, move no coroutine and touch  *)
(* no dependency.                                                          *)
LEMMA OrderKept ==
  ASSUME HistoryState, UNCHANGED <<depends_on, worker_id, claimed, coro, boots>>,
         faults' = 0 => faults = 0,
         \A t \in TaskId : \/ status'[t] = status[t]
                           \/ status[t] # "complete"
                              /\ status'[t] \in {"queued", "cancelled", "failed"},
         \A n \in Node : loop'[n] \notin {"down", "startup"} =>
            \/ loop[n] \notin {"down", "startup"}
            \/ faults' = 0 => \A t \in TaskId : worker_id[t] = NodeId(n) => status'[t] # "running"
  PROVE  OrderInv'
<1> USE DEF HistoryState, OrderInv
<1> SUFFICES ASSUME faults' = 0, faults = 0 PROVE OrderInv'
  OBVIOUS
<1>1. ASSUME NEW n \in Node PROVE NodeId(n)' = NodeId(n) /\ \A t \in TaskId : Holds(n, t)' = Holds(n, t)
  BY DEF NodeId, Holds
<1>2. \A t \in TaskId : /\ status'[t] \in {"running", "paused"} => status'[t] = status[t]
                        /\ status'[t] = "complete" <=> status[t] = "complete"
  OBVIOUS
<1>3. ASSUME NEW n \in Node, NEW t \in TaskId, status'[t] = "running",
             worker_id'[t] = NodeId(n)', loop'[n] \notin {"down", "startup"}
      PROVE  Holds(n, t)'
  BY <1>1, <1>2, <1>3
<1>4. ASSUME NEW n \in Node, NEW t \in TaskId
      PROVE  /\ coro'[n][t] \in Publishing \cup {"fail_dependents", "ending"} => status'[t] # "running"
             /\ claimed'[n] = t \/ coro'[n][t] \in Working => status'[t] # "complete"
  BY <1>2
<1>5. ASSUME NEW n \in Node, NEW t \in TaskId, Holds(n, t)', depends_on'[t] # NoTask
      PROVE  status'[depends_on'[t]] = "complete"
  BY <1>1, <1>2, <1>5 DEF TypeOK
<1>6. ASSUME NEW t \in TaskId, status'[t] \in {"running", "complete", "paused"}, depends_on'[t] # NoTask
      PROVE  status'[depends_on'[t]] = "complete"
  <2>1. status[t] \in {"running", "complete", "paused"} /\ depends_on[t] # NoTask
    BY <1>2, <1>6
  <2>2. status[depends_on[t]] = "complete"
    BY <2>1 DEF DependencyComplete
  <2>3. depends_on[t] \in TaskId
    BY <2>1 DEF TypeOK
  <2> QED
    BY <1>2, <2>2, <2>3
<1>7. DependencyComplete'
  BY <1>6 DEF DependencyComplete
<1> QED
  BY <1>7, <1>3, <1>4, <1>5, <1>6 DEF Working, Publishing

(* What an UPDATE leaves in the rows.                                      *)
LEMMA Written ==
  ASSUME NEW S, NEW s, SetStatus(S, s)
  PROVE  \A t \in TaskId : status'[t] = IF t \in S THEN s ELSE status[t]
BY DEF SetStatus

(* Requests touch no coroutine, and complete and start nothing.            *)
LEMMA HistoryRequest == HistoryState /\ Request => EventInv' /\ OrderInv'
<1> SUFFICES ASSUME HistoryState, Request PROVE EventInv' /\ OrderInv'
  OBVIOUS
<1> USE DEF HistoryState, rowVars, loopVars, runVars, envVars
<1>1. ASSUME NEW t \in TaskId, NEW dep \in TaskId \cup {NoTask}, create_task(t, dep)
      PROVE  EventInv' /\ OrderInv'
  <2>1. /\ status[t] = "absent" /\ status'[t] = "queued"
        /\ \A u \in TaskId \ {t} : status'[u] = status[u] /\ depends_on'[u] = depends_on[u]
        /\ UNCHANGED <<worker_id, loop, claimed, boots, coro, published, faults>>
    BY <1>1 DEF create_task, TypeOK
  <2>2. EventInv'
    BY <2>1, EventKept
  <2>3. \A n \in Node : ~Holds(n, t)
    BY <2>1 DEF HolderInv
  <2>4. \A n \in Node, u \in TaskId : Holds(n, u)' = Holds(n, u) /\ NodeId(n)' = NodeId(n)
    BY <2>1 DEF Holds, NodeId
  <2>5. OrderInv'
    <3> SUFFICES ASSUME faults' = 0, faults = 0 PROVE OrderInv'
      BY <2>1 DEF OrderInv
    <3>1. \A u \in TaskId : u # t => depends_on[u] \in TaskId \cup {NoTask}
      BY DEF TypeOK
    <3>2. \A u \in TaskId : status[u] = "complete" => status'[u] = "complete" /\ u # t
      BY <2>1
    <3>3. ASSUME NEW n \in Node, NEW u \in TaskId
          PROVE  /\ status'[u] = "running" /\ worker_id'[u] = NodeId(n)'
                      /\ loop'[n] \notin {"down", "startup"} => Holds(n, u)'
                 /\ coro'[n][u] \in Publishing \cup {"fail_dependents", "ending"} => status'[u] # "running"
                 /\ claimed'[n] = u \/ coro'[n][u] \in Working => status'[u] # "complete"
      BY <2>1, <2>4 DEF OrderInv
    <3>4. ASSUME NEW n \in Node, NEW u \in TaskId, Holds(n, u)', depends_on'[u] # NoTask
          PROVE  status'[depends_on'[u]] = "complete"
      BY <2>1, <2>3, <2>4, <3>1, <3>2, <3>4 DEF OrderInv
    <3>5. DependencyComplete'
      BY <2>1, <3>1, <3>2 DEF OrderInv, DependencyComplete
    <3> QED
      BY <3>3, <3>4, <3>5 DEF OrderInv
  <2> QED
    BY <2>2, <2>5
<1>2. ASSUME NEW S \in SUBSET TaskId, cancel_tasks(S) PROVE EventInv' /\ OrderInv'
  <2>1. \A t \in TaskId : \/ status'[t] = status[t]
                          \/ status[t] = "queued" /\ status'[t] = "cancelled"
    <3> DEFINE Q == {t \in S : status[t] = "queued"}
    <3>1. SetStatus(Q, "cancelled")
      BY <1>2 DEF cancel_tasks
    <3>2. \A t \in TaskId : status'[t] = IF t \in Q THEN "cancelled" ELSE status[t]
      BY <3>1, Written
    <3> QED
      BY <3>2
  <2> QED
    BY <1>2, <2>1, EventKept, OrderKept DEF cancel_tasks
<1>3. ASSUME NEW S \in SUBSET TaskId, delete_rows(S) PROVE EventInv' /\ OrderInv'
  <2>1. /\ \A t \in TaskId : status'[t] = IF t \in S THEN "deleted" ELSE status[t]
        /\ \A t \in TaskId : depends_on'[t] # NoTask =>
              t \notin S /\ depends_on[t] \notin S /\ depends_on'[t] = depends_on[t]
        /\ UNCHANGED <<worker_id, loop, claimed, boots, coro, published, faults>>
    BY <1>3 DEF delete_rows, SetStatus
  <2>2. EventInv'
    BY <2>1, EventKept
  <2>3. \A n \in Node, u \in TaskId : Holds(n, u)' = Holds(n, u) /\ NodeId(n)' = NodeId(n)
    BY <2>1 DEF Holds, NodeId
  <2>4. OrderInv'
    BY <2>1, <2>3 DEF OrderInv, DependencyComplete, TypeOK
  <2> QED
    BY <2>2, <2>4
<1>4. ASSUME NEW t \in TaskId, update_tags(t) PROVE EventInv' /\ OrderInv'
  BY <1>4, EventKept, OrderKept DEF update_tags
<1> QED
  BY <1>1, <1>2, <1>3, <1>4 DEF Request, retry_task, bulk_delete_tasks, run_db_maintenance

(* A round of the loop starts what is claimable, and fails what nobody     *)
(* holds or what has been stuck.                                           *)
LEMMA HistoryWorker == ASSUME HistoryState, NEW n \in Node, task_worker(n)
                       PROVE  EventInv' /\ OrderInv'
<1> USE DEF HistoryState, loopVars, runVars, envVars, rowVars
<1>q. NoTask \notin TaskId
  BY QueueAssumption DEF QueueAssumption
<1>goto. ASSUME NEW from, NEW to, Goto(n, from, to)
         PROVE  loop[n] = from /\ loop'[n] = to /\ \A m \in Node \ {n} : loop'[m] = loop[m]
  BY <1>goto DEF Goto, TypeOK
<1>1. CASE reap_stale_running_tasks(n)
  <2>1. \A t \in TaskId : \/ status'[t] = status[t]
                          \/ status[t] = "running" /\ status'[t] = "failed"
    <3>1. CASE SetStatus(Orphans(n), "failed")
      <4>1. \A t \in TaskId : status'[t] = IF t \in Orphans(n) THEN "failed" ELSE status[t]
        BY <3>1, Written
      <4> QED
        BY <4>1 DEF Orphans
    <3> QED
      BY <1>1, <3>1 DEF reap_stale_running_tasks, NoWrite
  <2>2. faults' = 0 => /\ faults = 0
                       /\ \A t \in TaskId : worker_id[t] = NodeId(n) => status'[t] # "running"
    <3>1. CASE SetStatus(Orphans(n), "failed") /\ UNCHANGED faults
      BY <3>1, Written DEF Orphans
    <3>2. CASE Fault
      BY <3>2 DEF Fault, TypeOK
    <3> QED
      BY <1>1, <3>1, <3>2 DEF reap_stale_running_tasks
  <2>3. \A m \in Node : loop'[m] \notin {"down", "startup"} => m = n \/ loop[m] = loop'[m]
    BY <1>1, <1>goto DEF reap_stale_running_tasks
  <2> QED
    BY <1>1, <2>1, <2>2, <2>3, EventKept, OrderKept DEF reap_stale_running_tasks
<1>2. CASE check_slots(n)
  BY <1>2, <1>goto, EventKept, OrderKept DEF check_slots
<1>3. CASE claim_next_queued_task(n)
  <2>1. ASSUME NEW t \in TaskId, First(t), Goto(n, "claim", "launch"),
               claimed' = [claimed EXCEPT ![n] = t], SetStatus({t}, "running"),
               worker_id' = [worker_id EXCEPT ![t] = NodeId(n)], UNCHANGED faults
        PROVE  EventInv' /\ OrderInv'
    <3>1. /\ status[t] = "queued" /\ status'[t] = "running"
          /\ depends_on[t] # NoTask => status[depends_on[t]] = "complete"
          /\ \A u \in TaskId \ {t} : status'[u] = status[u] /\ worker_id'[u] = worker_id[u]
          /\ worker_id'[t] = NodeId(n)
      BY <2>1 DEF First, Claimable, SetStatus, TypeOK
    <3>2. /\ claimed'[n] = t /\ loop[n] = "claim" /\ loop'[n] = "launch"
          /\ \A m \in Node \ {n} : claimed'[m] = claimed[m] /\ loop'[m] = loop[m]
          /\ UNCHANGED <<coro, published, depends_on, boots, faults>>
      BY <1>3, <1>goto, <2>1 DEF claim_next_queued_task, TypeOK
    <3>3. /\ \A m \in Node : ~Holds(m, t)
          /\ claimed[n] = NoTask
      BY <1>q, <3>1, <3>2 DEF HolderInv, TypeOK
    <3>4. /\ \A m \in Node : NodeId(m)' = NodeId(m) /\ (m # n => NodeId(m) # NodeId(n))
          /\ Holds(n, t)'
          /\ \A m \in Node, u \in TaskId : u # t => Holds(m, u)' = Holds(m, u)
          /\ \A m \in Node \ {n} : Holds(m, t)' = Holds(m, t)
      BY <1>q, <3>2, <3>3 DEF Holds, NodeId
    <3>5. EventInv'
      BY <3>1, <3>2, EventKept DEF TypeOK
    <3>6. OrderInv'
      <4> SUFFICES ASSUME faults' = 0, faults = 0 PROVE OrderInv'
        BY <3>2 DEF OrderInv
      <4>1. ASSUME NEW m \in Node, NEW u \in TaskId
            PROVE  /\ status'[u] = "running" /\ worker_id'[u] = NodeId(m)'
                        /\ loop'[m] \notin {"down", "startup"} => Holds(m, u)'
                   /\ Holds(m, u)' /\ depends_on'[u] # NoTask => status'[depends_on'[u]] = "complete"
        <5>1. depends_on[u] \in TaskId \cup {NoTask}
          BY DEF TypeOK
        <5>2. CASE u = t
          BY <3>1, <3>2, <3>3, <3>4, <5>1, <5>2
        <5>3. CASE u # t
          BY <3>1, <3>2, <3>4, <5>1, <5>3 DEF OrderInv
        <5> QED
          BY <5>2, <5>3
      <4>2. ASSUME NEW m \in Node, NEW u \in TaskId
            PROVE  /\ coro'[m][u] \in Publishing \cup {"fail_dependents", "ending"} => status'[u] # "running"
                   /\ claimed'[m] = u \/ coro'[m][u] \in Working => status'[u] # "complete"
        BY <3>1, <3>2, <3>3 DEF OrderInv, Holds, Publishing, Working
      <4>3. DependencyComplete'
        BY <3>1, <3>2 DEF OrderInv, DependencyComplete, TypeOK
      <4> QED
        BY <4>1, <4>2, <4>3 DEF OrderInv
    <3> QED
      BY <3>5, <3>6
  <2>2. CASE Goto(n, "claim", "beat") /\ UNCHANGED <<status, stale, worker_id, claimed, faults>>
    BY <1>3, <1>goto, <2>2, EventKept, OrderKept DEF claim_next_queued_task
  <2>3. CASE Fault /\ Goto(n, "claim", "check") /\ UNCHANGED <<status, stale, worker_id, claimed>>
    <3>1. faults' # 0
      BY <2>3 DEF Fault, TypeOK
    <3> QED
      BY <1>3, <2>3, <3>1, EventKept DEF claim_next_queued_task, OrderInv
  <2> QED
    BY <1>3, <2>1, <2>2, <2>3 DEF claim_next_queued_task
<1>4. CASE launch(n)
  <2> DEFINE t == claimed[n]
  <2>1. /\ t \in TaskId /\ coro[n][t] = "none"
        /\ loop[n] = "launch" /\ loop'[n] = "beat"
        /\ \A m \in Node \ {n} : loop'[m] = loop[m] /\ claimed'[m] = claimed[m]
        /\ claimed'[n] = NoTask /\ coro'[n][t] = "created"
        /\ \A m \in Node, u \in TaskId : m # n \/ u # t => coro'[m][u] = coro[m][u]
        /\ UNCHANGED <<status, depends_on, worker_id, published, boots, faults>>
    BY <1>4, <1>goto DEF launch, HolderInv, SingleRunner, Holds, TypeOK
  <2>2. EventInv'
    BY <1>q, <2>1, EventKept DEF Working
  <2>3. /\ \A m \in Node, u \in TaskId : Holds(m, u)' = Holds(m, u)
        /\ \A m \in Node : NodeId(m)' = NodeId(m)
    BY <1>q, <2>1 DEF Holds, NodeId
  <2>4. OrderInv'
    BY <1>q, <2>1, <2>3 DEF OrderInv, DependencyComplete, Publishing, Working
  <2> QED
    BY <2>2, <2>4
<1>5. CASE lose_claim(n)
  <2>1. faults' # 0
    BY <1>5 DEF lose_claim, Fault, TypeOK
  <2>2. \A m \in Node, t \in TaskId : claimed'[m] = t => claimed[m] = t
    BY <1>5, <1>q DEF lose_claim, TypeOK
  <2> QED
    BY <1>5, <2>1, <2>2, EventKept DEF lose_claim, OrderInv
<1>6. CASE skip_watchdog(n)
  BY <1>6, <1>goto, EventKept, OrderKept DEF skip_watchdog
<1>7. CASE reap_stuck_tasks(n)
  <2>1. \A t \in TaskId : \/ status'[t] = status[t]
                          \/ status[t] = "running" /\ status'[t] = "failed"
    <3>1. CASE SetStatus(Stuck, "failed")
      <4>1. \A t \in TaskId : status'[t] = IF t \in Stuck THEN "failed" ELSE status[t]
        BY <3>1, Written
      <4> QED
        BY <4>1 DEF Stuck
    <3> QED
      BY <1>7, <3>1 DEF reap_stuck_tasks, NoWrite
  <2>2. faults' = 0 => faults = 0
    BY <1>7 DEF reap_stuck_tasks, Fault, TypeOK
  <2> QED
    BY <1>7, <1>goto, <2>1, <2>2, EventKept, OrderKept DEF reap_stuck_tasks
<1> QED
  BY <1>1, <1>2, <1>3, <1>4, <1>5, <1>6, <1>7 DEF task_worker

(* A coroutine publishes what it has written, and completes a row once.    *)
LEMMA HistoryRun == ASSUME HistoryState, NEW n \in Node, NEW t \in TaskId, run_task(n, t)
                    PROVE  EventInv' /\ OrderInv'
<1> USE DEF HistoryState
<1>step. ASSUME NEW from, NEW to, Step(n, t, from, to)
         PROVE  /\ coro[n][t] = from /\ coro'[n][t] = to
                /\ \A m \in Node, u \in TaskId : m # n \/ u # t => coro'[m][u] = coro[m][u]
  BY <1>step DEF Step, TypeOK
<1>held. coro[n][t] # "none" =>
           /\ status[t] \notin {"absent", "queued"}
           /\ \A m \in Node : claimed[m] # t
           /\ \A m \in Node \ {n} : coro[m][t] = "none"
  BY DEF HolderInv, SingleRunner, Holds
(* A step that changes no row, or fails queued ones.                       *)
<1>quiet. ASSUME NEW from \in CoroStates \ {"none"}, NEW to, Step(n, t, from, to),
                 UNCHANGED <<depends_on, worker_id, claimed, loop, boots>>,
                 faults' = 0 => faults = 0,
                 \A u \in TaskId : \/ status'[u] = status[u]
                                   \/ status[u] = "queued" /\ status'[u] = "failed",
                 \/ from \in Working /\ to \in Working
                 \/ from \in Publishing \cup {"fail_dependents", "ending"} /\ to \in Over
          PROVE  OrderInv'
  <2> SUFFICES ASSUME faults' = 0, faults = 0 PROVE OrderInv'
    BY <1>quiet DEF OrderInv
  <2>1. \A m \in Node, u \in TaskId : /\ Holds(m, u)' => Holds(m, u)
                                      /\ Holds(m, u) /\ ~(m = n /\ u = t) => Holds(m, u)'
                                      /\ NodeId(m)' = NodeId(m)
    BY <1>quiet, <1>step DEF Holds, NodeId
  <2>2. Holds(n, t)' \/ status[t] # "running"
    BY <1>quiet, <1>step DEF Holds, OrderInv, Working
  <2>3. \A u \in TaskId : /\ status'[u] \in {"running", "paused"} => status'[u] = status[u]
                          /\ status'[u] = "complete" <=> status[u] = "complete"
                          /\ depends_on[u] \in TaskId \cup {NoTask}
    BY <1>quiet DEF TypeOK
  <2>4. ASSUME NEW m \in Node, NEW u \in TaskId, status'[u] = "running", worker_id'[u] = NodeId(m)',
               loop'[m] \notin {"down", "startup"}
        PROVE  Holds(m, u)'
    BY <1>quiet, <2>1, <2>2, <2>3, <2>4 DEF OrderInv
  <2>5. ASSUME NEW m \in Node, NEW u \in TaskId
        PROVE  /\ coro'[m][u] \in Publishing \cup {"fail_dependents", "ending"} => status'[u] # "running"
               /\ claimed'[m] = u \/ coro'[m][u] \in Working => status'[u] # "complete"
    <3>1. CASE m = n /\ u = t
      BY <1>quiet, <1>step, <1>held, <2>3, <3>1 DEF OrderInv, Working, Publishing, Over
    <3>2. CASE ~(m = n /\ u = t)
      BY <1>quiet, <1>step, <2>3, <3>2 DEF OrderInv
    <3> QED
      BY <3>1, <3>2
  <2>6. ASSUME NEW m \in Node, NEW u \in TaskId, Holds(m, u)', depends_on'[u] # NoTask
        PROVE  status'[depends_on'[u]] = "complete"
    BY <1>quiet, <2>1, <2>3, <2>6 DEF OrderInv
  <2>7. DependencyComplete'
    BY <1>quiet, <2>3 DEF OrderInv, DependencyComplete
  <2> QED
    BY <2>4, <2>5, <2>6, <2>7 DEF OrderInv
(* A mark_task_* statement, with the status it writes.                     *)
<1>mark. ASSUME NEW from \in Working \ {"created"}, NEW s, NEW ok, NEW raised \in {"mark_failed", "ending"},
                Mark(n, t, from, s, ok, raised),
                \/ s = status[t] /\ ok = "agent" /\ raised = "mark_failed"
                \/ s = "complete" /\ ok = "publish_complete"
                \/ s = "paused" /\ ok = "publish_paused"
                \/ s = "failed" /\ ok = "publish_failed"
         PROVE  EventInv' /\ OrderInv'
  <2>1. /\ coro[n][t] = from /\ coro'[n][t] \in {ok, raised}
        /\ \A m \in Node, u \in TaskId : m # n \/ u # t => coro'[m][u] = coro[m][u]
        /\ UNCHANGED <<depends_on, worker_id, claimed, loop, boots, published>>
    BY <1>mark, <1>step DEF Mark, loopVars
  <2>2. /\ status[t] \notin {"absent", "queued"} /\ published[t] = {}
        /\ \A m \in Node : claimed[m] # t
        /\ \A m \in Node \ {n} : coro[m][t] = "none"
    BY <1>held, <1>mark, <2>1 DEF EventInv, Working
  <2>3. /\ \A u \in TaskId \ {t} : status'[u] = status[u]
        /\ status'[t] \in {status[t], s}
        /\ coro'[n][t] = ok /\ ok # raised => status'[t] = s
    <3>1. CASE Exists(t) /\ Step(n, t, from, ok) /\ SetStatus({t}, s)
      BY <3>1, Written
    <3>2. CASE Step(n, t, from, raised) /\ NoWrite
      BY <1>step, <3>2 DEF NoWrite
    <3>3. CASE Step(n, t, from, raised) /\ SetStatus({t}, s)
      BY <1>step, <3>3, Written
    <3> QED
      BY <1>mark, <3>1, <3>2, <3>3 DEF Mark
  <2>4. EventInv'
    <3>1. \A u \in TaskId \ {t} : status'[u] = status[u] /\ published'[u] = published[u]
      BY <2>1, <2>3
    <3>2. published'[t] = {}
      BY <2>1, <2>2
    <3>3. ASSUME NEW m \in Node, NEW u \in TaskId
          PROVE  /\ claimed'[m] = u \/ coro'[m][u] \in Working \cup Publishing => published'[u] = {}
                 /\ coro'[m][u] = "publish_complete" => status'[u] \in {"complete", "deleted"}
                 /\ coro'[m][u] = "publish_paused" => status'[u] \in {"paused", "deleted"}
                 /\ coro'[m][u] = "publish_failed" => status'[u] \in {"failed", "deleted"}
      <4>1. CASE u # t
        BY <2>1, <3>1, <4>1 DEF EventInv
      <4>2. CASE u = t /\ m # n
        BY <2>1, <2>2, <3>2, <4>2
      <4>3. CASE u = t /\ m = n
        BY <1>mark, <2>1, <2>3, <3>2, <4>3
      <4> QED
        BY <4>1, <4>2, <4>3
    <3>4. EventAgreesWithRow'
      BY <3>1, <3>2 DEF EventInv, EventAgreesWithRow
    <3> QED
      BY <3>1, <3>2, <3>3, <3>4 DEF EventInv
  <2>5. OrderInv'
    <3> SUFFICES ASSUME faults' = 0, faults = 0 PROVE OrderInv'
      BY <1>mark DEF OrderInv, Mark, Fault, TypeOK
    <3>1. \/ coro'[n][t] = ok /\ status'[t] = s
          \/ coro'[n][t] = raised /\ status'[t] = status[t] /\ status[t] = "deleted"
      <4>1. CASE Exists(t) /\ Step(n, t, from, ok) /\ SetStatus({t}, s)
        BY <1>step, <4>1, Written
      <4>2. CASE ~Exists(t) /\ Step(n, t, from, raised) /\ NoWrite
        BY <1>step, <2>2, <4>2 DEF NoWrite, Exists, TypeOK
      <4>3. ~Fault
        BY DEF Fault
      <4> QED
        BY <1>mark, <4>1, <4>2, <4>3 DEF Mark
    <3>2. /\ \A m \in Node, u \in TaskId : Holds(m, u)' = Holds(m, u) /\ NodeId(m)' = NodeId(m)
          /\ status[t] # "complete"
          /\ \A u \in TaskId : depends_on[u] \in TaskId \cup {NoTask}
          /\ Holds(n, t)
      <4>1. \A m \in Node, u \in TaskId : Holds(m, u)' = Holds(m, u) /\ NodeId(m)' = NodeId(m)
        BY <1>mark, <2>1 DEF Holds, NodeId, Working
      <4>2. status[t] # "complete"
        BY <1>mark, <2>1 DEF OrderInv
      <4>3. \A u \in TaskId : depends_on[u] \in TaskId \cup {NoTask}
        BY DEF TypeOK
      <4>4. Holds(n, t)
        BY <1>mark, <2>1 DEF Holds, Working
      <4> QED
        BY <4>1, <4>2, <4>3, <4>4
    <3>3. \A u \in TaskId : status[u] = "complete" => status'[u] = "complete"
      BY <2>3, <3>2
    <3>4. ASSUME NEW m \in Node, NEW u \in TaskId, status'[u] = "running", worker_id'[u] = NodeId(m)',
                 loop'[m] \notin {"down", "startup"}
          PROVE  Holds(m, u)'
      <4>1. status[u] = "running"
        BY <1>mark, <2>3, <3>1, <3>4
      <4> QED
        BY <2>1, <3>2, <3>4, <4>1 DEF OrderInv
    <3>5. ASSUME NEW m \in Node, NEW u \in TaskId
          PROVE  /\ coro'[m][u] \in Publishing \cup {"fail_dependents", "ending"} => status'[u] # "running"
                 /\ claimed'[m] = u \/ coro'[m][u] \in Working => status'[u] # "complete"
      <4>1. CASE u # t
        BY <2>1, <2>3, <4>1 DEF OrderInv
      <4>2. CASE u = t /\ m # n
        BY <2>1, <2>2, <4>2 DEF Publishing, Working
      <4>3. CASE u = t /\ m = n
        BY <1>mark, <2>1, <2>2, <3>1, <3>2, <4>3 DEF Publishing, Working
      <4> QED
        BY <4>1, <4>2, <4>3
    <3>6. ASSUME NEW m \in Node, NEW u \in TaskId, Holds(m, u)', depends_on'[u] # NoTask
          PROVE  status'[depends_on'[u]] = "complete"
      BY <2>1, <3>2, <3>3, <3>6 DEF OrderInv
    <3>7. DependencyComplete'
      <4> SUFFICES ASSUME NEW u \in TaskId, status'[u] \in {"running", "complete", "paused"},
                          depends_on'[u] # NoTask
                   PROVE  status'[depends_on'[u]] = "complete"
        BY DEF DependencyComplete
      <4>1. CASE u = t
        BY <2>1, <3>2, <3>3, <4>1 DEF OrderInv
      <4>2. CASE u # t
        BY <2>1, <2>3, <3>2, <3>3, <4>2 DEF OrderInv, DependencyComplete
      <4> QED
        BY <4>1, <4>2
    <3> QED
      BY <3>4, <3>5, <3>6, <3>7 DEF OrderInv
  <2> QED
    BY <2>4, <2>5
<1>c. /\ Working \cup Publishing \cup {"fail_dependents", "ending"} \subseteq CoroStates \ {"none"}
  BY DEF Working, Publishing, CoroStates
<1>1. CASE start(n, t)
  BY <1>1, <1>c, <1>step, <1>quiet, EventKept DEF start, rowVars, loopVars, envVars, Working
<1>2. CASE mark_task_running(n, t)
  BY <1>2, <1>mark DEF mark_task_running, Working
<1>3. CASE stream_agent(n, t)
  BY <1>3, <1>c, <1>step, <1>quiet, EventKept DEF stream_agent, rowVars, loopVars, envVars, Working
<1>4. CASE mark_task_complete(n, t)
  BY <1>4, <1>mark DEF mark_task_complete, Working
<1>5. CASE mark_task_paused(n, t)
  BY <1>5, <1>mark DEF mark_task_paused, Working
<1>6. CASE mark_task_failed(n, t)
  BY <1>6, <1>mark DEF mark_task_failed, Working
<1>7. ASSUME NEW from, NEW event, NEW to, Publish(n, t, from, event, to),
             <<from, event, to>> \in {<<"publish_complete", "task_complete", "ending">>,
                                     <<"publish_paused", "hitl_required", "ending">>,
                                     <<"publish_failed", "task_error", "fail_dependents">>}
      PROVE  EventInv' /\ OrderInv'
  <2>1. /\ coro[n][t] = from /\ coro'[n][t] = to
        /\ \A m \in Node, u \in TaskId : m # n \/ u # t => coro'[m][u] = coro[m][u]
        /\ published' = [published EXCEPT ![t] = @ \cup {event}]
        /\ UNCHANGED <<status, depends_on, worker_id, claimed, loop, boots, faults>>
    BY <1>7, <1>step DEF Publish, rowVars, loopVars, envVars
  <2>2. /\ published'[t] = {event} /\ \A u \in TaskId \ {t} : published'[u] = published[u]
        /\ status[t] \notin {"absent", "queued", "running"}
    <3>1. published[t] = {}
      BY <1>7, <2>1 DEF EventInv, Publishing
    <3>2. status[t] \notin {"absent", "queued", "running"}
      BY <1>7, <2>1 DEF EventInv
    <3> QED
      BY <2>1, <3>1, <3>2 DEF TypeOK
  <2>3. ASSUME NEW m \in Node, NEW u \in TaskId
        PROVE  /\ claimed'[m] = u \/ coro'[m][u] \in Working \cup Publishing => published'[u] = {}
               /\ coro'[m][u] = "publish_complete" => status'[u] \in {"complete", "deleted"}
               /\ coro'[m][u] = "publish_paused" => status'[u] \in {"paused", "deleted"}
               /\ coro'[m][u] = "publish_failed" => status'[u] \in {"failed", "deleted"}
    <3>1. CASE u # t
      BY <2>1, <2>2, <3>1 DEF EventInv
    <3>2. CASE u = t
      BY <1>7, <1>held, <2>1, <3>2 DEF Working, Publishing
    <3> QED
      BY <3>1, <3>2
  <2>4. EventAgreesWithRow'
    BY <1>7, <2>1, <2>2 DEF EventInv, EventAgreesWithRow
  <2>5. EventInv'
    BY <2>1, <2>2, <2>3, <2>4 DEF EventInv
  <2>6. OrderInv'
    <3>1. from \in Publishing /\ to \in Over
      BY <1>7 DEF Publishing, Over
    <3> QED
      BY <1>7, <1>c, <1>quiet, <2>1, <3>1 DEF Publish
  <2> QED
    BY <2>5, <2>6
<1>8. CASE fail_dependent_tasks(n, t)
  <2>1. \A u \in TaskId : \/ status'[u] = status[u]
                          \/ status[u] = "queued" /\ status'[u] = "failed"
    <3>1. CASE SetStatus(Dependents(t), "failed")
      <4>1. \A u \in TaskId : status'[u] = IF u \in Dependents(t) THEN "failed" ELSE status[u]
        BY <3>1, Written
      <4> QED
        BY <4>1 DEF Dependents
    <3> QED
      BY <1>8, <3>1 DEF fail_dependent_tasks, NoWrite
  <2>2. faults' = 0 => faults = 0
    BY <1>8 DEF fail_dependent_tasks, Fault, TypeOK
  <2> QED
    BY <1>8, <1>c, <1>step, <1>quiet, <2>1, <2>2, EventKept DEF fail_dependent_tasks, loopVars, Over
<1>9. CASE finish(n, t)
  BY <1>9, <1>c, <1>step, <1>quiet, EventKept DEF finish, rowVars, loopVars, envVars, Over
<1> QED
  BY <1>1, <1>2, <1>3, <1>4, <1>5, <1>6, <1>7, <1>8, <1>9 DEF run_task, publish_terminal

(* A crash lets go of everything; the startup reap waits for the restart.  *)
LEMMA HistoryEnvironment == ASSUME HistoryState, Environment PROVE EventInv' /\ OrderInv'
<1> USE DEF HistoryState, rowVars, loopVars, runVars, envVars
<1>q. NoTask \notin TaskId
  BY QueueAssumption DEF QueueAssumption
<1>1. ASSUME NEW t \in TaskId, grow_stale(t) PROVE EventInv' /\ OrderInv'
  BY <1>1, EventKept, OrderKept DEF grow_stale
<1>2. ASSUME NEW n \in Node, watchdog_interval(n) PROVE EventInv' /\ OrderInv'
  BY <1>2, EventKept, OrderKept DEF watchdog_interval
<1>3. ASSUME NEW n \in Node, crash(n) PROVE EventInv' /\ OrderInv'
  <2>1. /\ loop'[n] = "down" /\ claimed'[n] = NoTask
        /\ \A t \in TaskId : coro'[n][t] = "none"
        /\ \A m \in Node \ {n} : /\ loop'[m] = loop[m] /\ claimed'[m] = claimed[m]
                                 /\ coro'[m] = coro[m]
        /\ UNCHANGED <<status, depends_on, worker_id, boots, published, faults>>
    BY <1>3 DEF crash, TypeOK
  <2>2. EventInv'
    BY <1>q, <2>1, EventKept DEF Over
  <2>3. /\ \A m \in Node \ {n}, t \in TaskId : Holds(m, t)' = Holds(m, t)
        /\ \A t \in TaskId : ~Holds(n, t)'
        /\ \A m \in Node : NodeId(m)' = NodeId(m)
    BY <1>q, <2>1 DEF Holds, NodeId
  <2>4. OrderInv'
    <3>1. ASSUME NEW m \in Node, NEW t \in TaskId, faults = 0
          PROVE  /\ status'[t] = "running" /\ worker_id'[t] = NodeId(m)'
                      /\ loop'[m] \notin {"down", "startup"} => Holds(m, t)'
                 /\ coro'[m][t] \in Publishing \cup {"fail_dependents", "ending"} => status'[t] # "running"
                 /\ claimed'[m] = t \/ coro'[m][t] \in Working => status'[t] # "complete"
                 /\ Holds(m, t)' /\ depends_on'[t] # NoTask => status'[depends_on'[t]] = "complete"
      <4>1. CASE m = n
        BY <1>q, <2>1, <2>3, <4>1 DEF Publishing, Working
      <4>2. CASE m # n
        BY <2>1, <2>3, <3>1, <4>2 DEF OrderInv
      <4> QED
        BY <4>1, <4>2
    <3>2. faults = 0 => DependencyComplete'
      BY <2>1 DEF OrderInv, DependencyComplete
    <3> QED
      BY <2>1, <3>1, <3>2 DEF OrderInv
  <2> QED
    BY <2>2, <2>4
<1>4. ASSUME NEW n \in Node, restart(n) PROVE EventInv' /\ OrderInv'
  <2>1. /\ loop[n] = "down" /\ loop'[n] = "startup"
        /\ \A m \in Node \ {n} : loop'[m] = loop[m] /\ boots'[m] = boots[m]
        /\ UNCHANGED <<status, depends_on, worker_id, claimed, coro, published, faults>>
    BY <1>4 DEF restart, Goto, TypeOK
  <2>2. EventInv'
    BY <2>1, EventKept
  <2>3. /\ \A m \in Node, t \in TaskId : Holds(m, t)' = Holds(m, t)
        /\ \A m \in Node \ {n} : NodeId(m)' = NodeId(m)
    BY <2>1 DEF Holds, NodeId
  <2>4. OrderInv'
    BY <2>1, <2>3 DEF OrderInv, DependencyComplete
  <2> QED
    BY <2>2, <2>4
<1> QED
  BY <1>1, <1>2, <1>3, <1>4 DEF Environment

LEMMA HistoryInvariant == Spec => [](EventInv /\ OrderInv)
<1>1. TypeOK /\ HolderInv /\ EventInv /\ OrderInv /\ [Next]_vars => EventInv' /\ OrderInv'
  <2> SUFFICES ASSUME HistoryState, [Next]_vars PROVE EventInv' /\ OrderInv'
    BY DEF HistoryState
  <2>1. CASE Next
    BY <2>1, HistoryRequest, HistoryWorker, HistoryRun, HistoryEnvironment DEF Next
  <2>2. CASE UNCHANGED vars
    BY <2>2, EventKept, OrderKept DEF vars, rowVars, loopVars, runVars, envVars
  <2> QED
    BY <2>1, <2>2
<1> QED
  BY <1>1, HistoryInit, TypeCorrect, HoldersInvariant, PTL DEF Spec

(* What a subscriber is told of the end of a task is what its row says,    *)
(* from then on: whatever reaps, cancels, deletes or fails meanwhile.      *)
THEOREM EventAgrees == Spec => []EventAgreesWithRow
<1>1. EventInv => EventAgreesWithRow
  BY DEF EventInv
<1> QED
  BY <1>1, HistoryInvariant, PTL

(* Without a failed statement, a row that runs is held by the node it      *)
(* names once that node is past its startup reap.                          *)
THEOREM NoOrphanInvariant == Spec => []NoOrphan
<1>1. OrderInv => NoOrphan
  BY DEF OrderInv, NoOrphan
<1> QED
  BY <1>1, HistoryInvariant, PTL

(* Without a failed statement, what runs or has run to an end finds its    *)
(* dependency complete, for as long as the dependency exists.              *)
THEOREM DependencyCompleteInvariant == Spec => []DependencyComplete
<1>1. OrderInv => DependencyComplete
  BY DEF OrderInv, DependencyComplete
<1> QED
  BY <1>1, HistoryInvariant, PTL

-----------------------------------------------------------------------------
(* The queue implements TaskLifecycle.                                     *)

(* A row that was never claimed names no worker.                           *)
NeverClaimed == \A t \in TaskId : status[t] \in {"absent", "queued"} => worker_id[t] = NoWorker

LifeState == TypeOK /\ HolderInv /\ NeverClaimed

(* Types, and what Runner is made of.                                      *)
LEMMA RunnerType == Runner \in [TaskId -> {"unclaimed", "held", "released"}]
BY DEF Runner

LEMMA RunnerSame ==
  ASSUME UNCHANGED worker_id, \A n \in Node, t \in TaskId : Holds(n, t)' = Holds(n, t)
  PROVE  Runner' = Runner
<1>1. \A t \in TaskId : (\E n \in Node : Holds(n, t))' = (\E n \in Node : Holds(n, t))
  OBVIOUS
<1> QED
  BY <1>1 DEF Runner

(* A row is held by a runner that its worker_id names.                     *)
LEMMA HeldIsHeld ==
  ASSUME LifeState, NEW n \in Node, NEW t \in TaskId, Holds(n, t)
  PROVE  Runner[t] = "held"
<1>1. worker_id[t] = NodeId(n)
  BY DEF LifeState, HolderInv, SingleRunner
<1>2. worker_id[t] # NoWorker
  BY <1>1, QueueAssumption DEF QueueAssumption, NodeId, LifeState, TypeOK
<1> QED
  BY <1>2 DEF Runner

(* Runners that let go, and nothing else, are a Release.                   *)
LEMMA LetGo ==
  ASSUME LifeState, UNCHANGED <<status, worker_id>>,
         \A n \in Node, t \in TaskId : Holds(n, t)' => Holds(n, t)
  PROVE  Lifecycle!Release
<1>1. Runner' \in [TaskId -> {"unclaimed", "held", "released"}]
  BY DEF Runner
<1>2. ASSUME NEW t \in TaskId, Runner'[t] # Runner[t]
      PROVE  Runner[t] = "held" /\ Runner'[t] = "released"
  <2>1. worker_id[t] # NoWorker
    BY <1>2 DEF Runner
  <2>2. CASE \E n \in Node : Holds(n, t)'
    <3>1. \E n \in Node : Holds(n, t)
      BY <2>2
    <3> QED
      BY <1>2, <2>1, <2>2, <3>1 DEF Runner
  <2>3. CASE ~\E n \in Node : Holds(n, t)'
    BY <1>2, <2>1, <2>3 DEF Runner
  <2> QED
    BY <2>2, <2>3
<1> QED
  BY <1>1, <1>2 DEF Lifecycle!Release

LEMMA LifeInit == Init => Lifecycle!Init /\ NeverClaimed
BY DEF Init, Lifecycle!Init, NeverClaimed, Runner

(* What a step must be: one of the abstract specification, or none.        *)
LifeStep == Lifecycle!Next \/ UNCHANGED <<status, Runner>>

LEMMA LifeRequest == ASSUME LifeState, Request PROVE LifeStep /\ NeverClaimed'
<1> USE DEF LifeState, rowVars, loopVars, runVars, envVars
<1>same. ASSUME UNCHANGED <<worker_id, claimed, coro>> PROVE Runner' = Runner
  BY <1>same, RunnerSame DEF Holds
<1>1. ASSUME NEW t \in TaskId, NEW dep \in TaskId \cup {NoTask}, create_task(t, dep)
      PROVE  LifeStep /\ NeverClaimed'
  <2>1. Lifecycle!Submit(t)
    BY <1>1, <1>same DEF create_task, Lifecycle!Submit, Lifecycle!Assign
  <2>2. NeverClaimed'
    BY <1>1 DEF create_task, NeverClaimed, TypeOK
  <2> QED
    BY <2>1, <2>2 DEF LifeStep, Lifecycle!Next
<1>2. ASSUME NEW S \in SUBSET TaskId, cancel_tasks(S) PROVE LifeStep /\ NeverClaimed'
  <2> DEFINE Q == {t \in S : status[t] = "queued"}
  <2>1. SetStatus(Q, "cancelled") /\ UNCHANGED <<worker_id, claimed, coro>>
    BY <1>2 DEF cancel_tasks
  <2>2. \A t \in TaskId : status'[t] = IF t \in Q THEN "cancelled" ELSE status[t]
    BY <2>1, Written
  <2>3. status' \in [TaskId -> Lifecycle!Statuses]
    BY <2>1 DEF SetStatus, TypeOK, Lifecycle!Statuses, Statuses
  <2>4. Lifecycle!Move({"queued"}, "cancelled")
    BY <1>same, <2>1, <2>2, <2>3 DEF Lifecycle!Move
  <2>5. NeverClaimed'
    BY <2>1, <2>2 DEF NeverClaimed
  <2> QED
    BY <2>4, <2>5 DEF LifeStep, Lifecycle!Next, Lifecycle!Withdraw
<1>3. ASSUME NEW S \in SUBSET TaskId, delete_rows(S) PROVE LifeStep /\ NeverClaimed'
  <2>1. SetStatus(S, "deleted") /\ UNCHANGED <<worker_id, claimed, coro>> /\ \A t \in S : Exists(t)
    BY <1>3 DEF delete_rows
  <2>2. \A t \in TaskId : status'[t] = IF t \in S THEN "deleted" ELSE status[t]
    BY <2>1, Written
  <2>3. status' \in [TaskId -> Lifecycle!Statuses]
    BY <2>1 DEF SetStatus, TypeOK, Lifecycle!Statuses, Statuses
  <2>4. \A t \in S : status[t] \in Lifecycle!Statuses \ {"absent", "deleted"}
    BY <2>1 DEF Exists, Statuses, Lifecycle!Statuses
  <2>5. Lifecycle!Delete
    BY <1>same, <2>1, <2>2, <2>3, <2>4 DEF Lifecycle!Delete, Lifecycle!Move
  <2>6. NeverClaimed'
    BY <2>1, <2>2 DEF NeverClaimed
  <2> QED
    BY <2>5, <2>6 DEF LifeStep, Lifecycle!Next
<1>4. ASSUME NEW t \in TaskId, update_tags(t) PROVE LifeStep /\ NeverClaimed'
  BY <1>4, <1>same DEF update_tags, LifeStep, NeverClaimed
<1> QED
  BY <1>1, <1>2, <1>3, <1>4 DEF Request, retry_task, bulk_delete_tasks, run_db_maintenance

LEMMA LifeWorker == ASSUME LifeState, NEW n \in Node, task_worker(n) PROVE LifeStep /\ NeverClaimed'
<1> USE DEF LifeState, rowVars, loopVars, runVars, envVars
<1>q. NoTask \notin TaskId
  BY QueueAssumption DEF QueueAssumption
<1>same. ASSUME UNCHANGED <<worker_id, claimed, coro>> PROVE Runner' = Runner
  BY <1>same, RunnerSame DEF Holds
<1>idle. ASSUME UNCHANGED <<status, worker_id, claimed, coro>> PROVE LifeStep /\ NeverClaimed'
  BY <1>idle, <1>same DEF LifeStep, NeverClaimed
<1>reap. ASSUME NEW S \in SUBSET TaskId, \A t \in S : status[t] = "running", SetStatus(S, "failed"),
                UNCHANGED <<worker_id, claimed, coro>>
         PROVE  LifeStep /\ NeverClaimed'
  <2>1. \A t \in TaskId : status'[t] = IF t \in S THEN "failed" ELSE status[t]
    BY <1>reap, Written
  <2>2. status' \in [TaskId -> Lifecycle!Statuses]
    BY <1>reap DEF SetStatus, TypeOK, Lifecycle!Statuses, Statuses
  <2>3. Lifecycle!Reap
    BY <1>reap, <1>same, <2>1, <2>2 DEF Lifecycle!Reap, Lifecycle!Move
  <2>4. NeverClaimed'
    BY <1>reap, <2>1 DEF NeverClaimed
  <2> QED
    BY <2>3, <2>4 DEF LifeStep, Lifecycle!Next
<1>1. CASE reap_stale_running_tasks(n)
  <2>1. Orphans(n) \in SUBSET TaskId /\ \A t \in Orphans(n) : status[t] = "running"
    BY DEF Orphans
  <2> QED
    BY <1>1, <1>idle, <1>reap, <2>1 DEF reap_stale_running_tasks, NoWrite
<1>2. CASE check_slots(n)
  BY <1>2, <1>idle DEF check_slots
<1>3. CASE claim_next_queued_task(n)
  <2>1. ASSUME NEW t \in TaskId, First(t), claimed' = [claimed EXCEPT ![n] = t],
               SetStatus({t}, "running"), worker_id' = [worker_id EXCEPT ![t] = NodeId(n)]
        PROVE  LifeStep /\ NeverClaimed'
    <3>1. /\ status[t] = "queued" /\ worker_id[t] = NoWorker
          /\ status' = [status EXCEPT ![t] = "running"]
          /\ \A u \in TaskId \ {t} : worker_id'[u] = worker_id[u]
          /\ worker_id'[t] = NodeId(n) /\ claimed'[n] = t
          /\ UNCHANGED coro
      BY <1>3, <2>1 DEF First, Claimable, SetStatus, TypeOK, NeverClaimed, claim_next_queued_task
    <3>2. claimed[n] = NoTask /\ \A m \in Node \ {n} : claimed'[m] = claimed[m]
      BY <1>3, <1>q, <2>1 DEF claim_next_queued_task, Goto, HolderInv, TypeOK
    <3>3. /\ \A m \in Node, u \in TaskId \ {t} : Holds(m, u)' = Holds(m, u)
          /\ Holds(n, t)'
      BY <1>q, <3>1, <3>2 DEF Holds
    <3>4. worker_id'[t] # NoWorker
      BY <3>1, QueueAssumption DEF QueueAssumption, NodeId, TypeOK
    <3>5. Runner[t] = "unclaimed" /\ Runner'[t] = "held"
      BY <3>1, <3>3, <3>4 DEF Runner
    <3>6. ASSUME NEW u \in TaskId \ {t} PROVE Runner'[u] = Runner[u]
      <4>1. (\E m \in Node : Holds(m, u)') = (\E m \in Node : Holds(m, u))
        BY <3>3
      <4> QED
        BY <3>1, <4>1 DEF Runner
    <3>7. Runner' = [Runner EXCEPT ![t] = "held"]
      <4>1. DOMAIN Runner = TaskId /\ DOMAIN Runner' = TaskId
        BY DEF Runner
      <4>2. Runner' = [u \in TaskId |-> Runner'[u]] /\ Runner = [u \in TaskId |-> Runner[u]]
        BY DEF Runner
      <4> QED
        BY <3>5, <3>6, <4>1, <4>2
    <3>8. Lifecycle!Claim(t)
      BY <3>1, <3>5, <3>7 DEF Lifecycle!Claim, Lifecycle!Assign
    <3>9. NeverClaimed'
      BY <3>1 DEF NeverClaimed, TypeOK
    <3> QED
      BY <3>8, <3>9 DEF LifeStep, Lifecycle!Next
  <2> QED
    BY <1>3, <1>idle, <2>1 DEF claim_next_queued_task
<1>4. CASE launch(n)
  <2> DEFINE t == claimed[n]
  <2>1. /\ t \in TaskId /\ claimed'[n] = NoTask /\ coro'[n][t] = "created"
        /\ \A m \in Node \ {n} : claimed'[m] = claimed[m]
        /\ \A m \in Node, u \in TaskId : m # n \/ u # t => coro'[m][u] = coro[m][u]
        /\ UNCHANGED <<status, worker_id>>
    BY <1>4 DEF launch, Goto, HolderInv, TypeOK
  <2>2. \A m \in Node, u \in TaskId : Holds(m, u)' = Holds(m, u)
    BY <1>q, <2>1 DEF Holds
  <2> QED
    BY <2>1, <2>2, RunnerSame DEF LifeStep, NeverClaimed
<1>5. CASE lose_claim(n)
  <2>1. \A m \in Node, t \in TaskId : Holds(m, t)' => Holds(m, t)
    BY <1>5, <1>q DEF lose_claim, Holds, TypeOK
  <2> QED
    BY <1>5, <2>1, LetGo DEF lose_claim, LifeStep, Lifecycle!Next, NeverClaimed
<1>6. CASE skip_watchdog(n)
  BY <1>6, <1>idle DEF skip_watchdog
<1>7. CASE reap_stuck_tasks(n)
  <2>1. Stuck \in SUBSET TaskId /\ \A t \in Stuck : status[t] = "running"
    BY DEF Stuck
  <2> QED
    BY <1>7, <1>idle, <1>reap, <2>1 DEF reap_stuck_tasks, NoWrite
<1> QED
  BY <1>1, <1>2, <1>3, <1>4, <1>5, <1>6, <1>7 DEF task_worker

LEMMA LifeRun ==
  ASSUME LifeState, NEW n \in Node, NEW t \in TaskId, run_task(n, t) PROVE LifeStep /\ NeverClaimed'
<1> USE DEF LifeState, rowVars, loopVars, envVars
<1>held. coro[n][t] # "none" =>
           Holds(n, t) /\ Runner[t] = "held" /\ status[t] \notin {"absent", "queued"}
  BY HeldIsHeld DEF Holds, HolderInv
<1>step. ASSUME NEW from \in CoroStates \ {"none"}, NEW to \in CoroStates \ {"none"},
                Step(n, t, from, to), UNCHANGED <<worker_id, claimed>>
         PROVE  Runner' = Runner
  <2>1. \A m \in Node, u \in TaskId : coro'[m][u] = "none" <=> coro[m][u] = "none"
    BY <1>step DEF Step, TypeOK
  <2> QED
    BY <1>step, <2>1, RunnerSame DEF Holds
<1>idle. ASSUME NEW from \in CoroStates \ {"none"}, NEW to \in CoroStates \ {"none"},
                Step(n, t, from, to), UNCHANGED <<status, worker_id, claimed>>
         PROVE  LifeStep /\ NeverClaimed'
  BY <1>idle, <1>step DEF LifeStep, NeverClaimed
<1>c. /\ {"mark_complete", "mark_paused", "mark_failed", "agent", "created", "mark_running",
           "publish_complete", "publish_paused", "publish_failed", "fail_dependents",
           "ending"} \subseteq CoroStates \ {"none"}
  BY DEF CoroStates
<1>mark. ASSUME NEW from \in CoroStates \ {"none"}, NEW ok \in CoroStates \ {"none"},
                NEW raised \in CoroStates \ {"none"}, NEW s \in {"complete", "failed", "paused"} \cup {status[t]},
                Mark(n, t, from, s, ok, raised)
         PROVE  LifeStep /\ NeverClaimed'
  <2>1. /\ UNCHANGED <<worker_id, claimed>>
        /\ Step(n, t, from, ok) \/ Step(n, t, from, raised)
        /\ NoWrite \/ (Exists(t) /\ SetStatus({t}, s))
    BY <1>mark DEF Mark
  <2>2. CASE NoWrite \/ s = status[t]
    <3>1. UNCHANGED status
      BY <2>1, <2>2 DEF NoWrite, SetStatus, TypeOK
    <3> QED
      BY <1>mark, <1>idle, <2>1, <3>1
  <2>3. CASE Exists(t) /\ SetStatus({t}, s) /\ s \in {"complete", "failed", "paused"}
    <3>1. /\ Runner' = Runner /\ Runner[t] = "held"
          /\ status[t] # "deleted" /\ status[t] \notin {"absent", "queued"}
      BY <1>mark, <1>step, <1>held, <2>1, <2>3 DEF Step, Exists, Statuses
    <3>2. status' = [status EXCEPT ![t] = s]
      BY <2>3 DEF SetStatus, TypeOK
    <3>3. Lifecycle!Write(t)
      BY <2>3, <3>1, <3>2 DEF Lifecycle!Write, Lifecycle!Outcomes, Lifecycle!Assign
    <3>4. NeverClaimed'
      BY <2>1, <2>3, <3>2 DEF NeverClaimed, TypeOK
    <3> QED
      BY <3>3, <3>4 DEF LifeStep, Lifecycle!Next
  <2> QED
    BY <1>mark, <2>1, <2>2, <2>3
<1>1. CASE start(n, t)
  BY <1>1, <1>c, <1>idle DEF start
<1>2. CASE mark_task_running(n, t)
  BY <1>2, <1>c, <1>mark DEF mark_task_running
<1>3. CASE stream_agent(n, t)
  BY <1>3, <1>c, <1>idle DEF stream_agent
<1>4. CASE mark_task_complete(n, t)
  BY <1>4, <1>c, <1>mark DEF mark_task_complete
<1>5. CASE mark_task_paused(n, t)
  BY <1>5, <1>c, <1>mark DEF mark_task_paused
<1>6. CASE mark_task_failed(n, t)
  BY <1>6, <1>c, <1>mark DEF mark_task_failed
<1>7. CASE publish_terminal(n, t)
  BY <1>7, <1>c, <1>idle DEF publish_terminal, Publish
<1>8. CASE fail_dependent_tasks(n, t)
  <2>1. Step(n, t, "fail_dependents", "ending") /\ UNCHANGED <<worker_id, claimed>>
    BY <1>8 DEF fail_dependent_tasks
  <2>2. CASE NoWrite
    BY <1>c, <1>idle, <2>1, <2>2 DEF NoWrite
  <2>3. CASE SetStatus(Dependents(t), "failed")
    <3>1. \A u \in TaskId : status'[u] = IF u \in Dependents(t) THEN "failed" ELSE status[u]
      BY <2>3, Written
    <3>2. status' \in [TaskId -> Lifecycle!Statuses]
      BY <2>3 DEF SetStatus, TypeOK, Lifecycle!Statuses, Statuses
    <3>3. \A u \in Dependents(t) : status[u] = "queued"
      BY DEF Dependents
    <3>4. Lifecycle!Move({"queued"}, "failed")
      BY <1>c, <1>step, <2>1, <3>1, <3>2, <3>3 DEF Lifecycle!Move
    <3>5. NeverClaimed'
      BY <2>1, <3>1 DEF NeverClaimed
    <3> QED
      BY <3>4, <3>5 DEF LifeStep, Lifecycle!Next, Lifecycle!Withdraw
  <2> QED
    BY <1>8, <2>2, <2>3 DEF fail_dependent_tasks
<1>9. CASE finish(n, t)
  <2>1. \A m \in Node, u \in TaskId : Holds(m, u)' => Holds(m, u)
    BY <1>9 DEF finish, Step, Holds, TypeOK
  <2> QED
    BY <1>9, <2>1, LetGo DEF finish, LifeStep, Lifecycle!Next, NeverClaimed
<1> QED
  BY <1>1, <1>2, <1>3, <1>4, <1>5, <1>6, <1>7, <1>8, <1>9 DEF run_task

LEMMA LifeEnvironment == ASSUME LifeState, Environment PROVE LifeStep /\ NeverClaimed'
<1> USE DEF LifeState, rowVars, loopVars, runVars, envVars
<1>q. NoTask \notin TaskId
  BY QueueAssumption DEF QueueAssumption
<1>idle. ASSUME UNCHANGED <<status, worker_id, claimed, coro>> PROVE LifeStep /\ NeverClaimed'
  BY <1>idle, RunnerSame DEF LifeStep, NeverClaimed, Holds
<1>1. ASSUME NEW n \in Node, crash(n) PROVE LifeStep /\ NeverClaimed'
  <2>1. \A m \in Node, t \in TaskId : Holds(m, t)' => Holds(m, t)
    BY <1>1, <1>q DEF crash, Holds, TypeOK
  <2> QED
    BY <1>1, <2>1, LetGo DEF crash, LifeStep, Lifecycle!Next, NeverClaimed
<1> QED
  BY <1>1, <1>idle DEF Environment, grow_stale, watchdog_interval, restart

(* Whatever the nodes do, and whatever fails: the life of every row is the *)
(* one TaskLifecycle promises.                                             *)
THEOREM ImplementsLifecycle == Spec => RefinesLifecycle
<1>1. TypeOK /\ HolderInv /\ NeverClaimed /\ [Next]_vars =>
        NeverClaimed' /\ [Lifecycle!Next]_(Lifecycle!vars)
  <2> SUFFICES ASSUME LifeState, [Next]_vars PROVE LifeStep /\ NeverClaimed'
    BY DEF LifeState, LifeStep, Lifecycle!vars
  <2>1. CASE Next
    BY <2>1, LifeRequest, LifeWorker, LifeRun, LifeEnvironment DEF Next
  <2>2. CASE UNCHANGED vars
    BY <2>2, RunnerSame DEF vars, rowVars, loopVars, runVars, Holds, LifeStep, NeverClaimed, LifeState
  <2> QED
    BY <2>1, <2>2
<1> QED
  BY <1>1, LifeInit, TypeCorrect, HoldersInvariant, PTL DEF Spec, RefinesLifecycle, Lifecycle!Spec
=============================================================================
