------------------------------ MODULE Scheduler ------------------------------
(***************************************************************************)
(* The schedule daemon of each gateway process (src/scheduler.py) and the  *)
(* rows of scheduled_tasks it shares with the user's requests and with the *)
(* daemons of other gateways (src/database.py 5585-5768,                   *)
(* src/gateway/routes/schedules.py).  A daemon reads what is due, then     *)
(* queues a task and moves next_run_at on, for one schedule after another. *)
(***************************************************************************)
EXTENDS Integers, Sequences, FiniteSets

CONSTANTS
    Schedules,          \* ids of scheduled_tasks
    Gateways,           \* gateway processes that may run a daemon
    Intervals,          \* intervals of "@every", in ticks
    MaxNow,             \* bound: ticks
    MaxMishaps          \* bound: crashes and failed statements

ASSUME SchedulerAssumption ==
    /\ IsFiniteSet(Schedules) /\ Intervals \subseteq Nat \ {0} /\ Intervals # {}
    /\ MaxNow \in Nat /\ MaxMishaps \in Nat

VARIABLES
    now,                \* the time
    schedules,          \* rows of scheduled_tasks, NoRow where there is none
    daemons,            \* the loop of each gateway
    runs,               \* history: <<schedule, due time>> of each task queued
    mishaps,            \* crashes and failures so far
    disturbed_runs,     \* history: a daemon stopped or failed after it queued a task
    shared              \* history: two daemons were up at the same time

schedulerVars == <<now, schedules, daemons, runs, mishaps, disturbed_runs, shared>>

NoRow == [there |-> FALSE, enabled |-> FALSE, every |-> 0, next_run_at |-> 0]
Rows == [there : {TRUE}, enabled : BOOLEAN, every : Intervals, next_run_at : Nat]
Down == [stage |-> "down", due |-> <<>>]

(* A daemon holds the rows it read, and the one it is about first.         *)
SchedulerTypeOK ==
    /\ now \in 0 .. MaxNow
    /\ schedules \in [Schedules -> Rows \cup {NoRow}]
    /\ \A g \in Gateways :
         /\ daemons[g].stage \in {"down", "asleep", "fire", "record"}
         /\ daemons[g].due \in Seq(Schedules \X Rows)
         /\ daemons[g].stage \in {"fire", "record"} <=> daemons[g].due # <<>>
    /\ runs \subseteq Schedules \X (0 .. MaxNow)
    /\ mishaps \in 0 .. MaxMishaps
    /\ disturbed_runs \in BOOLEAN /\ shared \in BOOLEAN

SchedulerInit ==
    /\ now = 0
    /\ schedules = [s \in Schedules |-> NoRow]
    /\ daemons = [g \in Gateways |-> Down]
    /\ runs = {} /\ mishaps = 0
    /\ disturbed_runs = FALSE /\ shared = FALSE

(* compute_next_run for "@every": counted from the time of the call.       *)
compute_next_run(every) == now + every

-----------------------------------------------------------------------------
(* The user's requests                                                     *)

create_scheduled_task(s) ==
    /\ ~schedules[s].there
    /\ \E n \in Intervals :
         schedules' = [schedules EXCEPT ![s] =
                         [there |-> TRUE, enabled |-> TRUE, every |-> n,
                          next_run_at |-> compute_next_run(n)]]
    /\ UNCHANGED <<now, daemons, runs, mishaps, disturbed_runs, shared>>

(* Any of the fields; a new interval moves next_run_at.                    *)
update_scheduled_task(s) ==
    /\ schedules[s].there
    /\ \/ \E n \in Intervals :
            schedules' = [schedules EXCEPT ![s].every = n, ![s].next_run_at = compute_next_run(n)]
       \/ schedules' = [schedules EXCEPT ![s].enabled = ~@]
    /\ UNCHANGED <<now, daemons, runs, mishaps, disturbed_runs, shared>>

delete_scheduled_task(s) ==
    /\ schedules[s].there
    /\ schedules' = [schedules EXCEPT ![s] = NoRow]
    /\ UNCHANGED <<now, daemons, runs, mishaps, disturbed_runs, shared>>

-----------------------------------------------------------------------------
(* The daemon                                                              *)

start_scheduler(g) ==
    /\ daemons[g] = Down
    /\ daemons' = [daemons EXCEPT ![g].stage = "asleep"]
    /\ shared' = (shared \/ \E h \in Gateways : daemons[h] # Down)
    /\ UNCHANGED <<now, schedules, runs, mishaps, disturbed_runs>>

get_due_scheduled_tasks ==
    {s \in Schedules : schedules[s].there /\ schedules[s].enabled /\ schedules[s].next_run_at <= now}

(* In the order of next_run_at.                                            *)
ordered(S) ==
    {q \in [1 .. Cardinality(S) -> S] :
        \A i, j \in DOMAIN q : i < j =>
            q[i] # q[j] /\ schedules[q[i]].next_run_at <= schedules[q[j]].next_run_at}

_tick(g) ==
    /\ daemons[g].stage = "asleep" /\ get_due_scheduled_tasks # {}
    /\ \E q \in ordered(get_due_scheduled_tasks) :
         daemons' = [daemons EXCEPT ![g] =
                       [stage |-> "fire", due |-> [i \in DOMAIN q |-> <<q[i], schedules[q[i]]>>]]]
    /\ UNCHANGED <<now, schedules, runs, mishaps, disturbed_runs, shared>>

next_due(g) ==
    LET rest == Tail(daemons[g].due)
    IN  [stage |-> IF rest = <<>> THEN "asleep" ELSE "fire", due |-> rest]

(* create_task for the row as it was read.                                 *)
fire_create_task(g) ==
    /\ daemons[g].stage = "fire"
    /\ LET job == Head(daemons[g].due)
       IN  runs' = runs \cup {<<job[1], job[2].next_run_at>>}
    /\ daemons' = [daemons EXCEPT ![g].stage = "record"]
    /\ UNCHANGED <<now, schedules, mishaps, disturbed_runs, shared>>

(* A variant: next_run_at is left as it was.                               *)
record_without_next_run(g) ==
    /\ daemons[g].stage = "record"
    /\ LET job == Head(daemons[g].due) s == job[1]
       IN  schedules' = IF schedules[s].there
                        THEN [schedules EXCEPT ![s].next_run_at = job[2].next_run_at] ELSE schedules
    /\ daemons' = [daemons EXCEPT ![g] = next_due(g)]
    /\ UNCHANGED <<now, runs, mishaps, disturbed_runs, shared>>

(* The next run is computed from the interval that was read, and written   *)
(* whatever the row says by now; there may be no row.                      *)
record_scheduled_run(g) ==
    /\ daemons[g].stage = "record"
    /\ LET job == Head(daemons[g].due) s == job[1]
       IN  schedules' = IF schedules[s].there
                        THEN [schedules EXCEPT ![s].next_run_at = compute_next_run(job[2].every)]
                        ELSE schedules
    /\ daemons' = [daemons EXCEPT ![g] = next_due(g)]
    /\ UNCHANGED <<now, runs, mishaps, disturbed_runs, shared>>

(* A failed statement is logged, and the loop goes on with the next one.   *)
fire_fails(g) ==
    /\ mishaps < MaxMishaps /\ daemons[g].stage \in {"fire", "record"}
    /\ mishaps' = mishaps + 1
    /\ disturbed_runs' = (disturbed_runs \/ daemons[g].stage = "record")
    /\ daemons' = [daemons EXCEPT ![g] = next_due(g)]
    /\ UNCHANGED <<now, schedules, runs, shared>>

(* The process ends.                                                       *)
stop(g) ==
    /\ mishaps < MaxMishaps /\ daemons[g] # Down
    /\ mishaps' = mishaps + 1
    /\ disturbed_runs' = (disturbed_runs \/ daemons[g].stage = "record")
    /\ daemons' = [daemons EXCEPT ![g] = Down]
    /\ UNCHANGED <<now, schedules, runs, shared>>

time_passes ==
    /\ now < MaxNow
    /\ now' = now + 1
    /\ UNCHANGED <<schedules, daemons, runs, mishaps, disturbed_runs, shared>>

-----------------------------------------------------------------------------

_fire(g) == fire_create_task(g) \/ record_scheduled_run(g)

SchedulerNext ==
    \/ \E s \in Schedules :
         create_scheduled_task(s) \/ update_scheduled_task(s) \/ delete_scheduled_task(s)
    \/ \E g \in Gateways : start_scheduler(g) \/ _tick(g) \/ _fire(g) \/ fire_fails(g) \/ stop(g)
    \/ time_passes

(* The loop wakes every poll_interval; a daemon that ended is started with *)
(* its gateway.                                                            *)
SchedulerFairness == \A g \in Gateways : WF_schedulerVars(start_scheduler(g) \/ _tick(g) \/ _fire(g))

SchedulerSpec == SchedulerInit /\ [][SchedulerNext]_schedulerVars
SchedulerFairSpec == SchedulerSpec /\ SchedulerFairness

-----------------------------------------------------------------------------
(* Properties                                                              *)

(* With one daemon at a time, and no crash or failure between the two      *)
(* statements of _fire, a run is recorded before the schedule is read      *)
(* again: whatever the user changes meanwhile, no daemon is about to queue *)
(* a task for a due time it queued one for.                                *)
FiredOnce ==
    ~shared /\ ~disturbed_runs =>
        \A g \in Gateways : daemons[g].stage = "fire" =>
            \A i \in DOMAIN daemons[g].due :
                <<daemons[g].due[i][1], daemons[g].due[i][2].next_run_at>> \notin runs

(* No task is queued for a schedule that was not due: a daemon never holds *)
(* a row that was disabled or early when it was read.                      *)
OnlyDue ==
    \A g \in Gateways : \A i \in DOMAIN daemons[g].due :
        daemons[g].due[i][2].enabled /\ daemons[g].due[i][2].next_run_at <= now

(* A schedule that is due is fired, or the user changes it: failures and   *)
(* restarts only delay it.                                                 *)
Due(s) == s \in get_due_scheduled_tasks
DueIsFired == \A s \in Schedules : Due(s) ~> ~Due(s)

(* No due time is fired twice by one daemon, and nothing fires that was not *)
(* due, whatever the user changes meanwhile (src/scheduler.py).            *)
SchedulerInvariant ==
    /\ SchedulerTypeOK
    /\ FiredOnce
    /\ OnlyDue

=============================================================================
