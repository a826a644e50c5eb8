----------------------------- MODULE Submission -----------------------------
(***************************************************************************)
(* How one user's tasks get into the queue: the sliding window of the rate *)
(* limit (src/gateway/middleware.py), the daily budget in Redis or in the  *)
(* database (src/rate_limiter.py, src/gateway/state.py), the queue depth,  *)
(* and the three endpoints that create tasks: one, a batch, and a retry    *)
(* (src/gateway/routes/tasks.py).  Requests run beside one another, one    *)
(* statement at a time.                                                    *)
(***************************************************************************)
EXTENDS Integers, FiniteSets

CONSTANTS
    Requests,           \* ids of requests of the user
    BatchSize,          \* tasks of a batch
    RateLimit,          \* submission_rate_limit_per_minute
    Window,             \* _WINDOW_SECONDS, in ticks
    DailyLimit,         \* daily_token_limit, in tasks' estimates
    MaxQueued,          \* max_queued_tasks_per_user
    MaxClock,           \* bound: ticks
    LastDay             \* bound: days after the first

ASSUME SubmissionAssumption ==
    /\ IsFiniteSet(Requests) /\ BatchSize \in Nat \ {0} /\ RateLimit \in Nat \ {0}
    /\ Window \in Nat \ {0} /\ DailyLimit \in Nat /\ MaxQueued \in Nat
    /\ MaxClock \in Nat /\ LastDay \in Nat

VARIABLES
    redis,              \* redis_mode(): does the budget live in Redis
    clock,              \* time of the gateway process
    day,                \* date.today()
    windows,            \* _windows: the times kept for each path, each with the
                        \* request it was noted for: two may have the same time
    requests,           \* where each request is
    counters,           \* lf:budget:{user}:{date} of each day
    pending,            \* the user's tasks queued or running
    created,            \* tasks each request put into the queue
    admitted,           \* history: for each path, what the limiter let through and when
    granted,            \* history: estimates that passed the check in Redis, per day
    overlapped          \* history: did a submission begin while another was served

historyVars == <<admitted, granted, overlapped>>
submissionVars == <<redis, clock, day, windows, requests, counters, pending, created,
                    historyVars>>

Paths == {"/tasks", "/tasks/batch"}
Kinds == Paths \cup {"retry"}
Days == 0 .. LastDay
Tasks(kind) == IF kind = "/tasks/batch" THEN BatchSize ELSE 1

(* todo: tasks left to create; on: the day of the key a reservation is     *)
(* under; reached: what INCRBY returned.                                   *)
Unsent == [stage |-> "unsent", kind |-> "/tasks", todo |-> 0, on |-> 0, reached |-> 0]
Stages == {"unsent", "depth", "budget", "compare", "rollback", "insert", "token",
           "answered", "rejected", "lost"}

Request == [stage : Stages, kind : Kinds, todo : 0 .. BatchSize, on : Days, reached : Nat]
Entries == Requests \X (0 .. MaxClock)

SubmissionTypeOK ==
    /\ redis \in BOOLEAN /\ clock \in 0 .. MaxClock /\ day \in Days
    /\ windows \in [Paths -> SUBSET Entries]
    /\ requests \in [Requests -> Request]
    /\ counters \in [Days -> Nat]
    /\ pending \in Nat
    /\ created \in [Requests -> 0 .. BatchSize]
    /\ admitted \in [Paths -> SUBSET Entries]
    /\ granted \in [Days -> Nat] /\ overlapped \in BOOLEAN

SubmissionInit ==
    /\ redis \in BOOLEAN /\ clock = 0 /\ day = 0
    /\ windows = [p \in Paths |-> {}]
    /\ requests = [r \in Requests |-> Unsent]
    /\ counters = [d \in Days |-> 0]
    /\ pending = 0
    /\ created = [r \in Requests |-> 0]
    /\ admitted = [p \in Paths |-> {}]
    /\ granted = [d \in Days |-> 0] /\ overlapped = FALSE

Served == {r \in Requests :
              requests[r].stage \notin {"unsent", "answered", "rejected", "lost"}}

goto(r, stage) ==
    requests' = [requests EXCEPT ![r].stage = stage, ![r].on = 0, ![r].reached = 0]

-----------------------------------------------------------------------------
(* SubmissionRateLimitMiddleware                                           *)

evict(kept) == {e \in kept : clock - e[2] < Window}

(* dispatch holds the lock from the eviction to the append.  Only the two  *)
(* submission paths are limited, each with its own window.                 *)
dispatch(r, kind) ==
    /\ requests[r].stage = "unsent"
    /\ LET allowed == kind \in Paths => Cardinality(evict(windows[kind])) < RateLimit
           first == IF kind = "/tasks/batch" THEN "depth" ELSE "budget"
           entry == IF allowed THEN {<<r, clock>>} ELSE {}
       IN  /\ windows' = IF kind \in Paths
                         THEN [windows EXCEPT ![kind] = evict(windows[kind]) \cup entry]
                         ELSE windows
           /\ requests' = [requests EXCEPT ![r] =
                             [stage |-> IF allowed THEN first ELSE "rejected",
                              kind |-> kind, todo |-> Tasks(kind), on |-> 0, reached |-> 0]]
           /\ admitted' = IF kind \in Paths
                          THEN [admitted EXCEPT ![kind] = @ \cup entry] ELSE admitted
           /\ overlapped' = (overlapped \/ (kind \in Paths /\ Served # {}))
    /\ UNCHANGED <<redis, clock, day, counters, pending, created, granted>>

-----------------------------------------------------------------------------
(* The checks                                                              *)

(* A variant: a batch counts as one task.                                  *)
check_depth_for_one(r) ==
    /\ requests[r].stage = "depth"
    /\ goto(r, IF pending + 1 > MaxQueued THEN "rejected"
               ELSE IF requests[r].kind = "/tasks/batch" THEN "budget" ELSE "insert")
    /\ UNCHANGED <<redis, clock, day, windows, counters, pending, created, historyVars>>

(* A batch counts all of its tasks at its start; a retry does not count.   *)
_check_queue_depth(r) ==
    /\ requests[r].stage = "depth"
    /\ goto(r, IF pending + requests[r].todo > MaxQueued THEN "rejected"
               ELSE IF requests[r].kind = "/tasks/batch" THEN "budget" ELSE "insert")
    /\ UNCHANGED <<redis, clock, day, windows, counters, pending, created, historyVars>>

(* Where a request goes once one estimate is within the budget.            *)
within_budget(r) == IF requests[r].kind = "/tasks" THEN "depth" ELSE "insert"

(* In the database: two sums over rows, which other requests, workers and  *)
(* the day's end change; either outcome.                                   *)
db_budget_check(r) ==
    /\ ~redis /\ requests[r].stage = "budget"
    /\ \E stage \in {within_budget(r), "rejected"} : goto(r, stage)
    /\ UNCHANGED <<redis, clock, day, windows, counters, pending, created, historyVars>>

(* INCRBY on the key of today.                                             *)
redis_incrby(r) ==
    /\ redis /\ requests[r].stage = "budget"
    /\ counters' = [counters EXCEPT ![day] = @ + 1]
    /\ requests' = [requests EXCEPT ![r].stage = "compare", ![r].on = day,
                                    ![r].reached = counters[day] + 1]
    /\ UNCHANGED <<redis, clock, day, windows, pending, created, historyVars>>

(* The value INCRBY returned decides.                                      *)
redis_compare(r) ==
    /\ requests[r].stage = "compare"
    /\ LET ok == requests[r].reached <= DailyLimit
       IN  /\ IF ok THEN goto(r, within_budget(r))
                    ELSE requests' = [requests EXCEPT ![r].stage = "rollback"]
           /\ granted' = IF ok THEN [granted EXCEPT ![requests[r].on] = @ + 1] ELSE granted
    /\ UNCHANGED <<redis, clock, day, windows, counters, pending, created, admitted, overlapped>>

(* DECRBY on the key of the reservation, whatever the day is by now.       *)
redis_rollback(r) ==
    /\ requests[r].stage = "rollback"
    /\ counters' = [counters EXCEPT ![requests[r].on] = @ - 1]
    /\ goto(r, "rejected")
    /\ UNCHANGED <<redis, clock, day, windows, pending, created, historyVars>>

redis_budget_check_and_reserve(r) == redis_incrby(r) \/ redis_compare(r) \/ redis_rollback(r)

per_user_budget_check(r) == db_budget_check(r) \/ redis_budget_check_and_reserve(r)

-----------------------------------------------------------------------------
(* The endpoints                                                           *)

(* The session of a task is not the user's, or its text is refused: what   *)
(* was reserved and created before stays.                                  *)
invalid_task(r) ==
    /\ requests[r].stage \in {"budget", "insert"}
    /\ goto(r, "rejected")
    /\ UNCHANGED <<redis, clock, day, windows, counters, pending, created, historyVars>>

create_task(r) ==
    /\ requests[r].stage = "insert"
    /\ pending' = pending + 1
    /\ created' = [created EXCEPT ![r] = @ + 1]
    /\ requests' = [requests EXCEPT ![r].stage = "token", ![r].todo = @ - 1]
    /\ UNCHANGED <<redis, clock, day, windows, counters, historyVars>>

(* The stream token of the task; a batch goes on with its next task.       *)
create_stream_token(r) ==
    /\ requests[r].stage = "token"
    /\ goto(r, IF requests[r].todo > 0 THEN "budget" ELSE "answered")
    /\ UNCHANGED <<redis, clock, day, windows, counters, pending, created, historyVars>>

(* A statement fails or the process ends.                                  *)
request_fails(r) ==
    /\ r \in Served
    /\ goto(r, "lost")
    /\ UNCHANGED <<redis, clock, day, windows, counters, pending, created, historyVars>>

serve(r) ==
    \/ _check_queue_depth(r) \/ per_user_budget_check(r) \/ invalid_task(r)
    \/ create_task(r) \/ create_stream_token(r) \/ request_fails(r)

submit_task(r) == dispatch(r, "/tasks")
submit_tasks_batch(r) == dispatch(r, "/tasks/batch")

(* A failed or cancelled task is there to retry.                           *)
retry_task(r) == (\E s \in Requests : created[s] > 0) /\ dispatch(r, "retry")

-----------------------------------------------------------------------------

(* A worker ends a task, or the user cancels it.  The counter in Redis is  *)
(* not corrected: nothing calls redis_budget_release.                      *)
task_ends ==
    /\ pending > 0
    /\ pending' = pending - 1
    /\ UNCHANGED <<redis, clock, day, windows, requests, counters, created, historyVars>>

tick ==
    /\ clock < MaxClock
    /\ clock' = clock + 1
    /\ UNCHANGED <<redis, day, windows, requests, counters, pending, created, historyVars>>

midnight ==
    /\ day < LastDay
    /\ day' = day + 1
    /\ UNCHANGED <<redis, clock, windows, requests, counters, pending, created, historyVars>>

SubmissionNext ==
    \/ \E r \in Requests : submit_task(r) \/ submit_tasks_batch(r) \/ retry_task(r) \/ serve(r)
    \/ task_ends \/ tick \/ midnight

SubmissionSpec == SubmissionInit /\ [][SubmissionNext]_submissionVars

-----------------------------------------------------------------------------
(* Properties                                                              *)

(* No span of 60 seconds has more submissions on one path than the limit,  *)
(* wherever it starts: evicting at the right age keeps the count right.    *)
WindowHolds ==
    \A p \in Paths : \A a \in admitted[p] :
        Cardinality({b \in admitted[p] : b[2] \in a[2] .. a[2] + Window - 1}) <= RateLimit

(* However many gateways reserve at the same time, what passed the check   *)
(* of one day never exceeds the limit, and the counter covers it: a        *)
(* rejected request takes back its own reservation only.                   *)
BudgetHolds ==
    \A d \in Days : granted[d] <= DailyLimit /\ granted[d] <= counters[d]

(* The depth is counted in one statement and the task inserted in another,   *)
(* so only submissions that do not overlap respect the limit; a batch of   *)
(* many does, because it is counted whole.  Retries come on top of it:     *)
(* they are not counted.                                                   *)
DepthHolds ==
    ~overlapped =>
        pending <= MaxQueued
            + Cardinality({r \in Requests : requests[r].kind = "retry" /\ created[r] > 0})

(* The limits of a user hold for requests that overlap on several gateways: *)
(* the rate in every window, the budget of every day, and the depth of the *)
(* queue for those that do not overlap (routes/tasks.py, state.py).        *)
SubmissionInvariant ==
    /\ SubmissionTypeOK
    /\ WindowHolds
    /\ BudgetHolds
    /\ DepthHolds

=============================================================================
