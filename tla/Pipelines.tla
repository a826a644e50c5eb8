------------------------------ MODULE Pipelines ------------------------------
(***************************************************************************)
(* One run of a pipeline (src/pipeline_runner.py, src/database.py          *)
(* 5900-5952, src/gateway/routes/pipelines.py 146-375) and the clients     *)
(* that follow it (src/gateway/events.py 380-508).  The runner is a        *)
(* coroutine of the gateway that was asked: it queues a task for each      *)
(* step, polls it, and writes the row of the run; it ends with its         *)
(* process.  Workers and users act on the tasks meanwhile.                 *)
(***************************************************************************)
EXTENDS Integers, Sequences

CONSTANTS
    Steps,              \* number of steps of the pipeline
    RefersTo,           \* the step whose result each step's text names
    Clients,            \* clients of the stream, one subscription each
    MaxDbFailures       \* bound: statements of the runner that fail

ASSUME PipelineAssumption ==
    /\ Steps \in Nat \ {0}
    /\ RefersTo \in [1 .. Steps -> 1 .. Steps]
    /\ MaxDbFailures \in Nat

VARIABLES
    run,                \* row of pipeline_runs: status, current_step, step_results
    step_tasks,         \* status of the task of each step
    deleted,            \* steps whose task row the user deleted
    rendered,           \* did the text of each task carry the result it names
    runner,             \* the coroutine: its step, what it does next, its results
    followers,          \* each client of the stream
    terminal,           \* cached terminal event of the run
    db_failures         \* failed statements so far

pipelineVars == <<run, step_tasks, deleted, rendered, runner, followers, terminal, db_failures>>

StepIds == 1 .. Steps
TaskEnds == {"complete", "failed", "cancelled"}
RunnerStages == {"none", "create", "poll", "persist", "finalize", "fail", "publish", "over", "raised", "dead"}
NoEvent == "none"

PipelineTypeOK ==
    /\ run \in [status : {"absent", "running", "complete", "failed"},
                current_step : 0 .. Steps, done : 0 .. Steps, error : BOOLEAN]
    /\ step_tasks \in [StepIds -> {"absent", "queued", "running", "paused"} \cup TaskEnds]
    /\ deleted \subseteq StepIds
    /\ rendered \subseteq StepIds
    /\ runner \in [stage : RunnerStages, step : 1 .. Steps + 1, done : 0 .. Steps, error : BOOLEAN]
    /\ followers \in [Clients -> [stage : {"none", "subscribe", "live", "ended", "gone"},
                                  end : {"complete", "failed", NoEvent}]]
    /\ terminal \in {"complete", "failed", NoEvent}
    /\ db_failures \in 0 .. MaxDbFailures

PipelineInit ==
    /\ run = [status |-> "absent", current_step |-> 0, done |-> 0, error |-> FALSE]
    /\ step_tasks = [i \in StepIds |-> "absent"]
    /\ deleted = {} /\ rendered = {}
    /\ runner = [stage |-> "none", step |-> 1, done |-> 0, error |-> FALSE]
    /\ followers = [c \in Clients |-> [stage |-> "none", end |-> NoEvent]]
    /\ terminal = NoEvent
    /\ db_failures = 0

alive == runner.stage # "dead"

-----------------------------------------------------------------------------
(* The request and the runner                                              *)

run_pipeline ==
    /\ run.status = "absent"
    /\ run' = [run EXCEPT !.status = "running"]
    /\ runner' = [runner EXCEPT !.stage = "create"]
    /\ UNCHANGED <<step_tasks, deleted, rendered, followers, terminal, db_failures>>

(* {{step_N.result}} is replaced when the result of step N is there.       *)
render_template(i) == RefersTo[i] <= runner.done

(* The task of the next step; when it cannot be created the run fails.     *)
submit_step ==
    /\ runner.stage = "create" /\ runner.step <= Steps
    /\ step_tasks' = [step_tasks EXCEPT ![runner.step] = "queued"]
    /\ rendered' = IF render_template(runner.step) THEN rendered \cup {runner.step} ELSE rendered
    /\ runner' = [runner EXCEPT !.stage = "poll"]
    /\ UNCHANGED <<run, deleted, followers, terminal, db_failures>>

steps_done ==
    /\ runner.stage = "create" /\ runner.step > Steps
    /\ runner' = [runner EXCEPT !.stage = "finalize"]
    /\ UNCHANGED <<run, step_tasks, deleted, rendered, followers, terminal, db_failures>>

polled == step_tasks[runner.step]

(* A variant: only "failed" makes the poll raise; the answer of any other  *)
(* end is taken.                                                           *)
wait_for_any_end ==
    /\ runner.stage = "poll"
    /\ polled \in TaskEnds
    /\ runner' = IF polled = "failed" \/ runner.step \in deleted
                 THEN [runner EXCEPT !.stage = "fail"]
                 ELSE [runner EXCEPT !.stage = "persist", !.done = @ + 1]
    /\ UNCHANGED <<run, step_tasks, deleted, rendered, followers, terminal, db_failures>>

(* A poll that ends the wait: the task is complete, or it failed, was      *)
(* cancelled or is not there.                                              *)
_wait_for_task ==
    /\ runner.stage = "poll"
    /\ polled \in TaskEnds \/ runner.step \in deleted
    /\ runner' = IF polled = "complete" /\ runner.step \notin deleted
                 THEN [runner EXCEPT !.stage = "persist", !.done = @ + 1]
                 ELSE [runner EXCEPT !.stage = "fail"]
    /\ UNCHANGED <<run, step_tasks, deleted, rendered, followers, terminal, db_failures>>

(* _STEP_TIMEOUT: the task is still queued, running or paused, and is left *)
(* as it is.                                                               *)
step_times_out ==
    /\ runner.stage = "poll"
    /\ polled \notin TaskEnds /\ runner.step \notin deleted
    /\ runner' = [runner EXCEPT !.stage = "fail"]
    /\ UNCHANGED <<run, step_tasks, deleted, rendered, followers, terminal, db_failures>>

update_pipeline_run_step ==
    /\ runner.stage = "persist"
    /\ run' = [run EXCEPT !.current_step = runner.step, !.done = runner.done]
    /\ runner' = [runner EXCEPT !.stage = "create", !.step = @ + 1]
    /\ UNCHANGED <<step_tasks, deleted, rendered, followers, terminal, db_failures>>

finalize_pipeline_run(outcome) ==
    run' = [run EXCEPT !.status = outcome, !.done = runner.done, !.error = (outcome = "failed")]

run_completes ==
    /\ runner.stage = "finalize"
    /\ finalize_pipeline_run("complete")
    /\ runner' = [runner EXCEPT !.stage = "publish"]
    /\ UNCHANGED <<step_tasks, deleted, rendered, followers, terminal, db_failures>>

run_fails ==
    /\ runner.stage = "fail"
    /\ finalize_pipeline_run("failed")
    /\ runner' = [runner EXCEPT !.stage = "publish", !.error = TRUE]
    /\ UNCHANGED <<step_tasks, deleted, rendered, followers, terminal, db_failures>>

(* A statement of the runner raises: the run is to fail; when it was the   *)
(* statement that fails the run, the exception ends the coroutine.         *)
statement_fails ==
    /\ runner.stage \in {"create", "poll", "persist", "finalize", "fail"}
    /\ db_failures < MaxDbFailures
    /\ db_failures' = db_failures + 1
    /\ runner' = [runner EXCEPT !.stage = IF @ = "fail" THEN "raised" ELSE "fail"]
    /\ UNCHANGED <<run, step_tasks, deleted, rendered, followers, terminal>>

-----------------------------------------------------------------------------
(* The stream of the run                                                   *)

Following == {c \in Clients : followers[c].stage = "live"}

(* A variant: the terminal event goes to the queues but not to the cache.  *)
publish_uncached ==
    /\ runner.stage = "publish"
    /\ followers' = [c \in Clients |->
                       IF c \in Following THEN [stage |-> "ended", end |-> run.status] ELSE followers[c]]
    /\ runner' = [runner EXCEPT !.stage = "over"]
    /\ UNCHANGED <<run, step_tasks, deleted, rendered, terminal, db_failures>>

(* The terminal event: cached, and put with the sentinel into every queue. *)
publish_pipeline_event ==
    /\ runner.stage = "publish"
    /\ terminal' = IF runner.error THEN "failed" ELSE "complete"
    /\ followers' = [c \in Clients |->
                       IF c \in Following THEN [stage |-> "ended", end |-> terminal'] ELSE followers[c]]
    /\ runner' = [runner EXCEPT !.stage = "over"]
    /\ UNCHANGED <<run, step_tasks, deleted, rendered, db_failures>>

(* The row is read first: a run that ended is answered from it.            *)
stream_pipeline_run(c) ==
    /\ alive /\ run.status # "absent" /\ followers[c].stage = "none"
    /\ followers' = [followers EXCEPT ![c] =
                       IF run.status = "running" THEN [stage |-> "subscribe", end |-> NoEvent]
                                                 ELSE [stage |-> "ended", end |-> run.status]]
    /\ UNCHANGED <<run, step_tasks, deleted, rendered, runner, terminal, db_failures>>

(* Later, on its first item, the generator asks the cache, then queues.    *)
subscribe_pipeline_events(c) ==
    /\ alive /\ followers[c].stage = "subscribe"
    /\ followers' = [followers EXCEPT ![c] =
                       IF terminal # NoEvent THEN [stage |-> "ended", end |-> terminal]
                                             ELSE [stage |-> "live", end |-> NoEvent]]
    /\ UNCHANGED <<run, step_tasks, deleted, rendered, runner, terminal, db_failures>>

client_leaves(c) ==
    /\ followers[c].stage \in {"subscribe", "live"}
    /\ followers' = [followers EXCEPT ![c].stage = "gone"]
    /\ UNCHANGED <<run, step_tasks, deleted, rendered, runner, terminal, db_failures>>

-----------------------------------------------------------------------------
(* What happens to the tasks and to the process                            *)

(* A worker claims, pauses or ends the task, a user cancels it.            *)
task_moves(i) ==
    /\ \/ /\ step_tasks[i] = "queued"
          /\ \E s \in {"running", "cancelled"} : step_tasks' = [step_tasks EXCEPT ![i] = s]
       \/ /\ step_tasks[i] = "running"
          /\ \E s \in {"paused"} \cup TaskEnds : step_tasks' = [step_tasks EXCEPT ![i] = s]
    /\ i \notin deleted
    /\ UNCHANGED <<run, deleted, rendered, runner, followers, terminal, db_failures>>

task_deleted(i) ==
    /\ step_tasks[i] \in TaskEnds
    /\ i \notin deleted
    /\ deleted' = deleted \cup {i}
    /\ UNCHANGED <<run, step_tasks, rendered, runner, followers, terminal, db_failures>>

(* The gateway ends, with the coroutine, the channels and the cache.       *)
gateway_ends ==
    /\ alive /\ runner.stage # "none"
    /\ runner' = [runner EXCEPT !.stage = "dead"]
    /\ terminal' = NoEvent
    /\ followers' = [c \in Clients |-> IF followers[c].stage \in {"subscribe", "live"}
                                       THEN [followers[c] EXCEPT !.stage = "gone"] ELSE followers[c]]
    /\ UNCHANGED <<run, step_tasks, deleted, rendered, db_failures>>

-----------------------------------------------------------------------------

execute_pipeline ==
    \/ submit_step \/ steps_done \/ _wait_for_task \/ step_times_out
    \/ update_pipeline_run_step \/ run_completes \/ run_fails \/ publish_pipeline_event

PipelineNext ==
    \/ run_pipeline \/ execute_pipeline \/ statement_fails \/ gateway_ends
    \/ \E c \in Clients :
         stream_pipeline_run(c) \/ subscribe_pipeline_events(c) \/ client_leaves(c)
    \/ \E i \in StepIds : task_moves(i) \/ task_deleted(i)

(* The event loop schedules the runner and the streams; a wait ends at     *)
(* _STEP_TIMEOUT at the latest.                                            *)
PipelineFairness ==
    /\ WF_pipelineVars(execute_pipeline)
    /\ \A c \in Clients : WF_pipelineVars(subscribe_pipeline_events(c))

PipelineSpec == PipelineInit /\ [][PipelineNext]_pipelineVars
PipelineFairSpec == PipelineSpec /\ PipelineFairness

-----------------------------------------------------------------------------
(* Properties                                                              *)

(* A run that says complete did all its steps: each task ended complete,   *)
(* in the order of the steps, and no step was queued before the one before *)
(* it was complete and on record; a text that names an earlier step got    *)
(* its result.                                                             *)
RunMeansTasks ==
    /\ run.status = "complete" =>
         run.done = Steps /\ \A i \in StepIds : step_tasks[i] = "complete"
    /\ \A i \in 2 .. Steps :
         step_tasks[i] # "absent" => step_tasks[i - 1] = "complete" /\ run.current_step >= i - 1
    /\ \A i \in StepIds :
         step_tasks[i] # "absent" /\ RefersTo[i] < i => i \in rendered

(* What a client of the stream is told of the end is what the row says,    *)
(* for good.                                                               *)
EndAgreesWithRun == \A c \in Clients : followers[c].end # NoEvent => run.status = followers[c].end

(* A run ends, unless its process did or the statement that would record   *)
(* its failure failed: a step that hangs is timed out.                     *)
RunEnds == run.status = "running" ~> (run.status # "running" \/ runner.stage \in {"dead", "raised"})

(* A client that asked for the stream of a run is told its end, however    *)
(* the subscription races with the end of the run, unless it left, its     *)
(* process ended or the run never ends.                                    *)
EndIsSeen ==
    \A c \in Clients :
        followers[c].stage \in {"subscribe", "live"} ~>
            (followers[c].stage \in {"ended", "gone"} \/ runner.stage \in {"dead", "raised"})

(* A run ends, and its followers are told (src/pipeline_runner.py,         *)
(* publish_pipeline_event).                                                *)
PipelineProgress == RunEnds /\ EndIsSeen

(* A run that says complete did every step in order, and what its followers *)
(* are told of its end is what its row says (src/pipeline_runner.py).      *)
PipelineInvariant ==
    /\ PipelineTypeOK
    /\ RunMeansTasks
    /\ EndAgreesWithRun

=============================================================================
