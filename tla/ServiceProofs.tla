--------------------------- MODULE ServiceProofs ----------------------------
(****************************************************************************)
(* The services around the queue: pipelines, webhook deliveries, the        *)
(* scheduler's daemons, the poll of the Ollama nodes and the connectors.    *)
(* Their modules share no state; each part below is about one of them.      *)
(****************************************************************************)
EXTENDS Pipelines, WebhookSender, Scheduler, FiniteSetTheorems,
        OllamaCluster, Connector, TLAPS

(***************************************************************************)
(* A run and its steps, for every number of steps, texts and clients.      *)
(* What the runner holds in memory (its step and what is done) is tied to  *)
(* the row and to the tasks (StepsInOrder), and each of its stages to the  *)
(* status of the run (RowByStage): so the status that is published is the  *)
(* one that was written, and nothing writes it again.                      *)
(***************************************************************************)

AtWork == {"create", "poll", "persist", "finalize", "fail", "raised"}

(* The status of the run, by what the runner does.                         *)
RowByStage ==
  /\ runner.stage = "none" <=> run.status = "absent"
  /\ runner.stage \in AtWork => run.status = "running"
  /\ runner.stage \in AtWork \cup {"none"} => runner.error = FALSE
  /\ runner.stage \in {"publish", "over"} =>
       run.status = IF runner.error THEN "failed" ELSE "complete"
  /\ terminal # NoEvent => run.status = terminal

(* The tasks up to `done` are complete, those after `step` do not exist,   *)
(* and what is done is on record before the next task is created.          *)
StepsInOrder ==
  /\ \A i \in StepIds : i <= runner.done => step_tasks[i] = "complete"
  /\ \A i \in StepIds : i > runner.step => step_tasks[i] = "absent"
  /\ runner.stage \in {"none", "create"} => \A i \in StepIds : i >= runner.step => step_tasks[i] = "absent"
  /\ runner.stage \in {"none", "create", "poll"} => runner.done = runner.step - 1 /\ run.current_step = runner.step - 1
  /\ runner.stage = "persist" => runner.done = runner.step
  /\ runner.stage \in {"poll", "persist"} => runner.step <= Steps
  /\ runner.stage = "finalize" => runner.done = Steps

PipelineInductive ==
  /\ PipelineTypeOK /\ RunMeansTasks /\ EndAgreesWithRun
  /\ RowByStage /\ StepsInOrder

(* The invariant holds at the start.                                       *)
LEMMA PipelineInductiveInit == PipelineInit => PipelineInductive
<1> SUFFICES ASSUME PipelineInit PROVE PipelineInductive
  OBVIOUS
<1> USE PipelineAssumption DEF PipelineAssumption, PipelineInit
<1>1. PipelineTypeOK
  <2>1. run \in [status : {"absent", "running", "complete", "failed"},
                 current_step : 0 .. Steps, done : 0 .. Steps, error : BOOLEAN]
    OBVIOUS
  <2>2. runner \in [stage : RunnerStages, step : 1 .. Steps + 1, done : 0 .. Steps, error : BOOLEAN]
    BY DEF RunnerStages
  <2>3. followers \in [Clients -> [stage : {"none", "subscribe", "live", "ended", "gone"},
                                   end : {"complete", "failed", NoEvent}]]
    OBVIOUS
  <2>4. step_tasks \in [StepIds -> {"absent", "queued", "running", "paused"} \cup TaskEnds]
    OBVIOUS
  <2> QED
    BY <2>1, <2>2, <2>3, <2>4 DEF PipelineTypeOK
<1>2. RunMeansTasks /\ EndAgreesWithRun
  BY DEF RunMeansTasks, EndAgreesWithRun, StepIds
<1>3. RowByStage /\ StepsInOrder
  BY DEF RowByStage, StepsInOrder, AtWork, StepIds
<1> QED
  BY <1>1, <1>2, <1>3 DEF PipelineInductive

-----------------------------------------------------------------------------
(* Every step keeps the types.                                             *)

(* Every step keeps the types.                                             *)
LEMMA PipelineTypeStep == PipelineInductive /\ [PipelineNext]_pipelineVars => PipelineTypeOK'
<1> SUFFICES ASSUME PipelineInductive, [PipelineNext]_pipelineVars PROVE PipelineTypeOK'
  OBVIOUS
<1> USE PipelineAssumption DEF PipelineAssumption, PipelineInductive, PipelineTypeOK, StepIds, RunnerStages
<1>1. CASE run_pipeline
  BY <1>1 DEF run_pipeline
<1>2. CASE submit_step
  <2>1. runner.step \in StepIds
    BY <1>2 DEF submit_step
  <2>2. /\ step_tasks' \in [StepIds -> {"absent", "queued", "running", "paused"} \cup TaskEnds]
        /\ rendered' \subseteq StepIds
    BY <1>2, <2>1 DEF submit_step
  <2>3. runner' \in [stage : RunnerStages, step : 1 .. Steps + 1, done : 0 .. Steps, error : BOOLEAN]
    BY <1>2 DEF submit_step
  <2> QED
    BY <1>2, <2>2, <2>3 DEF submit_step
<1>3. CASE steps_done
  BY <1>3 DEF steps_done
<1>4. CASE _wait_for_task
  <2>1. runner.done + 1 \in 0 .. Steps
    BY <1>4 DEF _wait_for_task, StepsInOrder
  <2> QED
    BY <1>4, <2>1 DEF _wait_for_task
<1>5. CASE step_times_out
  BY <1>5 DEF step_times_out
<1>6. CASE update_pipeline_run_step
  <2>1. runner.step \in 0 .. Steps /\ runner.step + 1 \in 1 .. Steps + 1
    BY <1>6 DEF update_pipeline_run_step, StepsInOrder
  <2> QED
    BY <1>6, <2>1 DEF update_pipeline_run_step
<1>7. CASE run_completes
  BY <1>7 DEF run_completes, finalize_pipeline_run
<1>8. CASE run_fails
  BY <1>8 DEF run_fails, finalize_pipeline_run
<1>9. CASE publish_pipeline_event
  BY <1>9 DEF publish_pipeline_event, Following, NoEvent
<1>10. CASE statement_fails
  <2>1. /\ runner' = [runner EXCEPT !.stage = "raised"] \/ runner' = [runner EXCEPT !.stage = "fail"]
        /\ db_failures' \in 0 .. MaxDbFailures
        /\ UNCHANGED <<run, step_tasks, deleted, rendered, followers, terminal>>
    <3>1. CASE runner.stage = "fail"
      BY <1>10, <3>1 DEF statement_fails
    <3>2. CASE runner.stage # "fail"
      BY <1>10, <3>2 DEF statement_fails
    <3> QED
      BY <3>1, <3>2
  <2>2. runner' \in [stage : RunnerStages, step : 1 .. Steps + 1, done : 0 .. Steps, error : BOOLEAN]
    BY <2>1
  <2> QED
    BY <2>1, <2>2
<1>11. CASE gateway_ends
  BY <1>11 DEF gateway_ends, NoEvent
<1>12. ASSUME NEW c \in Clients, stream_pipeline_run(c) PROVE PipelineTypeOK'
  BY <1>12 DEF stream_pipeline_run, NoEvent
<1>13. ASSUME NEW c \in Clients, subscribe_pipeline_events(c) PROVE PipelineTypeOK'
  BY <1>13 DEF subscribe_pipeline_events, NoEvent
<1>14. ASSUME NEW c \in Clients, client_leaves(c) PROVE PipelineTypeOK'
  BY <1>14 DEF client_leaves
<1>15. ASSUME NEW i \in StepIds, task_moves(i) PROVE PipelineTypeOK'
  <2>1. PICK s \in {"running", "paused"} \cup TaskEnds : step_tasks' = [step_tasks EXCEPT ![i] = s]
    BY <1>15 DEF task_moves, TaskEnds
  <2>2. step_tasks' \in [StepIds -> {"absent", "queued", "running", "paused"} \cup TaskEnds]
    BY <2>1
  <2> QED
    BY <1>15, <2>2 DEF task_moves
<1>16. ASSUME NEW i \in StepIds, task_deleted(i) PROVE PipelineTypeOK'
  BY <1>16 DEF task_deleted
<1>17. CASE UNCHANGED pipelineVars
  BY <1>17 DEF pipelineVars
<1> QED
  BY <1>1, <1>2, <1>3, <1>4, <1>5, <1>6, <1>7, <1>8, <1>9, <1>10, <1>11, <1>12, <1>13,
     <1>14, <1>15, <1>16, <1>17 DEF PipelineNext, execute_pipeline

-----------------------------------------------------------------------------
(* The steps of the runner keep what a status and a task mean.             *)

RunState == RunMeansTasks /\ EndAgreesWithRun /\ RowByStage /\ StepsInOrder

(* A step of the runner.                                                   *)
LEMMA RunnerStep == PipelineInductive /\ (run_pipeline \/ execute_pipeline \/ statement_fails) => RunState'
<1> SUFFICES ASSUME PipelineInductive, run_pipeline \/ execute_pipeline \/ statement_fails PROVE RunState'
  OBVIOUS
<1> USE PipelineAssumption DEF PipelineAssumption, PipelineInductive, RunState, StepIds
<1>t. /\ runner.step \in 1 .. Steps + 1 /\ runner.done \in 0 .. Steps /\ run.current_step \in 0 .. Steps
      /\ runner = [stage |-> runner.stage, step |-> runner.step, done |-> runner.done, error |-> runner.error]
      /\ run = [status |-> run.status, current_step |-> run.current_step, done |-> run.done, error |-> run.error]
      /\ DOMAIN step_tasks = StepIds
  BY DEF PipelineTypeOK
<1>e. /\ terminal \in {"complete", "failed", NoEvent}
      /\ \A c \in Clients : followers[c].end \in {"complete", "failed", NoEvent}
  BY DEF PipelineTypeOK
<1>1. CASE run_pipeline
  <2>1. /\ runner.stage = "none" /\ runner'.stage = "create" /\ runner'.step = runner.step /\ runner'.done = runner.done /\ runner'.error = runner.error
        /\ run.status = "absent" /\ run'.status = "running" /\ run'.current_step = run.current_step
        /\ UNCHANGED <<step_tasks, rendered, followers, terminal>>
    BY <1>1, <1>t DEF run_pipeline, RowByStage
  <2>2. RunMeansTasks'
    BY <1>t, <2>1 DEF RunMeansTasks
  <2>3. EndAgreesWithRun'
    BY <1>e, <2>1 DEF EndAgreesWithRun, RowByStage, AtWork, NoEvent
  <2>4. RowByStage'
    BY <1>e, <2>1 DEF RowByStage, AtWork, NoEvent
  <2>5. StepsInOrder'
    BY <1>t, <2>1 DEF StepsInOrder
  <2> QED
    BY <2>2, <2>3, <2>4, <2>5
<1>2. CASE submit_step
  <2>1. /\ runner.stage = "create" /\ runner'.stage = "poll" /\ runner'.step = runner.step /\ runner'.done = runner.done /\ runner'.error = runner.error
        /\ runner.step \in StepIds /\ step_tasks'[runner.step] = "queued"
        /\ \A i \in StepIds : i # runner.step => step_tasks'[i] = step_tasks[i]
        /\ rendered \subseteq rendered'
        /\ RefersTo[runner.step] <= runner.done => runner.step \in rendered'
        /\ UNCHANGED <<run, followers, terminal>>
    BY <1>2, <1>t DEF submit_step, render_template
  <2>2. RunMeansTasks'
    <3>1. run.status = "running" /\ runner.done = runner.step - 1 /\ run.current_step = runner.step - 1
      BY <2>1 DEF StepsInOrder, RowByStage, AtWork
    <3>2. ASSUME NEW i \in 2 .. Steps, step_tasks'[i] # "absent"
          PROVE  step_tasks'[i - 1] = "complete" /\ run'.current_step >= i - 1
      <4>1. i \in StepIds /\ i - 1 \in StepIds
        BY <3>2
      <4>2. CASE i = runner.step
        BY <1>t, <2>1, <3>1, <4>1, <4>2 DEF StepsInOrder
      <4>3. CASE i # runner.step
        <5>1. i < runner.step
          BY <1>t, <2>1, <3>2, <4>1, <4>3 DEF StepsInOrder
        <5> QED
          BY <1>t, <2>1, <3>2, <4>1, <4>3, <5>1 DEF RunMeansTasks
      <4> QED
        BY <4>2, <4>3
    <3>3. ASSUME NEW i \in StepIds, step_tasks'[i] # "absent", RefersTo[i] < i
          PROVE  i \in rendered'
      <4>1. RefersTo[i] \in Nat
        OBVIOUS
      <4>2. CASE i = runner.step
        BY <1>t, <2>1, <3>1, <3>3, <4>1, <4>2
      <4>3. CASE i # runner.step
        BY <2>1, <3>3, <4>3 DEF RunMeansTasks
      <4> QED
        BY <4>2, <4>3
    <3> QED
      BY <2>1, <3>1, <3>2, <3>3 DEF RunMeansTasks
  <2>3. EndAgreesWithRun'
    BY <1>e, <2>1 DEF EndAgreesWithRun, RowByStage, AtWork, NoEvent
  <2>4. RowByStage'
    BY <1>e, <2>1 DEF RowByStage, AtWork, NoEvent
  <2>5. StepsInOrder'
    BY <1>t, <2>1 DEF StepsInOrder
  <2> QED
    BY <2>2, <2>3, <2>4, <2>5
<1>3. CASE steps_done
  <2>1. /\ runner.stage = "create" /\ runner'.stage = "finalize" /\ runner'.step = runner.step /\ runner'.done = runner.done /\ runner'.error = runner.error
        /\ runner.step > Steps
        /\ UNCHANGED <<run, step_tasks, rendered, followers, terminal>>
    BY <1>3, <1>t DEF steps_done
  <2>2. RunMeansTasks'
    BY <1>t, <2>1 DEF RunMeansTasks
  <2>3. EndAgreesWithRun'
    BY <1>e, <2>1 DEF EndAgreesWithRun, RowByStage, AtWork, NoEvent
  <2>4. RowByStage'
    BY <1>e, <2>1 DEF RowByStage, AtWork, NoEvent
  <2>5. StepsInOrder'
    BY <1>t, <2>1 DEF StepsInOrder
  <2> QED
    BY <2>2, <2>3, <2>4, <2>5
<1>4. CASE _wait_for_task
  <2>1. /\ runner.stage = "poll" /\ runner'.step = runner.step /\ runner'.error = runner.error
        /\ \/ step_tasks[runner.step] = "complete" /\ runner'.stage = "persist" /\ runner'.done = runner.done + 1
           \/ runner'.stage = "fail" /\ runner'.done = runner.done
        /\ UNCHANGED <<run, step_tasks, rendered, followers, terminal>>
    BY <1>4, <1>t DEF _wait_for_task, polled
  <2>2. RunMeansTasks'
    BY <1>t, <2>1 DEF RunMeansTasks
  <2>3. EndAgreesWithRun'
    BY <1>e, <2>1 DEF EndAgreesWithRun, RowByStage, AtWork, NoEvent
  <2>4. RowByStage'
    BY <1>e, <2>1 DEF RowByStage, AtWork, NoEvent
  <2>5. StepsInOrder'
    BY <1>t, <2>1 DEF StepsInOrder
  <2> QED
    BY <2>2, <2>3, <2>4, <2>5
<1>5. CASE step_times_out
  <2>1. /\ runner.stage = "poll" /\ runner'.stage = "fail" /\ runner'.step = runner.step /\ runner'.done = runner.done /\ runner'.error = runner.error
        /\ UNCHANGED <<run, step_tasks, rendered, followers, terminal>>
    BY <1>5, <1>t DEF step_times_out
  <2>2. RunMeansTasks'
    BY <1>t, <2>1 DEF RunMeansTasks
  <2>3. EndAgreesWithRun'
    BY <1>e, <2>1 DEF EndAgreesWithRun, RowByStage, AtWork, NoEvent
  <2>4. RowByStage'
    BY <1>e, <2>1 DEF RowByStage, AtWork, NoEvent
  <2>5. StepsInOrder'
    BY <1>t, <2>1 DEF StepsInOrder
  <2> QED
    BY <2>2, <2>3, <2>4, <2>5
<1>6. CASE update_pipeline_run_step
  <2>1. /\ runner.stage = "persist" /\ runner'.stage = "create" /\ runner'.step = runner.step + 1
        /\ runner'.done = runner.done /\ runner'.error = runner.error
        /\ run'.status = run.status /\ run'.current_step = runner.step /\ run'.done = runner.done
        /\ UNCHANGED <<step_tasks, rendered, followers, terminal>>
    BY <1>6, <1>t DEF update_pipeline_run_step
  <2>2. RunMeansTasks'
    BY <1>t, <2>1 DEF RunMeansTasks, StepsInOrder, RowByStage, AtWork
  <2>3. EndAgreesWithRun'
    BY <1>e, <2>1 DEF EndAgreesWithRun, RowByStage, AtWork, NoEvent
  <2>4. RowByStage'
    BY <1>e, <2>1 DEF RowByStage, AtWork, NoEvent
  <2>5. StepsInOrder'
    <3>1. /\ runner.done = runner.step /\ runner'.step - 1 = runner.step
          /\ \A i \in StepIds : i >= runner'.step => i > runner.step
      BY <1>t, <2>1 DEF StepsInOrder
    <3>2. /\ \A i \in StepIds : i <= runner'.done => step_tasks'[i] = "complete"
          /\ \A i \in StepIds : i > runner'.step => step_tasks'[i] = "absent"
          /\ \A i \in StepIds : i >= runner'.step => step_tasks'[i] = "absent"
      BY <1>t, <2>1, <3>1 DEF StepsInOrder
    <3> QED
      BY <1>t, <2>1, <3>1, <3>2 DEF StepsInOrder
  <2> QED
    BY <2>2, <2>3, <2>4, <2>5
<1>7. CASE run_completes
  <2>1. /\ runner.stage = "finalize" /\ runner'.stage = "publish" /\ runner'.step = runner.step /\ runner'.done = runner.done /\ runner'.error = runner.error
        /\ run'.status = "complete" /\ run'.current_step = run.current_step /\ run'.done = runner.done
        /\ UNCHANGED <<step_tasks, rendered, followers, terminal>>
    BY <1>7, <1>t DEF run_completes, finalize_pipeline_run
  <2>2. RunMeansTasks'
    BY <1>t, <2>1 DEF RunMeansTasks, StepsInOrder, RowByStage, AtWork
  <2>3. EndAgreesWithRun'
    BY <1>e, <2>1 DEF EndAgreesWithRun, RowByStage, AtWork, NoEvent
  <2>4. RowByStage'
    BY <1>e, <2>1 DEF RowByStage, AtWork, NoEvent
  <2>5. StepsInOrder'
    BY <1>t, <2>1 DEF StepsInOrder
  <2> QED
    BY <2>2, <2>3, <2>4, <2>5
<1>8. CASE run_fails
  <2>1. /\ runner.stage = "fail" /\ runner'.stage = "publish" /\ runner'.error = TRUE
        /\ runner'.step = runner.step /\ runner'.done = runner.done
        /\ run'.status = "failed" /\ run'.current_step = run.current_step
        /\ UNCHANGED <<step_tasks, rendered, followers, terminal>>
    BY <1>8, <1>t DEF run_fails, finalize_pipeline_run
  <2>2. RunMeansTasks'
    BY <1>t, <2>1 DEF RunMeansTasks
  <2>3. EndAgreesWithRun'
    BY <1>e, <2>1 DEF EndAgreesWithRun, RowByStage, AtWork, NoEvent
  <2>4. RowByStage'
    BY <1>e, <2>1 DEF RowByStage, AtWork, NoEvent
  <2>5. StepsInOrder'
    BY <1>t, <2>1 DEF StepsInOrder
  <2> QED
    BY <2>2, <2>3, <2>4, <2>5
<1>9. CASE publish_pipeline_event
  <2>1. /\ runner.stage = "publish" /\ runner'.stage = "over" /\ runner'.step = runner.step /\ runner'.done = runner.done /\ runner'.error = runner.error
        /\ terminal' = IF runner.error THEN "failed" ELSE "complete"
        /\ \A c \in Clients : followers'[c].end = followers[c].end \/ followers'[c].end = terminal'
        /\ UNCHANGED <<run, step_tasks, rendered>>
    BY <1>9, <1>t DEF publish_pipeline_event, Following, PipelineTypeOK
  <2>2. RunMeansTasks'
    BY <1>t, <2>1 DEF RunMeansTasks
  <2>3. EndAgreesWithRun'
    BY <1>e, <2>1 DEF EndAgreesWithRun, RowByStage, AtWork, NoEvent
  <2>4. RowByStage'
    BY <1>e, <2>1 DEF RowByStage, AtWork, NoEvent
  <2>5. StepsInOrder'
    BY <1>t, <2>1 DEF StepsInOrder
  <2> QED
    BY <2>2, <2>3, <2>4, <2>5
<1>10. CASE statement_fails
  <2>1. /\ runner.stage \in {"create", "poll", "persist", "finalize", "fail"} /\ runner'.stage \in {"raised", "fail"} /\ runner'.step = runner.step /\ runner'.done = runner.done /\ runner'.error = runner.error
        /\ UNCHANGED <<run, step_tasks, rendered, followers, terminal>>
    BY <1>10, <1>t DEF statement_fails
  <2>2. RunMeansTasks'
    BY <1>t, <2>1 DEF RunMeansTasks
  <2>3. EndAgreesWithRun'
    BY <1>e, <2>1 DEF EndAgreesWithRun, RowByStage, AtWork, NoEvent
  <2>4. RowByStage'
    BY <1>e, <2>1 DEF RowByStage, AtWork, NoEvent
  <2>5. StepsInOrder'
    BY <1>t, <2>1 DEF StepsInOrder
  <2> QED
    BY <2>2, <2>3, <2>4, <2>5
<1> QED
  BY <1>1, <1>2, <1>3, <1>4, <1>5, <1>6, <1>7, <1>8, <1>9, <1>10 DEF execute_pipeline

(* Clients and tasks, and the end of the process, write no row of the run. *)
LEMMA OthersStep ==
  ASSUME PipelineInductive,
         \/ gateway_ends
         \/ \E c \in Clients : stream_pipeline_run(c) \/ subscribe_pipeline_events(c) \/ client_leaves(c)
         \/ \E i \in StepIds : task_moves(i) \/ task_deleted(i)
         \/ UNCHANGED pipelineVars
  PROVE  RunState'
<1> USE PipelineAssumption DEF PipelineAssumption, PipelineInductive, RunState, StepIds
<1>t. /\ DOMAIN step_tasks = StepIds /\ DOMAIN followers = Clients
      /\ runner.step \in Nat
      /\ runner = [stage |-> runner.stage, step |-> runner.step, done |-> runner.done, error |-> runner.error]
      /\ run.status \in {"absent", "running", "complete", "failed"}
      /\ \A c \in Clients : /\ followers[c].end \in {"complete", "failed", NoEvent}
                            /\ followers[c] = [stage |-> followers[c].stage, end |-> followers[c].end]
  <2>1. \A c \in Clients : followers[c] \in [stage : {"none", "subscribe", "live", "ended", "gone"},
                                             end : {"complete", "failed", NoEvent}]
    BY DEF PipelineTypeOK
  <2>2. /\ DOMAIN step_tasks = StepIds /\ DOMAIN followers = Clients
        /\ runner.step \in Nat /\ run.status \in {"absent", "running", "complete", "failed"}
        /\ runner = [stage |-> runner.stage, step |-> runner.step, done |-> runner.done, error |-> runner.error]
    BY DEF PipelineTypeOK
  <2> QED
    BY <2>1, <2>2
<1>1. CASE gateway_ends
  <2>1. /\ runner.stage # "none" /\ runner'.stage = "dead" /\ terminal' = NoEvent
        /\ runner'.step = runner.step /\ runner'.done = runner.done
        /\ \A c \in Clients : followers'[c].end = followers[c].end
        /\ UNCHANGED <<run, step_tasks, rendered>>
    BY <1>1, <1>t DEF gateway_ends
  <2> QED
    BY <2>1 DEF RunMeansTasks, EndAgreesWithRun, RowByStage, StepsInOrder, AtWork
<1>2. ASSUME NEW c \in Clients, stream_pipeline_run(c) \/ subscribe_pipeline_events(c) \/ client_leaves(c)
      PROVE  RunState'
  <2>1. UNCHANGED <<run, step_tasks, rendered, runner, terminal>>
    BY <1>2 DEF stream_pipeline_run, subscribe_pipeline_events, client_leaves
  <2>2. /\ \A d \in Clients \ {c} : followers'[d] = followers[d]
        /\ followers'[c].end \in {followers[c].end, NoEvent, run.status, terminal}
        /\ followers'[c].end = run.status /\ run.status # terminal /\ run.status # followers[c].end
             => run.status # NoEvent
        /\ followers'[c].end = terminal /\ terminal # NoEvent => run.status = terminal
    BY <1>2, <1>t DEF stream_pipeline_run, subscribe_pipeline_events, client_leaves, RowByStage, NoEvent
  <2> QED
    BY <2>1, <2>2 DEF RunMeansTasks, EndAgreesWithRun, RowByStage, StepsInOrder
<1>3. ASSUME NEW i \in StepIds, task_moves(i) PROVE RunState'
  <2>1. /\ step_tasks[i] \in {"queued", "running"} /\ step_tasks'[i] # "absent"
        /\ \A j \in StepIds : j # i => step_tasks'[j] = step_tasks[j]
        /\ UNCHANGED <<run, rendered, runner, followers, terminal>>
    BY <1>3, <1>t DEF task_moves, TaskEnds
  <2>2. \A j \in StepIds : /\ step_tasks[j] = "complete" => step_tasks'[j] = "complete"
                           /\ step_tasks'[j] = "absent" <=> step_tasks[j] = "absent"
    BY <2>1
  <2>3. RunMeansTasks'
    <3>1. run'.status = "complete" => run'.done = Steps /\ \A j \in StepIds : step_tasks'[j] = "complete"
      BY <2>1, <2>2 DEF RunMeansTasks
    <3>2. ASSUME NEW j \in 2 .. Steps, step_tasks'[j] # "absent"
          PROVE  step_tasks'[j - 1] = "complete" /\ run'.current_step >= j - 1
      <4>1. j \in StepIds /\ j - 1 \in StepIds
        BY <3>2
      <4> QED
        BY <2>1, <2>2, <3>2, <4>1 DEF RunMeansTasks
    <3>3. \A j \in StepIds : step_tasks'[j] # "absent" /\ RefersTo[j] < j => j \in rendered'
      BY <2>1, <2>2 DEF RunMeansTasks
    <3> QED
      BY <3>1, <3>2, <3>3 DEF RunMeansTasks
  <2> QED
    BY <2>1, <2>2, <2>3 DEF EndAgreesWithRun, RowByStage, StepsInOrder
<1>4. ASSUME NEW i \in StepIds, task_deleted(i) PROVE RunState'
  BY <1>4 DEF task_deleted, RunMeansTasks, EndAgreesWithRun, RowByStage, StepsInOrder
<1>5. CASE UNCHANGED pipelineVars
  BY <1>5 DEF pipelineVars, RunMeansTasks, EndAgreesWithRun, RowByStage, StepsInOrder
<1> QED
  BY <1>1, <1>2, <1>3, <1>4, <1>5

(* A run that says complete did every step in order, on texts that carry   *)
(* the results they name, and its followers are told what its row says:    *)
(* whatever fails, is cancelled, deleted or timed out meanwhile.           *)
THEOREM PipelineCorrect == PipelineSpec => []PipelineInvariant
<1>1. PipelineInductive /\ [PipelineNext]_pipelineVars => PipelineInductive'
  <2> SUFFICES ASSUME PipelineInductive, [PipelineNext]_pipelineVars PROVE PipelineInductive'
    OBVIOUS
  <2>1. RunState'
    BY RunnerStep, OthersStep DEF PipelineNext
  <2> QED
    BY <2>1, PipelineTypeStep DEF PipelineInductive, RunState
<1>2. PipelineInductive => PipelineInvariant
  BY DEF PipelineInductive, PipelineInvariant
<1> QED
  BY <1>1, <1>2, PipelineInductiveInit, PTL DEF PipelineSpec

-----------------------------------------------------------------------------
(***************************************************************************)
(* How often a receiver hears of a task, for every number of webhooks,     *)
(* tasks and attempts.  The number of requests that arrived is bounded by  *)
(* the attempts that were ended (Counted), a delivery begins at most once, *)
(* because its task ends once (BegunOnce), and an answer ends it           *)
(* (AnsweredIsOver).                                                       *)
(***************************************************************************)

Counted ==
  \A d \in Deliveries :
     LET here == deliveries[d] IN
     /\ here.stage = "none" => here.attempt = 0
     /\ here.stage = "posting" => here.attempt > 0
     /\ here.stage = "waiting" => here.attempt < MaxRetries
     /\ here.attempt <= MaxRetries
     /\ arrived[d] <= IF here.stage = "posting" THEN here.attempt - 1 ELSE here.attempt

BegunOnce ==
  \A t \in Finished, h \in Hooks :
     firing[t] # "over" => deliveries[<<t, h>>].stage = "none"

AnsweredIsOver == \A d \in answered : deliveries[d].stage = "over"

WebhookInductive == WebhookTypeOK /\ Counted /\ BegunOnce /\ AnsweredIsOver

Stage == {"none", "posting", "waiting", "over"}

(* The invariant holds at the start.                                       *)
LEMMA WebhookInductiveInit == WebhookInit => WebhookInductive
<1> SUFFICES ASSUME WebhookInit PROVE WebhookInductive
  OBVIOUS
<1> USE WebhookAssumption DEF WebhookInit, WebhookAssumption
<1>1. WebhookTypeOK
  BY DEF WebhookTypeOK
<1>2. Counted
  BY DEF Counted
<1>3. BegunOnce
  BY DEF BegunOnce, Deliveries
<1>4. AnsweredIsOver
  BY DEF AnsweredIsOver
<1> QED
  BY <1>1, <1>2, <1>3, <1>4 DEF WebhookInductive

(* A step of the delivery d of a task whose webhooks have been read.       *)
LEMMA OneDelivery ==
  ASSUME WebhookInductive, NEW d \in Deliveries, deliveries[d].stage # "none",
         deliveries' \in [Deliveries -> [stage : Stage, attempt : Nat]],
         deliveries'[d].stage # "none",
         deliveries'[d].stage = "posting" => deliveries'[d].attempt > 0,
         deliveries'[d].stage = "waiting" => deliveries'[d].attempt < MaxRetries,
         deliveries'[d].attempt <= MaxRetries,
         arrived' \in [Deliveries -> Nat],
         arrived'[d] <= IF deliveries'[d].stage = "posting" THEN deliveries'[d].attempt - 1
                                                           ELSE deliveries'[d].attempt,
         \A e \in Deliveries \ {d} : deliveries'[e] = deliveries[e] /\ arrived'[e] = arrived[e],
         d \notin answered,
         answered' = answered \/ (answered' = answered \cup {d} /\ deliveries'[d].stage = "over"),
         UNCHANGED <<webhooks, firing, stops>>
  PROVE  WebhookInductive'
<1>1. WebhookTypeOK'
  BY DEF WebhookInductive, WebhookTypeOK, Stage
<1>2. Counted'
  <2> SUFFICES ASSUME NEW e \in Deliveries
               PROVE  LET here == deliveries'[e] IN
                      /\ here.stage = "none" => here.attempt = 0
                      /\ here.stage = "posting" => here.attempt > 0
                      /\ here.stage = "waiting" => here.attempt < MaxRetries
                      /\ here.attempt <= MaxRetries
                      /\ arrived'[e] <= IF here.stage = "posting" THEN here.attempt - 1
                                                                  ELSE here.attempt
    BY DEF Counted
  <2>1. CASE e = d
    BY <2>1
  <2>2. CASE e # d
    BY <2>2 DEF WebhookInductive, Counted
  <2> QED
    BY <2>1, <2>2
<1>3. BegunOnce'
  BY DEF WebhookInductive, BegunOnce, Deliveries
<1>4. AnsweredIsOver'
  BY DEF WebhookInductive, WebhookTypeOK, AnsweredIsOver
<1> QED
  BY <1>1, <1>2, <1>3, <1>4 DEF WebhookInductive

(* A step of one delivery.                                                 *)
LEMMA DeliveryStep ==
  ASSUME WebhookInductive, NEW d \in Deliveries, Delivering(d)
  PROVE  WebhookInductive'
<1> DEFINE here == deliveries[d]
<1> USE WebhookAssumption DEF WebhookAssumption
<1>1. /\ deliveries \in [Deliveries -> [stage : Stage, attempt : Nat]]
      /\ arrived \in [Deliveries -> Nat] /\ answered \subseteq Deliveries
  BY DEF WebhookInductive, WebhookTypeOK, Stage
<1>2. /\ here.attempt <= MaxRetries
      /\ here.stage = "posting" => here.attempt > 0 /\ arrived[d] <= here.attempt - 1
      /\ here.stage # "posting" => arrived[d] <= here.attempt
      /\ here.stage = "waiting" => here.attempt < MaxRetries
      /\ here.stage # "over" => d \notin answered
  BY DEF WebhookInductive, Counted, AnsweredIsOver
<1>3. CASE post_answered(d)
  <2>1. /\ here.stage = "posting" /\ answered' = answered \cup {d}
        /\ UNCHANGED <<webhooks, firing, stops>>
        /\ deliveries' = [deliveries EXCEPT ![d] = [stage |-> "over", attempt |-> here.attempt]]
        /\ arrived' = [arrived EXCEPT ![d] = @ + 1]
    BY <1>3 DEF post_answered, post, to_stage
  <2>2. /\ deliveries' \in [Deliveries -> [stage : Stage, attempt : Nat]]
        /\ arrived' \in [Deliveries -> Nat]
        /\ deliveries'[d] = [stage |-> "over", attempt |-> here.attempt]
        /\ arrived'[d] = arrived[d] + 1
        /\ \A e \in Deliveries \ {d} : deliveries'[e] = deliveries[e] /\ arrived'[e] = arrived[e]
    BY <1>1, <2>1 DEF Stage
  <2> QED
    BY <1>1, <1>2, <2>1, <2>2, OneDelivery
<1>4. CASE post_fails(d)
  <2> DEFINE stage == IF here.attempt < MaxRetries THEN "waiting" ELSE "over"
  <2>1. /\ here.stage = "posting"
        /\ UNCHANGED <<webhooks, firing, answered, stops>>
        /\ deliveries' = [deliveries EXCEPT ![d] = [stage |-> stage, attempt |-> here.attempt]]
        /\ arrived' = [arrived EXCEPT ![d] = @ + 1] \/ arrived' = arrived
    BY <1>4 DEF post_fails, post, to_stage
  <2>2. /\ deliveries' \in [Deliveries -> [stage : Stage, attempt : Nat]]
        /\ arrived' \in [Deliveries -> Nat]
        /\ deliveries'[d] = [stage |-> stage, attempt |-> here.attempt]
        /\ arrived'[d] <= arrived[d] + 1
        /\ \A e \in Deliveries \ {d} : deliveries'[e] = deliveries[e] /\ arrived'[e] = arrived[e]
    BY <1>1, <2>1 DEF Stage
  <2> QED
    BY <1>1, <1>2, <2>1, <2>2, OneDelivery
<1>5. CASE send_callback(d)
  <2>1. /\ here.stage = "waiting"
        /\ UNCHANGED <<webhooks, firing, arrived, answered, stops>>
        /\ deliveries' = [deliveries EXCEPT ![d] = [stage |-> "posting", attempt |-> here.attempt + 1]]
    BY <1>5 DEF send_callback
  <2>2. /\ deliveries' \in [Deliveries -> [stage : Stage, attempt : Nat]]
        /\ deliveries'[d] = [stage |-> "posting", attempt |-> here.attempt + 1]
        /\ \A e \in Deliveries \ {d} : deliveries'[e] = deliveries[e]
    BY <1>1, <2>1 DEF Stage
  <2> QED
    BY <1>1, <1>2, <2>1, <2>2, OneDelivery
<1> QED
  BY <1>3, <1>4, <1>5 DEF Delivering

(* The webhooks of a task are read once it ended: none of its deliveries   *)
(* had begun.                                                              *)
LEMMA FireStep ==
  ASSUME WebhookInductive, NEW t \in Finished, _fire_user_webhooks(t)
  PROVE  WebhookInductive'
<1> USE WebhookAssumption DEF WebhookAssumption
<1> DEFINE begin == [stage |-> "posting", attempt |-> 1]
<1>1. /\ firing[t] \in Events /\ firing' = [firing EXCEPT ![t] = "over"]
      /\ UNCHANGED <<webhooks, arrived, answered, stops>>
  BY DEF _fire_user_webhooks
<1>2. /\ deliveries' \in [Deliveries -> [stage : Stage, attempt : Nat]]
      /\ \A d \in Deliveries : deliveries'[d] = deliveries[d] \/ (d[1] = t /\ deliveries'[d] = begin)
  BY DEF _fire_user_webhooks, WebhookInductive, WebhookTypeOK, Stage
<1>3. firing[t] # "over"
  BY <1>1 DEF Events
<1>4. \A d \in Deliveries : d[1] = t => deliveries[d].stage = "none"
  BY <1>3 DEF WebhookInductive, BegunOnce, Deliveries
<1>5. WebhookTypeOK'
  BY <1>1, <1>2 DEF WebhookInductive, WebhookTypeOK, Stage
<1>6. Counted'
  <2> SUFFICES ASSUME NEW d \in Deliveries, d[1] = t, deliveries'[d] = begin
               PROVE  arrived[d] <= 0
    BY <1>1, <1>2 DEF WebhookInductive, WebhookTypeOK, Counted
  <2> QED
    BY <1>4 DEF WebhookInductive, Counted
<1>7. BegunOnce'
  <2> SUFFICES ASSUME NEW s \in Finished, NEW h \in Hooks, firing'[s] # "over"
               PROVE  deliveries'[<<s, h>>].stage = "none"
    BY DEF BegunOnce
  <2>1. s # t /\ firing[s] # "over" /\ <<s, h>> \in Deliveries
    BY <1>1 DEF WebhookInductive, WebhookTypeOK, Deliveries
  <2> QED
    BY <1>2, <2>1 DEF WebhookInductive, BegunOnce
<1>8. AnsweredIsOver'
  BY <1>1, <1>2, <1>4 DEF WebhookInductive, WebhookTypeOK, AnsweredIsOver
<1> QED
  BY <1>5, <1>6, <1>7, <1>8 DEF WebhookInductive

(* A process stops, and its deliveries with it.                            *)
LEMMA StopStep ==
  ASSUME WebhookInductive, worker_stops
  PROVE  WebhookInductive'
<1> USE WebhookAssumption DEF WebhookAssumption
<1>1. /\ UNCHANGED <<webhooks, arrived, answered>>
      /\ stops < MaxStops /\ stops' = stops + 1
      /\ firing' = [t \in Finished |-> IF firing[t] \in Events THEN "over" ELSE firing[t]]
  BY DEF worker_stops
<1>2. \A d \in Deliveries :
        deliveries'[d] = IF deliveries[d].stage \in {"posting", "waiting"}
                         THEN [stage |-> "over", attempt |-> deliveries[d].attempt] ELSE deliveries[d]
  BY DEF worker_stops, WebhookInductive, WebhookTypeOK
<1>3. deliveries' \in [Deliveries -> [stage : Stage, attempt : Nat]]
  BY <1>2 DEF worker_stops, WebhookInductive, WebhookTypeOK, Stage
<1>4. WebhookTypeOK'
  BY <1>1, <1>3 DEF WebhookInductive, WebhookTypeOK, Stage
<1>5. Counted'
  <2> SUFFICES ASSUME NEW d \in Deliveries
               PROVE  LET here == deliveries'[d] IN
                      /\ here.stage = "none" => here.attempt = 0
                      /\ here.stage = "posting" => here.attempt > 0
                      /\ here.stage = "waiting" => here.attempt < MaxRetries
                      /\ here.attempt <= MaxRetries
                      /\ arrived[d] <= IF here.stage = "posting" THEN here.attempt - 1
                                                                 ELSE here.attempt
    BY <1>1 DEF Counted
  <2>1. /\ deliveries[d] \in [stage : Stage, attempt : Nat] /\ arrived[d] \in Nat
    BY DEF WebhookInductive, WebhookTypeOK, Stage
  <2>2. CASE deliveries[d].stage \in {"posting", "waiting"}
    <3>1. /\ deliveries[d].attempt <= MaxRetries
          /\ arrived[d] <= deliveries[d].attempt
      BY <2>1 DEF WebhookInductive, Counted
    <3>2. deliveries'[d] = [stage |-> "over", attempt |-> deliveries[d].attempt]
      BY <1>2, <2>2
    <3> QED
      BY <3>1, <3>2
  <2>3. CASE deliveries[d].stage \notin {"posting", "waiting"}
    BY <1>2, <2>3 DEF WebhookInductive, Counted
  <2> QED
    BY <2>2, <2>3
<1>6. BegunOnce'
  BY <1>1, <1>2 DEF WebhookInductive, WebhookTypeOK, BegunOnce, Deliveries
<1>7. AnsweredIsOver'
  BY <1>1, <1>2 DEF WebhookInductive, WebhookTypeOK, AnsweredIsOver
<1> QED
  BY <1>4, <1>5, <1>6, <1>7 DEF WebhookInductive

(* Every step keeps the invariant.                                         *)
LEMMA WebhookInductiveStep == WebhookInductive /\ [WebhookNext]_webhookVars => WebhookInductive'
<1> SUFFICES ASSUME WebhookInductive, [WebhookNext]_webhookVars PROVE WebhookInductive'
  OBVIOUS
<1> USE DEF WebhookInductive, WebhookTypeOK, Counted, BegunOnce, AnsweredIsOver
<1>1. ASSUME NEW h \in Hooks, create_webhook(h) \/ delete_webhook(h) PROVE WebhookInductive'
  BY <1>1 DEF create_webhook, delete_webhook, Events
<1>2. ASSUME NEW t \in Finished, task_ends(t) PROVE WebhookInductive'
  BY <1>2 DEF task_ends, Events
<1>3. CASE UNCHANGED webhookVars
  BY <1>3 DEF webhookVars
<1> QED
  BY <1>1, <1>2, <1>3, FireStep, StopStep, DeliveryStep DEF WebhookNext

(* A receiver hears of a task at most _MAX_RETRIES times, whatever fails   *)
(* (send_callback, src/webhook_sender.py).                                 *)
THEOREM WebhookCorrect == WebhookSpec => []WebhookInvariant
<1>1. WebhookSpec => []WebhookInductive
  BY WebhookInductiveInit, WebhookInductiveStep, PTL DEF WebhookSpec
<1>2. WebhookInductive => WebhookInvariant
  BY WebhookAssumption
  DEF WebhookInductive, WebhookInvariant, WebhookTypeOK, Counted, AtMostRetries, WebhookAssumption
<1> QED
  BY <1>1, <1>2, PTL

(* Once its answer arrived a receiver is not told again (send_callback).   *)
THEOREM WebhookAnsweredOnce == WebhookSpec => NoneAfterAnswer
<1>1. WebhookSpec => []WebhookInductive
  BY WebhookInductiveInit, WebhookInductiveStep, PTL DEF WebhookSpec
<1>2. ASSUME WebhookInductive, [WebhookNext]_webhookVars
      PROVE  [\A d \in answered : arrived'[d] = arrived[d]]_webhookVars
  <2> SUFFICES ASSUME WebhookNext, NEW d \in answered PROVE arrived'[d] = arrived[d]
    BY <1>2
  <2>1. d \in Deliveries /\ deliveries[d].stage = "over"
    BY <1>2 DEF WebhookInductive, WebhookTypeOK, AnsweredIsOver
  <2>2. ASSUME NEW e \in Deliveries, NEW reached \in BOOLEAN, post(e, reached)
        PROVE  arrived'[d] = arrived[d]
    BY <1>2, <2>1, <2>2 DEF post, WebhookInductive, WebhookTypeOK
  <2>3. ASSUME NEW e \in Deliveries, Delivering(e) PROVE arrived'[d] = arrived[d]
    BY <2>2, <2>3 DEF Delivering, post_answered, post_fails, send_callback
  <2> QED
    BY <2>3 DEF WebhookNext, create_webhook, delete_webhook, task_ends, _fire_user_webhooks, worker_stops
<1> QED
  BY <1>1, <1>2, PTL DEF WebhookSpec, NoneAfterAnswer

-----------------------------------------------------------------------------
(****************************************************************************)
(* The scheduler, for every number of processes, schedules and daemons.     *)
(* A run that is recorded moves its schedule past it, so a daemon that      *)
(* read what is due fires only runs that were not fired before (ToFire),    *)
(* and a schedule that nobody is about to record is past all of its runs    *)
(* (Recorded): with one daemon at a time (OneDaemon), and as long as no     *)
(* daemon stopped between the task and its record.                          *)
(****************************************************************************)

DaemonStates ==
    [stage : {"down", "asleep", "fire", "record"}, due : Seq(Schedules \X Rows)]

(* A daemon holds different schedules.                                     *)
DueDiffer ==
    \A g \in Gateways : \A i, j \in DOMAIN daemons[g].due :
        daemons[g].due[i][1] = daemons[g].due[j][1] => i = j

RunsPast == \A r \in runs : r[2] <= now

OneDaemon ==
    \A g, h \in Gateways : daemons[g].stage # "down" /\ daemons[h].stage # "down" => g = h

(* What a daemon has yet to fire was not fired before.                     *)
Ahead(g, i) == daemons[g].stage = "fire" \/ (daemons[g].stage = "record" /\ i # 1)
ToFire ==
    \A g \in Gateways : \A i \in DOMAIN daemons[g].due :
        Ahead(g, i) => <<daemons[g].due[i][1], daemons[g].due[i][2].next_run_at>> \notin runs

(* A schedule is past its last run, unless a daemon is about to record it. *)
Recording(g, s) == daemons[g].stage = "record" /\ daemons[g].due[1][1] = s
Recorded ==
    \A r \in runs : schedules[r[1]].there /\ schedules[r[1]].next_run_at <= r[2] =>
        \E g \in Gateways : Recording(g, r[1])

Undisturbed == ~shared /\ ~disturbed_runs

SchedulerInv ==
    /\ SchedulerTypeOK
    /\ daemons \in [Gateways -> DaemonStates]
    /\ OnlyDue
    /\ DueDiffer
    /\ RunsPast
    /\ ~shared => OneDaemon
    /\ Undisturbed => ToFire
    /\ Undisturbed => Recorded

(* The constants are numbers and the schedules finitely many.              *)
LEMMA SchedulerConstants ==
    /\ IsFiniteSet(Schedules) /\ Intervals \subseteq Nat /\ \A n \in Intervals : n > 0
    /\ MaxNow \in Nat /\ MaxMishaps \in Nat
BY SchedulerAssumption DEF SchedulerAssumption

(* What the invariant says of a daemon.                                    *)
LEMMA DaemonFacts ==
    ASSUME SchedulerInv, NEW g \in Gateways
    PROVE  /\ daemons[g] \in DaemonStates
           /\ daemons[g].stage \in {"fire", "record"} <=> daemons[g].due # <<>>
           /\ daemons[g].due \in Seq(Schedules \X Rows)
           /\ \A i \in DOMAIN daemons[g].due :
                /\ daemons[g].due[i][1] \in Schedules /\ daemons[g].due[i][2] \in Rows
                /\ daemons[g].due[i][2].every \in Intervals
                /\ daemons[g].due[i][2].next_run_at \in 0 .. MaxNow
                /\ daemons[g].due[i][2].next_run_at <= now
           /\ now \in Nat /\ now <= MaxNow
<1>1. daemons[g] \in DaemonStates /\ (daemons[g].stage \in {"fire", "record"} <=> daemons[g].due # <<>>)
  BY DEF SchedulerInv, SchedulerTypeOK
<1>2. daemons[g].due \in Seq(Schedules \X Rows)
  BY <1>1 DEF DaemonStates
<1>3. now \in Nat /\ now <= MaxNow
  BY SchedulerConstants DEF SchedulerInv, SchedulerTypeOK
<1>4. ASSUME NEW i \in DOMAIN daemons[g].due
      PROVE  /\ daemons[g].due[i][1] \in Schedules /\ daemons[g].due[i][2] \in Rows
             /\ daemons[g].due[i][2].every \in Intervals
             /\ daemons[g].due[i][2].next_run_at \in 0 .. MaxNow
             /\ daemons[g].due[i][2].next_run_at <= now
  <2>1. daemons[g].due[i] \in Schedules \X Rows
    BY <1>2
  <2>2. daemons[g].due[i][2].next_run_at <= now
    BY DEF SchedulerInv, OnlyDue
  <2>3. daemons[g].due[i][2].next_run_at \in Nat /\ daemons[g].due[i][2].every \in Intervals
    BY <2>1 DEF Rows
  <2> QED
    BY <1>3, <2>1, <2>2, <2>3, SchedulerConstants
<1> QED
  BY <1>1, <1>2, <1>3, <1>4

(* A daemon goes on to the rest of what it read.                           *)
LEMMA NextDue ==
    ASSUME SchedulerInv, NEW g \in Gateways, daemons[g].stage \in {"fire", "record"}
    PROVE  /\ next_due(g) \in DaemonStates
           /\ next_due(g).stage \in {"asleep", "fire"}
           /\ next_due(g).stage = "fire" <=> next_due(g).due # <<>>
           /\ \A i \in DOMAIN next_due(g).due :
                 i + 1 \in DOMAIN daemons[g].due /\ i + 1 # 1 /\ i \in Nat
                 /\ next_due(g).due[i] = daemons[g].due[i + 1]
<1>1. PICK due : due = daemons[g].due
  OBVIOUS
<1>2. due \in Seq(Schedules \X Rows) /\ due # <<>>
  BY <1>1, DaemonFacts
<1>3. Tail(due) \in Seq(Schedules \X Rows) /\ DOMAIN Tail(due) = 1 .. Len(due) - 1
      /\ \A i \in 1 .. Len(due) - 1 : Tail(due)[i] = due[i + 1]
  BY <1>2
<1>4. \A i \in 1 .. Len(due) - 1 : i + 1 \in DOMAIN due /\ i + 1 # 1 /\ i \in Nat
  BY <1>2
<1>5. next_due(g) = [stage |-> IF Tail(due) = <<>> THEN "asleep" ELSE "fire", due |-> Tail(due)]
  BY <1>1 DEF next_due
<1> QED
  BY <1>1, <1>3, <1>4, <1>5 DEF DaemonStates

(* The schedules are functions of records.                                 *)
LEMMA ScheduleTypes ==
    ASSUME SchedulerInv
    PROVE  /\ schedules \in [Schedules -> Rows \cup {NoRow}]
           /\ \A s \in Schedules : schedules[s].there => schedules[s] \in Rows
           /\ runs \subseteq Schedules \X (0 .. MaxNow)
           /\ \A r \in runs : r[1] \in Schedules /\ r[2] \in Nat /\ r[2] <= now
BY SchedulerConstants DEF SchedulerInv, SchedulerTypeOK, RunsPast, NoRow

(* A change of the schedules leaves each with a later run, or as it was.   *)
LEMMA ScheduleChanges ==
    ASSUME SchedulerInv, schedules' \in [Schedules -> Rows \cup {NoRow}],
           \A s \in Schedules : schedules'[s].there =>
              \/ schedules'[s].next_run_at > now
              \/ schedules[s].there /\ schedules'[s].next_run_at = schedules[s].next_run_at,
           UNCHANGED <<now, daemons, runs, mishaps, disturbed_runs, shared>>
    PROVE  SchedulerInv'
<1>1. /\ now' = now /\ daemons' = daemons /\ runs' = runs /\ mishaps' = mishaps
      /\ disturbed_runs' = disturbed_runs /\ shared' = shared
  OBVIOUS
<1>2. SchedulerTypeOK'
  BY <1>1 DEF SchedulerInv, SchedulerTypeOK
<1>3. OnlyDue' /\ DueDiffer' /\ RunsPast' /\ (OneDaemon => OneDaemon') /\ (ToFire => ToFire')
  BY <1>1 DEF SchedulerInv, OnlyDue, DueDiffer, RunsPast, OneDaemon, ToFire, Ahead
<1>4. ASSUME Recorded PROVE Recorded'
  <2> SUFFICES ASSUME NEW r \in runs, schedules'[r[1]].there, schedules'[r[1]].next_run_at <= r[2]
               PROVE  \E g \in Gateways : Recording(g, r[1])
    BY <1>1 DEF Recorded, Recording
  <2>1. r[1] \in Schedules /\ r[2] \in Nat /\ r[2] <= now /\ now \in Nat
    BY ScheduleTypes DEF SchedulerInv, SchedulerTypeOK
  <2>2. schedules'[r[1]] \in Rows
    BY <2>1 DEF NoRow
  <2>3. ~(schedules'[r[1]].next_run_at > now)
    <3>1. schedules'[r[1]].next_run_at \in Nat
      BY <2>2 DEF Rows
    <3> QED
      BY <2>1, <3>1
  <2>4. schedules[r[1]].there /\ schedules[r[1]].next_run_at <= r[2]
    BY <2>1, <2>3
  <2> QED
    BY <1>4, <2>4 DEF Recorded
<1> QED
  BY <1>1, <1>2, <1>3, <1>4 DEF SchedulerInv, Undisturbed

(* A user makes, deletes or updates a schedule.                            *)
LEMMA UserChanges ==
    ASSUME SchedulerInv, NEW s \in Schedules,
           create_scheduled_task(s) \/ update_scheduled_task(s) \/ delete_scheduled_task(s)
    PROVE  SchedulerInv'
<1>1. /\ schedules \in [Schedules -> Rows \cup {NoRow}]
      /\ UNCHANGED <<now, daemons, runs, mishaps, disturbed_runs, shared>>
      /\ now \in Nat
  BY ScheduleTypes DEF create_scheduled_task, update_scheduled_task, delete_scheduled_task,
                       SchedulerInv, SchedulerTypeOK
<1>2. PICK row \in Rows \cup {NoRow} :
         /\ schedules' = [schedules EXCEPT ![s] = row]
         /\ row.there => \/ row.next_run_at > now
                         \/ schedules[s].there /\ row.next_run_at = schedules[s].next_run_at
  <2>1. CASE create_scheduled_task(s)
    <3>1. PICK n \in Intervals :
             schedules' = [schedules EXCEPT ![s] = [there |-> TRUE, enabled |-> TRUE, every |-> n,
                                                    next_run_at |-> now + n]]
      BY <2>1 DEF create_scheduled_task, compute_next_run
    <3> DEFINE row == [there |-> TRUE, enabled |-> TRUE, every |-> n, next_run_at |-> now + n]
    <3>2. now + n \in Nat /\ now + n > now
      BY <1>1, SchedulerConstants
    <3>3. row \in Rows /\ row.next_run_at > now
      BY <3>2 DEF Rows
    <3>4. schedules' = [schedules EXCEPT ![s] = row]
      BY <3>1
    <3> HIDE DEF row
    <3> QED
      BY <3>3, <3>4
  <2>2. CASE update_scheduled_task(s)
    <3>1. schedules[s] \in Rows /\ schedules[s].there
      BY <1>1, <2>2, ScheduleTypes DEF update_scheduled_task
    <3>2. CASE \E n \in Intervals :
                 schedules' = [schedules EXCEPT ![s].every = n, ![s].next_run_at = compute_next_run(n)]
      <4>1. PICK n \in Intervals :
               schedules' = [schedules EXCEPT ![s] =
                               [[schedules[s] EXCEPT !.every = n] EXCEPT !.next_run_at = now + n]]
        BY <1>1, <3>1, <3>2 DEF compute_next_run, Rows
      <4>2. now + n \in Nat /\ now + n > now
        BY <1>1, SchedulerConstants
      <4>3. [[schedules[s] EXCEPT !.every = n] EXCEPT !.next_run_at = now + n] \in Rows
            /\ [[schedules[s] EXCEPT !.every = n] EXCEPT !.next_run_at = now + n].next_run_at = now + n
        BY <3>1, <4>2 DEF Rows
      <4> QED
        BY <4>1, <4>2, <4>3
    <3>3. CASE schedules' = [schedules EXCEPT ![s].enabled = ~@]
      <4>1. [schedules[s] EXCEPT !.enabled = ~schedules[s].enabled] \in Rows
            /\ [schedules[s] EXCEPT !.enabled = ~schedules[s].enabled].next_run_at = schedules[s].next_run_at
        BY <3>1 DEF Rows
      <4>2. schedules' = [schedules EXCEPT ![s] = [schedules[s] EXCEPT !.enabled = ~schedules[s].enabled]]
        BY <3>3
      <4> QED
        BY <3>1, <4>1, <4>2
    <3> QED
      BY <2>2, <3>2, <3>3 DEF update_scheduled_task
  <2>3. CASE delete_scheduled_task(s)
    <3>1. schedules' = [schedules EXCEPT ![s] = NoRow] /\ NoRow \in Rows \cup {NoRow}
      BY <2>3 DEF delete_scheduled_task
    <3>2. ~NoRow.there
      BY DEF NoRow
    <3> QED
      BY <3>1, <3>2
  <2> QED
    BY <2>1, <2>2, <2>3
<1>3. /\ schedules' \in [Schedules -> Rows \cup {NoRow}]
      /\ schedules'[s] = row /\ \A t \in Schedules : t # s => schedules'[t] = schedules[t]
  BY <1>1, <1>2
<1>4. \A t \in Schedules : schedules'[t].there =>
         \/ schedules'[t].next_run_at > now
         \/ schedules[t].there /\ schedules'[t].next_run_at = schedules[t].next_run_at
  BY <1>2, <1>3
<1> QED
  BY <1>1, <1>3, <1>4, ScheduleChanges

(* One daemon changes, and the others do not.                              *)
LEMMA DaemonChanges ==
    ASSUME SchedulerInv, NEW g \in Gateways, NEW d \in DaemonStates,
           d.stage \in {"fire", "record"} <=> d.due # <<>>,
           daemons' = [daemons EXCEPT ![g] = d]
    PROVE  /\ daemons' \in [Gateways -> DaemonStates] /\ daemons'[g] = d
           /\ \A h \in Gateways : h # g => daemons'[h] = daemons[h]
           /\ \A h \in Gateways :
                /\ daemons'[h].stage \in {"down", "asleep", "fire", "record"}
                /\ daemons'[h].due \in Seq(Schedules \X Rows)
                /\ daemons'[h].stage \in {"fire", "record"} <=> daemons'[h].due # <<>>
<1>1. daemons \in [Gateways -> DaemonStates]
  BY DEF SchedulerInv
<1>2. /\ daemons' \in [Gateways -> DaemonStates] /\ daemons'[g] = d
      /\ \A h \in Gateways : h # g => daemons'[h] = daemons[h]
  BY <1>1
<1>3. \A h \in Gateways : daemons'[h].stage \in {"fire", "record"} <=> daemons'[h].due # <<>>
  BY <1>2, DaemonFacts
<1>4. \A h \in Gateways : /\ daemons'[h].stage \in {"down", "asleep", "fire", "record"}
                          /\ daemons'[h].due \in Seq(Schedules \X Rows)
  BY <1>2 DEF DaemonStates
<1> QED
  BY <1>2, <1>3, <1>4

(* A daemon goes on to the rest of what it read, or ends.                  *)
LEMMA DaemonGoesOn ==
    ASSUME SchedulerInv, NEW g \in Gateways, NEW d \in DaemonStates,
           daemons[g].stage # "down", d.stage \in {"down", "asleep", "fire"},
           d.stage = "fire" <=> d.due # <<>>,
           \A i \in DOMAIN d.due : /\ i + 1 \in DOMAIN daemons[g].due /\ i + 1 # 1 /\ i \in Nat
                                   /\ d.due[i] = daemons[g].due[i + 1],
           daemons' = [daemons EXCEPT ![g] = d],
           now' = now, runs' = runs, shared' = shared
    PROVE  /\ daemons' \in [Gateways -> DaemonStates] /\ daemons'[g] = d
           /\ \A h \in Gateways : h # g => daemons'[h] = daemons[h]
           /\ \A h \in Gateways :
                /\ daemons'[h].stage \in {"down", "asleep", "fire", "record"}
                /\ daemons'[h].due \in Seq(Schedules \X Rows)
                /\ daemons'[h].stage \in {"fire", "record"} <=> daemons'[h].due # <<>>
           /\ OnlyDue' /\ DueDiffer' /\ RunsPast' /\ (OneDaemon => OneDaemon') /\ (ToFire => ToFire')
<1>1. /\ daemons' \in [Gateways -> DaemonStates] /\ daemons'[g] = d
      /\ \A h \in Gateways : h # g => daemons'[h] = daemons[h]
      /\ \A h \in Gateways :
           /\ daemons'[h].stage \in {"down", "asleep", "fire", "record"}
           /\ daemons'[h].due \in Seq(Schedules \X Rows)
           /\ daemons'[h].stage \in {"fire", "record"} <=> daemons'[h].due # <<>>
  <2>1. d.stage \in {"fire", "record"} <=> d.due # <<>>
    OBVIOUS
  <2> QED
    BY <2>1, DaemonChanges
<1>2. OnlyDue'
  <2>1. \A i \in DOMAIN d.due : d.due[i][2].enabled /\ d.due[i][2].next_run_at <= now
    BY DEF SchedulerInv, OnlyDue
  <2> QED
    BY <1>1, <2>1 DEF SchedulerInv, OnlyDue
<1>3. DueDiffer'
  <2>1. ASSUME NEW i \in DOMAIN d.due, NEW j \in DOMAIN d.due, d.due[i][1] = d.due[j][1]
        PROVE  i = j
    <3>1. daemons[g].due[i + 1][1] = daemons[g].due[j + 1][1]
          /\ i + 1 \in DOMAIN daemons[g].due /\ j + 1 \in DOMAIN daemons[g].due
      BY <2>1
    <3>2. i + 1 = j + 1
      BY <3>1 DEF SchedulerInv, DueDiffer
    <3> QED
      BY <3>2
  <2> QED
    BY <1>1, <2>1 DEF SchedulerInv, DueDiffer
<1>4. RunsPast'
  BY DEF SchedulerInv, RunsPast
<1>5. OneDaemon => OneDaemon'
  <2>1. \A h \in Gateways : daemons'[h].stage # "down" => daemons[h].stage # "down"
    BY <1>1
  <2> QED
    BY <2>1 DEF OneDaemon
<1>6. ASSUME ToFire PROVE ToFire'
  <2> SUFFICES ASSUME NEW h \in Gateways, NEW i \in DOMAIN daemons'[h].due, Ahead(h, i)'
               PROVE  <<daemons'[h].due[i][1], daemons'[h].due[i][2].next_run_at>> \notin runs
    BY DEF ToFire
  <2>1. CASE h # g
    <3>1. daemons'[h] = daemons[h]
      BY <1>1, <2>1
    <3>2. Ahead(h, i)
      BY <3>1 DEF Ahead
    <3> QED
      BY <1>6, <3>1, <3>2 DEF ToFire
  <2>2. CASE h = g
    <3>1. /\ i + 1 \in DOMAIN daemons[g].due /\ i + 1 # 1
          /\ daemons'[h].due[i] = daemons[g].due[i + 1]
      BY <1>1, <2>2
    <3>2. daemons[g].stage \in {"fire", "record"}
      <4>1. daemons[g].due # <<>>
        BY <3>1
      <4> QED
        BY <4>1, DaemonFacts
    <3>3. Ahead(g, i + 1)
      BY <3>1, <3>2 DEF Ahead
    <3> QED
      BY <1>6, <3>1, <3>3 DEF ToFire
  <2> QED
    BY <2>1, <2>2
<1> QED
  BY <1>1, <1>2, <1>3, <1>4, <1>5, <1>6

(* A daemon that fails or ends: what it was about to record is disturbed.  *)
LEMMA DaemonStops ==
    ASSUME SchedulerInv, NEW g \in Gateways, fire_fails(g) \/ stop(g) PROVE SchedulerInv'
<1>1. /\ mishaps < MaxMishaps /\ mishaps' = mishaps + 1
      /\ disturbed_runs' = (disturbed_runs \/ daemons[g].stage = "record")
      /\ now' = now /\ schedules' = schedules /\ runs' = runs /\ shared' = shared
  BY DEF fire_fails, stop
<1>2. PICK d \in DaemonStates :
         /\ daemons[g].stage # "down" /\ d.stage \in {"down", "asleep", "fire"}
         /\ d.stage = "fire" <=> d.due # <<>>
         /\ \A i \in DOMAIN d.due : /\ i + 1 \in DOMAIN daemons[g].due /\ i + 1 # 1 /\ i \in Nat
                                    /\ d.due[i] = daemons[g].due[i + 1]
         /\ daemons' = [daemons EXCEPT ![g] = d]
  <2>1. CASE fire_fails(g)
    <3>1. daemons[g].stage \in {"fire", "record"} /\ daemons' = [daemons EXCEPT ![g] = next_due(g)]
      BY <2>1 DEF fire_fails
    <3> QED
      BY <3>1, NextDue
  <2>2. CASE stop(g)
    <3>1. daemons[g] # Down /\ daemons' = [daemons EXCEPT ![g] = Down]
      BY <2>2 DEF stop
    <3>2. daemons[g].stage # "down"
      <4>1. daemons[g].stage = "down" => daemons[g].due = <<>>
        BY DaemonFacts
      <4> QED
        BY <3>1, <4>1, DaemonFacts DEF DaemonStates, Down
    <3>3. Down \in DaemonStates /\ Down.stage = "down" /\ Down.due = <<>> /\ DOMAIN Down.due = {}
      BY DEF Down, DaemonStates
    <3> QED
      BY <3>1, <3>2, <3>3
  <2> QED
    BY <2>1, <2>2
<1>3. /\ daemons' \in [Gateways -> DaemonStates] /\ daemons'[g] = d
      /\ \A h \in Gateways : h # g => daemons'[h] = daemons[h]
      /\ \A h \in Gateways :
           /\ daemons'[h].stage \in {"down", "asleep", "fire", "record"}
           /\ daemons'[h].due \in Seq(Schedules \X Rows)
           /\ daemons'[h].stage \in {"fire", "record"} <=> daemons'[h].due # <<>>
      /\ OnlyDue' /\ DueDiffer' /\ RunsPast' /\ (OneDaemon => OneDaemon') /\ (ToFire => ToFire')
  BY <1>1, <1>2, DaemonGoesOn
<1>4. mishaps' \in 0 .. MaxMishaps
  BY <1>1, SchedulerConstants DEF SchedulerInv, SchedulerTypeOK
<1>5. disturbed_runs' \in BOOLEAN
  BY <1>1 DEF SchedulerInv, SchedulerTypeOK
<1>6. SchedulerTypeOK'
  BY <1>1, <1>3, <1>4, <1>5 DEF SchedulerInv, SchedulerTypeOK
<1>7. ASSUME Undisturbed' PROVE Undisturbed /\ Recorded'
  <2>1. Undisturbed /\ daemons[g].stage # "record"
    BY <1>1, <1>7 DEF Undisturbed
  <2>2. Recorded
    BY <2>1 DEF SchedulerInv
  <2>3. \A s : \A h \in Gateways : Recording(h, s) => Recording(h, s)'
    BY <1>3, <2>1 DEF Recording
  <2> QED
    BY <1>1, <2>1, <2>2, <2>3 DEF Recorded
<1> QED
  BY <1>1, <1>3, <1>6, <1>7 DEF SchedulerInv

(* The run is recorded: the schedule is past every run of it.              *)
LEMMA RecordsRun ==
    ASSUME SchedulerInv, NEW g \in Gateways, record_scheduled_run(g) PROVE SchedulerInv'
<1>1. PICK s, every : s = daemons[g].due[1][1] /\ every = daemons[g].due[1][2].every
  OBVIOUS
<1>2. /\ daemons[g].stage = "record"
      /\ schedules' = IF schedules[s].there
                      THEN [schedules EXCEPT ![s] = [schedules[s] EXCEPT !.next_run_at = now + every]]
                      ELSE schedules
      /\ daemons' = [daemons EXCEPT ![g] = next_due(g)]
      /\ now' = now /\ runs' = runs /\ mishaps' = mishaps
      /\ disturbed_runs' = disturbed_runs /\ shared' = shared
  <2>1. Head(daemons[g].due) = daemons[g].due[1]
    OBVIOUS
  <2> QED
    BY <1>1, <2>1 DEF record_scheduled_run, compute_next_run
<1>3. 1 \in DOMAIN daemons[g].due
  BY <1>2, DaemonFacts
<1>4. s \in Schedules /\ every \in Nat /\ every > 0 /\ now \in Nat
  BY <1>1, <1>3, DaemonFacts, SchedulerConstants
<1>5. /\ daemons' \in [Gateways -> DaemonStates] /\ daemons'[g] = next_due(g)
      /\ \A h \in Gateways : h # g => daemons'[h] = daemons[h]
      /\ \A h \in Gateways :
           /\ daemons'[h].stage \in {"down", "asleep", "fire", "record"}
           /\ daemons'[h].due \in Seq(Schedules \X Rows)
           /\ daemons'[h].stage \in {"fire", "record"} <=> daemons'[h].due # <<>>
      /\ OnlyDue' /\ DueDiffer' /\ RunsPast' /\ (OneDaemon => OneDaemon') /\ (ToFire => ToFire')
  <2>1. PICK d \in DaemonStates : d = next_due(g)
    BY <1>2, NextDue
  <2>2. /\ daemons[g].stage # "down" /\ d.stage \in {"down", "asleep", "fire"}
        /\ d.stage = "fire" <=> d.due # <<>>
        /\ \A i \in DOMAIN d.due : /\ i + 1 \in DOMAIN daemons[g].due /\ i + 1 # 1 /\ i \in Nat
                                   /\ d.due[i] = daemons[g].due[i + 1]
    BY <1>2, <2>1, NextDue
  <2> QED
    BY <1>2, <2>1, <2>2, DaemonGoesOn
<1>6. /\ schedules' \in [Schedules -> Rows \cup {NoRow}]
      /\ \A t \in Schedules : t # s => schedules'[t] = schedules[t]
      /\ schedules'[s].there => schedules'[s].next_run_at = now + every
  <2>1. CASE schedules[s].there
    <3>1. schedules[s] \in Rows
      BY <1>4, <2>1, ScheduleTypes
    <3>2. now + every \in Nat
      BY <1>4
    <3>3. PICK row : row = [schedules[s] EXCEPT !.next_run_at = now + every]
      OBVIOUS
    <3>4. row \in Rows /\ row.next_run_at = now + every
      BY <3>1, <3>2, <3>3 DEF Rows
    <3>5. schedules' = [schedules EXCEPT ![s] = row]
      BY <1>2, <2>1, <3>3
    <3> QED
      BY <1>4, <3>4, <3>5, ScheduleTypes
  <2>2. CASE ~schedules[s].there
    BY <1>2, <2>2, ScheduleTypes
  <2> QED
    BY <2>1, <2>2
<1>7. SchedulerTypeOK'
  BY <1>2, <1>5, <1>6 DEF SchedulerInv, SchedulerTypeOK
<1>8. ASSUME Undisturbed PROVE Recorded'
  <2>1. Recorded /\ OneDaemon
    BY <1>8 DEF SchedulerInv, Undisturbed
  <2> SUFFICES ASSUME NEW r \in runs, schedules'[r[1]].there, schedules'[r[1]].next_run_at <= r[2]
               PROVE  FALSE
    BY <1>2 DEF Recorded
  <2>2. r[1] \in Schedules /\ r[2] \in Nat /\ r[2] <= now
    BY ScheduleTypes
  <2>3. CASE r[1] = s
    BY <1>4, <1>6, <2>2, <2>3
  <2>4. CASE r[1] # s
    <3>1. schedules[r[1]].there /\ schedules[r[1]].next_run_at <= r[2]
      BY <1>6, <2>2, <2>4
    <3>2. PICK h \in Gateways : Recording(h, r[1])
      BY <2>1, <3>1 DEF Recorded
    <3>3. h = g
      BY <1>2, <2>1, <3>2 DEF OneDaemon, Recording
    <3> QED
      BY <1>1, <2>4, <3>2, <3>3 DEF Recording
  <2> QED
    BY <2>3, <2>4
<1> QED
  BY <1>2, <1>5, <1>7, <1>8 DEF SchedulerInv, Undisturbed

(* The task is queued for the due time that was read.                      *)
LEMMA FiresTask ==
    ASSUME SchedulerInv, NEW g \in Gateways, fire_create_task(g) PROVE SchedulerInv'
<1>1. PICK due : due = daemons[g].due
  OBVIOUS
<1>2. /\ daemons[g].stage = "fire"
      /\ runs' = runs \cup {<<due[1][1], due[1][2].next_run_at>>}
      /\ daemons' = [daemons EXCEPT ![g] = [daemons[g] EXCEPT !.stage = "record"]]
      /\ now' = now /\ schedules' = schedules /\ mishaps' = mishaps
      /\ disturbed_runs' = disturbed_runs /\ shared' = shared
  <2>1. Head(due) = due[1]
    OBVIOUS
  <2> QED
    BY <1>1, <2>1 DEF fire_create_task
<1>3. due # <<>> /\ due \in Seq(Schedules \X Rows) /\ 1 \in DOMAIN due
  BY <1>1, <1>2, DaemonFacts
<1>4. /\ due[1][1] \in Schedules /\ due[1][2].next_run_at \in 0 .. MaxNow
      /\ due[1][2].next_run_at <= now
  BY <1>1, <1>3, DaemonFacts
<1>5. /\ daemons' \in [Gateways -> DaemonStates]
      /\ daemons'[g].stage = "record" /\ daemons'[g].due = due
      /\ \A h \in Gateways : h # g => daemons'[h] = daemons[h]
      /\ \A h \in Gateways :
           /\ daemons'[h].stage \in {"down", "asleep", "fire", "record"}
           /\ daemons'[h].due \in Seq(Schedules \X Rows)
           /\ daemons'[h].stage \in {"fire", "record"} <=> daemons'[h].due # <<>>
  <2>1. PICK d : d = [daemons[g] EXCEPT !.stage = "record"]
    OBVIOUS
  <2>2. d \in DaemonStates /\ d.stage = "record" /\ d.due = due
    BY <1>1, <2>1, DaemonFacts DEF DaemonStates
  <2> QED
    BY <1>2, <1>3, <2>1, <2>2, DaemonChanges
<1>6. \A h \in Gateways : daemons'[h].due = daemons[h].due
      /\ (daemons'[h].stage # "down" => daemons[h].stage # "down")
  BY <1>1, <1>2, <1>5
<1>7. SchedulerTypeOK'
  <2>1. runs' \subseteq Schedules \X (0 .. MaxNow)
    BY <1>2, <1>4, ScheduleTypes
  <2> QED
    BY <1>2, <1>5, <2>1 DEF SchedulerInv, SchedulerTypeOK
<1>8. OnlyDue' /\ DueDiffer'
  BY <1>2, <1>6 DEF SchedulerInv, OnlyDue, DueDiffer
<1>9. RunsPast'
  BY <1>2, <1>4 DEF SchedulerInv, RunsPast
<1>10. OneDaemon => OneDaemon'
  BY <1>6 DEF OneDaemon
<1>11. ASSUME Undisturbed PROVE ToFire'
  <2>1. ToFire /\ OneDaemon
    BY <1>11 DEF SchedulerInv, Undisturbed
  <2> SUFFICES ASSUME NEW h \in Gateways, NEW i \in DOMAIN daemons[h].due, Ahead(h, i)'
               PROVE  <<daemons[h].due[i][1], daemons[h].due[i][2].next_run_at>> \notin runs'
    BY <1>6 DEF ToFire
  <2>2. h = g
    BY <1>2, <1>6, <2>1 DEF OneDaemon, Ahead
  <2>3. i # 1
    BY <1>5, <2>2 DEF Ahead
  <2>4. daemons[h].due[i][1] # due[1][1]
    BY <1>1, <1>3, <2>2, <2>3 DEF SchedulerInv, DueDiffer
  <2>5. <<daemons[h].due[i][1], daemons[h].due[i][2].next_run_at>> \notin runs
    BY <1>2, <2>1, <2>2 DEF ToFire, Ahead
  <2> QED
    BY <1>2, <2>4, <2>5
<1>12. ASSUME Undisturbed PROVE Recorded'
  <2>1. Recorded
    BY <1>12 DEF SchedulerInv
  <2>2. Recording(g, due[1][1])'
    BY <1>5 DEF Recording
  <2>3. \A h \in Gateways : \A s : Recording(h, s) => Recording(h, s)'
    BY <1>2, <1>5 DEF Recording
  <2> SUFFICES ASSUME NEW r \in runs', schedules[r[1]].there, schedules[r[1]].next_run_at <= r[2]
               PROVE  \E h \in Gateways : Recording(h, r[1])'
    BY <1>2 DEF Recorded
  <2>4. CASE r \in runs
    BY <2>1, <2>3, <2>4 DEF Recorded
  <2>5. CASE r = <<due[1][1], due[1][2].next_run_at>>
    BY <2>2, <2>5
  <2> QED
    BY <1>2, <2>4, <2>5
<1> QED
  BY <1>2, <1>5, <1>7, <1>8, <1>9, <1>10, <1>11, <1>12 DEF SchedulerInv, Undisturbed

(* What is due is read, each schedule once.                                *)
LEMMA DaemonTicks == ASSUME SchedulerInv, NEW g \in Gateways, _tick(g) PROVE SchedulerInv'
<1> DEFINE S == get_due_scheduled_tasks
<1>1. PICK q \in ordered(S) :
         daemons' = [daemons EXCEPT ![g] =
                       [stage |-> "fire", due |-> [i \in DOMAIN q |-> <<q[i], schedules[q[i]]>>]]]
  BY DEF _tick
<1>2. /\ daemons[g].stage = "asleep" /\ S # {}
      /\ now' = now /\ schedules' = schedules /\ runs' = runs /\ mishaps' = mishaps
      /\ disturbed_runs' = disturbed_runs /\ shared' = shared
  BY DEF _tick
<1>3. \A s \in S : /\ s \in Schedules /\ schedules[s].there /\ schedules[s] \in Rows
                   /\ schedules[s].enabled /\ schedules[s].next_run_at <= now
  BY ScheduleTypes DEF get_due_scheduled_tasks
<1>4. IsFiniteSet(S) /\ Cardinality(S) \in Nat /\ Cardinality(S) # 0
  BY <1>2, <1>3, SchedulerConstants, FS_Subset, FS_CardinalityType, FS_EmptySet DEF get_due_scheduled_tasks
<1>5. PICK n \in Nat : n = Cardinality(S)
  BY <1>4
<1>6. /\ q \in [1 .. n -> S]
      /\ \A i, j \in 1 .. n : i < j => q[i] # q[j]
  BY <1>5 DEF ordered
<1> HIDE DEF S
<1>7. PICK due : due = [i \in DOMAIN q |-> <<q[i], schedules[q[i]]>>]
  OBVIOUS
<1>8. /\ due \in [1 .. n -> Schedules \X Rows] /\ DOMAIN due = 1 .. n
      /\ \A i \in 1 .. n : due[i][1] = q[i] /\ due[i][2] = schedules[q[i]] /\ q[i] \in S
  BY <1>3, <1>6, <1>7
<1>9. due \in Seq(Schedules \X Rows) /\ due # <<>>
  <2>1. 1 \in DOMAIN due
    BY <1>4, <1>5, <1>8
  <2> QED
    BY <1>8, <2>1
<1>10. \A i, j \in 1 .. n : due[i][1] = due[j][1] => i = j
  BY <1>6, <1>8
<1>11. /\ daemons' \in [Gateways -> DaemonStates]
       /\ daemons'[g].stage = "fire" /\ daemons'[g].due = due
       /\ \A h \in Gateways : h # g => daemons'[h] = daemons[h]
       /\ \A h \in Gateways :
            /\ daemons'[h].stage \in {"down", "asleep", "fire", "record"}
            /\ daemons'[h].due \in Seq(Schedules \X Rows)
            /\ daemons'[h].stage \in {"fire", "record"} <=> daemons'[h].due # <<>>
  <2>1. PICK d : d = [stage |-> "fire", due |-> due]
    OBVIOUS
  <2>2. d \in DaemonStates /\ d.stage = "fire" /\ d.due = due
    BY <1>9, <2>1 DEF DaemonStates
  <2> QED
    BY <1>1, <1>7, <1>9, <2>1, <2>2, DaemonChanges
<1>12. SchedulerTypeOK'
  BY <1>2, <1>11 DEF SchedulerInv, SchedulerTypeOK
<1>13. OnlyDue'
  <2>1. \A i \in DOMAIN due : due[i][2].enabled /\ due[i][2].next_run_at <= now
    BY <1>3, <1>8
  <2> QED
    BY <1>2, <1>11, <2>1 DEF SchedulerInv, OnlyDue
<1>14. DueDiffer'
  <2> SUFFICES ASSUME NEW h \in Gateways, NEW i \in DOMAIN daemons'[h].due,
                      NEW j \in DOMAIN daemons'[h].due, daemons'[h].due[i][1] = daemons'[h].due[j][1]
               PROVE  i = j
    BY DEF DueDiffer
  <2>1. CASE h # g
    <3>1. daemons'[h] = daemons[h]
      BY <1>11, <2>1
    <3> QED
      BY <3>1 DEF SchedulerInv, DueDiffer
  <2>2. CASE h = g
    <3>1. daemons'[h].due = due
      BY <1>11, <2>2
    <3> QED
      BY <1>8, <1>10, <3>1
  <2> QED
    BY <2>1, <2>2
<1>15. RunsPast'
  BY <1>2 DEF SchedulerInv, RunsPast
<1>16. OneDaemon => OneDaemon'
  <2>1. \A h \in Gateways : daemons'[h].stage # "down" => daemons[h].stage # "down"
    BY <1>2, <1>11
  <2> QED
    BY <2>1 DEF OneDaemon
<1>17. ASSUME Undisturbed PROVE ToFire' /\ Recorded'
  <2>1. Recorded /\ ToFire /\ OneDaemon
    BY <1>17 DEF SchedulerInv, Undisturbed
  <2>2. \A s : \A h \in Gateways : ~Recording(h, s)
    BY <1>2, <2>1 DEF OneDaemon, Recording
  <2>3. Recorded'
    BY <1>2, <2>1, <2>2 DEF Recorded
  <2>4. ASSUME NEW i \in DOMAIN due PROVE <<due[i][1], due[i][2].next_run_at>> \notin runs
    <3> SUFFICES ASSUME <<due[i][1], due[i][2].next_run_at>> \in runs PROVE FALSE
      OBVIOUS
    <3>1. PICK s \in S : s = due[i][1] /\ schedules[s] = due[i][2]
      BY <1>8
    <3>2. schedules[s].there /\ schedules[s].next_run_at <= schedules[s].next_run_at
      <4>1. schedules[s].there /\ schedules[s] \in Rows
        BY <1>3
      <4>2. schedules[s].next_run_at \in Nat
        BY <4>1 DEF Rows
      <4>3. schedules[s].next_run_at <= schedules[s].next_run_at
        BY <4>2
      <4> QED
        BY <4>1, <4>3
    <3>3. PICK r \in runs : r[1] = s /\ r[2] = schedules[s].next_run_at
      BY <3>1
    <3>4. \E h \in Gateways : Recording(h, s)
      BY <2>1, <3>2, <3>3 DEF Recorded
    <3> QED
      BY <2>2, <3>4
  <2>5. ToFire'
    BY <1>2, <1>11, <2>1, <2>4 DEF ToFire, Ahead
  <2> QED
    BY <2>3, <2>5
<1> QED
  BY <1>2, <1>11, <1>12, <1>13, <1>14, <1>15, <1>16, <1>17 DEF SchedulerInv, Undisturbed

(* A process starts its daemon.                                            *)
LEMMA DaemonStarts == ASSUME SchedulerInv, NEW g \in Gateways, start_scheduler(g) PROVE SchedulerInv'
<1>1. /\ daemons[g] = Down /\ daemons' = [daemons EXCEPT ![g] = [daemons[g] EXCEPT !.stage = "asleep"]]
      /\ shared' = (shared \/ \E h \in Gateways : daemons[h] # Down)
      /\ now' = now /\ schedules' = schedules /\ runs' = runs /\ mishaps' = mishaps
      /\ disturbed_runs' = disturbed_runs
  BY DEF start_scheduler
<1>2. PICK d : d = [daemons[g] EXCEPT !.stage = "asleep"]
  OBVIOUS
<1>3. d \in DaemonStates /\ d.stage = "asleep" /\ d.due = <<>>
  BY <1>1, <1>2, DaemonFacts DEF DaemonStates, Down
<1>4. /\ daemons' \in [Gateways -> DaemonStates] /\ daemons'[g] = d
      /\ \A h \in Gateways : h # g => daemons'[h] = daemons[h]
      /\ \A h \in Gateways :
           /\ daemons'[h].stage \in {"down", "asleep", "fire", "record"}
           /\ daemons'[h].due \in Seq(Schedules \X Rows)
           /\ daemons'[h].stage \in {"fire", "record"} <=> daemons'[h].due # <<>>
  BY <1>1, <1>2, <1>3, DaemonChanges
<1>5. shared' \in BOOLEAN
  BY <1>1 DEF SchedulerInv, SchedulerTypeOK
<1>6. SchedulerTypeOK'
  BY <1>1, <1>4, <1>5 DEF SchedulerInv, SchedulerTypeOK
<1>7. \A h \in Gateways : h = g => DOMAIN daemons'[h].due = {}
  BY <1>3, <1>4
<1>8. OnlyDue' /\ DueDiffer' /\ RunsPast'
  BY <1>1, <1>4, <1>7 DEF SchedulerInv, OnlyDue, DueDiffer, RunsPast
<1>9. ASSUME ~shared' PROVE OneDaemon'
  <2>1. \A h \in Gateways : daemons[h] = Down
    BY <1>1, <1>9
  <2>2. \A h \in Gateways : daemons'[h].stage # "down" => h = g
    BY <1>4, <2>1 DEF Down
  <2> QED
    BY <2>2 DEF OneDaemon
<1>10. ASSUME Undisturbed' PROVE ToFire' /\ Recorded'
  <2>1. Undisturbed
    BY <1>1, <1>10 DEF Undisturbed
  <2>2. ToFire /\ Recorded
    BY <2>1 DEF SchedulerInv
  <2>3. \A s : \A h \in Gateways : Recording(h, s) => Recording(h, s)'
    BY <1>1, <1>4 DEF Recording, Down
  <2>4. Recorded'
    BY <1>1, <2>2, <2>3 DEF Recorded
  <2>5. ToFire'
    BY <1>1, <1>4, <1>7, <2>2 DEF ToFire, Ahead
  <2> QED
    BY <2>4, <2>5
<1> QED
  BY <1>1, <1>4, <1>6, <1>8, <1>9, <1>10 DEF SchedulerInv

(* Time passes.                                                            *)
LEMMA SchedulerTimePasses == ASSUME SchedulerInv, time_passes PROVE SchedulerInv'
<1>1. /\ now < MaxNow /\ now' = now + 1
      /\ daemons' = daemons /\ schedules' = schedules /\ runs' = runs /\ mishaps' = mishaps
      /\ disturbed_runs' = disturbed_runs /\ shared' = shared
  BY DEF time_passes
<1>2. now' \in 0 .. MaxNow /\ now \in Nat
  BY <1>1, SchedulerConstants DEF SchedulerInv, SchedulerTypeOK
<1>3. SchedulerTypeOK'
  BY <1>1, <1>2 DEF SchedulerInv, SchedulerTypeOK
<1>4. OnlyDue'
  <2>1. ASSUME NEW g \in Gateways, NEW i \in DOMAIN daemons[g].due
        PROVE  daemons[g].due[i][2].enabled /\ daemons[g].due[i][2].next_run_at <= now'
    <3>1. daemons[g].due[i][2].next_run_at \in 0 .. MaxNow /\ daemons[g].due[i][2].next_run_at <= now
      BY DaemonFacts
    <3>2. daemons[g].due[i][2].next_run_at <= now'
      BY <1>1, <1>2, <3>1
    <3> QED
      BY <3>2 DEF SchedulerInv, OnlyDue
  <2> QED
    BY <1>1, <2>1 DEF OnlyDue
<1>5. RunsPast'
  <2>1. \A r \in runs : r[2] \in Nat /\ r[2] <= now
    BY ScheduleTypes
  <2> QED
    BY <1>1, <1>2, <2>1 DEF RunsPast
<1>6. DueDiffer' /\ (OneDaemon => OneDaemon') /\ (ToFire => ToFire') /\ (Recorded => Recorded')
  BY <1>1 DEF SchedulerInv, DueDiffer, OneDaemon, ToFire, Ahead, Recorded, Recording
<1> QED
  BY <1>1, <1>3, <1>4, <1>5, <1>6 DEF SchedulerInv, Undisturbed

(* The invariant holds at the start.                                       *)
LEMMA SchedulerInvInit == SchedulerInit => SchedulerInv
<1> SUFFICES ASSUME SchedulerInit PROVE SchedulerInv
  OBVIOUS
<1>1. /\ now = 0 /\ schedules = [s \in Schedules |-> NoRow] /\ daemons = [g \in Gateways |-> Down]
      /\ runs = {} /\ mishaps = 0 /\ disturbed_runs = FALSE /\ shared = FALSE
  BY DEF SchedulerInit
<1>2. Down \in DaemonStates /\ Down.stage = "down" /\ Down.due = <<>> /\ DOMAIN Down.due = {}
  BY DEF Down, DaemonStates
<1>3. schedules \in [Schedules -> Rows \cup {NoRow}] /\ daemons \in [Gateways -> DaemonStates]
  BY <1>1, <1>2
<1>4. \A g \in Gateways : /\ daemons[g].stage \in {"down", "asleep", "fire", "record"}
                          /\ daemons[g].due \in Seq(Schedules \X Rows)
                          /\ daemons[g].stage \in {"fire", "record"} <=> daemons[g].due # <<>>
  <2>1. \A g \in Gateways : daemons[g] = Down
    BY <1>1
  <2>2. Down.stage \in {"down", "asleep", "fire", "record"} /\ Down.due \in Seq(Schedules \X Rows)
        /\ (Down.stage \in {"fire", "record"} <=> Down.due # <<>>)
    BY <1>2 DEF DaemonStates
  <2> QED
    BY <2>1, <2>2
<1>5. SchedulerTypeOK
  <2>1. now \in 0 .. MaxNow /\ mishaps \in 0 .. MaxMishaps
    BY <1>1, SchedulerConstants
  <2> QED
    BY <1>1, <1>3, <1>4, <2>1 DEF SchedulerTypeOK
<1>6. \A g \in Gateways : daemons[g].stage = "down" /\ DOMAIN daemons[g].due = {}
  BY <1>1, <1>2
<1> QED
  BY <1>1, <1>3, <1>5, <1>6 DEF SchedulerInv, OnlyDue, DueDiffer, RunsPast, OneDaemon, ToFire, Recorded

(* Every step keeps the invariant.                                         *)
LEMMA SchedulerInvHolds == SchedulerSpec => []SchedulerInv
<1>1. ASSUME SchedulerInv, [SchedulerNext]_schedulerVars PROVE SchedulerInv'
  <2>1. CASE UNCHANGED schedulerVars
    BY <1>1, <2>1 DEF schedulerVars, SchedulerInv, SchedulerTypeOK, OnlyDue, DueDiffer, RunsPast,
                      OneDaemon, ToFire, Ahead, Recorded, Recording, Undisturbed
  <2>2. ASSUME NEW s \in Schedules,
               create_scheduled_task(s) \/ update_scheduled_task(s) \/ delete_scheduled_task(s)
        PROVE  SchedulerInv'
    BY <1>1, <2>2, UserChanges
  <2>3. ASSUME NEW g \in Gateways,
               start_scheduler(g) \/ _tick(g) \/ _fire(g) \/ fire_fails(g) \/ stop(g)
        PROVE  SchedulerInv'
    BY <1>1, <2>3, DaemonStarts, DaemonTicks, FiresTask, RecordsRun, DaemonStops DEF _fire
  <2>4. CASE time_passes
    BY <1>1, <2>4, SchedulerTimePasses
  <2> QED
    BY <1>1, <2>1, <2>2, <2>3, <2>4 DEF SchedulerNext
<1> QED
  BY SchedulerInvInit, <1>1, PTL DEF SchedulerSpec

(* With one daemon at a time, and none that stops between the task and     *)
(* its record, no due time is fired twice, whatever a user changes         *)
(* meanwhile; and no daemon ever holds a schedule that was not due when    *)
(* it was read (_tick and _fire, src/scheduler.py).                        *)
THEOREM SchedulerCorrect == SchedulerSpec => []SchedulerInvariant
<1>1. SchedulerInv => SchedulerInvariant
  BY DEF SchedulerInv, SchedulerInvariant, FiredOnce, ToFire, Ahead, Undisturbed
<1> QED
  BY <1>1, SchedulerInvHolds, PTL

-----------------------------------------------------------------------------
(****************************************************************************)
(* The Ollama nodes, for every number of nodes, polls and checks: whatever  *)
(* the cache and the poll know of a node has the URL under which it is      *)
(* looked up (KnownHasUrl), so no poll drops a node of the pool.            *)
(****************************************************************************)

(* Whatever is known of a node, in the cache or by the poll, has its URL.  *)
KnownHasUrl ==
    \A l \in Labels : /\ _health[l].known => _health[l].url \in Urls
                      /\ poll.heard[l].known => poll.heard[l].url \in Urls

PollShape ==
    poll \in [stage : {"off", "asleep", "asking"}, targets : [Labels -> Urls \cup {Fallback}],
              heard : [Labels -> Entry]]

ClusterInv == ClusterTypeOK /\ PollShape /\ KnownHasUrl /\ MembersKnown

(* The invariant holds at the start.                                       *)
LEMMA ClusterInvInit == ClusterInit => ClusterInv
<1> SUFFICES ASSUME ClusterInit PROVE ClusterInv
  OBVIOUS
<1>1. Nothing \in [Labels -> Entry] /\ NoTargets \in [Labels -> Urls \cup {Fallback}]
      /\ \A l \in Labels : ~Nothing[l].known
  BY DEF Nothing, NoTargets, Unknown, Entry
<1>2. /\ _health \in [Labels -> Entry]
      /\ \A l \in Labels : _health[l].known => _health[l].url \in Urls
      /\ \A l \in Members : _health[l].known
  BY DEF ClusterInit, unchecked, Unknown, Entry, Members
<1>3. poll.heard = Nothing /\ PollShape
  BY <1>1 DEF ClusterInit, PollShape
<1>4. KnownHasUrl /\ MembersKnown
  BY <1>1, <1>2, <1>3 DEF KnownHasUrl, MembersKnown
<1>5. ClusterTypeOK
  <2>1. configured \in BOOLEAN /\ checks \subseteq Labels \X Urls /\ up \subseteq Urls
        /\ routed \in Urls \cup {Fallback} /\ changes \in 0..MaxChanges
    BY ClusterAssumption DEF ClusterInit, ClusterAssumption
  <2> QED
    BY <1>2, <1>3, <2>1 DEF ClusterInit, ClusterTypeOK, PollShape
<1> QED
  BY <1>3, <1>4, <1>5 DEF ClusterInv

(* A node that was checked keeps its URL.                                  *)
LEMMA CheckedNode ==
    ASSUME NEW url \in Urls
    PROVE  check_node(url) \in Entry /\ check_node(url).known /\ check_node(url).url = url
BY DEF check_node, Entry

(* A step of the poll.                                                     *)
LEMMA ClusterPolls == ASSUME ClusterInv, ClusterPoll PROVE ClusterInv'
<1> USE DEF ClusterInv
<1>1. CASE check_all
  <2>1. Nothing \in [Labels -> Entry] /\ \A l \in Labels : ~Nothing[l].known
    BY DEF Nothing, Unknown, Entry
  <2>2. poll' = [stage |-> "asking", targets |-> _nodes, heard |-> Nothing]
        /\ UNCHANGED <<_nodes, configured, _health, up, checks, routed, changes>>
    BY <1>1 DEF check_all
  <2>3. PollShape' /\ poll'.heard = Nothing
    BY <2>1, <2>2 DEF PollShape, ClusterTypeOK
  <2>4. KnownHasUrl' /\ MembersKnown'
    BY <2>1, <2>2, <2>3 DEF KnownHasUrl, MembersKnown, Members
  <2> QED
    BY <2>2, <2>3, <2>4 DEF ClusterTypeOK, PollShape
<1>2. ASSUME NEW k \in Labels, node_answers(k) PROVE ClusterInv'
  <2> DEFINE answer == check_node(poll.targets[k])
  <2>1. /\ poll.targets[k] \in Urls
        /\ poll' = [poll EXCEPT !.heard[k] = answer]
        /\ UNCHANGED <<_nodes, configured, _health, up, checks, routed, changes>>
    BY <1>2 DEF node_answers, PollShape
  <2>2. answer \in Entry /\ answer.url \in Urls
    BY <2>1, CheckedNode
  <2> HIDE DEF answer
  <2>3. PollShape' /\ poll'.heard = [poll.heard EXCEPT ![k] = answer]
    BY <2>1, <2>2 DEF PollShape
  <2>4. KnownHasUrl' /\ MembersKnown'
    BY <2>1, <2>2, <2>3 DEF KnownHasUrl, MembersKnown, Members, PollShape
  <2> QED
    BY <2>1, <2>3, <2>4 DEF ClusterTypeOK, PollShape
<1>3. CASE _poll_loop
  <2>1. /\ _health' = [l \in Labels |-> IF poll.heard[l].known THEN poll.heard[l] ELSE _health[l]]
        /\ poll' = [poll EXCEPT !.stage = "asleep", !.targets = NoTargets, !.heard = Nothing]
        /\ UNCHANGED <<_nodes, configured, up, checks, routed, changes>>
    BY <1>3 DEF _poll_loop
  <2>2. Nothing \in [Labels -> Entry] /\ NoTargets \in [Labels -> Urls \cup {Fallback}]
        /\ \A l \in Labels : ~Nothing[l].known
    BY DEF Nothing, NoTargets, Unknown, Entry
  <2>3. PollShape' /\ poll'.heard = Nothing
    BY <2>1, <2>2 DEF PollShape
  <2>4. _health' \in [Labels -> Entry]
    BY <2>1 DEF ClusterTypeOK
  <2>5. KnownHasUrl' /\ MembersKnown'
    BY <2>1, <2>2, <2>3 DEF KnownHasUrl, MembersKnown, Members
  <2> QED
    BY <2>1, <2>3, <2>4, <2>5 DEF ClusterTypeOK, PollShape
<1> QED
  BY <1>1, <1>2, <1>3 DEF ClusterPoll

(* The thread is started if it is not up.                                  *)
LEMMA PollStarts ==
    ASSUME ClusterInv
    PROVE  /\ start_background_polling(poll) \in
                  [stage : {"off", "asleep", "asking"}, targets : [Labels -> Urls \cup {Fallback}],
                   heard : [Labels -> Entry]]
           /\ start_background_polling(poll).heard = poll.heard
BY DEF ClusterInv, PollShape, start_background_polling

(* A node comes up or goes down, and a request adds or removes one.        *)
LEMMA ClusterNodes ==
    ASSUME ClusterInv, NEW l \in Labels,
           \/ remove_node(l) \/ check_cluster_node(l)
           \/ \E url \in Urls : add_node(l, url) \/ update_health(l, url)
    PROVE  ClusterInv'
<1> USE ClusterAssumption DEF ClusterAssumption, ClusterInv
<1>1. changed => changes' \in 0..MaxChanges
  BY DEF changed, ClusterTypeOK
<1>2. CASE remove_node(l)
  BY <1>1, <1>2 DEF remove_node, ClusterTypeOK, PollShape, KnownHasUrl, MembersKnown, Members,
                    Unknown, Entry
<1>3. CASE check_cluster_node(l)
  BY <1>1, <1>3 DEF check_cluster_node, ClusterTypeOK, PollShape, KnownHasUrl, MembersKnown, Members
<1>4. ASSUME NEW url \in Urls, add_node(l, url) PROVE ClusterInv'
  <2>1. /\ _nodes' = [_nodes EXCEPT ![l] = url]
        /\ _health' = [_health EXCEPT ![l] = unchecked(url)]
        /\ poll' = start_background_polling(poll) /\ changes' \in 0..MaxChanges
        /\ UNCHANGED <<configured, up, checks, routed>>
    BY <1>1, <1>4 DEF add_node
  <2>2. unchecked(url) \in Entry /\ unchecked(url).known /\ unchecked(url).url = url
    BY DEF unchecked, Entry
  <2>3. PollShape' /\ poll'.heard = poll.heard
    BY <2>1, PollStarts DEF PollShape
  <2>4. KnownHasUrl' /\ MembersKnown'
    BY <2>1, <2>2, <2>3 DEF KnownHasUrl, MembersKnown, Members, ClusterTypeOK
  <2> QED
    BY <2>1, <2>2, <2>3, <2>4 DEF ClusterTypeOK, PollShape
<1>5. ASSUME NEW url \in Urls, update_health(l, url) PROVE ClusterInv'
  BY <1>5, CheckedNode
     DEF update_health, ClusterTypeOK, PollShape, KnownHasUrl, MembersKnown, Members
<1> QED
  BY <1>2, <1>3, <1>4, <1>5

(* A node is chosen for a request.                                         *)
LEMMA ClusterRoutes ==
    ASSUME ClusterInv, _get_ollama_url \/ \E url \in Urls : node_flips(url) PROVE ClusterInv'
<1> USE ClusterAssumption DEF ClusterAssumption, ClusterInv
<1>1. CASE _get_ollama_url
  <2>1. get_healthy_url \subseteq Urls \cup {Fallback}
    BY DEF get_healthy_url, healthy_among, Members, ClusterTypeOK, Entry
  <2>2. routed' \in Urls \cup {Fallback}
        /\ (poll' = poll \/ poll' = start_background_polling(poll))
        /\ UNCHANGED <<_nodes, configured, _health, up, checks, changes>>
    BY <1>1, <2>1 DEF _get_ollama_url
  <2>3. PollShape' /\ poll'.heard = poll.heard
    BY <2>2, PollStarts DEF PollShape
  <2> QED
    BY <2>2, <2>3 DEF ClusterTypeOK, PollShape, KnownHasUrl, MembersKnown, Members
<1>2. ASSUME NEW url \in Urls, node_flips(url) PROVE ClusterInv'
  BY <1>2 DEF node_flips, changed, ClusterTypeOK, PollShape, KnownHasUrl, MembersKnown, Members
<1> QED
  BY <1>1, <1>2

(* ClusterInvariant, for any number of nodes, polls and checks: a node of  *)
(* the pool never loses its entry in the cache (src/ollama_cluster.py).    *)
THEOREM ClusterCorrect == ClusterSpec => []ClusterInvariant
<1>1. ClusterInv => ClusterInvariant
  BY DEF ClusterInv, ClusterInvariant
<1>2. ClusterInv /\ [ClusterNext]_clusterVars => ClusterInv'
  <2>1. ClusterInv /\ UNCHANGED clusterVars => ClusterInv'
    BY DEF clusterVars, ClusterInv, ClusterTypeOK, PollShape, KnownHasUrl, MembersKnown, Members
  <2> QED
    BY <2>1, ClusterPolls, ClusterNodes, ClusterRoutes DEF ClusterNext
<1> QED
  BY <1>1, <1>2, ClusterInvInit, PTL DEF ClusterSpec

-----------------------------------------------------------------------------
(****************************************************************************)
(* A connector, for every number of requests and pieces of output. What     *)
(* holds of a request (Fine) is about the values of its row, its stream,    *)
(* its queue and its two coroutines: while the stream is read, the queue    *)
(* has the pieces up to some e-th, and the stream those after it up to the  *)
(* last one said (StreamingAt); so the end of the output comes after the    *)
(* last piece (Finished), and the collector that takes it has no gap.       *)
(****************************************************************************)

RowStates == [status : {"none", "queued", "running"} \cup Outcomes, said : 0 .. Deltas, told : BOOLEAN]
StreamStates == Seq(Items(Outcomes))
ReaderStates == {"none", "submit", "open", "reading", "ended", "raised"}
QueueStates == Seq(Items({"done", "error"}))
CollectorStates ==
    [stage : {"none", "collecting", "ended"}, status : {"complete", "error"},
     accumulated : Seq(Items({"error"}))]
CallbackStates == [status : {"none", "complete", "error"}, result : Seq(Items({"error"}))]

(* The pieces up to the e-th, without a gap.                               *)
UpTo(s, e) == \A i \in DOMAIN s : s[i] = piece(e - Len(s) + i)

Reported(row, result) == row.status = "complete" /\ UpTo(result, Deltas)

(* The queue holds the pieces up to the e-th, and the stream those that    *)
(* follow it to the last one said, before the outcome.                     *)
StreamingAt(row, str, tok, col, e) ==
    /\ UpTo(tok, e)
    /\ col.stage # "ended" => UpTo(col.accumulated, e - Len(tok))
    /\ \E k \in 0 .. Len(str) :
         /\ k = Len(str) \/ (k + 1 = Len(str) /\ str[k + 1] = just(row.status) /\ row.status \in Outcomes)
         /\ e + k = row.said
         /\ \A i \in 1 .. k : str[i] = piece(e + i)
Streaming(row, str, tok, col) == \E e \in Int : StreamingAt(row, str, tok, col, e)

NoDoneIn(tok) == \A i \in DOMAIN tok : tok[i].kind # "done"

(* The end of the output is in the queue, after the last piece.            *)
OutputEnds(row, tok, col) ==
    /\ row.status = "complete"
    /\ tok # <<>> /\ tok[Len(tok)].kind = "done"
    /\ \A i \in 1 .. Len(tok) - 1 : tok[i] = piece(Deltas - (Len(tok) - 1) + i)
    /\ col.stage # "ended" => UpTo(col.accumulated, Deltas - (Len(tok) - 1))

(* What holds of one request.                                              *)
RequestFine(row, str, rd, tok, col, cb) ==
    /\ row.status = "complete" => row.said = Deltas
    /\ rd \in {"none", "submit"} => row.status = "none"
    /\ rd \in {"none", "submit", "open", "raised"} =>
          tok = <<>> /\ str = <<>> /\ (col.stage # "ended" => col.accumulated = <<>>)
    /\ rd = "none" => col.stage = "none"
    /\ rd = "reading" => Streaming(row, str, tok, col)
    /\ rd = "ended" => NoDoneIn(tok) \/ OutputEnds(row, tok, col)
    /\ col.stage # "ended" => col.status = "complete"
    /\ col.stage = "ended" /\ col.status = "complete" => Reported(row, col.accumulated)
    /\ cb.status = "complete" => Reported(row, cb.result)

RequestFineOf(q) == RequestFine(rows[q], streams[q], reader[q], on_token[q], collector[q], callbacks[q])

ConnectorInv ==
    /\ rows \in [Inbound -> RowStates]
    /\ streams \in [Inbound -> StreamStates]
    /\ reader \in [Inbound -> ReaderStates]
    /\ on_token \in [Inbound -> QueueStates]
    /\ collector \in [Inbound -> CollectorStates]
    /\ callbacks \in [Inbound -> CallbackStates]
    /\ \A q \in Inbound : RequestFineOf(q)

(* The output has a number of pieces.                                      *)
LEMMA DeltasNat == Deltas \in Nat
BY ConnectorAssumption DEF ConnectorAssumption

(* An item is a piece or of one of the other kinds.                        *)
LEMMA ItemKinds ==
    ASSUME NEW kinds, NEW item \in Items(kinds), "piece" \notin kinds
    PROVE  \/ item.kind = "piece" /\ item \in Items({})
           \/ item.kind \in kinds /\ item = just(item.kind)
BY DEF Items, piece, just

(* Pieces and the other kinds are items.                                   *)
LEMMA ItemsOf ==
    /\ \A n \in 1 .. Deltas : \A kinds : piece(n) \in Items(kinds) /\ piece(n).kind = "piece"
    /\ \A kinds : \A k \in kinds : just(k) \in Items(kinds) /\ just(k).kind = k
    /\ \A kinds : Items({}) \subseteq Items(kinds)
BY DEF Items, piece, just

(* A queue without a gap, a piece longer and a piece shorter.              *)
LEMMA UpToAppend ==
    ASSUME NEW S, NEW s \in Seq(S), NEW e \in Int, UpTo(s, e), piece(e + 1) \in S
    PROVE  UpTo(Append(s, piece(e + 1)), e + 1)
<1>1. Len(s) \in Nat /\ Append(s, piece(e + 1)) \in Seq(S)
  OBVIOUS
<1>2. PICK t \in Seq(S) : t = Append(s, piece(e + 1))
  BY <1>1
<1>3. /\ Len(t) = Len(s) + 1 /\ t[Len(s) + 1] = piece(e + 1)
      /\ \A i \in 1 .. Len(s) : t[i] = s[i]
  BY <1>2
<1>4. ASSUME NEW i \in 1 .. Len(s) + 1 PROVE t[i] = piece((e + 1) - Len(t) + i)
  <2>1. CASE i \in 1 .. Len(s)
    <3>1. s[i] = piece(e - Len(s) + i)
      BY <2>1 DEF UpTo
    <3>2. e - Len(s) + i = (e + 1) - Len(t) + i
      BY <1>1, <1>3
    <3> QED
      BY <1>3, <2>1, <3>1, <3>2
  <2>2. CASE i = Len(s) + 1
    <3>1. e + 1 = (e + 1) - Len(t) + i
      BY <1>1, <1>3, <2>2
    <3> QED
      BY <1>3, <2>2, <3>1
  <2> QED
    BY <1>1, <2>1, <2>2
<1>5. UpTo(t, e + 1)
  BY <1>1, <1>3, <1>4 DEF UpTo
<1> QED
  BY <1>2, <1>5

(* And a piece shorter: its first item is a piece, too.                    *)
LEMMA UpToTail ==
    ASSUME NEW S, NEW s \in Seq(S), s # <<>>, NEW e \in Int, UpTo(s, e)
    PROVE  UpTo(Tail(s), e) /\ Head(s) = piece((e - Len(s)) + 1)
<1>1. Len(s) \in Nat /\ Len(s) # 0 /\ Tail(s) \in Seq(S)
  OBVIOUS
<1>2. PICK t \in Seq(S) : t = Tail(s)
  BY <1>1
<1>3. /\ Len(t) = Len(s) - 1 /\ \A i \in 1 .. Len(t) : t[i] = s[i + 1]
      /\ Head(s) = s[1]
  BY <1>2
<1>4. ASSUME NEW i \in 1 .. Len(t) PROVE t[i] = piece(e - Len(t) + i)
  <2>1. i + 1 \in 1 .. Len(s)
    BY <1>1, <1>3
  <2>2. s[i + 1] = piece(e - Len(s) + (i + 1))
    <3>1. i + 1 \in DOMAIN s
      BY <2>1
    <3> QED
      BY <3>1 DEF UpTo
  <2>3. e - Len(s) + (i + 1) = e - Len(t) + i
    BY <1>1, <1>3
  <2> QED
    BY <1>3, <2>2, <2>3
<1>5. UpTo(t, e)
  BY <1>4 DEF UpTo
<1>6. 1 \in 1 .. Len(s)
  BY <1>1
<1>7. s[1] = piece(e - Len(s) + 1)
  BY <1>6 DEF UpTo
<1> QED
  BY <1>2, <1>3, <1>5, <1>7

(* One request moves.                                                      *)
LEMMA OneMoves ==
    ASSUME ConnectorInv, NEW q \in Inbound,
           NEW row \in RowStates, NEW str \in StreamStates, NEW rd \in ReaderStates,
           NEW tok \in QueueStates, NEW col \in CollectorStates, NEW cb \in CallbackStates,
           RequestFine(row, str, rd, tok, col, cb),
           rows' = [rows EXCEPT ![q] = row] \/ (rows' = rows /\ rows[q] = row),
           streams' = [streams EXCEPT ![q] = str] \/ (streams' = streams /\ streams[q] = str),
           reader' = [reader EXCEPT ![q] = rd] \/ (reader' = reader /\ reader[q] = rd),
           on_token' = [on_token EXCEPT ![q] = tok] \/ (on_token' = on_token /\ on_token[q] = tok),
           collector' = [collector EXCEPT ![q] = col] \/ (collector' = collector /\ collector[q] = col),
           callbacks' = [callbacks EXCEPT ![q] = cb] \/ (callbacks' = callbacks /\ callbacks[q] = cb)
    PROVE  ConnectorInv'
<1>1. /\ rows' \in [Inbound -> RowStates] /\ rows'[q] = row
      /\ streams' \in [Inbound -> StreamStates] /\ streams'[q] = str
      /\ reader' \in [Inbound -> ReaderStates] /\ reader'[q] = rd
      /\ on_token' \in [Inbound -> QueueStates] /\ on_token'[q] = tok
      /\ collector' \in [Inbound -> CollectorStates] /\ collector'[q] = col
      /\ callbacks' \in [Inbound -> CallbackStates] /\ callbacks'[q] = cb
      /\ \A p \in Inbound : p # q =>
            /\ rows'[p] = rows[p] /\ streams'[p] = streams[p] /\ reader'[p] = reader[p]
            /\ on_token'[p] = on_token[p] /\ collector'[p] = collector[p]
            /\ callbacks'[p] = callbacks[p]
  BY DEF ConnectorInv
<1>2. \A p \in Inbound : RequestFineOf(p)'
  BY <1>1 DEF ConnectorInv, RequestFineOf
<1> QED
  BY <1>1, <1>2 DEF ConnectorInv

(* What the invariant says of one request.                                 *)
LEMMA RequestFacts ==
    ASSUME ConnectorInv, NEW q \in Inbound
    PROVE  /\ rows[q] \in RowStates /\ streams[q] \in StreamStates /\ reader[q] \in ReaderStates
           /\ on_token[q] \in QueueStates /\ collector[q] \in CollectorStates
           /\ callbacks[q] \in CallbackStates
           /\ RequestFine(rows[q], streams[q], reader[q], on_token[q], collector[q], callbacks[q])
BY DEF ConnectorInv, RequestFineOf

(* A task's row is claimed, or cancelled in the queue.                     *)
LEMMA TaskRowMoves ==
    ASSUME ConnectorInv, NEW q \in Inbound, task_claimed(q) \/ cancelled_in_queue(q)
    PROVE  ConnectorInv'
<1>1. PICK status \in {"running", "cancelled"}, row \in RowStates :
         /\ rows[q].status = "queued"
         /\ row = [rows[q] EXCEPT !.status = status]
         /\ rows' = [rows EXCEPT ![q] = row]
         /\ row.status = status /\ row.said = rows[q].said
         /\ streams' = streams /\ reader' = reader /\ on_token' = on_token
         /\ collector' = collector /\ callbacks' = callbacks
  <2>1. PICK status \in {"running", "cancelled"} :
           /\ rows[q].status = "queued"
           /\ rows' = [rows EXCEPT ![q] = [rows[q] EXCEPT !.status = status]]
           /\ streams' = streams /\ reader' = reader /\ on_token' = on_token
           /\ collector' = collector /\ callbacks' = callbacks
    BY DEF task_claimed, cancelled_in_queue
  <2>2. /\ [rows[q] EXCEPT !.status = status] \in RowStates
        /\ [rows[q] EXCEPT !.status = status].status = status
        /\ [rows[q] EXCEPT !.status = status].said = rows[q].said
    BY RequestFacts DEF RowStates, Outcomes
  <2> QED
    BY <2>1, <2>2
<1>2. RequestFine(rows[q], streams[q], reader[q], on_token[q], collector[q], callbacks[q])
  BY RequestFacts
<1>3. ASSUME reader[q] = "reading" PROVE Streaming(row, streams[q], on_token[q], collector[q])
  <2>1. PICK e \in Int : StreamingAt(rows[q], streams[q], on_token[q], collector[q], e)
    BY <1>2, <1>3 DEF RequestFine, Streaming
  <2>2. StreamingAt(row, streams[q], on_token[q], collector[q], e)
    BY <1>1, <2>1 DEF StreamingAt, Outcomes
  <2> QED
    BY <2>2 DEF Streaming
<1>4. RequestFine(row, streams[q], reader[q], on_token[q], collector[q], callbacks[q])
  BY <1>1, <1>2, <1>3 DEF RequestFine, OutputEnds, Reported
<1> QED
  BY <1>1, <1>4, OneMoves, RequestFacts

(* What the task says reaches the stream that is open.                     *)
LEMMA TaskSays == ASSUME ConnectorInv, NEW q \in Inbound, says(q) PROVE ConnectorInv'
<1>1. PICK row \in RowStates :
         /\ rows[q].status = "running" /\ rows[q].said < Deltas
         /\ rows' = [rows EXCEPT ![q] = row]
         /\ row.status = "running" /\ row.said = rows[q].said + 1
  <2>1. /\ rows[q].status = "running" /\ rows[q].said < Deltas
        /\ rows' = [rows EXCEPT ![q] = [rows[q] EXCEPT !.said = rows[q].said + 1]]
    BY DEF says
  <2>2. rows[q].said \in 0 .. Deltas /\ rows[q] \in RowStates
    BY RequestFacts DEF RowStates
  <2>3. rows[q].said + 1 \in 0 .. Deltas
    BY <2>1, <2>2, DeltasNat
  <2>4. /\ [rows[q] EXCEPT !.said = rows[q].said + 1] \in RowStates
        /\ [rows[q] EXCEPT !.said = rows[q].said + 1].status = rows[q].status
        /\ [rows[q] EXCEPT !.said = rows[q].said + 1].said = rows[q].said + 1
    BY <2>2, <2>3 DEF RowStates
  <2> QED
    BY <2>1, <2>4
<1>2. PICK str \in StreamStates :
         /\ str = IF reader[q] = "reading" THEN Append(streams[q], piece(rows[q].said + 1)) ELSE streams[q]
         /\ streams' = [streams EXCEPT ![q] = str] \/ (streams' = streams /\ streams[q] = str)
  <2>1. rows[q].said + 1 \in 1 .. Deltas
    <3>1. rows[q].said \in 0 .. Deltas
      BY RequestFacts DEF RowStates
    <3> QED
      BY <1>1, <3>1, DeltasNat
  <2>2. piece(rows[q].said + 1) \in Items(Outcomes)
    BY <2>1, ItemsOf
  <2>3. Append(streams[q], piece(rows[q].said + 1)) \in StreamStates
    BY <2>2, RequestFacts DEF StreamStates
  <2> QED
    BY <2>3, RequestFacts DEF says, heard
<1>3. reader' = reader /\ on_token' = on_token /\ collector' = collector /\ callbacks' = callbacks
  BY DEF says
<1>4. RequestFine(rows[q], streams[q], reader[q], on_token[q], collector[q], callbacks[q])
  BY RequestFacts
<1>5. ASSUME reader[q] = "reading" PROVE Streaming(row, str, on_token[q], collector[q])
  <2>1. PICK e \in Int : StreamingAt(rows[q], streams[q], on_token[q], collector[q], e)
    BY <1>4, <1>5 DEF RequestFine, Streaming
  <2>2. PICK old : old = streams[q]
    OBVIOUS
  <2>3. old \in Seq(Items(Outcomes)) /\ Len(old) \in Nat
    BY <2>2, RequestFacts DEF StreamStates
  <2>4. /\ e + Len(old) = rows[q].said
        /\ \A i \in 1 .. Len(old) : old[i] = piece(e + i)
    <3>1. "running" \notin Outcomes
      BY DEF Outcomes
    <3> QED
      BY <1>1, <2>1, <2>2, <3>1 DEF StreamingAt
  <2>5. str = Append(old, piece(rows[q].said + 1)) /\ Len(str) = Len(old) + 1
        /\ \A i \in 1 .. Len(old) : str[i] = old[i]
        /\ str[Len(old) + 1] = piece(rows[q].said + 1)
    <3>1. str = Append(old, piece(rows[q].said + 1))
      BY <1>2, <1>5, <2>2
    <3> QED
      BY <2>3, <3>1
  <2>6. PICK k \in Nat : k = Len(old) + 1
    BY <2>3
  <2>7. e + k = row.said /\ k \in 0 .. Len(str) /\ k = Len(str)
    BY <1>1, <2>3, <2>4, <2>5, <2>6
  <2>8. ASSUME NEW i \in 1 .. k PROVE str[i] = piece(e + i)
    <3>1. CASE i \in 1 .. Len(old)
      BY <2>4, <2>5, <3>1
    <3>2. CASE i = Len(old) + 1
      <4>1. rows[q].said + 1 = e + i
        BY <2>3, <2>4, <3>2
      <4> QED
        BY <2>5, <3>2, <4>1
    <3> QED
      BY <2>3, <2>6, <3>1, <3>2
  <2>9. StreamingAt(row, str, on_token[q], collector[q], e)
    BY <2>1, <2>7, <2>8 DEF StreamingAt
  <2> QED
    BY <2>9 DEF Streaming
<1>6. RequestFine(row, str, reader[q], on_token[q], collector[q], callbacks[q])
  BY <1>1, <1>2, <1>4, <1>5 DEF RequestFine, OutputEnds, Reported
<1> QED
  BY <1>1, <1>2, <1>3, <1>6, OneMoves, RequestFacts

(* The outcome does too.                                                   *)
LEMMA TaskEndsAs == ASSUME ConnectorInv, NEW q \in Inbound, NEW outcome \in Outcomes, ends(q, outcome)
              PROVE  ConnectorInv'
<1>1. PICK row \in RowStates :
         /\ rows[q].status = "running" /\ (outcome = "complete" => rows[q].said = Deltas)
         /\ rows' = [rows EXCEPT ![q] = row]
         /\ row.status = outcome /\ row.said = rows[q].said
  <2>1. /\ rows[q].status = "running" /\ (outcome = "complete" => rows[q].said = Deltas)
        /\ rows' = [rows EXCEPT ![q] = [[rows[q] EXCEPT !.status = outcome] EXCEPT !.told = TRUE]]
    BY RequestFacts DEF ends, ConnectorInv, RowStates
  <2>2. rows[q] \in RowStates
    BY RequestFacts
  <2>3. /\ [[rows[q] EXCEPT !.status = outcome] EXCEPT !.told = TRUE] \in RowStates
        /\ [[rows[q] EXCEPT !.status = outcome] EXCEPT !.told = TRUE].status = outcome
        /\ [[rows[q] EXCEPT !.status = outcome] EXCEPT !.told = TRUE].said = rows[q].said
    BY <2>2 DEF RowStates
  <2> QED
    BY <2>1, <2>3
<1>2. PICK str \in StreamStates :
         /\ str = IF reader[q] = "reading" THEN Append(streams[q], just(outcome)) ELSE streams[q]
         /\ streams' = [streams EXCEPT ![q] = str] \/ (streams' = streams /\ streams[q] = str)
  <2>1. just(outcome) \in Items(Outcomes)
    BY ItemsOf
  <2>2. Append(streams[q], just(outcome)) \in StreamStates
    BY <2>1, RequestFacts DEF StreamStates
  <2> QED
    BY <2>2, RequestFacts DEF ends, heard
<1>3. reader' = reader /\ on_token' = on_token /\ collector' = collector /\ callbacks' = callbacks
  BY DEF ends
<1>4. RequestFine(rows[q], streams[q], reader[q], on_token[q], collector[q], callbacks[q])
  BY RequestFacts
<1>5. ASSUME reader[q] = "reading" PROVE Streaming(row, str, on_token[q], collector[q])
  <2>1. PICK e \in Int : StreamingAt(rows[q], streams[q], on_token[q], collector[q], e)
    BY <1>4, <1>5 DEF RequestFine, Streaming
  <2>2. PICK old : old = streams[q]
    OBVIOUS
  <2>3. old \in Seq(Items(Outcomes)) /\ Len(old) \in Nat
    BY <2>2, RequestFacts DEF StreamStates
  <2>4. /\ e + Len(old) = rows[q].said
        /\ \A i \in 1 .. Len(old) : old[i] = piece(e + i)
    <3>1. "running" \notin Outcomes
      BY DEF Outcomes
    <3> QED
      BY <1>1, <2>1, <2>2, <3>1 DEF StreamingAt
  <2>5. /\ Len(str) = Len(old) + 1 /\ \A i \in 1 .. Len(old) : str[i] = old[i]
        /\ str[Len(old) + 1] = just(outcome)
    <3>1. str = Append(old, just(outcome))
      BY <1>2, <1>5, <2>2
    <3> QED
      BY <2>3, <3>1
  <2>6. PICK k \in Nat : k = Len(old)
    BY <2>3
  <2>7. /\ e + k = row.said /\ k \in 0 .. Len(str) /\ k + 1 = Len(str)
        /\ str[k + 1] = just(row.status) /\ row.status \in Outcomes
        /\ \A i \in 1 .. k : str[i] = piece(e + i)
    BY <1>1, <2>3, <2>4, <2>5, <2>6
  <2>8. StreamingAt(row, str, on_token[q], collector[q], e)
    BY <2>1, <2>7 DEF StreamingAt
  <2> QED
    BY <2>8 DEF Streaming
<1>6. RequestFine(row, str, reader[q], on_token[q], collector[q], callbacks[q])
  BY <1>1, <1>2, <1>4, <1>5 DEF RequestFine, OutputEnds, Reported, Outcomes
<1> QED
  BY <1>1, <1>2, <1>3, <1>6, OneMoves, RequestFacts

(* The connector's steps before the stream: no task is read yet.           *)
LEMMA BeforeReading ==
    ASSUME ConnectorInv, NEW q \in Inbound,
           inbound(q) \/ submitted(q) \/ refused(q) \/ submit_raises(q)
    PROVE  ConnectorInv'
<1>1. RequestFine(rows[q], streams[q], reader[q], on_token[q], collector[q], callbacks[q])
  BY RequestFacts
<1>2. CASE inbound(q)
  <2>1. PICK col \in CollectorStates :
           /\ collector' = [collector EXCEPT ![q] = col]
           /\ col.stage = "collecting" /\ col.status = collector[q].status
           /\ col.accumulated = collector[q].accumulated
    <3>1. collector' = [collector EXCEPT ![q] = [collector[q] EXCEPT !.stage = "collecting"]]
      BY <1>2 DEF inbound
    <3>2. /\ [collector[q] EXCEPT !.stage = "collecting"] \in CollectorStates
          /\ [collector[q] EXCEPT !.stage = "collecting"].stage = "collecting"
          /\ [collector[q] EXCEPT !.stage = "collecting"].status = collector[q].status
          /\ [collector[q] EXCEPT !.stage = "collecting"].accumulated = collector[q].accumulated
      BY RequestFacts DEF CollectorStates
    <3> QED
      BY <3>1, <3>2
  <2>2. /\ reader[q] = "none" /\ reader' = [reader EXCEPT ![q] = "submit"]
        /\ rows' = rows /\ streams' = streams /\ on_token' = on_token /\ callbacks' = callbacks
    BY <1>2 DEF inbound
  <2>3. "submit" \in ReaderStates
    BY DEF ReaderStates
  <2>4. RequestFine(rows[q], streams[q], "submit", on_token[q], col, callbacks[q])
    BY <1>1, <2>1, <2>2 DEF RequestFine, OutputEnds, Reported
  <2> QED
    BY <2>1, <2>2, <2>3, <2>4, OneMoves, RequestFacts
<1>3. CASE submitted(q)
  <2>1. PICK row \in RowStates :
           /\ rows' = [rows EXCEPT ![q] = row]
           /\ row.status = "queued" /\ row.said = rows[q].said
    <3>1. rows' = [rows EXCEPT ![q] = [rows[q] EXCEPT !.status = "queued"]]
      BY <1>3 DEF submitted
    <3>2. /\ [rows[q] EXCEPT !.status = "queued"] \in RowStates
          /\ [rows[q] EXCEPT !.status = "queued"].status = "queued"
          /\ [rows[q] EXCEPT !.status = "queued"].said = rows[q].said
      BY RequestFacts DEF RowStates
    <3> QED
      BY <3>1, <3>2
  <2>2. /\ reader[q] = "submit" /\ reader' = [reader EXCEPT ![q] = "open"]
        /\ streams' = streams /\ on_token' = on_token /\ collector' = collector
        /\ callbacks' = callbacks
    BY <1>3 DEF submitted
  <2>3. "open" \in ReaderStates
    BY DEF ReaderStates
  <2>4. RequestFine(row, streams[q], "open", on_token[q], collector[q], callbacks[q])
    BY <1>1, <2>1, <2>2 DEF RequestFine, OutputEnds, Reported
  <2> QED
    BY <2>1, <2>2, <2>3, <2>4, OneMoves, RequestFacts
<1>4. CASE refused(q)
  <2>1. PICK tok \in QueueStates :
           /\ on_token' = [on_token EXCEPT ![q] = tok]
           /\ tok = Append(on_token[q], just("error"))
    <3>1. on_token' = [on_token EXCEPT ![q] = Append(on_token[q], just("error"))]
      BY <1>4 DEF refused, put
    <3>2. just("error") \in Items({"done", "error"})
      BY ItemsOf
    <3>3. Append(on_token[q], just("error")) \in QueueStates
      BY <3>2, RequestFacts DEF QueueStates
    <3> QED
      BY <3>1, <3>3
  <2>2. /\ reader[q] = "submit" /\ reader' = [reader EXCEPT ![q] = "ended"]
        /\ rows' = rows /\ streams' = streams /\ collector' = collector /\ callbacks' = callbacks
    BY <1>4 DEF refused
  <2>3. "ended" \in ReaderStates
    BY DEF ReaderStates
  <2>4. NoDoneIn(tok)
    <3>1. on_token[q] = <<>>
      BY <1>1, <2>2 DEF RequestFine
    <3>2. tok = Append(<<>>, just("error"))
      BY <2>1, <3>1
    <3>3. DOMAIN tok = 1 .. 1 /\ tok[1] = just("error")
      BY <3>2
    <3> QED
      BY <3>3 DEF NoDoneIn, just
  <2>5. RequestFine(rows[q], streams[q], "ended", tok, collector[q], callbacks[q])
    BY <1>1, <2>2, <2>4 DEF RequestFine
  <2> QED
    BY <2>1, <2>2, <2>3, <2>5, OneMoves, RequestFacts
<1>5. CASE submit_raises(q)
  <2>1. /\ reader[q] = "submit" /\ reader' = [reader EXCEPT ![q] = "raised"]
        /\ rows' = rows /\ streams' = streams /\ on_token' = on_token
        /\ collector' = collector /\ callbacks' = callbacks
    BY <1>5 DEF submit_raises
  <2>2. "raised" \in ReaderStates
    BY DEF ReaderStates
  <2>3. RequestFine(rows[q], streams[q], "raised", on_token[q], collector[q], callbacks[q])
    BY <1>1, <2>1 DEF RequestFine
  <2> QED
    BY <2>1, <2>2, <2>3, OneMoves, RequestFacts
<1> QED
  BY <1>2, <1>3, <1>4, <1>5

(* The stream is opened: what it tells first is the outcome, or nothing.   *)
LEMMA StreamOpens == ASSUME ConnectorInv, NEW q \in Inbound, _consume_sse(q) PROVE ConnectorInv'
<1>1. RequestFine(rows[q], streams[q], reader[q], on_token[q], collector[q], callbacks[q])
  BY RequestFacts
<1>2. PICK str \in StreamStates :
         /\ streams' = [streams EXCEPT ![q] = str]
         /\ str = IF rows[q].status \in Outcomes THEN <<just(rows[q].status)>> ELSE <<>>
  <2>1. rows[q].status \in Outcomes => just(rows[q].status) \in Items(Outcomes)
    BY ItemsOf
  <2>2. (IF rows[q].status \in Outcomes THEN <<just(rows[q].status)>> ELSE <<>>) \in StreamStates
    BY <2>1 DEF StreamStates
  <2> QED
    BY <2>2 DEF _consume_sse
<1>3. /\ reader[q] = "open" /\ reader' = [reader EXCEPT ![q] = "reading"]
      /\ rows' = rows /\ on_token' = on_token /\ collector' = collector /\ callbacks' = callbacks
  BY DEF _consume_sse
<1>4. "reading" \in ReaderStates
  BY DEF ReaderStates
<1>5. Streaming(rows[q], str, on_token[q], collector[q])
  <2>1. /\ on_token[q] = <<>>
        /\ collector[q].stage # "ended" => collector[q].accumulated = <<>>
    BY <1>1, <1>3 DEF RequestFine
  <2>2. PICK e \in Int : e = rows[q].said
    BY RequestFacts DEF RowStates
  <2>3. /\ UpTo(on_token[q], e)
        /\ collector[q].stage # "ended" => UpTo(collector[q].accumulated, e - Len(on_token[q]))
    BY <2>1 DEF UpTo
  <2>4. /\ 0 \in 0 .. Len(str) /\ e + 0 = rows[q].said
        /\ 0 = Len(str) \/ (0 + 1 = Len(str) /\ str[0 + 1] = just(rows[q].status)
                            /\ rows[q].status \in Outcomes)
    BY <1>2, <2>2
  <2>5. StreamingAt(rows[q], str, on_token[q], collector[q], e)
    BY <2>3, <2>4 DEF StreamingAt
  <2> QED
    BY <2>5 DEF Streaming
<1>6. RequestFine(rows[q], str, "reading", on_token[q], collector[q], callbacks[q])
  BY <1>1, <1>3, <1>5 DEF RequestFine
<1> QED
  BY <1>2, <1>3, <1>4, <1>6, OneMoves, RequestFacts

(* A stream that breaks puts an error, and no end of the output.           *)
LEMMA StreamBreaks == ASSUME ConnectorInv, NEW q \in Inbound, stream_fails(q) PROVE ConnectorInv'
<1>1. RequestFine(rows[q], streams[q], reader[q], on_token[q], collector[q], callbacks[q])
  BY RequestFacts
<1>2. PICK old : old = on_token[q]
  OBVIOUS
<1>3. old \in Seq(Items({"done", "error"}))
  BY <1>2, RequestFacts DEF QueueStates
<1>4. PICK tok \in QueueStates :
         /\ on_token' = [on_token EXCEPT ![q] = tok]
         /\ tok = Append(old, just("error"))
  <2>1. on_token' = [on_token EXCEPT ![q] = Append(old, just("error"))]
    BY <1>2 DEF stream_fails, put
  <2>2. just("error") \in Items({"done", "error"})
    BY ItemsOf
  <2>3. Append(old, just("error")) \in QueueStates
    BY <1>3, <2>2 DEF QueueStates
  <2> QED
    BY <2>1, <2>3
<1>5. /\ reader[q] \in {"open", "reading"} /\ reader' = [reader EXCEPT ![q] = "ended"]
      /\ streams' = [streams EXCEPT ![q] = <<>>]
      /\ rows' = rows /\ collector' = collector /\ callbacks' = callbacks
  BY DEF stream_fails
<1>6. "ended" \in ReaderStates /\ <<>> \in StreamStates
  BY DEF ReaderStates, StreamStates
<1>7. \A i \in 1 .. Len(old) : old[i].kind # "done"
  <2>1. CASE reader[q] = "open"
    <3>1. old = <<>>
      BY <1>1, <1>2, <2>1 DEF RequestFine
    <3> QED
      BY <3>1
  <2>2. CASE reader[q] = "reading"
    <3>1. PICK e : UpTo(old, e)
      BY <1>1, <1>2, <2>2 DEF RequestFine, Streaming, StreamingAt
    <3> QED
      BY <1>3, <3>1 DEF UpTo, piece
  <2> QED
    BY <1>5, <2>1, <2>2
<1>8. NoDoneIn(tok)
  <2>1. just("error").kind # "done"
    BY DEF just
  <2>2. DOMAIN tok = 1 .. Len(old) + 1 /\ tok[Len(old) + 1] = just("error")
        /\ \A i \in 1 .. Len(old) : tok[i] = old[i]
    BY <1>3, <1>4
  <2>3. Len(old) \in Nat
    BY <1>3
  <2> QED
    BY <1>7, <2>1, <2>2, <2>3 DEF NoDoneIn
<1>9. RequestFine(rows[q], <<>>, "ended", tok, collector[q], callbacks[q])
  BY <1>1, <1>8 DEF RequestFine
<1> QED
  BY <1>4, <1>5, <1>6, <1>9, OneMoves, RequestFacts

(* The reader takes an event from the stream.                              *)
LEMMA ReaderTakes == ASSUME ConnectorInv, NEW q \in Inbound, _run_task(q) PROVE ConnectorInv'
<1>1. RequestFine(rows[q], streams[q], reader[q], on_token[q], collector[q], callbacks[q])
  BY RequestFacts
<1>2. PICK s, old, event : s = streams[q] /\ old = on_token[q] /\ event = Head(streams[q])
  OBVIOUS
<1>3. /\ s \in Seq(Items(Outcomes)) /\ s # <<>> /\ old \in Seq(Items({"done", "error"}))
      /\ reader[q] = "reading"
  BY <1>2, RequestFacts DEF StreamStates, QueueStates, _run_task
<1>4. PICK str \in StreamStates :
         /\ streams' = [streams EXCEPT ![q] = str]
         /\ str = Tail(s)
  <2>1. streams' = [streams EXCEPT ![q] = Tail(s)]
    BY <1>2 DEF _run_task
  <2>2. Tail(s) \in StreamStates
    BY <1>3 DEF StreamStates
  <2> QED
    BY <2>1, <2>2
<1>5. /\ event \in Items(Outcomes) /\ event = s[1] /\ Len(s) \in Nat /\ Len(s) # 0
      /\ Len(str) = Len(s) - 1 /\ \A i \in 1 .. Len(str) : str[i] = s[i + 1]
  BY <1>2, <1>3, <1>4
<1>6. /\ event.kind = "complete" => put(q, just("done"))
      /\ event.kind \in {"error", "cancelled"} => put(q, just("error"))
      /\ event.kind = "paused" => on_token' = on_token
      /\ event.kind \notin Outcomes => put(q, event)
      /\ reader' = [reader EXCEPT ![q] = IF event.kind \in Outcomes THEN "ended" ELSE reader[q]]
      /\ rows' = rows /\ collector' = collector /\ callbacks' = callbacks
  BY <1>2 DEF _run_task, Outcomes
<1>7. PICK e \in Int : StreamingAt(rows[q], s, old, collector[q], e)
  BY <1>1, <1>2, <1>3 DEF RequestFine, Streaming
<1>8. PICK k \in 0 .. Len(s) :
         /\ k = Len(s) \/ (k + 1 = Len(s) /\ s[k + 1] = just(rows[q].status) /\ rows[q].status \in Outcomes)
         /\ e + k = rows[q].said
         /\ \A i \in 1 .. k : s[i] = piece(e + i)
  BY <1>7 DEF StreamingAt
<1>9. /\ UpTo(old, e)
      /\ collector[q].stage # "ended" => UpTo(collector[q].accumulated, e - Len(old))
  BY <1>7 DEF StreamingAt
<1>10. Len(old) \in Nat /\ rows[q].said \in Nat
  BY <1>3, RequestFacts, DeltasNat DEF RowStates
<1>11. CASE k # 0
  <2>1. event = piece(e + 1)
    BY <1>5, <1>8, <1>11
  <2>2. event.kind = "piece" /\ "piece" \notin Outcomes
    BY <2>1 DEF piece, Outcomes
  <2>3. event \in Items({"done", "error"})
    BY <1>5, <2>2 DEF Items, just, piece, Outcomes
  <2>4. PICK tok \in QueueStates :
           /\ on_token' = [on_token EXCEPT ![q] = tok]
           /\ tok = Append(old, event)
    <3>1. on_token' = [on_token EXCEPT ![q] = Append(old, event)]
      BY <1>2, <1>6, <2>2 DEF put
    <3>2. Append(old, event) \in QueueStates
      BY <1>3, <2>3 DEF QueueStates
    <3> QED
      BY <3>1, <3>2
  <2>5. reader' = [reader EXCEPT ![q] = "reading"] /\ "reading" \in ReaderStates
    BY <1>3, <1>6, <2>2 DEF ReaderStates
  <2>6. UpTo(tok, e + 1) /\ Len(tok) = Len(old) + 1
    BY <1>3, <1>9, <2>1, <2>3, <2>4, UpToAppend
  <2>7. (e + 1) - Len(tok) = e - Len(old)
    BY <1>10, <2>6
  <2>8. /\ k - 1 \in 0 .. Len(str)
        /\ k - 1 = Len(str) \/ (/\ (k - 1) + 1 = Len(str)
                                /\ str[(k - 1) + 1] = just(rows[q].status)
                                /\ rows[q].status \in Outcomes)
        /\ (e + 1) + (k - 1) = rows[q].said
    <3>1. k - 1 \in 0 .. Len(str) /\ (e + 1) + (k - 1) = rows[q].said
      BY <1>5, <1>8, <1>10, <1>11
    <3>2. CASE k = Len(s)
      BY <1>5, <3>1, <3>2
    <3>3. CASE /\ k + 1 = Len(s) /\ s[k + 1] = just(rows[q].status) /\ rows[q].status \in Outcomes
      <4>1. (k - 1) + 1 = Len(str) /\ k \in 1 .. Len(str) /\ (k - 1) + 1 = k
        BY <1>5, <1>11, <3>1, <3>3
      <4>2. str[k] = s[k + 1]
        BY <1>5, <4>1
      <4> QED
        BY <3>1, <3>3, <4>1, <4>2
    <3> QED
      BY <1>8, <3>2, <3>3
  <2>9. ASSUME NEW i \in 1 .. k - 1 PROVE str[i] = piece((e + 1) + i)
    <3>1. Len(s) \in Nat /\ Len(str) = Len(s) - 1 /\ k \in 0 .. Len(s) /\ i \in 1 .. k - 1
      BY <1>5
    <3>2. i + 1 \in 1 .. k /\ i \in 1 .. Len(str)
      BY <3>1
    <3>3. e + (i + 1) = (e + 1) + i
      BY <3>1
    <3> QED
      BY <1>5, <1>8, <3>2, <3>3
  <2>10. StreamingAt(rows[q], str, tok, collector[q], e + 1)
    BY <1>9, <2>6, <2>7, <2>8, <2>9 DEF StreamingAt
  <2>11. Streaming(rows[q], str, tok, collector[q])
    BY <2>10 DEF Streaming
  <2>12. RequestFine(rows[q], str, "reading", tok, collector[q], callbacks[q])
    BY <1>1, <1>3, <2>11 DEF RequestFine
  <2> QED
    BY <1>4, <1>6, <2>4, <2>5, <2>12, OneMoves, RequestFacts
<1>12. CASE k = 0
  <2>1. event = just(rows[q].status) /\ rows[q].status \in Outcomes /\ e = rows[q].said
    BY <1>5, <1>8, <1>10, <1>12
  <2>2. event.kind = rows[q].status
    BY <2>1 DEF just
  <2>3. reader' = [reader EXCEPT ![q] = "ended"] /\ "ended" \in ReaderStates
    BY <1>6, <2>1, <2>2 DEF ReaderStates
  <2>4. DOMAIN old = 1 .. Len(old) /\ \A i \in 1 .. Len(old) : old[i].kind # "done"
    BY <1>3, <1>9 DEF UpTo, piece
  <2>5. CASE rows[q].status = "paused"
    <3>1. on_token' = on_token
      BY <1>6, <2>2, <2>5
    <3>2. NoDoneIn(old)
      BY <2>4 DEF NoDoneIn
    <3>3. RequestFine(rows[q], str, "ended", on_token[q], collector[q], callbacks[q])
      BY <1>1, <1>2, <3>2 DEF RequestFine
    <3> QED
      BY <1>4, <1>6, <2>3, <3>1, <3>3, OneMoves, RequestFacts
  <2>6. CASE rows[q].status # "paused"
    <3>1. PICK item : item = just(IF rows[q].status = "complete" THEN "done" ELSE "error")
      OBVIOUS
    <3>2. /\ item \in Items({"done", "error"})
          /\ item.kind = IF rows[q].status = "complete" THEN "done" ELSE "error"
      BY <3>1, ItemsOf DEF just
    <3>3. PICK tok \in QueueStates :
             /\ on_token' = [on_token EXCEPT ![q] = tok]
             /\ tok = Append(old, item)
      <4>1. on_token' = [on_token EXCEPT ![q] = Append(old, item)]
        BY <1>2, <1>6, <2>1, <2>2, <2>6, <3>1 DEF put, Outcomes
      <4>2. Append(old, item) \in QueueStates
        BY <1>3, <3>2 DEF QueueStates
      <4> QED
        BY <4>1, <4>2
    <3>4. /\ DOMAIN tok = 1 .. Len(tok) /\ Len(tok) = Len(old) + 1 /\ tok[Len(tok)] = item
          /\ \A i \in 1 .. Len(old) : tok[i] = old[i]
      BY <1>3, <3>3
    <3>5. CASE rows[q].status = "complete"
      <4>1. e = Deltas
        BY <1>1, <2>1, <3>5 DEF RequestFine
      <4>2. Len(tok) - 1 = Len(old) /\ tok # <<>> /\ Deltas - (Len(tok) - 1) = e - Len(old)
        BY <1>10, <3>4, <4>1
      <4>3. \A i \in 1 .. Len(old) : tok[i] = piece(e - Len(old) + i)
        BY <1>9, <2>4, <3>4 DEF UpTo
      <4>4. OutputEnds(rows[q], tok, collector[q])
        BY <1>9, <3>2, <3>4, <3>5, <4>2, <4>3 DEF OutputEnds
      <4>5. RequestFine(rows[q], str, "ended", tok, collector[q], callbacks[q])
        BY <1>1, <4>4 DEF RequestFine
      <4> QED
        BY <1>4, <1>6, <2>3, <3>3, <4>5, OneMoves, RequestFacts
    <3>6. CASE rows[q].status # "complete"
      <4>1. ASSUME NEW i \in 1 .. Len(tok) PROVE tok[i].kind # "done"
        <5>1. CASE i \in 1 .. Len(old)
          BY <2>4, <3>4, <5>1
        <5>2. CASE i = Len(tok)
          BY <3>2, <3>4, <3>6, <5>2
        <5> QED
          BY <1>10, <3>4, <5>1, <5>2
      <4>2. NoDoneIn(tok)
        BY <3>4, <4>1 DEF NoDoneIn
      <4>3. RequestFine(rows[q], str, "ended", tok, collector[q], callbacks[q])
        BY <1>1, <4>2 DEF RequestFine
      <4> QED
        BY <1>4, <1>6, <2>3, <3>3, <4>3, OneMoves, RequestFacts
    <3> QED
      BY <3>5, <3>6
  <2> QED
    BY <2>5, <2>6
<1> QED
  BY <1>11, <1>12

(* The collector takes an item from the queue.                             *)
LEMMA CollectorTakes == ASSUME ConnectorInv, NEW q \in Inbound, _collect(q) PROVE ConnectorInv'
<1>1. RequestFine(rows[q], streams[q], reader[q], on_token[q], collector[q], callbacks[q])
  BY RequestFacts
<1>2. PICK s, item, acc : s = on_token[q] /\ item = Head(on_token[q]) /\ acc = collector[q].accumulated
  OBVIOUS
<1>3. /\ s \in Seq(Items({"done", "error"})) /\ s # <<>> /\ acc \in Seq(Items({"error"}))
      /\ collector[q].stage = "collecting" /\ collector[q].status = "complete"
  BY <1>1, <1>2, RequestFacts DEF QueueStates, CollectorStates, _collect, RequestFine
<1>4. PICK tok \in QueueStates :
         /\ on_token' = [on_token EXCEPT ![q] = tok]
         /\ tok = Tail(s)
  <2>1. on_token' = [on_token EXCEPT ![q] = Tail(s)]
    BY <1>2 DEF _collect
  <2>2. Tail(s) \in QueueStates
    BY <1>3 DEF QueueStates
  <2> QED
    BY <2>1, <2>2
<1>5. /\ item \in Items({"done", "error"}) /\ item = s[1] /\ Len(s) \in Nat /\ Len(s) # 0
      /\ Len(tok) = Len(s) - 1 /\ \A i \in 1 .. Len(tok) : tok[i] = s[i + 1]
      /\ DOMAIN tok = 1 .. Len(tok) /\ DOMAIN s = 1 .. Len(s) /\ tok \in Seq(Items({"done", "error"}))
  BY <1>2, <1>3, <1>4
<1>6. rows' = rows /\ streams' = streams /\ reader' = reader /\ callbacks' = callbacks
  BY DEF _collect
<1>7. item.kind # "done" => item \in Items({"error"})
  BY <1>5 DEF Items, just, piece
<1>8. PICK col \in CollectorStates :
         /\ collector' = [collector EXCEPT ![q] = col]
         /\ col.accumulated = IF item.kind = "done" THEN acc ELSE Append(acc, item)
         /\ col.status = IF item.kind = "error" THEN "error" ELSE "complete"
         /\ col.stage = IF item.kind \in {"done", "error"} THEN "ended" ELSE "collecting"
  <2>1. PICK sequel, status, stage :
           /\ sequel = IF item.kind = "done" THEN acc ELSE Append(acc, item)
           /\ status = IF item.kind = "error" THEN "error" ELSE "complete"
           /\ stage = IF item.kind \in {"done", "error"} THEN "ended" ELSE "collecting"
    OBVIOUS
  <2>2. sequel \in Seq(Items({"error"}))
    BY <1>3, <1>7, <2>1
  <2>3. collector[q] \in CollectorStates
    BY RequestFacts
  <2>4. collector' = [collector EXCEPT ![q] =
           [[[collector[q] EXCEPT !.accumulated = sequel] EXCEPT !.status = status] EXCEPT !.stage = stage]]
    BY <1>2, <1>3, <2>1, <2>3 DEF _collect, ConnectorInv, CollectorStates
  <2>5. PICK col : col = [[[collector[q] EXCEPT !.accumulated = sequel] EXCEPT !.status = status]
                            EXCEPT !.stage = stage]
    OBVIOUS
  <2>6. /\ col \in CollectorStates /\ col.accumulated = sequel /\ col.status = status
        /\ col.stage = stage
    BY <2>1, <2>2, <2>3, <2>5 DEF CollectorStates
  <2> QED
    BY <2>1, <2>4, <2>5, <2>6
<1>9. ASSUME NEW e \in Int, UpTo(s, e)
      PROVE  /\ UpTo(tok, e) /\ item = piece((e - Len(s)) + 1) /\ item.kind = "piece"
             /\ e - Len(tok) = (e - Len(s)) + 1
             /\ UpTo(acc, e - Len(s)) => UpTo(col.accumulated, e - Len(tok))
  <2>1. UpTo(tok, e) /\ item = piece((e - Len(s)) + 1)
    BY <1>2, <1>3, <1>4, <1>9, UpToTail
  <2>2. item.kind = "piece" /\ e - Len(tok) = (e - Len(s)) + 1
    BY <1>5, <2>1 DEF piece
  <2>3. item \in Items({"error"}) /\ col.accumulated = Append(acc, item)
    BY <1>7, <1>8, <2>2
  <2>4. PICK d \in Int : d = e - Len(s)
    <3>1. Len(s) \in Nat
      BY <1>5
    <3> QED
      BY <3>1
  <2>5. UpTo(acc, d) => UpTo(Append(acc, piece(d + 1)), d + 1)
    BY <1>3, <2>1, <2>3, <2>4, UpToAppend
  <2> QED
    BY <2>1, <2>2, <2>3, <2>4, <2>5
<1>10. /\ reader[q] \notin {"none", "submit", "open", "raised"}
       /\ reader[q] \in ReaderStates
  BY <1>1, <1>2, <1>3, RequestFacts DEF RequestFine
<1>11. CASE reader[q] = "reading"
  <2>1. PICK e \in Int : StreamingAt(rows[q], streams[q], s, collector[q], e)
    BY <1>1, <1>2, <1>11 DEF RequestFine, Streaming
  <2>2. UpTo(s, e) /\ UpTo(acc, e - Len(s))
    BY <1>2, <1>3, <2>1 DEF StreamingAt
  <2>3. UpTo(tok, e) /\ item.kind = "piece" /\ UpTo(col.accumulated, e - Len(tok))
    BY <1>9, <2>2
  <2>4. StreamingAt(rows[q], streams[q], tok, col, e)
    BY <2>1, <2>3 DEF StreamingAt
  <2>5. Streaming(rows[q], streams[q], tok, col)
    BY <2>4 DEF Streaming
  <2>6. RequestFine(rows[q], streams[q], reader[q], tok, col, callbacks[q])
    BY <1>1, <1>8, <1>11, <2>3, <2>5 DEF RequestFine
  <2> QED
    BY <1>4, <1>6, <1>8, <2>6, OneMoves, RequestFacts
<1>12. CASE reader[q] = "ended" /\ NoDoneIn(s)
  <2>1. NoDoneIn(tok)
    <3>1. ASSUME NEW i \in 1 .. Len(tok) PROVE tok[i].kind # "done"
      <4>1. i + 1 \in 1 .. Len(s)
        BY <1>5
      <4> QED
        BY <1>5, <1>12, <4>1 DEF NoDoneIn
    <3> QED
      BY <1>5, <3>1 DEF NoDoneIn
  <2>2. item.kind # "done"
    <3>1. 1 \in DOMAIN s
      BY <1>5
    <3> QED
      BY <1>5, <1>12, <3>1 DEF NoDoneIn
  <2>3. col.stage # "ended" => col.status = "complete"
    BY <1>8
  <2>4. ~(col.stage = "ended" /\ col.status = "complete")
    BY <1>8, <2>2
  <2>5. RequestFine(rows[q], streams[q], reader[q], tok, col, callbacks[q])
    BY <1>1, <1>12, <2>1, <2>3, <2>4 DEF RequestFine
  <2> QED
    BY <1>4, <1>6, <1>8, <2>5, OneMoves, RequestFacts
<1>13. CASE reader[q] = "ended" /\ OutputEnds(rows[q], s, collector[q])
  <2>1. /\ rows[q].status = "complete" /\ s[Len(s)].kind = "done"
        /\ \A i \in 1 .. Len(s) - 1 : s[i] = piece(Deltas - (Len(s) - 1) + i)
        /\ UpTo(acc, Deltas - (Len(s) - 1))
    BY <1>2, <1>3, <1>13 DEF OutputEnds
  <2>2. CASE Len(s) = 1
    <3>1. item.kind = "done" /\ Deltas - (Len(s) - 1) = Deltas
      BY <1>5, <2>1, <2>2, DeltasNat
    <3>2. col.stage = "ended" /\ col.status = "complete" /\ col.accumulated = acc
      BY <1>8, <3>1
    <3>3. Reported(rows[q], col.accumulated)
      BY <2>1, <3>1, <3>2 DEF Reported
    <3>4. NoDoneIn(tok)
      BY <1>5, <2>2 DEF NoDoneIn
    <3>5. RequestFine(rows[q], streams[q], reader[q], tok, col, callbacks[q])
      BY <1>1, <1>13, <3>2, <3>3, <3>4 DEF RequestFine
    <3> QED
      BY <1>4, <1>6, <1>8, <3>5, OneMoves, RequestFacts
  <2>3. CASE Len(s) # 1
    <3>1. 1 \in 1 .. Len(s) - 1 /\ Len(tok) \in 1 .. Len(tok) /\ Len(tok) + 1 = Len(s)
      BY <1>5, <2>3
    <3>2. item = piece(Deltas - (Len(s) - 1) + 1)
      BY <1>5, <2>1, <3>1
    <3>3. item.kind = "piece" /\ item \in Items({"error"})
      BY <1>7, <3>2 DEF piece
    <3>4. col.stage = "collecting" /\ col.status = "complete" /\ col.accumulated = Append(acc, item)
      BY <1>8, <3>3
    <3>5. PICK d \in Int : d = Deltas - (Len(s) - 1)
      <4>1. Len(s) \in Nat
        BY <1>5
      <4> QED
        BY <4>1, DeltasNat
    <3>6. UpTo(col.accumulated, d + 1)
      BY <1>3, <2>1, <3>2, <3>3, <3>4, <3>5, UpToAppend
    <3>7. d + 1 = Deltas - (Len(tok) - 1)
      BY <1>5, <3>5, DeltasNat
    <3>8. tok # <<>> /\ tok[Len(tok)].kind = "done"
      BY <1>5, <2>1, <3>1
    <3>9. ASSUME NEW i \in 1 .. Len(tok) - 1 PROVE tok[i] = piece(Deltas - (Len(tok) - 1) + i)
      <4>1. i + 1 \in 1 .. Len(s) - 1 /\ i \in 1 .. Len(tok)
        BY <1>5
      <4>2. s[i + 1] = piece(Deltas - (Len(s) - 1) + (i + 1))
        BY <2>1, <4>1
      <4>3. Deltas - (Len(s) - 1) + (i + 1) = Deltas - (Len(tok) - 1) + i
        BY <1>5, DeltasNat
      <4> QED
        BY <1>5, <4>1, <4>2, <4>3
    <3>10. OutputEnds(rows[q], tok, col)
      BY <2>1, <3>6, <3>7, <3>8, <3>9 DEF OutputEnds
    <3>11. RequestFine(rows[q], streams[q], reader[q], tok, col, callbacks[q])
      BY <1>1, <1>13, <3>4, <3>10 DEF RequestFine
    <3> QED
      BY <1>4, <1>6, <1>8, <3>11, OneMoves, RequestFacts
  <2> QED
    BY <2>2, <2>3
<1> QED
  BY <1>1, <1>2, <1>10, <1>11, <1>12, <1>13 DEF RequestFine, ReaderStates

(* A collector that waits too long reports an error.                       *)
LEMMA CollectorTimesOut == ASSUME ConnectorInv, NEW q \in Inbound, collect_times_out(q) PROVE ConnectorInv'
<1>1. RequestFine(rows[q], streams[q], reader[q], on_token[q], collector[q], callbacks[q])
  BY RequestFacts
<1>2. PICK col \in CollectorStates :
         /\ collector' = [collector EXCEPT ![q] = col]
         /\ col.stage = "ended" /\ col.status = "error"
  <2>1. PICK acc : acc = Append(collector[q].accumulated, just("error"))
    OBVIOUS
  <2>2. acc \in Seq(Items({"error"}))
    <3>1. just("error") \in Items({"error"})
      BY ItemsOf
    <3>2. collector[q].accumulated \in Seq(Items({"error"}))
      BY RequestFacts DEF CollectorStates
    <3> QED
      BY <2>1, <3>1, <3>2
  <2>3. collector' = [collector EXCEPT ![q] =
             [[[collector[q] EXCEPT !.stage = "ended"] EXCEPT !.status = "error"] EXCEPT !.accumulated = acc]]
    BY <2>1, RequestFacts DEF collect_times_out, ConnectorInv, CollectorStates
  <2>4. PICK col : col = [[[collector[q] EXCEPT !.stage = "ended"] EXCEPT !.status = "error"]
                            EXCEPT !.accumulated = acc]
    OBVIOUS
  <2>5. col \in CollectorStates /\ col.stage = "ended" /\ col.status = "error"
    BY <2>2, <2>4, RequestFacts DEF CollectorStates
  <2> QED
    BY <2>3, <2>4, <2>5
<1>3. /\ rows' = rows /\ streams' = streams /\ reader' = reader /\ on_token' = on_token
      /\ callbacks' = callbacks /\ collector[q].stage = "collecting" /\ on_token[q] = <<>>
  BY DEF collect_times_out
<1>4. Streaming(rows[q], streams[q], on_token[q], collector[q])
        => Streaming(rows[q], streams[q], on_token[q], col)
  BY <1>2 DEF Streaming, StreamingAt
<1>5. OutputEnds(rows[q], on_token[q], collector[q]) => OutputEnds(rows[q], on_token[q], col)
  BY <1>2 DEF OutputEnds
<1>6. RequestFine(rows[q], streams[q], reader[q], on_token[q], col, callbacks[q])
  BY <1>1, <1>2, <1>3, <1>4, <1>5 DEF RequestFine
<1> QED
  BY <1>2, <1>3, <1>6, OneMoves, RequestFacts

(* The callback repeats what the collector reported.                       *)
LEMMA CallbackIsMade ==
    ASSUME ConnectorInv, NEW q \in Inbound, _process_and_callback(q) PROVE ConnectorInv'
<1>1. RequestFine(rows[q], streams[q], reader[q], on_token[q], collector[q], callbacks[q])
  BY RequestFacts
<1>2. /\ rows' = rows /\ streams' = streams /\ reader' = reader /\ on_token' = on_token
      /\ collector' = collector
  BY DEF _process_and_callback
<1>3. CASE /\ reader[q] = "ended" /\ collector[q].stage = "ended"
           /\ callbacks' = [callbacks EXCEPT ![q] =
                 [status |-> collector[q].status, result |-> collector[q].accumulated]]
  <2>1. PICK cb : cb = [status |-> collector[q].status, result |-> collector[q].accumulated]
    OBVIOUS
  <2>2. cb \in CallbackStates /\ cb.status = collector[q].status
        /\ cb.result = collector[q].accumulated
    BY <2>1, RequestFacts DEF CallbackStates, CollectorStates
  <2>3. RequestFine(rows[q], streams[q], reader[q], on_token[q], collector[q], cb)
    BY <1>1, <1>3, <2>2 DEF RequestFine
  <2> QED
    BY <1>2, <1>3, <2>1, <2>2, <2>3, OneMoves, RequestFacts
<1>4. CASE callbacks' = [callbacks EXCEPT ![q] = [status |-> "error", result |-> <<just("error")>>]]
  <2>1. PICK cb : cb = [status |-> "error", result |-> <<just("error")>>]
    OBVIOUS
  <2>2. just("error") \in Items({"error"})
    BY ItemsOf
  <2>3. cb \in CallbackStates /\ cb.status = "error"
    BY <2>1, <2>2 DEF CallbackStates
  <2>4. RequestFine(rows[q], streams[q], reader[q], on_token[q], collector[q], cb)
    BY <1>1, <2>3 DEF RequestFine
  <2> QED
    BY <1>2, <1>4, <2>1, <2>3, <2>4, OneMoves, RequestFacts
<1> QED
  BY <1>3, <1>4 DEF _process_and_callback

(* The invariant holds at the start.                                       *)
LEMMA ConnectorInvInit == ConnectorInit => ConnectorInv
<1> SUFFICES ASSUME ConnectorInit PROVE ConnectorInv
  OBVIOUS
<1>1. /\ [status |-> "none", said |-> 0, told |-> FALSE] \in RowStates
      /\ <<>> \in StreamStates /\ "none" \in ReaderStates /\ <<>> \in QueueStates
      /\ [stage |-> "none", status |-> "complete", accumulated |-> <<>>] \in CollectorStates
      /\ NoCallback \in CallbackStates
  BY DeltasNat DEF RowStates, StreamStates, ReaderStates, QueueStates, CollectorStates,
                   CallbackStates, NoCallback
<1>2. ASSUME NEW q \in Inbound PROVE RequestFineOf(q)
  <2>1. /\ rows[q] = [status |-> "none", said |-> 0, told |-> FALSE]
        /\ streams[q] = <<>> /\ reader[q] = "none" /\ on_token[q] = <<>>
        /\ collector[q] = [stage |-> "none", status |-> "complete", accumulated |-> <<>>]
        /\ callbacks[q] = NoCallback
    BY DEF ConnectorInit
  <2> QED
    BY <2>1 DEF RequestFineOf, RequestFine, NoCallback
<1> QED
  BY <1>1, <1>2 DEF ConnectorInit, ConnectorInv

(* Every step keeps the invariant.                                         *)
LEMMA ConnectorInvNext == ConnectorInv /\ [ConnectorNext]_connectorVars => ConnectorInv'
<1> SUFFICES ASSUME ConnectorInv, [ConnectorNext]_connectorVars PROVE ConnectorInv'
  OBVIOUS
<1>1. CASE UNCHANGED connectorVars
  BY <1>1 DEF connectorVars, ConnectorInv, RequestFineOf
<1>2. ASSUME NEW q \in Inbound,
             \/ inbound(q) \/ Reading(q) \/ stream_fails(q) \/ Collecting(q)
             \/ _process_and_callback(q) \/ TaskRuns(q) \/ cancelled_in_queue(q)
      PROVE  ConnectorInv'
  BY <1>2, BeforeReading, StreamOpens, ReaderTakes, StreamBreaks, CollectorTakes, CollectorTimesOut, CallbackIsMade, TaskRowMoves, TaskSays, TaskEndsAs
     DEF Reading, Collecting, TaskRuns
<1> QED
  BY <1>1, <1>2 DEF ConnectorNext

(* The invariant implies the properties.                                   *)
LEMMA ConnectorInvImplies == ConnectorInv => ConnectorInvariant
<1> SUFFICES ASSUME ConnectorInv PROVE ConnectorInvariant
  OBVIOUS
<1>1. ConnectorTypeOK
  BY RequestFacts DEF ConnectorTypeOK, RowStates, StreamStates, ReaderStates, QueueStates,
                   CollectorStates, CallbackStates
<1>2. CompleteIsTrue
  BY RequestFacts DEF CompleteIsTrue, RequestFine, Reported
<1>3. NoGap
  BY RequestFacts DEF NoGap, RequestFine, Reported, UpTo
<1> QED
  BY <1>1, <1>2, <1>3 DEF ConnectorInvariant

(* A callback that reports success is about a task that is complete, and   *)
(* its output ends with the last piece and has no gap, whatever failed,    *)
(* paused, timed out or was cancelled meanwhile (src/connectors/base.py,   *)
(* webhook.py).                                                            *)
THEOREM ConnectorCorrect == ConnectorSpec => []ConnectorInvariant
<1>1. ConnectorInit => ConnectorInv
  BY ConnectorInvInit
<1>2. ConnectorInv /\ [ConnectorNext]_connectorVars => ConnectorInv'
  BY ConnectorInvNext
<1>3. ConnectorInv => ConnectorInvariant
  BY ConnectorInvImplies
<1> QED
  BY <1>1, <1>2, <1>3, PTL DEF ConnectorSpec
=============================================================================
