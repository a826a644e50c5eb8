------------------------------ MODULE MCDelivery ------------------------------
(***************************************************************************)
(* Instance for TLC of what is brought to an end and told to others: event *)
(* streams, pipelines, schedules, polls of the Ollama nodes, callbacks of  *)
(* connectors and webhooks.  These components share no state: `part` picks *)
(* at the start the one that moves, and fairness is asked of that one; the *)
(* states are the sum of theirs.                                           *)
(***************************************************************************)
EXTENDS EventStream, Pipelines, Scheduler, OllamaCluster, Connector,
        WebhookSender, TLC

CONSTANTS t1, n1, c1, u1

VARIABLE part       \* the component that moves

deliveryVars == <<part, allVars, pipelineVars, schedulerVars, clusterVars,
                  connectorVars, webhookVars>>

SamePriority == [t \in TaskId |-> 5]
OneUser == [c \in Client |-> u1]

(* The text of each of the two steps names the other.                      *)
MCRefersTo == 1 :> 2 @@ 2 :> 1

DeliveryInit ==
    /\ part \in {"streams", "pipelines", "scheduler", "cluster", "connector", "webhooks"}
    /\ StreamInit /\ PipelineInit /\ SchedulerInit /\ ConnectorInit /\ WebhookInit
    /\ ClusterInit /\ (part # "cluster" => Members = {})

(* What stays when one component moves.                                    *)
besides_streams == <<part, pipelineVars, schedulerVars, clusterVars, connectorVars, webhookVars>>
besides_pipelines == <<part, allVars, schedulerVars, clusterVars, connectorVars, webhookVars>>
besides_scheduler == <<part, allVars, pipelineVars, clusterVars, connectorVars, webhookVars>>
besides_cluster == <<part, allVars, pipelineVars, schedulerVars, connectorVars, webhookVars>>
besides_connector == <<part, allVars, pipelineVars, schedulerVars, clusterVars, webhookVars>>
besides_webhooks == <<part, allVars, pipelineVars, schedulerVars, clusterVars, connectorVars>>

streams_move == part = "streams" /\ StreamNext /\ UNCHANGED besides_streams
pipelines_move == part = "pipelines" /\ PipelineNext /\ UNCHANGED besides_pipelines
scheduler_moves == part = "scheduler" /\ SchedulerNext /\ UNCHANGED besides_scheduler
cluster_moves == part = "cluster" /\ ClusterNext /\ UNCHANGED besides_cluster
connector_moves == part = "connector" /\ ConnectorNext /\ UNCHANGED besides_connector
webhooks_move == part = "webhooks" /\ WebhookNext /\ UNCHANGED besides_webhooks

DeliveryNext ==
    \/ streams_move \/ pipelines_move \/ scheduler_moves
    \/ cluster_moves \/ connector_moves \/ webhooks_move

(* The fairness of each module, for the component that moves; webhooks     *)
(* need none for what is checked of them.                                  *)
DeliveryFairness ==
    /\ \A n \in Node :
          /\ WF_allVars(part = "streams" /\ task_worker(n) /\ UNCHANGED streamVars)
          /\ WF_allVars(part = "streams" /\ watchdog_interval(n) /\ UNCHANGED streamVars)
          /\ WF_allVars(part = "streams" /\ restart(n) /\ UNCHANGED streamVars)
    /\ \A n \in Node, t \in TaskId : WF_allVars(part = "streams" /\ run_and_publish(n, t))
    /\ \A t \in TaskId : WF_allVars(part = "streams" /\ grow_stale(t) /\ UNCHANGED streamVars)
    /\ \A c \in Client : WF_allVars(part = "streams" /\ handle_stream(c))
    /\ WF_pipelineVars(part = "pipelines" /\ execute_pipeline)
    /\ \A c \in Clients : WF_pipelineVars(part = "pipelines" /\ subscribe_pipeline_events(c))
    /\ \A g \in Gateways : WF_schedulerVars(part = "scheduler" /\ (start_scheduler(g) \/ _tick(g) \/ _fire(g)))
    /\ WF_clusterVars(part = "cluster" /\ ClusterPoll)
    /\ \A l \in Labels, url \in Urls : WF_clusterVars(part = "cluster" /\ update_health(l, url))
    /\ \A q \in Inbound :
          /\ WF_connectorVars(part = "connector" /\ Reading(q))
          /\ WF_connectorVars(part = "connector" /\ Collecting(q))
          /\ WF_connectorVars(part = "connector" /\ _process_and_callback(q))
          /\ WF_connectorVars(part = "connector" /\ TaskRuns(q))

DeliveryFairSpec == DeliveryInit /\ [][DeliveryNext]_deliveryVars /\ DeliveryFairness

===============================================================================
