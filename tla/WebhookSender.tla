---------------------------- MODULE WebhookSender ----------------------------
(***************************************************************************)
(* Who is told of the end of a task: the user's registered webhooks        *)
(* (src/gateway/routes/webhooks.py, the table webhooks) are read in a      *)
(* background coroutine of the worker, and each gets a delivery of its own *)
(* with up to three attempts (src/webhook_sender.py).                      *)
(***************************************************************************)
EXTENDS Integers, FiniteSets

CONSTANTS
    Hooks,              \* ids of webhooks
    Finished,           \* the tasks that end
    MaxRetries,         \* _MAX_RETRIES
    MaxStops            \* bound: the worker process ends

ASSUME WebhookAssumption == MaxRetries \in Nat \ {0} /\ MaxStops \in Nat

VARIABLES
    webhooks,           \* the events each one subscribes to, {} where there is no row
    firing,             \* the coroutines that read the webhooks: task -> event
    deliveries,         \* coroutines of send_callback: <<task, webhook>> -> attempt
    arrived,            \* history: requests that reached the receiver
    answered,           \* history: deliveries with an answer below 500
    stops

webhookVars == <<webhooks, firing, deliveries, arrived, answered, stops>>

Events == {"task_complete", "task_failed"}
Deliveries == Finished \X Hooks

(* A delivery: not begun, the number of the attempt, or over.              *)
WebhookTypeOK ==
    /\ webhooks \in [Hooks -> SUBSET (Events \cup {"all"})]
    /\ firing \in [Finished -> Events \cup {"running", "over"}]
    /\ deliveries \in [Deliveries -> [stage : {"none", "posting", "waiting", "over"}, attempt : Nat]]
    /\ arrived \in [Deliveries -> Nat]
    /\ answered \subseteq Deliveries
    /\ stops \in 0 .. MaxStops

WebhookInit ==
    /\ webhooks = [h \in Hooks |-> {}]
    /\ firing = [t \in Finished |-> "running"]
    /\ deliveries = [d \in Deliveries |-> [stage |-> "none", attempt |-> 0]]
    /\ arrived = [d \in Deliveries |-> 0]
    /\ answered = {} /\ stops = 0

(* At least one event, each of them known.                                 *)
create_webhook(h) ==
    /\ webhooks[h] = {}
    /\ \E events \in {{"task_complete"}, {"task_failed"}, {"all"}} :
         webhooks' = [webhooks EXCEPT ![h] = events]
    /\ UNCHANGED <<firing, deliveries, arrived, answered, stops>>

delete_webhook(h) ==
    /\ webhooks[h] # {}
    /\ webhooks' = [webhooks EXCEPT ![h] = {}]
    /\ UNCHANGED <<firing, deliveries, arrived, answered, stops>>

(* The outcome of the task is recorded, and the coroutine begins.          *)
task_ends(t) ==
    /\ firing[t] = "running"
    /\ \E event \in Events : firing' = [firing EXCEPT ![t] = event]
    /\ UNCHANGED <<webhooks, deliveries, arrived, answered, stops>>

get_user_webhooks_for_event(event) == {h \in Hooks : webhooks[h] \cap {event, "all"} # {}}

(* If the read fails nobody is told.                                       *)
_fire_user_webhooks(t) ==
    /\ firing[t] \in Events
    /\ \/ deliveries' = [d \in Deliveries |->
                            IF d[1] = t /\ d[2] \in get_user_webhooks_for_event(firing[t])
                            THEN [stage |-> "posting", attempt |-> 1] ELSE deliveries[d]]
       \/ UNCHANGED deliveries
    /\ firing' = [firing EXCEPT ![t] = "over"]
    /\ UNCHANGED <<webhooks, arrived, answered, stops>>

to_stage(d, stage) ==
    deliveries' = [deliveries EXCEPT ![d] = [stage |-> stage, attempt |-> @.attempt]]

post(d, reached) ==
    /\ deliveries[d].stage = "posting"
    /\ arrived' = IF reached THEN [arrived EXCEPT ![d] = @ + 1] ELSE arrived

(* A variant: any answer but a success is tried again.                     *)
post_retried(d) ==
    /\ post(d, TRUE)
    /\ answered' = answered \cup {d}
    /\ \E ok \in BOOLEAN :
         to_stage(d, IF ok \/ deliveries[d].attempt = MaxRetries THEN "over" ELSE "waiting")
    /\ UNCHANGED <<webhooks, firing, stops>>

(* Any answer below 500 ends the delivery, also a refusal.                 *)
post_answered(d) ==
    /\ post(d, TRUE)
    /\ answered' = answered \cup {d}
    /\ to_stage(d, "over")
    /\ UNCHANGED <<webhooks, firing, stops>>

(* A variant: one attempt too many.                                        *)
post_fails_once_more(d) ==
    /\ \E reached \in BOOLEAN : post(d, reached)
    /\ to_stage(d, IF deliveries[d].attempt <= MaxRetries THEN "waiting" ELSE "over")
    /\ UNCHANGED <<webhooks, firing, answered, stops>>

(* An answer of 500 or more, or none at all: the request may have arrived. *)
post_fails(d) ==
    /\ \E reached \in BOOLEAN : post(d, reached)
    /\ to_stage(d, IF deliveries[d].attempt < MaxRetries THEN "waiting" ELSE "over")
    /\ UNCHANGED <<webhooks, firing, answered, stops>>

send_callback(d) ==
    /\ deliveries[d].stage = "waiting"
    /\ deliveries' = [deliveries EXCEPT ![d] = [stage |-> "posting", attempt |-> @.attempt + 1]]
    /\ UNCHANGED <<webhooks, firing, arrived, answered, stops>>

(* Nothing of a delivery is stored.                                        *)
worker_stops ==
    /\ stops < MaxStops
    /\ stops' = stops + 1
    /\ firing' = [t \in Finished |-> IF firing[t] \in Events THEN "over" ELSE firing[t]]
    /\ deliveries' = [d \in Deliveries |->
                        IF deliveries[d].stage \in {"posting", "waiting"}
                        THEN [stage |-> "over", attempt |-> deliveries[d].attempt]
                        ELSE deliveries[d]]
    /\ UNCHANGED <<webhooks, arrived, answered>>

-----------------------------------------------------------------------------

Delivering(d) == post_answered(d) \/ post_fails(d) \/ send_callback(d)

WebhookNext ==
    \/ \E h \in Hooks : create_webhook(h) \/ delete_webhook(h)
    \/ \E t \in Finished : task_ends(t) \/ _fire_user_webhooks(t)
    \/ \E d \in Deliveries : Delivering(d)
    \/ worker_stops

WebhookSpec == WebhookInit /\ [][WebhookNext]_webhookVars

-----------------------------------------------------------------------------
(* Properties                                                              *)

(* A receiver hears of a task at most three times, and once its answer     *)
(* arrived never again: only an answer that was lost leads to a duplicate  *)
(* (send_callback).                                                        *)
AtMostRetries == \A d \in Deliveries : arrived[d] <= MaxRetries
NoneAfterAnswer == [][\A d \in answered : arrived'[d] = arrived[d]]_webhookVars

(* A receiver hears of a task as often as there are attempts, at most      *)
(* (send_callback, src/webhook_sender.py).                                 *)
WebhookInvariant ==
    /\ WebhookTypeOK
    /\ AtMostRetries

=============================================================================
