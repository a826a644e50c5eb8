------------------------------ MODULE Connector ------------------------------
(***************************************************************************)
(* A connector between an outside request and the gateway                  *)
(* (src/connectors/base.py, src/connectors/webhook.py): a coroutine        *)
(* submits the task and reads its event stream into a queue, another       *)
(* collects the queue with a timeout, and when both are done the callback  *)
(* is made.  The gateway is seen from outside: its rows, and the events of *)
(* a stream from the moment it is opened.                                  *)
(***************************************************************************)
EXTENDS Integers, Sequences

CONSTANTS
    Inbound,            \* requests from outside
    Deltas              \* pieces of output of a task

ASSUME ConnectorAssumption == Deltas \in Nat

VARIABLES
    rows,               \* the task of each request in the gateway
    streams,            \* the events of its stream not read yet
    reader,             \* the coroutine _run_task
    on_token,           \* the queue between the two coroutines
    collector,          \* the coroutine _collect
    callbacks           \* what was sent to callback_url

connectorVars == <<rows, streams, reader, on_token, collector, callbacks>>

Outcomes == {"complete", "error", "cancelled", "paused"}

(* An event of a stream, or an item of the queue: a piece of output, or    *)
(* one of the other kinds.                                                 *)
piece(n) == [kind |-> "piece", n |-> n]
just(kind) == [kind |-> kind, n |-> 0]
Items(kinds) == {piece(n) : n \in 1 .. Deltas} \cup {just(k) : k \in kinds}
NoCallback == [status |-> "none", result |-> <<>>]

(* told: the terminal event was published.                                 *)
ConnectorTypeOK ==
    \A q \in Inbound :
        /\ rows[q].status \in {"none", "queued", "running"} \cup Outcomes
        /\ rows[q].said \in 0 .. Deltas /\ rows[q].told \in BOOLEAN
        /\ streams[q] \in Seq(Items(Outcomes))
        /\ reader[q] \in {"none", "submit", "open", "reading", "ended", "raised"}
        /\ on_token[q] \in Seq(Items({"done", "error"}))
        /\ collector[q].stage \in {"none", "collecting", "ended"}
        /\ collector[q].status \in {"complete", "error"}
        /\ collector[q].accumulated \in Seq(Items({"error"}))
        /\ callbacks[q].status \in {"none", "complete", "error"}

ConnectorInit ==
    /\ rows = [q \in Inbound |-> [status |-> "none", said |-> 0, told |-> FALSE]]
    /\ streams = [q \in Inbound |-> <<>>]
    /\ reader = [q \in Inbound |-> "none"]
    /\ on_token = [q \in Inbound |-> <<>>]
    /\ collector = [q \in Inbound |-> [stage |-> "none", status |-> "complete", accumulated |-> <<>>]]
    /\ callbacks = [q \in Inbound |-> NoCallback]

-----------------------------------------------------------------------------
(* The gateway, seen from outside                                          *)

task_claimed(q) ==
    /\ rows[q].status = "queued"
    /\ rows' = [rows EXCEPT ![q].status = "running"]
    /\ UNCHANGED <<streams, reader, on_token, collector, callbacks>>

(* An event reaches the stream that is open.                               *)
heard(q, event) ==
    streams' = IF reader[q] = "reading" THEN [streams EXCEPT ![q] = Append(@, event)] ELSE streams

says(q) ==
    /\ rows[q].status = "running" /\ rows[q].said < Deltas
    /\ rows' = [rows EXCEPT ![q].said = @ + 1]
    /\ heard(q, piece(rows[q].said + 1))
    /\ UNCHANGED <<reader, on_token, collector, callbacks>>

(* A task that is complete has said everything.                            *)
ends(q, outcome) ==
    /\ rows[q].status = "running" /\ (outcome = "complete" => rows[q].said = Deltas)
    /\ rows' = [rows EXCEPT ![q].status = outcome, ![q].told = TRUE]
    /\ heard(q, just(outcome))
    /\ UNCHANGED <<reader, on_token, collector, callbacks>>

(* A queued task is cancelled in its row alone.                            *)
cancelled_in_queue(q) ==
    /\ rows[q].status = "queued"
    /\ rows' = [rows EXCEPT ![q].status = "cancelled"]
    /\ UNCHANGED <<streams, reader, on_token, collector, callbacks>>

-----------------------------------------------------------------------------
(* The connector                                                           *)

put(q, item) == on_token' = [on_token EXCEPT ![q] = Append(@, item)]

(* The request is answered, the rest goes on in the background.            *)
inbound(q) ==
    /\ reader[q] = "none"
    /\ reader' = [reader EXCEPT ![q] = "submit"]
    /\ collector' = [collector EXCEPT ![q].stage = "collecting"]
    /\ UNCHANGED <<rows, streams, on_token, callbacks>>

submitted(q) ==
    /\ reader[q] = "submit"
    /\ rows' = [rows EXCEPT ![q].status = "queued"]
    /\ reader' = [reader EXCEPT ![q] = "open"]
    /\ UNCHANGED <<streams, on_token, collector, callbacks>>

refused(q) ==
    /\ reader[q] = "submit"
    /\ put(q, just("error"))
    /\ reader' = [reader EXCEPT ![q] = "ended"]
    /\ UNCHANGED <<rows, streams, collector, callbacks>>

(* No connection: the exception ends both coroutines' gather.              *)
submit_raises(q) ==
    /\ reader[q] = "submit"
    /\ reader' = [reader EXCEPT ![q] = "raised"]
    /\ UNCHANGED <<rows, streams, on_token, collector, callbacks>>

(* What the gateway sends first: the outcome in the row or in its cache of *)
(* events, or nothing yet.                                                 *)
_consume_sse(q) ==
    /\ reader[q] = "open"
    /\ reader' = [reader EXCEPT ![q] = "reading"]
    /\ streams' = [streams EXCEPT ![q] = IF rows[q].status \in Outcomes THEN <<just(rows[q].status)>> ELSE <<>>]
    /\ UNCHANGED <<rows, on_token, collector, callbacks>>

(* A variant: the stream is opened again.                                  *)
stream_reopens(q) ==
    /\ reader[q] \in {"open", "reading"}
    /\ reader' = [reader EXCEPT ![q] = "open"]
    /\ streams' = [streams EXCEPT ![q] = <<>>]
    /\ UNCHANGED <<rows, on_token, collector, callbacks>>

stream_fails(q) ==
    /\ reader[q] \in {"open", "reading"}
    /\ put(q, just("error"))
    /\ reader' = [reader EXCEPT ![q] = "ended"]
    /\ streams' = [streams EXCEPT ![q] = <<>>]
    /\ UNCHANGED <<rows, collector, callbacks>>

(* After a pause the gateway closes the stream, and nothing is put.        *)
_run_task(q) ==
    /\ reader[q] = "reading" /\ streams[q] # <<>>
    /\ LET event == Head(streams[q])
       IN  /\ CASE event.kind = "complete" -> put(q, just("done"))
                [] event.kind \in {"error", "cancelled"} -> put(q, just("error"))
                [] event.kind = "paused" -> UNCHANGED on_token
                [] OTHER -> put(q, event)
           /\ reader' = [reader EXCEPT ![q] = IF event.kind \in Outcomes THEN "ended" ELSE @]
    /\ streams' = [streams EXCEPT ![q] = Tail(@)]
    /\ UNCHANGED <<rows, collector, callbacks>>

_collect(q) ==
    /\ collector[q].stage = "collecting" /\ on_token[q] # <<>>
    /\ LET item == Head(on_token[q])
       IN  collector' = [collector EXCEPT
             ![q].accumulated = IF item.kind = "done" THEN @ ELSE Append(@, item),
             ![q].status = IF item.kind = "error" THEN "error" ELSE @,
             ![q].stage = IF item.kind \in {"done", "error"} THEN "ended" ELSE @]
    /\ on_token' = [on_token EXCEPT ![q] = Tail(@)]
    /\ UNCHANGED <<rows, streams, reader, callbacks>>

(* A variant: the queue is waited for as long as the stream is open.       *)
collect_waits(q) ==
    /\ collector[q].stage = "collecting" /\ on_token[q] = <<>> /\ reader[q] = "reading"
    /\ collector' = [collector EXCEPT ![q].stage = "ended", ![q].status = "error",
                                      ![q].accumulated = Append(@, just("error"))]
    /\ UNCHANGED <<rows, streams, reader, on_token, callbacks>>

(* Nothing came for five minutes.                                          *)
collect_times_out(q) ==
    /\ collector[q].stage = "collecting" /\ on_token[q] = <<>>
    /\ collector' = [collector EXCEPT ![q].stage = "ended", ![q].status = "error",
                                      ![q].accumulated = Append(@, just("error"))]
    /\ UNCHANGED <<rows, streams, reader, on_token, callbacks>>

(* One attempt; a failure is logged.                                       *)
_process_and_callback(q) ==
    /\ callbacks[q] = NoCallback
    /\ \/ /\ reader[q] = "ended" /\ collector[q].stage = "ended"
          /\ callbacks' = [callbacks EXCEPT ![q] =
                             [status |-> collector[q].status, result |-> collector[q].accumulated]]
       \/ /\ reader[q] = "raised"
          /\ callbacks' = [callbacks EXCEPT ![q] = [status |-> "error", result |-> <<just("error")>>]]
    /\ UNCHANGED <<rows, streams, reader, on_token, collector>>

-----------------------------------------------------------------------------

Reading(q) == submitted(q) \/ refused(q) \/ submit_raises(q) \/ _consume_sse(q) \/ _run_task(q)
Collecting(q) == _collect(q) \/ collect_times_out(q)
TaskRuns(q) == task_claimed(q) \/ says(q) \/ \E o \in Outcomes : ends(q, o)

ConnectorNext ==
    \E q \in Inbound :
        \/ inbound(q) \/ Reading(q) \/ stream_fails(q) \/ Collecting(q)
        \/ _process_and_callback(q) \/ TaskRuns(q) \/ cancelled_in_queue(q)

(* The coroutines are scheduled; the gateway claims and ends its tasks.    *)
ConnectorFairness ==
    \A q \in Inbound :
        /\ WF_connectorVars(Reading(q)) /\ WF_connectorVars(Collecting(q))
        /\ WF_connectorVars(_process_and_callback(q)) /\ WF_connectorVars(TaskRuns(q))

ConnectorSpec == ConnectorInit /\ [][ConnectorNext]_connectorVars
ConnectorFairSpec == ConnectorSpec /\ ConnectorFairness

-----------------------------------------------------------------------------
(* Properties                                                              *)

(* A callback that says complete is about a task that is complete: neither *)
(* a timeout, a pause, a broken stream nor a refusal is reported as        *)
(* success (_collect, _process_and_callback).                              *)
CompleteIsTrue == \A q \in Inbound : callbacks[q].status = "complete" => rows[q].status = "complete"

(* The output in such a callback has no gap: it ends with the last piece,  *)
(* and only pieces from before the stream was opened are missing.          *)
NoGap ==
    \A q \in Inbound : callbacks[q].status = "complete" =>
        LET result == callbacks[q].result
        IN  \A i \in DOMAIN result : result[i] = piece(Deltas - Len(result) + i)

(* Every request that was accepted is called back, whatever fails; unless  *)
(* its task is cancelled in the queue, of which no stream hears.           *)
CalledBack ==
    \A q \in Inbound :
        reader[q] = "submit" ~> callbacks[q] # NoCallback \/ (rows[q].status = "cancelled" /\ ~rows[q].told)

(* A callback that reports success is about a complete task, and its output *)
(* has no gap (src/connectors/).                                           *)
ConnectorInvariant ==
    /\ ConnectorTypeOK
    /\ CompleteIsTrue
    /\ NoGap

=============================================================================
