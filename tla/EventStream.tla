---------------------------- MODULE EventStream ----------------------------
(***************************************************************************)
(* The event streams of the gateway, composed with the task queue: the     *)
(* in-process channels and the cache of terminal events (events.py), and   *)
(* GET /tasks/{id}/stream with its slots per user (routes/stream.py).      *)
(*                                                                         *)
(* Channels, cache and slots live in the memory of one process.  An event  *)
(* that a coroutine publishes reaches the clients connected to the same    *)
(* process.  asyncio.Queue is unbounded, so a publish does not suspend: it *)
(* is one step together with the step of the coroutine that makes it.      *)
(***************************************************************************)
EXTENDS TaskQueue, Sequences

CONSTANTS
  Client, User,
  UserOf,                    \* the user a client authenticates as
  max_sse_streams_per_user,  \* 0 disables the limit
  TERMINAL_CACHE_MAXSIZE,
  MaxProgress                \* bound: events a task publishes before its outcome

ASSUME StreamAssumption ==
  /\ IsFiniteSet(Client)
  /\ UserOf \in [Client -> User]
  /\ max_sse_streams_per_user \in Nat
  /\ TERMINAL_CACHE_MAXSIZE \in Nat \ {0}
  /\ MaxProgress \in Nat

VARIABLES
  channels,         \* _channels of each process: the clients whose queues are listed
  terminal_events,  \* _terminal_events of each process, oldest first
  active_streams,   \* _active_streams of each process
  state,            \* where the request of a client is
  at,               \* the process that serves it
  want,             \* the task it asks for
  seen,             \* the status in the row that stream_task read
  queue,            \* its asyncio.Queue
  received,         \* the events this connection has been sent
  sent              \* the number of progress events of each task

streamVars == <<channels, terminal_events, active_streams, state, at, want, seen,
                queue, received, sent>>
allVars    == <<vars, streamVars>>

-----------------------------------------------------------------------------
(* Events are numbered per task, so that order and gaps can be told.       *)
Event == {"progress", "sentinel"} \cup TerminalEvents
Progress(k)  == [kind |-> "progress", number |-> k]
Outcome(e)   == [kind |-> e, number |-> 0]
Sentinel     == [kind |-> "sentinel", number |-> 0]

StreamTypeOK ==
  /\ channels \in [Node -> [TaskId -> SUBSET Client]]
  /\ terminal_events \in [Node -> Seq(TaskId)]
  /\ active_streams \in [Node -> [User -> Nat]]
  /\ state \in [Client -> {"idle", "get_task", "response", "waiting"}]
  /\ at \in [Client -> Node]
  /\ want \in [Client -> TaskId \cup {NoTask}]
  /\ seen \in [Client -> Statuses \cup {"unread"}]
  /\ queue \in [Client -> Seq([kind : Event, number : Nat])]
  /\ received \in [Client -> Seq([kind : Event, number : Nat])]
  /\ sent \in [TaskId -> Nat]

StreamInit ==
  /\ Init
  /\ channels = [n \in Node |-> [t \in TaskId |-> {}]]
  /\ terminal_events = [n \in Node |-> <<>>]
  /\ active_streams = [n \in Node |-> [u \in User |-> 0]]
  /\ state = [c \in Client |-> "idle"]
  /\ at \in [Client -> Node]
  /\ want = [c \in Client |-> NoTask]
  /\ seen = [c \in Client |-> "unread"]
  /\ queue = [c \in Client |-> <<>>]
  /\ received = [c \in Client |-> <<>>]
  /\ sent = [t \in TaskId |-> 0]

-----------------------------------------------------------------------------
(* publish_event on process n.                                             *)

Cached(n, t) == \E i \in DOMAIN terminal_events[n] : terminal_events[n][i] = t

(* Variant: queues of bounded size, and an event that finds one full lost. *)
push_if_room(n, t, events) ==
  queue' = [c \in Client |-> IF c \in channels[n][t] /\ queue[c] = <<>>
                             THEN queue[c] \o events ELSE queue[c]]

push(n, t, events) ==
  queue' = [c \in Client |-> IF c \in channels[n][t] THEN queue[c] \o events ELSE queue[c]]

publish_progress(n, t) ==
  /\ coro[n][t] = "agent" /\ sent[t] < MaxProgress
  /\ sent' = [sent EXCEPT ![t] = @ + 1]
  /\ push(n, t, <<Progress(sent[t] + 1)>>)
  /\ UNCHANGED <<vars, channels, terminal_events, active_streams, state, at, want,
                 seen, received>>

(* Variants: the cache evicts one entry too early; the terminal event is   *)
(* not followed by the sentinel.                                           *)
publish_evict_early(n, t, e) ==
  /\ LET room == IF Len(terminal_events[n]) + 1 >= TERMINAL_CACHE_MAXSIZE /\ terminal_events[n] # <<>>
                 THEN Tail(terminal_events[n]) ELSE terminal_events[n]
     IN  terminal_events' = [terminal_events EXCEPT
           ![n] = IF TERMINAL_CACHE_MAXSIZE = 1 THEN room ELSE Append(room, t)]
  /\ push(n, t, <<Outcome(e), Sentinel>>)
  /\ channels' = [channels EXCEPT ![n][t] = {}]
  /\ UNCHANGED <<active_streams, state, at, want, seen, received, sent>>

publish_no_sentinel(n, t, e) ==
  /\ terminal_events' = [terminal_events EXCEPT ![n] = Append(@, t)]
  /\ push(n, t, <<Outcome(e)>>)
  /\ channels' = [channels EXCEPT ![n][t] = {}]
  /\ UNCHANGED <<active_streams, state, at, want, seen, received, sent>>

(* A terminal event goes to the cache first, which evicts its oldest entry *)
(* when it is full; then to the queues, each followed by the sentinel; and *)
(* the channel is dropped.                                                 *)
publish_event(n, t, e) ==
  /\ LET room == IF Len(terminal_events[n]) >= TERMINAL_CACHE_MAXSIZE
                 THEN Tail(terminal_events[n]) ELSE terminal_events[n]
     IN  terminal_events' = [terminal_events EXCEPT
           ![n] = IF \E i \in DOMAIN room : room[i] = t THEN room ELSE Append(room, t)]
  /\ push(n, t, <<Outcome(e), Sentinel>>)
  /\ channels' = [channels EXCEPT ![n][t] = {}]
  /\ UNCHANGED <<active_streams, state, at, want, seen, received, sent>>

-----------------------------------------------------------------------------
(* GET /tasks/{t}/stream of client c.                                      *)

Close(c) ==
  /\ state' = [state EXCEPT ![c] = "idle"]
  /\ want' = [want EXCEPT ![c] = NoTask]
  /\ seen' = [seen EXCEPT ![c] = "unread"]
  /\ queue' = [queue EXCEPT ![c] = <<>>]
  /\ received' = [received EXCEPT ![c] = <<>>]
  /\ channels' = [channels EXCEPT ![at[c]] = [t \in TaskId |-> @[t] \ {c}]]
  /\ UNCHANGED <<at, terminal_events, sent>>

(* Variant: the count may go below zero.                                   *)
release_no_floor(c) ==
  active_streams' = [active_streams EXCEPT ![at[c]][UserOf[c]] = @ - 1]

release_stream_slot(c) ==
  active_streams' = [active_streams EXCEPT ![at[c]][UserOf[c]] = IF @ <= 1 THEN 0 ELSE @ - 1]

(* Variant: one stream too many.                                           *)
acquire_off_by_one(n, u) ==
  IF max_sse_streams_per_user = 0 THEN UNCHANGED active_streams
  ELSE /\ active_streams[n][u] <= max_sse_streams_per_user
       /\ active_streams' = [active_streams EXCEPT ![n][u] = @ + 1]

acquire_stream_slot(n, u) ==
  IF max_sse_streams_per_user = 0 THEN UNCHANGED active_streams
  ELSE /\ active_streams[n][u] < max_sse_streams_per_user
       /\ active_streams' = [active_streams EXCEPT ![n][u] = @ + 1]

(* The request is authenticated and gets a slot; a refused one (429)       *)
(* changes nothing.                                                        *)
stream_task(c, n, t) ==
  /\ state[c] = "idle" /\ loop[n] # "down"
  /\ acquire_stream_slot(n, UserOf[c])
  /\ state' = [state EXCEPT ![c] = "get_task"]
  /\ at' = [at EXCEPT ![c] = n]
  /\ want' = [want EXCEPT ![c] = t]
  /\ UNCHANGED <<vars, channels, terminal_events, seen, queue, received, sent>>

(* The row as it is now; a missing row gives the slot back, a query that   *)
(* raises does not.                                                        *)
get_task(c) ==
  /\ state[c] = "get_task"
  /\ \/ /\ Exists(want[c])
        /\ state' = [state EXCEPT ![c] = "response"]
        /\ seen' = [seen EXCEPT ![c] = status[want[c]]]
        /\ UNCHANGED <<vars, channels, terminal_events, active_streams, at, want, queue,
                       received, sent>>
     \/ /\ ~Exists(want[c])
        /\ release_stream_slot(c) /\ Close(c)
        /\ UNCHANGED vars
     \/ /\ Fault
        /\ Close(c)
        /\ UNCHANGED <<rowVars, loopVars, runVars, crashes, edits, active_streams>>

(* The connection breaks before the generator was asked for its first      *)
(* event: a generator that never started runs no finally block.            *)
abandon_response(c) ==
  /\ state[c] = "response"
  /\ Fault
  /\ Close(c)
  /\ UNCHANGED <<rowVars, loopVars, runVars, crashes, edits, active_streams>>

(* event_generator up to its first suspension, with the row as get_task    *)
(* saw it: the outcome of a finished task is sent and the stream ends.     *)
send_outcome(c) ==
  /\ state[c] = "response"
  /\ seen[c] \in Terminal \/ Cached(at[c], want[c])
  /\ release_stream_slot(c) /\ Close(c)
  /\ UNCHANGED vars

subscribe_task_events(c) ==
  /\ state[c] = "response"
  /\ seen[c] \notin Terminal /\ ~Cached(at[c], want[c])
  /\ state' = [state EXCEPT ![c] = "waiting"]
  /\ channels' = [channels EXCEPT ![at[c]][want[c]] = @ \cup {c}]
  /\ UNCHANGED <<vars, terminal_events, active_streams, at, want, seen, queue, received,
                 sent>>

next_event(c) ==
  /\ state[c] = "waiting" /\ queue[c] # <<>>
  /\ UNCHANGED vars
  /\ \/ /\ Head(queue[c]) = Sentinel
        /\ release_stream_slot(c) /\ Close(c)
     \/ /\ Head(queue[c]) # Sentinel
        /\ queue' = [queue EXCEPT ![c] = Tail(@)]
        /\ received' = [received EXCEPT ![c] = Append(@, Head(queue[c]))]
        /\ UNCHANGED <<channels, terminal_events, active_streams, state, at, want, seen, sent>>

(* The client goes away: the wait is cancelled, both finally blocks run.   *)
disconnect(c) ==
  /\ state[c] = "waiting"
  /\ release_stream_slot(c) /\ Close(c)
  /\ UNCHANGED vars

-----------------------------------------------------------------------------
(* The steps of the queue.  A coroutine that publishes its terminal event  *)
(* does so to its own process; a dead process drops its connections.       *)
run_and_publish(n, t) ==
  /\ run_task(n, t)
  /\ IF published' = published THEN UNCHANGED streamVars
     ELSE \E e \in published'[t] \ published[t] : publish_event(n, t, e)

drop_connections(n) ==
  /\ crash(n)
  /\ channels' = [channels EXCEPT ![n] = [t \in TaskId |-> {}]]
  /\ terminal_events' = [terminal_events EXCEPT ![n] = <<>>]
  /\ active_streams' = [active_streams EXCEPT ![n] = [u \in User |-> 0]]
  /\ LET Keep(f, g) == [c \in Client |-> IF at[c] = n THEN g ELSE f[c]]
     IN  /\ state' = Keep(state, "idle") /\ want' = Keep(want, NoTask)
         /\ seen' = Keep(seen, "unread") /\ queue' = Keep(queue, <<>>)
         /\ received' = Keep(received, <<>>)
  /\ UNCHANGED <<at, sent>>

handle_stream(c) ==
  get_task(c) \/ send_outcome(c) \/ subscribe_task_events(c) \/ next_event(c)

StreamNext ==
  \/ (Request \/ \E n \in Node : task_worker(n)) /\ UNCHANGED streamVars
  \/ \E n \in Node, t \in TaskId : run_and_publish(n, t) \/ publish_progress(n, t)
  \/ (\E t \in TaskId : grow_stale(t)) /\ UNCHANGED streamVars
  \/ \E n \in Node : /\ watchdog_interval(n) \/ restart(n)
                     /\ UNCHANGED streamVars
  \/ \E n \in Node : drop_connections(n)
  \/ \E c \in Client, n \in Node, t \in TaskId : stream_task(c, n, t)
  \/ \E c \in Client : handle_stream(c) \/ abandon_response(c) \/ disconnect(c)

StreamSpec == StreamInit /\ [][StreamNext]_allVars

(* The fairness of the queue, and the event loop resumes every generator.  *)
StreamFairness ==
  /\ \A n \in Node : /\ WF_allVars(task_worker(n) /\ UNCHANGED streamVars)
                     /\ WF_allVars(watchdog_interval(n) /\ UNCHANGED streamVars)
                     /\ WF_allVars(restart(n) /\ UNCHANGED streamVars)
  /\ \A n \in Node, t \in TaskId : WF_allVars(run_and_publish(n, t))
  /\ \A t \in TaskId : WF_allVars(grow_stale(t) /\ UNCHANGED streamVars)
  /\ \A c \in Client : WF_allVars(handle_stream(c))

FairStreamSpec == StreamSpec /\ StreamFairness

-----------------------------------------------------------------------------
(* What is to hold.                                                        *)

Open(n, u) == {c \in Client : state[c] # "idle" /\ at[c] = n /\ UserOf[c] = u}

(* The limit is a limit: whatever requests fail, end or break off, a user  *)
(* never has more streams open on a process than it allows.                *)
StreamLimit ==
  max_sse_streams_per_user > 0 =>
     \A n \in Node, u \in User : Cardinality(Open(n, u)) <= max_sse_streams_per_user

(* What makes StreamLimit inductive: a slot is only ever given back by the *)
(* stream that took it.                                                    *)
SlotsCover ==
  max_sse_streams_per_user > 0 =>
     \A n \in Node, u \in User :
        /\ Cardinality(Open(n, u)) <= active_streams[n][u]
        /\ active_streams[n][u] <= max_sse_streams_per_user

Ended(c) == \E i \in DOMAIN queue[c] : queue[c][i] = Sentinel

(* A stream that waits on the process where its task ran is told of the    *)
(* outcome, though the row was read, the outcome published and the stream  *)
(* subscribed in any order: after the publish either its queue holds the   *)
(* end, or it never starts to wait.  The cache must not have had to evict. *)
NoMissedOutcome ==
  Cardinality({t \in TaskId : published[t] # {}}) <= TERMINAL_CACHE_MAXSIZE =>
     \A c \in Client :
        /\ state[c] = "waiting"
        /\ worker_id[want[c]] = NodeId(at[c])
        /\ published[want[c]] \cap {"task_complete", "task_error"} # {}
        => Ended(c)

(* A stream is sent the events of its task from some point on, in order    *)
(* and without a gap, then at most one outcome, and nothing after it.      *)
InOrder ==
  \A c \in Client : state[c] = "waiting" =>
     LET events == received[c] \o queue[c]
         progress == IF Ended(c) THEN Len(events) - 2 ELSE Len(events)
     IN  /\ \A i \in 1..progress :
              events[i] = Progress(sent[want[c]] - progress + i)
         /\ Ended(c) => events[progress + 1].kind \in published[want[c]]

(* A stream that found its task running comes to its end, by the outcome,  *)
(* unless the row is deleted meanwhile: no coroutine publishes for a row   *)
(* that is gone.                                                           *)
Streaming(c, t) == state[c] # "idle" /\ want[c] = t /\ seen[c] = "running"

RunningStreamEnds ==
  \A c \in Client, t \in TaskId :
     Streaming(c, t) ~> ~Streaming(c, t) \/ status[t] = "deleted"

(* "Always release the stream slot" (stream.py:214): a user without a      *)
(* stream holds no slot.                                                   *)
SlotsReleased ==
  \A n \in Node, u \in User : Open(n, u) = {} => active_streams[n][u] = 0
=============================================================================
