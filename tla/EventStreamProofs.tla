------------------------- MODULE EventStreamProofs -------------------------
(***************************************************************************)
(* Proofs about the event streams, with the queue running below them.      *)
(*                                                                         *)
(* The limit on a user's streams: SlotsCover makes it inductive.  A count  *)
(* of a process and user is never less than the streams that are open,     *)
(* because a stream gives back one slot at most and only while it is open. *)
(*                                                                         *)
(* What a stream is told: a coroutine publishes on the process whose name  *)
(* is in the row, so the streams of that process either are in the channel *)
(* then, or find the outcome in the cache or in the row when they ask.     *)
(***************************************************************************)
EXTENDS EventStream, TaskQueueProofs, FunctionTheorems, SequenceTheorems

SlotType ==
  /\ active_streams \in [Node -> [User -> Nat]]
  /\ state \in [Client -> {"idle", "get_task", "response", "waiting"}]
  /\ at \in [Client -> Node]

SlotCount == SlotType /\ SlotsCover

(* The streams of a user on a process are finitely many.                   *)
LEMMA OpenFinite ==
  ASSUME NEW n, NEW u
  PROVE  IsFiniteSet(Open(n, u)) /\ Cardinality(Open(n, u)) \in Nat
<1>1. Open(n, u) \subseteq Client
  BY DEF Open
<1> QED
  BY <1>1, FS_Subset, FS_CardinalityType, StreamAssumption DEF StreamAssumption

(* The initial state has no stream open.                                   *)
LEMMA SlotInit == StreamInit => SlotCount
<1> SUFFICES ASSUME StreamInit PROVE SlotCount
  OBVIOUS
<1>1. SlotType
  BY DEF StreamInit, SlotType
<1>2. ASSUME NEW n \in Node, NEW u \in User
      PROVE  Cardinality(Open(n, u)) = 0 /\ active_streams[n][u] = 0
  <2>1. Open(n, u) = {}
    BY DEF StreamInit, Open
  <2> QED
    BY <2>1, FS_EmptySet DEF StreamInit
<1>3. SlotsCover
  BY <1>2, StreamAssumption DEF SlotsCover, StreamAssumption
<1> QED
  BY <1>1, <1>3 DEF SlotCount

(* Steps that open and close no stream and leave the count alone.          *)
LEMMA SlotKept ==
  ASSUME SlotCount, UNCHANGED <<active_streams, at>>,
         state' \in [Client -> {"idle", "get_task", "response", "waiting"}],
         \A c \in Client : state'[c] = "idle" <=> state[c] = "idle"
  PROVE  SlotCount'
<1>1. SlotType'
  BY DEF SlotCount, SlotType
<1>2. ASSUME NEW n \in Node, NEW u \in User PROVE Open(n, u)' = Open(n, u)
  BY DEF Open
<1>3. SlotsCover'
  BY <1>2 DEF SlotCount, SlotsCover
<1> QED
  BY <1>1, <1>3 DEF SlotCount

(* A stream is opened after its slot was taken.                            *)
LEMMA SlotOpened ==
  ASSUME SlotCount, NEW c \in Client, NEW n \in Node, NEW t \in TaskId, stream_task(c, n, t)
  PROVE  SlotCount'
<1> DEFINE u == UserOf[c]
<1>1. u \in User /\ max_sse_streams_per_user \in Nat
  BY StreamAssumption DEF StreamAssumption
<1>2. SlotType'
  <2>1. active_streams' \in [Node -> [User -> Nat]]
    <3>1. CASE max_sse_streams_per_user = 0
      BY <3>1 DEF stream_task, acquire_stream_slot, SlotCount, SlotType
    <3>2. CASE max_sse_streams_per_user # 0
      <4>1. active_streams[n][u] + 1 \in Nat
        BY <1>1 DEF SlotCount, SlotType
      <4> QED
        BY <1>1, <3>2, <4>1 DEF stream_task, acquire_stream_slot, SlotCount, SlotType
    <3> QED
      BY <3>1, <3>2
  <2> QED
    BY <2>1 DEF stream_task, SlotCount, SlotType
<1>3. SUFFICES ASSUME max_sse_streams_per_user > 0, NEW m \in Node, NEW v \in User
               PROVE  /\ Cardinality(Open(m, v))' <= active_streams'[m][v]
                      /\ active_streams'[m][v] <= max_sse_streams_per_user
  BY <1>2 DEF SlotCount, SlotsCover
<1>4. /\ active_streams[n][u] < max_sse_streams_per_user
      /\ active_streams' = [active_streams EXCEPT ![n][u] = @ + 1]
  BY <1>3, <1>1 DEF stream_task, acquire_stream_slot
<1>5. /\ Cardinality(Open(m, v)) <= active_streams[m][v]
      /\ active_streams[m][v] <= max_sse_streams_per_user
      /\ active_streams[m][v] \in Nat
  BY <1>3 DEF SlotCount, SlotsCover, SlotType
<1>6. CASE m = n /\ v = u
  <2>1. Open(n, u)' = Open(n, u) \cup {c}
    BY <1>1 DEF stream_task, Open, SlotCount, SlotType
  <2>2. c \notin Open(n, u)
    BY DEF stream_task, Open
  <2>3. Cardinality(Open(n, u) \cup {c}) = Cardinality(Open(n, u)) + 1
    BY <2>2, OpenFinite, FS_AddElement
  <2>4. active_streams'[n][u] = active_streams[n][u] + 1
    BY <1>1, <1>4 DEF SlotCount, SlotType
  <2> QED
    BY <1>1, <1>4, <1>5, <1>6, <2>1, <2>3, <2>4, OpenFinite
<1>7. CASE ~(m = n /\ v = u)
  <2>1. Open(m, v)' = Open(m, v)
    BY <1>7 DEF stream_task, Open, SlotCount, SlotType
  <2>2. active_streams'[m][v] = active_streams[m][v]
    BY <1>1, <1>4, <1>7 DEF SlotCount, SlotType
  <2> QED
    BY <1>5, <2>1, <2>2
<1> QED
  BY <1>6, <1>7

(* A stream is closed, and its slot is given back or leaks.                *)
LEMMA SlotClosed ==
  ASSUME SlotCount, NEW c \in Client, state[c] # "idle", Close(c),
         release_stream_slot(c) \/ UNCHANGED active_streams
  PROVE  SlotCount'
<1> DEFINE n == at[c]  u == UserOf[c]
<1>1. u \in User /\ n \in Node /\ max_sse_streams_per_user \in Nat
  BY StreamAssumption DEF StreamAssumption, SlotCount, SlotType
<1>2. SlotType'
  <2>1. active_streams' \in [Node -> [User -> Nat]]
    <3>1. CASE UNCHANGED active_streams
      BY <3>1 DEF SlotCount, SlotType
    <3>2. CASE release_stream_slot(c)
      <4>1. active_streams[n][u] \in Nat
        BY <1>1 DEF SlotCount, SlotType
      <4>2. (IF active_streams[n][u] <= 1 THEN 0 ELSE active_streams[n][u] - 1) \in Nat
        BY <4>1
      <4> QED
        BY <1>1, <3>2, <4>2 DEF release_stream_slot, SlotCount, SlotType
    <3> QED
      BY <3>1, <3>2
  <2> QED
    BY <2>1 DEF Close, SlotCount, SlotType
<1>3. SUFFICES ASSUME max_sse_streams_per_user > 0, NEW m \in Node, NEW v \in User
               PROVE  /\ Cardinality(Open(m, v))' <= active_streams'[m][v]
                      /\ active_streams'[m][v] <= max_sse_streams_per_user
  BY <1>2 DEF SlotCount, SlotsCover
<1>5. /\ Cardinality(Open(m, v)) <= active_streams[m][v]
      /\ active_streams[m][v] <= max_sse_streams_per_user
      /\ active_streams[m][v] \in Nat
  BY <1>3 DEF SlotCount, SlotsCover, SlotType
<1>6. CASE m = n /\ v = u
  <2>1. Open(m, v)' = Open(m, v) \ {c}
    BY <1>6 DEF Close, Open, SlotCount, SlotType
  <2>2. c \in Open(m, v)
    BY <1>6 DEF Open
  <2>3. Cardinality(Open(m, v) \ {c}) = Cardinality(Open(m, v)) - 1
    BY <2>2, OpenFinite, FS_RemoveElement
  <2>4. \/ active_streams'[m][v] = active_streams[m][v]
        \/ active_streams'[m][v] = IF active_streams[m][v] <= 1 THEN 0
                                   ELSE active_streams[m][v] - 1
    BY <1>1, <1>6 DEF release_stream_slot, SlotCount, SlotType
  <2>5. Cardinality(Open(m, v)) \in Nat /\ Cardinality(Open(m, v)) - 1 \in Nat
    <3>1. Cardinality(Open(m, v) \ {c}) \in Nat
      BY OpenFinite, FS_RemoveElement, FS_CardinalityType
    <3> QED
      BY <2>3, <3>1, OpenFinite
  <2>6. Cardinality(Open(m, v)) - 1 <= active_streams'[m][v]
    BY <1>5, <1>6, <2>4, <2>5
  <2>7. active_streams'[m][v] <= max_sse_streams_per_user
    BY <1>1, <1>5, <1>6, <2>4
  <2> QED
    BY <1>6, <2>1, <2>3, <2>6, <2>7
<1>7. CASE ~(m = n /\ v = u)
  <2>1. Open(m, v)' = Open(m, v)
    BY <1>7 DEF Close, Open, SlotCount, SlotType
  <2>2. active_streams'[m][v] = active_streams[m][v]
    BY <1>1, <1>7 DEF release_stream_slot, SlotCount, SlotType
  <2> QED
    BY <1>5, <2>1, <2>2
<1> QED
  BY <1>6, <1>7

(* A dead process has no stream and counts none.                           *)
LEMMA SlotCrash ==
  ASSUME SlotCount, NEW n \in Node, drop_connections(n)
  PROVE  SlotCount'
<1>1. SlotType'
  BY DEF drop_connections, SlotCount, SlotType
<1>2. SUFFICES ASSUME max_sse_streams_per_user > 0, NEW m \in Node, NEW v \in User
               PROVE  /\ Cardinality(Open(m, v))' <= active_streams'[m][v]
                      /\ active_streams'[m][v] <= max_sse_streams_per_user
  BY <1>1 DEF SlotCount, SlotsCover
<1>3. CASE m = n
  <2>1. Open(n, v)' = {}
    BY DEF drop_connections, Open, SlotCount, SlotType
  <2>2. active_streams'[n][v] = 0
    BY DEF drop_connections, SlotCount, SlotType
  <2>3. max_sse_streams_per_user \in Nat
    BY StreamAssumption DEF StreamAssumption
  <2>4. Cardinality(Open(n, v))' = 0
    BY <2>1, FS_EmptySet
  <2> QED
    BY <1>2, <1>3, <2>2, <2>3, <2>4
<1>4. CASE m # n
  <2>1. Open(m, v)' = Open(m, v)
    BY <1>4 DEF drop_connections, Open, SlotCount, SlotType
  <2>2. active_streams'[m][v] = active_streams[m][v]
    BY <1>4 DEF drop_connections, SlotCount, SlotType
  <2> QED
    BY <1>2, <2>1, <2>2 DEF SlotCount, SlotsCover
<1> QED
  BY <1>3, <1>4

(* Every step of the queue and of the streams keeps the count.             *)
LEMMA SlotNext == SlotCount /\ [StreamNext]_allVars => SlotCount'
<1> SUFFICES ASSUME SlotCount, [StreamNext]_allVars PROVE SlotCount'
  OBVIOUS
<1>s. ASSUME UNCHANGED <<active_streams, state, at>> PROVE SlotCount'
  BY <1>s, SlotKept DEF SlotCount, SlotType
<1>1. CASE UNCHANGED streamVars
  BY <1>1, <1>s DEF streamVars
<1>2. ASSUME NEW n \in Node, NEW t \in TaskId, run_and_publish(n, t) PROVE SlotCount'
  BY <1>2, <1>s DEF run_and_publish, publish_event, streamVars
<1>3. ASSUME NEW n \in Node, NEW t \in TaskId, publish_progress(n, t) PROVE SlotCount'
  BY <1>3, <1>s DEF publish_progress
<1>4. ASSUME NEW c \in Client, get_task(c) PROVE SlotCount'
  BY <1>4, SlotKept, SlotClosed DEF get_task, SlotCount, SlotType
<1>5. ASSUME NEW c \in Client, send_outcome(c) \/ disconnect(c) \/ abandon_response(c)
      PROVE  SlotCount'
  BY <1>5, SlotClosed DEF send_outcome, disconnect, abandon_response
<1>6. ASSUME NEW c \in Client, subscribe_task_events(c) PROVE SlotCount'
  BY <1>6, SlotKept DEF subscribe_task_events, SlotCount, SlotType
<1>7. ASSUME NEW c \in Client, next_event(c) PROVE SlotCount'
  <2>1. CASE release_stream_slot(c) /\ Close(c)
    BY <1>7, <2>1, SlotClosed DEF next_event
  <2>2. CASE UNCHANGED <<active_streams, state, at>>
    BY <2>2, <1>s
  <2> QED
    BY <1>7, <2>1, <2>2 DEF next_event
<1>8. CASE StreamNext
  BY <1>1, <1>2, <1>3, <1>4, <1>5, <1>6, <1>7, <1>8, SlotOpened, SlotCrash
     DEF StreamNext, handle_stream
<1> QED
  BY <1>1, <1>8 DEF allVars

(* A user never has more streams open on a process than the limit allows.  *)
THEOREM StreamLimitInvariant == StreamSpec => []StreamLimit
<1>1. SlotCount => StreamLimit
  <2> SUFFICES ASSUME SlotCount, max_sse_streams_per_user > 0,
                      NEW n \in Node, NEW u \in User
               PROVE  Cardinality(Open(n, u)) <= max_sse_streams_per_user
    BY DEF StreamLimit
  <2> QED
    BY OpenFinite, StreamAssumption DEF SlotCount, SlotsCover, SlotType, StreamAssumption
<1> QED
  BY <1>1, SlotInit, SlotNext, PTL DEF StreamSpec

-----------------------------------------------------------------------------
(* The queue below the streams.                                            *)

(* A step of the composition is a step of the queue, or leaves it alone    *)
(* but for the count of faults.                                            *)
LEMMA QueueStep ==
  StreamNext => \/ Next
                \/ UNCHANGED vars
                \/ Fault /\ UNCHANGED <<rowVars, loopVars, runVars, crashes, edits>>
<1> SUFFICES ASSUME StreamNext
             PROVE  \/ Next
                    \/ UNCHANGED vars
                    \/ Fault /\ UNCHANGED <<rowVars, loopVars, runVars, crashes, edits>>
  OBVIOUS
<1>1. CASE Request \/ (\E n \in Node : task_worker(n) \/ watchdog_interval(n) \/ restart(n) \/ crash(n))
           \/ (\E t \in TaskId : grow_stale(t)) \/ (\E n \in Node, t \in TaskId : run_task(n, t))
  BY <1>1 DEF Next, Environment
<1>2. ASSUME NEW c \in Client, get_task(c) \/ abandon_response(c)
      PROVE  UNCHANGED vars \/ (Fault /\ UNCHANGED <<rowVars, loopVars, runVars, crashes, edits>>)
  BY <1>2 DEF get_task, abandon_response
<1>3. ASSUME NEW c \in Client, send_outcome(c) \/ subscribe_task_events(c) \/ next_event(c) \/ disconnect(c)
      PROVE  UNCHANGED vars
  BY <1>3 DEF send_outcome, subscribe_task_events, next_event, disconnect
<1>4. ASSUME NEW c \in Client, NEW n \in Node, NEW t \in TaskId, stream_task(c, n, t) PROVE UNCHANGED vars
  BY <1>4 DEF stream_task
<1>5. ASSUME NEW n \in Node, NEW t \in TaskId, publish_progress(n, t) PROVE UNCHANGED vars
  BY <1>5 DEF publish_progress
<1> QED
  BY <1>1, <1>2, <1>3, <1>4, <1>5 DEF StreamNext, handle_stream, run_and_publish, drop_connections

(* So what has been proved of the queue holds below the streams.           *)
LEMMA QueueKept == HistoryState /\ [StreamNext]_allVars => HistoryState'
<1> SUFFICES ASSUME HistoryState, [StreamNext]_allVars PROVE HistoryState'
  OBVIOUS
<1>1. CASE Next
  <2>1. TypeOK'
    BY <1>1, TypeRequest, TypeWorker, TypeRun, TypeEnvironment DEF Next, HistoryState
  <2>2. HolderInv'
    BY <1>1, HolderRequest, HolderWorker, HolderRun, HolderEnvironment DEF Next, HistoryState, HolderState
  <2>3. EventInv' /\ OrderInv'
    BY <1>1, HistoryRequest, HistoryWorker, HistoryRun, HistoryEnvironment DEF Next
  <2> QED
    BY <2>1, <2>2, <2>3 DEF HistoryState
<1>2. ASSUME UNCHANGED <<rowVars, loopVars, runVars, crashes, edits>>, faults' \in Nat, faults' = 0 => faults = 0
      PROVE  HistoryState'
  <2> USE DEF rowVars, loopVars, runVars
  <2>1. TypeOK'
    BY <1>2 DEF HistoryState, TypeOK
  <2>2. HolderInv'
    BY <1>2, HolderKept DEF HistoryState, HolderState
  <2>3. EventInv' /\ OrderInv'
    BY <1>2, EventKept, OrderKept
  <2> QED
    BY <2>1, <2>2, <2>3 DEF HistoryState
<1>3. CASE UNCHANGED vars
  BY <1>2, <1>3 DEF vars, envVars, HistoryState, TypeOK
<1>4. CASE Fault /\ UNCHANGED <<rowVars, loopVars, runVars, crashes, edits>>
  BY <1>2, <1>4 DEF Fault, HistoryState, TypeOK
<1> QED
  BY <1>1, <1>3, <1>4, QueueStep DEF allVars

LEMMA QueueBelow == StreamSpec => []HistoryState
<1>1. StreamInit => HistoryState
  BY TypeInit, HolderInit, HistoryInit DEF StreamInit, HistoryState
<1> QED
  BY <1>1, QueueKept, PTL DEF StreamSpec

-----------------------------------------------------------------------------
(* Types of the streams.                                                   *)

Message == [kind : Event, number : Nat]

LEMMA Messages ==
  /\ Sentinel \in Message
  /\ \A k \in Nat : Progress(k) \in Message
  /\ \A e \in TerminalEvents : Outcome(e) \in Message
BY DEF Message, Sentinel, Progress, Outcome, Event

LEMMA StreamTypeInit == StreamInit => StreamTypeOK
BY DEF StreamInit, StreamTypeOK

(* What is pushed to some queues keeps them queues.                        *)
LEMMA PushType ==
  ASSUME StreamTypeOK, NEW n, NEW t, NEW events \in Seq(Message), push(n, t, events)
  PROVE  queue' \in [Client -> Seq(Message)]
<1>1. \A c \in Client : queue[c] \in Seq(Message) /\ queue[c] \o events \in Seq(Message)
  BY ConcatProperties DEF StreamTypeOK, Message
<1> QED
  BY <1>1 DEF push

LEMMA StreamTypeStep == HistoryState /\ StreamTypeOK /\ [StreamNext]_allVars => StreamTypeOK'
<1> SUFFICES ASSUME HistoryState, StreamTypeOK, [StreamNext]_allVars PROVE StreamTypeOK'
  OBVIOUS
<1> USE StreamAssumption DEF StreamAssumption
<1>0. CASE UNCHANGED streamVars
  BY <1>0 DEF streamVars, StreamTypeOK
<1>1. ASSUME NEW n \in Node, NEW t \in TaskId, run_and_publish(n, t) PROVE StreamTypeOK'
  <2>1. CASE UNCHANGED streamVars
    BY <1>0, <2>1
  <2>2. ASSUME NEW e \in published'[t], publish_event(n, t, e) PROVE StreamTypeOK'
    <3>1. e \in TerminalEvents
      <4>1. HistoryState'
        BY QueueKept
      <4> QED
        BY <2>2, <4>1 DEF HistoryState, TypeOK
    <3>2. <<Outcome(e), Sentinel>> \in Seq(Message)
      BY <3>1, Messages
    <3>3. queue' \in [Client -> Seq(Message)]
      BY <2>2, <3>2, PushType DEF publish_event
    <3> DEFINE room == IF Len(terminal_events[n]) >= TERMINAL_CACHE_MAXSIZE
                       THEN Tail(terminal_events[n]) ELSE terminal_events[n]
    <3>4. room \in Seq(TaskId)
      <4>1. terminal_events[n] \in Seq(TaskId)
        BY DEF StreamTypeOK
      <4>2. CASE Len(terminal_events[n]) >= TERMINAL_CACHE_MAXSIZE
        <5>1. terminal_events[n] # <<>>
          BY <4>1, <4>2
        <5> QED
          BY <4>1, <4>2, <5>1, HeadTailProperties
      <4> QED
        BY <4>1, <4>2
    <3>5. terminal_events' \in [Node -> Seq(TaskId)]
      <4>1. Append(room, t) \in Seq(TaskId)
        BY <3>4, AppendProperties
      <4>2. terminal_events' = [terminal_events EXCEPT
              ![n] = IF \E i \in DOMAIN room : room[i] = t THEN room ELSE Append(room, t)]
        BY <2>2 DEF publish_event
      <4> HIDE DEF room
      <4> QED
        BY <3>4, <4>1, <4>2 DEF StreamTypeOK
    <3>6. channels' \in [Node -> [TaskId -> SUBSET Client]]
      BY <2>2 DEF publish_event, StreamTypeOK
    <3> QED
      BY <2>2, <3>3, <3>5, <3>6 DEF publish_event, StreamTypeOK, Message
  <2> QED
    BY <1>1, <2>1, <2>2 DEF run_and_publish
<1>2. ASSUME NEW n \in Node, NEW t \in TaskId, publish_progress(n, t) PROVE StreamTypeOK'
  <2>1. sent[t] + 1 \in Nat /\ sent' \in [TaskId -> Nat]
    BY <1>2 DEF publish_progress, StreamTypeOK
  <2>2. <<Progress(sent[t] + 1)>> \in Seq(Message)
    BY <2>1, Messages
  <2>3. queue' \in [Client -> Seq(Message)]
    BY <1>2, <2>2, PushType DEF publish_progress
  <2> QED
    BY <1>2, <2>1, <2>3 DEF publish_progress, StreamTypeOK, Message
<1>c. ASSUME NEW c \in Client, Close(c),
             release_stream_slot(c) \/ UNCHANGED active_streams
      PROVE  StreamTypeOK'
  <2>1. active_streams' \in [Node -> [User -> Nat]]
    <3>1. CASE UNCHANGED active_streams
      BY <3>1 DEF StreamTypeOK
    <3>2. CASE release_stream_slot(c)
      <4>1. at[c] \in Node /\ UserOf[c] \in User /\ active_streams[at[c]][UserOf[c]] \in Nat
        BY DEF StreamTypeOK
      <4>2. (IF active_streams[at[c]][UserOf[c]] <= 1 THEN 0
             ELSE active_streams[at[c]][UserOf[c]] - 1) \in Nat
        BY <4>1
      <4> QED
        BY <3>2, <4>1, <4>2 DEF release_stream_slot, StreamTypeOK
    <3> QED
      BY <1>c, <3>1, <3>2
  <2>2. state' \in [Client -> {"idle", "get_task", "response", "waiting"}]
    BY <1>c DEF Close, StreamTypeOK
  <2>4. want' \in [Client -> TaskId \cup {NoTask}]
    BY <1>c DEF Close, StreamTypeOK
  <2>5. seen' \in [Client -> Statuses \cup {"unread"}]
    BY <1>c DEF Close, StreamTypeOK
  <2>6. << >> \in Seq(Message)
    BY EmptySeq
  <2>7. queue' \in [Client -> Seq(Message)]
    BY <1>c, <2>6 DEF Close, StreamTypeOK, Message
  <2>8. received' \in [Client -> Seq(Message)]
    BY <1>c, <2>6 DEF Close, StreamTypeOK, Message
  <2>3. channels' \in [Node -> [TaskId -> SUBSET Client]]
    BY <1>c DEF Close, StreamTypeOK
  <2> QED
    BY <1>c, <2>1, <2>2, <2>3, <2>4, <2>5, <2>7, <2>8 DEF Close, StreamTypeOK, Message
<1>3. ASSUME NEW c \in Client, NEW n \in Node, NEW t \in TaskId, stream_task(c, n, t) PROVE StreamTypeOK'
  <2>1. active_streams' \in [Node -> [User -> Nat]]
    <3>1. CASE max_sse_streams_per_user = 0
      BY <1>3, <3>1 DEF stream_task, acquire_stream_slot, StreamTypeOK
    <3>2. CASE max_sse_streams_per_user # 0
      <4>1. UserOf[c] \in User
        OBVIOUS
      <4>2. active_streams[n] \in [User -> Nat]
        BY DEF StreamTypeOK
      <4>3. [active_streams[n] EXCEPT ![UserOf[c]] = @ + 1] \in [User -> Nat]
        BY <4>1, <4>2
      <4>4. active_streams' = [active_streams EXCEPT
                                 ![n] = [active_streams[n] EXCEPT ![UserOf[c]] = @ + 1]]
        BY <1>3, <3>2 DEF stream_task, acquire_stream_slot
      <4> QED
        BY <4>3, <4>4 DEF StreamTypeOK
    <3> QED
      BY <3>1, <3>2
  <2> QED
    BY <1>3, <2>1 DEF stream_task, StreamTypeOK
<1>4. ASSUME NEW c \in Client, get_task(c) PROVE StreamTypeOK'
  <2>1. CASE Exists(want[c]) /\ state' = [state EXCEPT ![c] = "response"]
             /\ seen' = [seen EXCEPT ![c] = status[want[c]]]
             /\ UNCHANGED <<vars, channels, terminal_events, active_streams, at, want, queue, received, sent>>
    BY <2>1 DEF StreamTypeOK, Exists
  <2> QED
    BY <1>4, <1>c, <2>1 DEF get_task
<1>5. ASSUME NEW c \in Client, send_outcome(c) \/ abandon_response(c) \/ disconnect(c) PROVE StreamTypeOK'
  BY <1>5, <1>c DEF send_outcome, abandon_response, disconnect
<1>6. ASSUME NEW c \in Client, subscribe_task_events(c) PROVE StreamTypeOK'
  <2>1. channels' \in [Node -> [TaskId -> SUBSET Client]]
    <3>1. channels[at[c]] \in [TaskId -> SUBSET Client]
      BY DEF StreamTypeOK
    <3>2. [channels[at[c]] EXCEPT ![want[c]] = @ \cup {c}] \in [TaskId -> SUBSET Client]
      BY <3>1
    <3>3. channels' = [channels EXCEPT
                         ![at[c]] = [channels[at[c]] EXCEPT ![want[c]] = @ \cup {c}]]
      BY <1>6 DEF subscribe_task_events
    <3> QED
      BY <3>2, <3>3 DEF StreamTypeOK
  <2> QED
    BY <1>6, <2>1 DEF subscribe_task_events, StreamTypeOK
<1>7. ASSUME NEW c \in Client, next_event(c) PROVE StreamTypeOK'
  <2>1. CASE /\ queue' = [queue EXCEPT ![c] = Tail(@)]
             /\ received' = [received EXCEPT ![c] = Append(@, Head(queue[c]))]
             /\ UNCHANGED <<channels, terminal_events, active_streams, state, at, want, seen, sent>>
    <3>1. queue[c] \in Seq(Message) /\ queue[c] # <<>> /\ received[c] \in Seq(Message)
      BY <1>7 DEF next_event, StreamTypeOK, Message
    <3>2. Tail(queue[c]) \in Seq(Message) /\ Append(received[c], Head(queue[c])) \in Seq(Message)
      BY <3>1, HeadTailProperties, AppendProperties
    <3> QED
      BY <2>1, <3>2 DEF StreamTypeOK, Message
  <2> QED
    BY <1>7, <1>c, <2>1 DEF next_event
<1>8. ASSUME NEW n \in Node, drop_connections(n) PROVE StreamTypeOK'
  <2>1. channels' \in [Node -> [TaskId -> SUBSET Client]]
    BY <1>8 DEF drop_connections, StreamTypeOK
  <2>2. << >> \in Seq(TaskId) /\ << >> \in Seq(Message)
    BY EmptySeq
  <2>3. terminal_events' \in [Node -> Seq(TaskId)]
    BY <1>8, <2>2 DEF drop_connections, StreamTypeOK
  <2>4. active_streams' \in [Node -> [User -> Nat]]
    BY <1>8 DEF drop_connections, StreamTypeOK
  <2>5. state' \in [Client -> {"idle", "get_task", "response", "waiting"}]
    BY <1>8 DEF drop_connections, StreamTypeOK
  <2>6. want' \in [Client -> TaskId \cup {NoTask}]
    BY <1>8 DEF drop_connections, StreamTypeOK
  <2>7. seen' \in [Client -> Statuses \cup {"unread"}]
    BY <1>8 DEF drop_connections, StreamTypeOK
  <2>8. queue' \in [Client -> Seq(Message)]
    BY <1>8, <2>2 DEF drop_connections, StreamTypeOK, Message
  <2>9. received' \in [Client -> Seq(Message)]
    BY <1>8, <2>2 DEF drop_connections, StreamTypeOK, Message
  <2> QED
    BY <1>8, <2>1, <2>3, <2>4, <2>5, <2>6, <2>7, <2>8, <2>9
       DEF drop_connections, StreamTypeOK, Message
<1> QED
  BY <1>0, <1>1, <1>2, <1>3, <1>4, <1>5, <1>6, <1>7, <1>8
     DEF StreamNext, handle_stream, allVars

(* Every variable of the streams keeps its type.                           *)
THEOREM StreamTypeCorrect == StreamSpec => []StreamTypeOK
BY StreamTypeInit, StreamTypeStep, QueueBelow, PTL DEF StreamSpec
-----------------------------------------------------------------------------
(* What a stream is told.                                                  *)

Events(c) == received[c] \o queue[c]
Published == {t \in TaskId : published[t] # {}}

(* The task of a stream was claimed by the process that serves it.         *)
RanHere(c) ==
  /\ worker_id[want[c]] = NodeId(at[c])
  /\ status[want[c]] \notin {"absent", "queued"}

(* The channel of a task lists the streams that wait for its outcome, and  *)
(* only those of the process that ran it have been sent anything.          *)
Connected(c) ==
  /\ state[c] # "idle" => want[c] \in TaskId /\ loop[at[c]] # "down"
  /\ state[c] # "waiting" => queue[c] = <<>> /\ received[c] = <<>>
  /\ \A n \in Node, t \in TaskId :
        c \in channels[n][t] <=> state[c] = "waiting" /\ at[c] = n /\ want[c] = t /\ ~Ended(c)
  /\ state[c] = "waiting" /\ Events(c) # <<>> => RanHere(c)

(* NoMissedOutcome and InOrder of one stream.  Before it waits, the cache  *)
(* is to hold what was published after its row was read.                   *)
Told(c) ==
  /\ state[c] # "idle"
  /\ worker_id[want[c]] = NodeId(at[c])
  /\ published[want[c]] \cap {"task_complete", "task_error"} # {}
  => /\ state[c] = "waiting" => Ended(c)
     /\ state[c] = "response" /\ seen[c] \notin Terminal => Cached(at[c], want[c])

Sequence(ev, ended, t) ==
  LET progress == IF ended THEN Len(ev) - 2 ELSE Len(ev)
  IN  /\ \A i \in 1..progress : ev[i] = Progress(sent[t] - progress + i)
      /\ ended => ev[progress + 1].kind \in published[t]

Ordered(c) == state[c] = "waiting" => Sequence(Events(c), Ended(c), want[c])

NoEviction == Cardinality(Published) <= TERMINAL_CACHE_MAXSIZE

ClientInv(c) == Connected(c) /\ Ordered(c) /\ (NoEviction => Told(c))

(* As long as nothing had to be evicted, the cache of a process holds      *)
(* tasks whose outcome is published, each once.                            *)
CacheInv ==
  NoEviction =>
     \A n \in Node : \A i \in DOMAIN terminal_events[n] :
        /\ published[terminal_events[n][i]] # {}
        /\ \A j \in DOMAIN terminal_events[n] :
              terminal_events[n][i] = terminal_events[n][j] => i = j

StreamInv == (\A c \in Client : ClientInv(c)) /\ CacheInv
StreamState == HistoryState /\ StreamTypeOK /\ StreamInv

LEMMA StreamInvInit == StreamInit => StreamInv
<1> SUFFICES ASSUME StreamInit PROVE StreamInv
  OBVIOUS
<1>1. ASSUME NEW c \in Client PROVE ClientInv(c)
  BY DEF StreamInit, ClientInv, Connected, Ordered, Told
<1>2. CacheInv
  BY DEF StreamInit, CacheInv
<1> QED
  BY <1>1, <1>2 DEF StreamInv

(* What every step of the queue keeps: a claim takes a queued row only,    *)
(* and what is published stays published.                                  *)
QueueGoesOn ==
  /\ \A t \in TaskId : status[t] \notin {"absent", "queued"} =>
        status'[t] \notin {"absent", "queued"} /\ worker_id'[t] = worker_id[t]
  /\ \A t \in TaskId : published[t] \subseteq published'[t]

SameStream(c) ==
  /\ state'[c] = state[c] /\ at'[c] = at[c] /\ want'[c] = want[c] /\ seen'[c] = seen[c]
  /\ queue'[c] = queue[c] /\ received'[c] = received[c]
  /\ \A n \in Node, t \in TaskId : c \in channels'[n][t] <=> c \in channels[n][t]

(* What had not to be evicted after a step had not before it.              *)
LEMMA EvictionKept ==
  ASSUME StreamState, QueueGoesOn PROVE NoEviction' => NoEviction
<1>1. Published \subseteq Published' /\ IsFiniteSet(Published')
  BY FS_Subset, QueueAssumption DEF QueueAssumption, QueueGoesOn, Published
<1>2. IsFiniteSet(Published) /\ Cardinality(Published) <= Cardinality(Published')
  BY <1>1, FS_Subset
<1>3. Cardinality(Published) \in Nat /\ Cardinality(Published') \in Nat
  BY <1>1, <1>2, FS_CardinalityType
<1>4. TERMINAL_CACHE_MAXSIZE \in Nat
  BY StreamAssumption DEF StreamAssumption
<1>5. Cardinality(Published)' = Cardinality(Published')
  OBVIOUS
<1> QED
  BY <1>2, <1>3, <1>4, <1>5 DEF NoEviction

(* A stream that a step does not touch keeps its invariant, unless the     *)
(* step publishes for its task on its process.                             *)
LEMMA ClientKept ==
  ASSUME StreamState, NEW c \in Client, SameStream(c), QueueGoesOn,
         state[c] # "idle" => /\ loop'[at[c]] # "down"
                              /\ boots'[at[c]] = boots[at[c]]
                              /\ \/ published'[want[c]] = published[want[c]]
                                 \/ worker_id'[want[c]] # NodeId(at[c]),
         state[c] = "waiting" /\ Events(c) # <<>> => sent'[want[c]] = sent[want[c]],
         NoEviction' /\ state[c] = "response" /\ Cached(at[c], want[c]) => Cached(at[c], want[c])'
  PROVE  ClientInv(c)'
<1> USE DEF SameStream
<1>1. ClientInv(c) /\ TypeOK /\ EventInv
  BY DEF StreamState, StreamInv, HistoryState
<1>2. Events(c)' = Events(c) /\ Ended(c)' = Ended(c)
  BY DEF Events, Ended
<1>3. state[c] # "idle" => want[c] \in TaskId /\ NodeId(at[c])' = NodeId(at[c])
  BY <1>1 DEF ClientInv, Connected, NodeId
<1>4. Connected(c)'
  <2>1. state[c] = "waiting" /\ Events(c) # <<>> => RanHere(c)'
    BY <1>1, <1>3 DEF ClientInv, Connected, RanHere, QueueGoesOn
  <2> QED
    BY <1>1, <1>2, <2>1 DEF ClientInv, Connected
<1>5. Ordered(c)'
  <2> SUFFICES ASSUME state[c] = "waiting"
               PROVE  Sequence(Events(c), Ended(c), want[c])'
    BY DEF Ordered
  <2>1. Sequence(Events(c), Ended(c), want[c])
    BY <1>1 DEF ClientInv, Ordered
  <2>2. want[c] \in TaskId /\ published[want[c]] \subseteq published'[want[c]]
    BY <1>3 DEF QueueGoesOn
  <2>3. CASE Events(c) # <<>>
    BY <1>2, <2>1, <2>2, <2>3 DEF Sequence
  <2>4. CASE Events(c) = <<>>
    <3>1. ~Ended(c) /\ Len(Events(c)) = 0
      <4>1. queue[c] \in Seq(Message) /\ received[c] \in Seq(Message)
        BY DEF StreamState, StreamTypeOK, Message
      <4>2. queue[c] = <<>>
        BY <2>4, <4>1, ConcatSimplifications DEF Events
      <4> QED
        BY <2>4, <4>2, EmptySeq DEF Ended
    <3> QED
      BY <1>2, <3>1 DEF Sequence
  <2> QED
    BY <2>3, <2>4
<1>6. ASSUME NoEviction' PROVE Told(c)'
  <2>1. NoEviction
    BY <1>6, EvictionKept
  <2> SUFFICES ASSUME state[c] # "idle",
                      worker_id'[want[c]] = NodeId(at[c]),
                      published'[want[c]] \cap {"task_complete", "task_error"} # {}
               PROVE  /\ state[c] = "waiting" => Ended(c)
                      /\ state[c] = "response" /\ seen[c] \notin Terminal => Cached(at[c], want[c])'
    BY <1>2, <1>3 DEF Told
  <2>2. published'[want[c]] = published[want[c]]
    OBVIOUS
  <2>3. status[want[c]] \notin {"absent", "queued"}
    BY <1>1, <1>3, <2>2 DEF EventInv
  <2>4. worker_id[want[c]] = NodeId(at[c])
    BY <1>3, <2>3 DEF QueueGoesOn
  <2>5. Told(c)
    BY <1>1, <2>1 DEF ClientInv
  <2> QED
    BY <1>6, <2>2, <2>4, <2>5 DEF Told
<1> QED
  BY <1>4, <1>5, <1>6 DEF ClientInv

LEMMA RowsGoOn == TypeOK /\ Next => QueueGoesOn
<1> SUFFICES ASSUME TypeOK, Next PROVE QueueGoesOn
  OBVIOUS
<1> USE DEF rowVars, loopVars, runVars
<1>k. ASSUME UNCHANGED <<worker_id, published>>,
             \A t \in TaskId : status[t] \notin {"absent", "queued"}
                               => status'[t] \notin {"absent", "queued"}
      PROVE  QueueGoesOn
  BY <1>k DEF QueueGoesOn
<1>s. \A S : \A s \in {"failed", "cancelled", "deleted", "complete", "paused"} :
         SetStatus(S, s) => \A t \in TaskId : status[t] \notin {"absent", "queued"}
                                              => status'[t] \notin {"absent", "queued"}
  BY NotQueued
<1>1. CASE Request
  <2>1. ASSUME NEW t \in TaskId, NEW dep, create_task(t, dep) PROVE QueueGoesOn
    BY <1>k, <2>1 DEF create_task, TypeOK
  <2>2. ASSUME NEW S, cancel_tasks(S) PROVE QueueGoesOn
    BY <1>k, <1>s, <2>2 DEF cancel_tasks
  <2>3. ASSUME NEW S, delete_rows(S) PROVE QueueGoesOn
    BY <1>k, <1>s, <2>3 DEF delete_rows
  <2>4. ASSUME NEW t, update_tags(t) PROVE QueueGoesOn
    BY <1>k, <2>4 DEF update_tags
  <2> QED
    BY <1>1, <2>1, <2>2, <2>3, <2>4 DEF Request, retry_task, bulk_delete_tasks, run_db_maintenance
<1>2. ASSUME NEW n \in Node, task_worker(n) PROVE QueueGoesOn
  <2>1. CASE reap_stale_running_tasks(n)
    BY <1>k, <1>s, <2>1 DEF reap_stale_running_tasks, NoWrite
  <2>2. CASE check_slots(n) \/ launch(n) \/ lose_claim(n) \/ skip_watchdog(n)
    BY <1>k, <2>2 DEF check_slots, launch, lose_claim, skip_watchdog
  <2>3. CASE claim_next_queued_task(n)
    <3>1. ASSUME NEW t \in TaskId, First(t), SetStatus({t}, "running"),
                 worker_id' = [worker_id EXCEPT ![t] = NodeId(n)], UNCHANGED published
          PROVE  QueueGoesOn
      <4>1. status[t] = "queued"
        BY <3>1 DEF First, Claimable
      <4> QED
        BY <3>1, <4>1 DEF SetStatus, QueueGoesOn, TypeOK
    <3> QED
      BY <1>k, <2>3, <3>1 DEF claim_next_queued_task
  <2>4. CASE reap_stuck_tasks(n)
    BY <1>k, <1>s, <2>4 DEF reap_stuck_tasks, NoWrite
  <2> QED
    BY <1>2, <2>1, <2>2, <2>3, <2>4 DEF task_worker
<1>3. ASSUME NEW n \in Node, NEW t \in TaskId, run_task(n, t) PROVE QueueGoesOn
  <2>m. ASSUME NEW from, NEW s \in {"failed", "complete", "paused", status[t]}, NEW ok, NEW raised,
               Mark(n, t, from, s, ok, raised)
        PROVE  QueueGoesOn
    <3>1. ASSUME SetStatus({t}, s)
          PROVE  \A u \in TaskId : status[u] \notin {"absent", "queued"}
                                   => status'[u] \notin {"absent", "queued"}
      BY <3>1 DEF SetStatus
    <3> QED
      BY <1>k, <2>m, <3>1 DEF Mark, NoWrite
  <2>1. CASE mark_task_running(n, t) \/ mark_task_complete(n, t) \/ mark_task_paused(n, t)
             \/ mark_task_failed(n, t)
    BY <2>1, <2>m DEF mark_task_running, mark_task_complete, mark_task_paused, mark_task_failed
  <2>2. CASE start(n, t) \/ stream_agent(n, t) \/ finish(n, t)
    BY <1>k, <2>2 DEF start, stream_agent, finish
  <2>3. CASE publish_terminal(n, t)
    BY <2>3 DEF publish_terminal, Publish, QueueGoesOn, TypeOK
  <2>4. CASE fail_dependent_tasks(n, t)
    BY <1>k, <1>s, <2>4 DEF fail_dependent_tasks, NoWrite
  <2> QED
    BY <1>3, <2>1, <2>2, <2>3, <2>4 DEF run_task
<1>4. CASE Environment
  BY <1>k, <1>4 DEF Environment, grow_stale, watchdog_interval, crash, restart
<1> QED
  BY <1>1, <1>2, <1>3, <1>4 DEF Next

(* A process that is up stays up, and in its life, but for a crash.        *)
LoopsGoOn == \A n \in Node : loop[n] # "down" => loop'[n] # "down" /\ boots'[n] = boots[n]

LEMMA LoopsKept ==
  ASSUME TypeOK,
         \/ Request
         \/ \E n \in Node : task_worker(n) \/ watchdog_interval(n) \/ restart(n)
         \/ \E n \in Node, t \in TaskId : run_task(n, t)
         \/ \E t \in TaskId : grow_stale(t)
  PROVE  LoopsGoOn
<1> USE DEF loopVars, TypeOK
<1>1. CASE Request
  BY <1>1 DEF Request, create_task, retry_task, cancel_tasks, bulk_delete_tasks, run_db_maintenance,
              delete_rows, update_tags, LoopsGoOn
<1>2. ASSUME NEW n \in Node, task_worker(n) PROVE LoopsGoOn
  <2>1. CASE check_slots(n)
    BY <2>1 DEF check_slots, Goto, LoopsGoOn
  <2>2. CASE reap_stale_running_tasks(n) \/ launch(n) \/ lose_claim(n) \/ skip_watchdog(n)
             \/ reap_stuck_tasks(n)
    BY <2>2 DEF Goto, LoopsGoOn, reap_stale_running_tasks, launch, lose_claim, skip_watchdog, reap_stuck_tasks
  <2>3. CASE claim_next_queued_task(n)
    BY <2>3 DEF claim_next_queued_task, Goto, LoopsGoOn
  <2> QED
    BY <1>2, <2>1, <2>2, <2>3 DEF task_worker
<1>3. ASSUME NEW n \in Node, watchdog_interval(n) \/ restart(n) PROVE LoopsGoOn
  BY <1>3 DEF watchdog_interval, restart, Goto, LoopsGoOn
<1>4. ASSUME NEW n \in Node, NEW t \in TaskId, run_task(n, t) PROVE LoopsGoOn
  BY <1>4 DEF run_task, start, mark_task_running, stream_agent, mark_task_complete, mark_task_paused,
              mark_task_failed, publish_terminal, fail_dependent_tasks, finish, Mark, Publish, LoopsGoOn
<1>5. ASSUME NEW t \in TaskId, grow_stale(t) PROVE LoopsGoOn
  BY <1>5 DEF grow_stale, LoopsGoOn
<1> QED
  BY <1>1, <1>2, <1>3, <1>4, <1>5

(* Steps of the queue that publish nothing.                                *)
LEMMA QuietStep ==
  ASSUME StreamState, UNCHANGED <<streamVars, published>>, QueueGoesOn, LoopsGoOn
  PROVE  StreamInv'
<1> USE DEF streamVars
<1>1. ASSUME NEW c \in Client PROVE ClientInv(c)'
  <2>1. at[c] \in Node /\ (state[c] # "idle" => loop[at[c]] # "down")
    BY DEF StreamState, StreamTypeOK, StreamInv, ClientInv, Connected
  <2>2. SameStream(c) /\ Cached(at[c], want[c])' = Cached(at[c], want[c])
    BY DEF SameStream, Cached
  <2>3. state[c] # "idle" => /\ loop'[at[c]] # "down"
                             /\ boots'[at[c]] = boots[at[c]]
                             /\ published'[want[c]] = published[want[c]]
    BY <2>1 DEF LoopsGoOn
  <2> QED
    BY <2>2, <2>3, ClientKept
<1>2. CacheInv'
  BY DEF StreamState, StreamInv, CacheInv, NoEviction, Published
<1> QED
  BY <1>1, <1>2 DEF StreamInv

(* Steps of one stream, which leave the queue and the cache alone.         *)
LEMMA OneStream ==
  ASSUME StreamState, NEW c \in Client, ClientInv(c)',
         UNCHANGED <<rowVars, loopVars, runVars, terminal_events, sent>>,
         \A d \in Client \ {c} : SameStream(d)
  PROVE  StreamInv'
<1> USE DEF rowVars, loopVars, runVars
<1>1. ASSUME NEW d \in Client \ {c} PROVE ClientInv(d)'
  <2>1. QueueGoesOn
    BY DEF QueueGoesOn
  <2>2. state[d] # "idle" => loop[at[d]] # "down"
    BY DEF StreamState, StreamInv, ClientInv, Connected
  <2>3. SameStream(d) /\ Cached(at[d], want[d])' = Cached(at[d], want[d])
    BY DEF SameStream, Cached
  <2> QED
    BY <2>1, <2>2, <2>3, ClientKept
<1>2. CacheInv'
  BY DEF StreamState, StreamInv, CacheInv, NoEviction, Published
<1> QED
  BY <1>1, <1>2 DEF StreamInv

LEMMA StreamCloses ==
  ASSUME StreamState, NEW c \in Client, Close(c), UNCHANGED <<rowVars, loopVars, runVars>>
  PROVE  StreamInv'
<1>0. StreamTypeOK /\ ClientInv(c)
  BY DEF StreamState, StreamInv
<1>1. ClientInv(c)'
  <2>1. state'[c] = "idle" /\ queue'[c] = <<>> /\ received'[c] = <<>>
    BY <1>0 DEF Close, StreamTypeOK
  <2>2. ASSUME NEW n \in Node, NEW t \in TaskId PROVE c \notin channels'[n][t]
    BY <1>0 DEF Close, StreamTypeOK, ClientInv, Connected
  <2> QED
    BY <2>1, <2>2 DEF ClientInv, Connected, Ordered, Told
<1>2. ASSUME NEW d \in Client \ {c} PROVE SameStream(d)
  BY <1>0 DEF Close, StreamTypeOK, SameStream
<1> QED
  BY <1>1, <1>2, OneStream DEF Close

LEMMA StreamOpens ==
  ASSUME StreamState, NEW c \in Client, NEW n \in Node, NEW t \in TaskId, stream_task(c, n, t)
  PROVE  StreamInv'
<1>0. StreamTypeOK /\ ClientInv(c)
  BY DEF StreamState, StreamInv
<1>1. ClientInv(c)'
  <2>1. /\ state[c] = "idle" /\ state'[c] = "get_task" /\ at'[c] = n /\ want'[c] = t
        /\ loop'[n] # "down" /\ UNCHANGED <<queue, received, channels>>
    BY <1>0 DEF stream_task, StreamTypeOK, vars, loopVars
  <2> QED
    BY <1>0, <2>1 DEF ClientInv, Connected, Ordered, Told
<1>2. ASSUME NEW d \in Client \ {c} PROVE SameStream(d)
  BY <1>0 DEF stream_task, StreamTypeOK, SameStream
<1> QED
  BY <1>1, <1>2, OneStream DEF stream_task, vars

(* The row is read: if its outcome is published, it is final in the row.   *)
LEMMA StreamReads ==
  ASSUME StreamState, NEW c \in Client, get_task(c)
  PROVE  StreamInv'
<1> USE DEF rowVars, loopVars, runVars
<1>0. StreamTypeOK /\ ClientInv(c)
  BY DEF StreamState, StreamInv
<1>1. CASE Close(c)
  BY <1>1, StreamCloses DEF get_task, vars
<1>2. CASE /\ Exists(want[c])
           /\ state' = [state EXCEPT ![c] = "response"]
           /\ seen' = [seen EXCEPT ![c] = status[want[c]]]
           /\ UNCHANGED <<vars, channels, terminal_events, active_streams, at, want, queue,
                          received, sent>>
  <2>1. /\ state[c] = "get_task" /\ state'[c] = "response" /\ seen'[c] = status[want[c]]
        /\ want[c] \in TaskId
    BY <1>0, <1>2 DEF get_task, StreamTypeOK, ClientInv, Connected
  <2>2. Connected(c)' /\ Ordered(c)'
    BY <1>0, <1>2, <2>1 DEF ClientInv, Connected, Ordered, vars
  <2>3. Told(c)'
    <3>1. SUFFICES ASSUME published[want[c]] \cap {"task_complete", "task_error"} # {}
                   PROVE  seen'[c] \in Terminal
      BY <1>2, <2>1 DEF Told, vars
    <3>2. status[want[c]] \in {"complete", "failed", "deleted"}
      BY <2>1, <3>1 DEF StreamState, HistoryState, EventInv, EventAgreesWithRow
    <3> QED
      BY <1>2, <2>1, <3>2 DEF Exists, Statuses, Terminal
  <2>4. ASSUME NEW d \in Client \ {c} PROVE SameStream(d)
    BY <1>0, <1>2 DEF StreamTypeOK, SameStream
  <2> QED
    BY <1>2, <2>2, <2>3, <2>4, OneStream DEF ClientInv, vars
<1> QED
  BY <1>1, <1>2 DEF get_task

(* A stream starts to wait only if nothing has been published that it      *)
(* should have been told.                                                  *)
LEMMA StreamSubscribes ==
  ASSUME StreamState, NEW c \in Client, subscribe_task_events(c)
  PROVE  StreamInv'
<1>0. StreamTypeOK /\ ClientInv(c)
  BY DEF StreamState, StreamInv
<1>1. /\ state[c] = "response" /\ state'[c] = "waiting" /\ want[c] \in TaskId /\ at[c] \in Node
      /\ queue[c] = <<>> /\ received[c] = <<>>
      /\ UNCHANGED <<vars, terminal_events, at, want, seen, queue, received, sent>>
      /\ \A n \in Node, t \in TaskId, d \in Client :
            d \in channels'[n][t] <=> d \in channels[n][t] \/ (d = c /\ n = at[c] /\ t = want[c])
  <2>1. /\ state[c] = "response" /\ state'[c] = "waiting" /\ at[c] \in Node
        /\ UNCHANGED <<vars, terminal_events, at, want, seen, queue, received, sent>>
    BY <1>0 DEF subscribe_task_events, StreamTypeOK
  <2>2. want[c] \in TaskId /\ queue[c] = <<>> /\ received[c] = <<>>
    BY <1>0, <2>1 DEF ClientInv, Connected
  <2>3. ASSUME NEW n \in Node, NEW t \in TaskId, NEW d \in Client
        PROVE  d \in channels'[n][t] <=> d \in channels[n][t] \/ (d = c /\ n = at[c] /\ t = want[c])
    BY <1>0, <2>1, <2>2 DEF subscribe_task_events, StreamTypeOK
  <2> QED
    BY <2>1, <2>2, <2>3
<1>2. ~Ended(c) /\ ~Ended(c)' /\ Events(c)' = <<>> /\ Len(Events(c)') = 0
  <2>1. <<>> \in Seq(Message) /\ Len(<<>>) = 0
    BY EmptySeq
  <2>2. Events(c)' = <<>>
    BY <1>1, <2>1, ConcatEmptySeq DEF Events
  <2> QED
    BY <1>1, <2>1, <2>2 DEF Ended
<1>3. ClientInv(c)'
  <2>1. Connected(c)'
    BY <1>0, <1>1, <1>2 DEF ClientInv, Connected, vars, loopVars
  <2>2. Ordered(c)'
    BY <1>2 DEF Ordered, Sequence
  <2>3. ASSUME NoEviction' PROVE Told(c)'
    <3>1. NoEviction
      BY <1>1, <2>3 DEF NoEviction, Published, vars, runVars
    <3>2. Told(c)
      BY <1>0, <3>1 DEF ClientInv
    <3>3. seen[c] \notin Terminal /\ ~Cached(at[c], want[c])
      BY DEF subscribe_task_events
    <3>4. ~ /\ worker_id[want[c]] = NodeId(at[c])
            /\ published[want[c]] \cap {"task_complete", "task_error"} # {}
      BY <1>1, <3>2, <3>3 DEF Told
    <3> QED
      BY <1>1, <3>4 DEF Told, NodeId, vars, rowVars, runVars, loopVars
  <2> QED
    BY <2>1, <2>2, <2>3 DEF ClientInv
<1>4. ASSUME NEW d \in Client \ {c} PROVE SameStream(d)
  BY <1>0, <1>1 DEF subscribe_task_events, StreamTypeOK, SameStream
<1> QED
  BY <1>1, <1>3, <1>4, OneStream DEF vars

(* An event that moves from the queue to the client stays where it is in   *)
(* the sequence of both.                                                   *)
LEMMA Moved ==
  ASSUME NEW r \in Seq(Message), NEW q \in Seq(Message), q # <<>>
  PROVE  /\ Append(r, Head(q)) \o Tail(q) = r \o q
         /\ Head(q) # Sentinel => ((\E i \in DOMAIN Tail(q) : Tail(q)[i] = Sentinel)
                                     <=> \E i \in DOMAIN q : q[i] = Sentinel)
<1> DEFINE a == Append(r, Head(q))
<1>1. /\ Head(q) = q[1] /\ Head(q) \in Message /\ Tail(q) \in Seq(Message)
      /\ Len(Tail(q)) = Len(q) - 1 /\ \A i \in 1..Len(Tail(q)) : Tail(q)[i] = q[i + 1]
      /\ DOMAIN q = 1..Len(q) /\ DOMAIN Tail(q) = 1..Len(Tail(q)) /\ Len(q) \in Nat \ {0}
  BY HeadTailProperties, LenProperties, EmptySeq
<1>2. /\ a \in Seq(Message) /\ Len(a) = Len(r) + 1 /\ a[Len(r) + 1] = q[1]
      /\ \A i \in 1..Len(r) : a[i] = r[i]
      /\ Len(r) \in Nat
  BY <1>1, AppendProperties, LenProperties
<1>3. a \o Tail(q) = r \o q
  <2> HIDE DEF a
  <2>0. Len(a) + Len(Tail(q)) = Len(r) + Len(q)
    BY <1>1, <1>2
  <2>1. /\ a \o Tail(q) \in Seq(Message) /\ Len(a \o Tail(q)) = Len(a) + Len(Tail(q))
        /\ r \o q \in Seq(Message) /\ Len(r \o q) = Len(r) + Len(q)
    BY <1>1, <1>2, ConcatProperties
  <2>2. ASSUME NEW i \in 1..(Len(r) + Len(q)) PROVE (a \o Tail(q))[i] = (r \o q)[i]
    <3>1. (r \o q)[i] = IF i <= Len(r) THEN r[i] ELSE q[i - Len(r)]
      BY <1>1, <1>2, ConcatProperties
    <3>2. (a \o Tail(q))[i] = IF i <= Len(a) THEN a[i] ELSE Tail(q)[i - Len(a)]
      <4>1. \A j \in 1..(Len(a) + Len(Tail(q))) :
               (a \o Tail(q))[j] = IF j <= Len(a) THEN a[j] ELSE Tail(q)[j - Len(a)]
        BY <1>1, <1>2, ConcatProperties
      <4> QED
        BY <2>0, <4>1
    <3>3. i > Len(r) + 1 => Tail(q)[i - (Len(r) + 1)] = q[i - Len(r)]
      <4> SUFFICES ASSUME i > Len(r) + 1 PROVE Tail(q)[i - (Len(r) + 1)] = q[i - Len(r)]
        OBVIOUS
      <4>1. i - (Len(r) + 1) \in 1..Len(Tail(q)) /\ (i - (Len(r) + 1)) + 1 = i - Len(r)
        BY <1>1, <1>2
      <4> QED
        BY <1>1, <4>1
    <3> QED
      BY <1>2, <3>1, <3>2, <3>3
  <2> QED
    BY <2>0, <2>1, <2>2, SeqEqual
<1>4. ASSUME Head(q) # Sentinel
      PROVE  (\E i \in DOMAIN Tail(q) : Tail(q)[i] = Sentinel) <=> \E i \in DOMAIN q : q[i] = Sentinel
  <2>1. ASSUME NEW i \in DOMAIN Tail(q), Tail(q)[i] = Sentinel
        PROVE  i + 1 \in DOMAIN q /\ q[i + 1] = Sentinel
    BY <1>1, <2>1
  <2>2. ASSUME NEW i \in DOMAIN q, q[i] = Sentinel
        PROVE  i - 1 \in DOMAIN Tail(q) /\ Tail(q)[i - 1] = Sentinel
    <3>1. i # 1
      BY <1>1, <1>4, <2>2
    <3>2. i - 1 \in 1..Len(Tail(q)) /\ (i - 1) + 1 = i
      BY <1>1, <3>1
    <3> QED
      BY <1>1, <2>2, <3>2
  <2> QED
    BY <2>1, <2>2
<1> QED
  BY <1>3, <1>4

LEMMA StreamMoves ==
  ASSUME StreamState, NEW c \in Client, next_event(c)
  PROVE  StreamInv'
<1>0. StreamTypeOK /\ ClientInv(c)
  BY DEF StreamState, StreamInv
<1>1. CASE Close(c)
  BY <1>1, StreamCloses DEF next_event, vars
<1>2. CASE /\ Head(queue[c]) # Sentinel
           /\ queue' = [queue EXCEPT ![c] = Tail(@)]
           /\ received' = [received EXCEPT ![c] = Append(@, Head(queue[c]))]
           /\ UNCHANGED <<channels, terminal_events, active_streams, state, at, want, seen, sent>>
  <2> USE DEF vars, rowVars, loopVars, runVars
  <2>1. /\ state[c] = "waiting" /\ queue[c] # <<>> /\ UNCHANGED vars
        /\ queue[c] \in Seq(Message) /\ received[c] \in Seq(Message)
        /\ queue'[c] = Tail(queue[c]) /\ received'[c] = Append(received[c], Head(queue[c]))
    BY <1>0, <1>2 DEF next_event, StreamTypeOK, Message
  <2>2. Events(c)' = Events(c) /\ (Ended(c)' <=> Ended(c))
    BY <1>2, <2>1, Moved DEF Events, Ended
  <2>3. Connected(c)'
    <3>1. RanHere(c)' <=> RanHere(c)
      BY <1>2, <2>1 DEF RanHere, NodeId
    <3> QED
      BY <1>0, <1>2, <2>1, <2>2, <3>1 DEF ClientInv, Connected
  <2>4. Ordered(c)'
    BY <1>0, <1>2, <2>1, <2>2 DEF ClientInv, Ordered, Sequence
  <2>5. (NoEviction => Told(c))'
    BY <1>0, <1>2, <2>1, <2>2 DEF ClientInv, Told, NodeId, Cached, NoEviction, Published
  <2>6. ASSUME NEW d \in Client \ {c} PROVE SameStream(d)
    BY <1>0, <1>2 DEF StreamTypeOK, SameStream
  <2> QED
    BY <1>2, <2>1, <2>3, <2>4, <2>5, <2>6, OneStream DEF ClientInv
<1> QED
  BY <1>1, <1>2 DEF next_event

(* A dead process takes its streams and its cache with it.                 *)
LEMMA StreamsDrop ==
  ASSUME StreamState, NEW n \in Node, drop_connections(n)
  PROVE  StreamInv'
<1>0. StreamTypeOK /\ TypeOK /\ QueueGoesOn
  BY RowsGoOn DEF StreamState, HistoryState, Next, Environment, drop_connections
<1>1. ASSUME NEW c \in Client PROVE ClientInv(c)'
  <2>1. CASE at[c] = n
    <3>1. state'[c] = "idle" /\ queue'[c] = <<>> /\ received'[c] = <<>>
      BY <1>0, <2>1 DEF drop_connections, StreamTypeOK
    <3>2. ASSUME NEW m \in Node, NEW t \in TaskId PROVE c \notin channels'[m][t]
      BY <1>0, <2>1 DEF drop_connections, StreamTypeOK, StreamState, StreamInv, ClientInv, Connected
    <3> QED
      BY <3>1, <3>2 DEF ClientInv, Connected, Ordered, Told
  <2>2. CASE at[c] # n
    <3>1. ClientInv(c) /\ at[c] \in Node
      BY <1>0 DEF StreamState, StreamInv, StreamTypeOK
    <3>2. ASSUME NEW m \in Node, NEW t \in TaskId PROVE c \in channels'[m][t] <=> c \in channels[m][t]
      BY <1>0, <2>2, <3>1 DEF drop_connections, StreamTypeOK, ClientInv, Connected
    <3>3. SameStream(c)
      BY <1>0, <2>2, <3>2 DEF drop_connections, StreamTypeOK, SameStream
    <3>4. /\ loop'[at[c]] = loop[at[c]] /\ boots' = boots /\ published' = published /\ sent' = sent
          /\ terminal_events'[at[c]] = terminal_events[at[c]] /\ at'[c] = at[c] /\ want'[c] = want[c]
      BY <1>0, <2>2, <3>1, <3>3 DEF drop_connections, crash, StreamTypeOK, TypeOK, SameStream
    <3>5. Cached(at[c], want[c])' <=> Cached(at[c], want[c])
      BY <3>4 DEF Cached
    <3> QED
      BY <1>0, <3>1, <3>3, <3>4, <3>5, ClientKept DEF ClientInv, Connected
  <2> QED
    BY <2>1, <2>2
<1>2. CacheInv'
  <2>1. published' = published /\ (NoEviction' <=> NoEviction)
    BY DEF drop_connections, crash, NoEviction, Published
  <2>2. ASSUME NEW m \in Node
        PROVE  terminal_events'[m] = IF m = n THEN <<>> ELSE terminal_events[m]
    BY <1>0 DEF drop_connections, StreamTypeOK
  <2> QED
    BY <2>1, <2>2 DEF StreamState, StreamInv, CacheInv
<1> QED
  BY <1>1, <1>2 DEF StreamInv

(* What is pushed to a queue comes after what the stream had.              *)
LEMMA Pushed ==
  ASSUME StreamTypeOK, NEW c \in Client, NEW events \in Seq(Message),
         queue'[c] = queue[c] \o events, received'[c] = received[c]
  PROVE  /\ Events(c) \in Seq(Message)
         /\ Events(c)' = Events(c) \o events
         /\ Ended(c)' <=> Ended(c) \/ \E i \in DOMAIN events : events[i] = Sentinel
<1> DEFINE q == queue[c]
<1>1. q \in Seq(Message) /\ received[c] \in Seq(Message)
  BY DEF StreamTypeOK, Message
<1>2. Events(c) \in Seq(Message) /\ Events(c)' = Events(c) \o events
  <2>1. received[c] \o q \in Seq(Message)
    BY <1>1, ConcatProperties
  <2>2. (received[c] \o q) \o events = received[c] \o (q \o events)
    <3>1. \A r, s, v \in Seq(Message) : (r \o s) \o v = r \o (s \o v)
      BY ConcatAssociative
    <3> QED
      BY <1>1, <3>1
  <2> QED
    BY <2>1, <2>2 DEF Events
<1>3. /\ q \o events \in Seq(Message) /\ Len(q \o events) = Len(q) + Len(events)
      /\ \A i \in 1..(Len(q) + Len(events)) :
            (q \o events)[i] = IF i <= Len(q) THEN q[i] ELSE events[i - Len(q)]
  BY <1>1, ConcatProperties
<1>4. /\ DOMAIN (q \o events) = 1..(Len(q) + Len(events)) /\ DOMAIN q = 1..Len(q)
      /\ DOMAIN events = 1..Len(events) /\ Len(q) \in Nat /\ Len(events) \in Nat
  BY <1>1, <1>3, LenProperties
<1>5. ASSUME NEW i \in DOMAIN q, q[i] = Sentinel
      PROVE  i \in DOMAIN (q \o events) /\ (q \o events)[i] = Sentinel
  <2>1. i \in 1..(Len(q) + Len(events)) /\ i <= Len(q)
    BY <1>4
  <2> HIDE DEF q
  <2> QED
    BY <1>3, <1>4, <1>5, <2>1
<1>6. ASSUME NEW i \in DOMAIN events, events[i] = Sentinel
      PROVE  Len(q) + i \in DOMAIN (q \o events) /\ (q \o events)[Len(q) + i] = Sentinel
  <2>1. Len(q) + i \in 1..(Len(q) + Len(events)) /\ ~(Len(q) + i <= Len(q)) /\ (Len(q) + i) - Len(q) = i
    BY <1>4
  <2> HIDE DEF q
  <2> QED
    BY <1>3, <1>4, <1>6, <2>1
<1>7. ASSUME NEW i \in DOMAIN (q \o events), (q \o events)[i] = Sentinel
      PROVE  \/ i \in DOMAIN q /\ q[i] = Sentinel
             \/ i - Len(q) \in DOMAIN events /\ events[i - Len(q)] = Sentinel
  <2>1. i <= Len(q) \/ i - Len(q) \in 1..Len(events)
    BY <1>4
  <2> HIDE DEF q
  <2> QED
    BY <1>3, <1>4, <1>7, <2>1
<1> QED
  BY <1>2, <1>5, <1>6, <1>7 DEF Ended

(* A coroutine that publishes holds the task on its process, and nothing   *)
(* has been published of the task so far.                                  *)
LEMMA Publisher ==
  ASSUME StreamState, NEW n \in Node, NEW t \in TaskId, coro[n][t] \in Publishing \cup {"agent"}
  PROVE  /\ published[t] = {} /\ loop[n] # "down"
         /\ worker_id[t] = NodeId(n) /\ status[t] \notin {"absent", "queued"}
<1>1. Holds(n, t) /\ t \in Live(n)
  BY DEF Publishing, Holds, Live
<1>2. HolderInv /\ EventInv
  BY DEF StreamState, HistoryState
<1> QED
  BY <1>1, <1>2 DEF HolderInv, SingleRunner, EventInv, Publishing, Working

LEMMA StreamProgress ==
  ASSUME StreamState, NEW n \in Node, NEW t \in TaskId, publish_progress(n, t)
  PROVE  StreamInv'
<1> USE DEF vars, rowVars, loopVars, runVars
<1>0. StreamTypeOK /\ QueueGoesOn
  BY DEF StreamState, publish_progress, QueueGoesOn
<1>1. /\ published[t] = {} /\ loop[n] # "down"
      /\ worker_id[t] = NodeId(n) /\ status[t] \notin {"absent", "queued"}
  BY Publisher DEF publish_progress
<1>2. /\ UNCHANGED <<vars, channels, terminal_events, state, at, want, seen, received>>
      /\ sent[t] \in Nat /\ sent'[t] = sent[t] + 1
      /\ \A u \in TaskId \ {t} : sent'[u] = sent[u]
      /\ \A c \in Client : queue'[c] = IF c \in channels[n][t] THEN queue[c] \o <<Progress(sent[t] + 1)>>
                                                               ELSE queue[c]
  BY <1>0 DEF publish_progress, push, StreamTypeOK
<1>3. ASSUME NEW c \in Client, c \in channels[n][t] PROVE ClientInv(c)'
  <2> DEFINE ev == Events(c)  P == Progress(sent[t] + 1)
  <2>1. ClientInv(c) /\ state[c] = "waiting" /\ at[c] = n /\ want[c] = t /\ ~Ended(c)
    BY <1>3 DEF StreamState, StreamInv, ClientInv, Connected
  <2>2. P \in Message /\ <<P>> \in Seq(Message) /\ Len(<<P>>) = 1 /\ <<P>>[1] = P /\ P # Sentinel
    BY <1>2, Messages DEF Progress, Sentinel
  <2>3. ev \in Seq(Message) /\ Events(c)' = ev \o <<P>> /\ ~Ended(c)'
    <3>1. \A i \in DOMAIN <<P>> : <<P>>[i] # Sentinel
      <4> HIDE DEF P
      <4> QED
        BY <2>2
    <3>2. queue'[c] = queue[c] \o <<P>> /\ received'[c] = received[c]
      BY <1>2, <1>3
    <3> HIDE DEF P
    <3> QED
      BY <1>0, <2>1, <2>2, <3>1, <3>2, Pushed
  <2>4. /\ Len(ev) \in Nat /\ Len(ev \o <<P>>) = Len(ev) + 1
        /\ \A i \in 1..Len(ev) : (ev \o <<P>>)[i] = ev[i]
        /\ (ev \o <<P>>)[Len(ev) + 1] = P
    <3>1. /\ Len(ev \o <<P>>) = Len(ev) + 1
          /\ \A i \in 1..(Len(ev) + 1) : (ev \o <<P>>)[i] = IF i <= Len(ev) THEN ev[i] ELSE <<P>>[i - Len(ev)]
      BY <2>2, <2>3, ConcatProperties
    <3>2. Len(ev) \in Nat
      BY <2>3, LenProperties
    <3> HIDE DEF ev, P
    <3> QED
      BY <2>2, <3>1, <3>2
  <2>5. Connected(c)'
    BY <1>1, <1>2, <2>1, <2>3 DEF ClientInv, Connected, RanHere, NodeId
  <2>6. Ordered(c)'
    <3>1. \A i \in 1..Len(ev) : ev[i] = Progress(sent[t] - Len(ev) + i)
      BY <2>1 DEF ClientInv, Ordered, Sequence
    <3>2. ASSUME NEW i \in 1..(Len(ev) + 1)
          PROVE  (ev \o <<P>>)[i] = Progress(sent'[t] - (Len(ev) + 1) + i)
      <4>1. i \in Int /\ sent'[t] - (Len(ev) + 1) + i = sent[t] - Len(ev) + i
        BY <1>2, <2>4
      <4>2. CASE i \in 1..Len(ev)
        BY <2>4, <3>1, <4>1, <4>2
      <4>3. CASE i = Len(ev) + 1
        <5>1. sent[t] - Len(ev) + i = sent[t] + 1
          BY <1>2, <2>4, <4>3
        <5> QED
          BY <2>4, <4>1, <4>3, <5>1
      <4> QED
        BY <2>4, <4>2, <4>3
    <3> HIDE DEF ev, P
    <3> QED
      BY <1>2, <2>1, <2>3, <2>4, <3>2 DEF Ordered, Sequence
  <2>7. Told(c)'
    BY <1>1, <1>2, <2>1 DEF Told
  <2> QED
    BY <2>5, <2>6, <2>7 DEF ClientInv
<1>4. ASSUME NEW c \in Client, c \notin channels[n][t] PROVE ClientInv(c)'
  <2>1. ClientInv(c) /\ SameStream(c) /\ Cached(at[c], want[c])' = Cached(at[c], want[c])
    BY <1>2, <1>4 DEF StreamState, StreamInv, SameStream, Cached
  <2>2. ASSUME state[c] = "waiting", Events(c) # <<>> PROVE sent'[want[c]] = sent[want[c]]
    <3>1. want[c] \in TaskId /\ at[c] \in Node
      BY <1>0, <2>1, <2>2 DEF ClientInv, Connected, StreamTypeOK
    <3>2. CASE want[c] = t
      <4>1. at[c] = n
        BY <1>1, <2>1, <2>2, <3>2 DEF ClientInv, Connected, RanHere, NodeId
      <4>2. Ended(c)
        BY <1>4, <2>1, <2>2, <3>2, <4>1 DEF ClientInv, Connected
      <4> QED
        BY <1>1, <2>1, <2>2, <3>2, <4>2 DEF ClientInv, Ordered, Sequence
    <3> QED
      BY <1>2, <3>1, <3>2
  <2> QED
    BY <1>0, <1>2, <2>1, <2>2, ClientKept DEF ClientInv, Connected
<1>5. CacheInv'
  BY <1>2 DEF StreamState, StreamInv, CacheInv, NoEviction, Published
<1> QED
  BY <1>3, <1>4, <1>5 DEF StreamInv

(* While nothing has to be evicted, the cache of a process has room for    *)
(* one more outcome: it holds each published task once at most.            *)
LEMMA CacheRoom ==
  ASSUME StreamState, NEW n \in Node, NEW t \in TaskId, published[t] = {},
         published'[t] # {}, QueueGoesOn, NoEviction'
  PROVE  /\ Len(terminal_events[n]) < TERMINAL_CACHE_MAXSIZE
         /\ \A i \in DOMAIN terminal_events[n] : terminal_events[n][i] # t
<1> DEFINE cache == terminal_events[n]
<1>1. /\ cache \in Seq(TaskId) /\ cache \in [1..Len(cache) -> TaskId]
      /\ DOMAIN cache = 1..Len(cache) /\ Len(cache) \in Nat
  BY LenProperties DEF StreamState, StreamTypeOK
<1>2. NoEviction
  BY EvictionKept
<1>3. \A i \in DOMAIN cache : /\ published[cache[i]] # {}
                              /\ \A j \in DOMAIN cache : cache[i] = cache[j] => i = j
  BY <1>2 DEF StreamState, StreamInv, CacheInv
<1>4. IsFiniteSet(Published) /\ IsFiniteSet(Published')
  BY FS_Subset, QueueAssumption DEF QueueAssumption, Published
<1>5. cache \in Injection(1..Len(cache), Published)
  <2> HIDE DEF cache
  <2>1. cache \in [1..Len(cache) -> Published]
    BY <1>1, <1>3 DEF Published
  <2> QED
    BY <1>1, <1>3, <2>1 DEF Injection, IsInjective
<1>6. Len(cache) <= Cardinality(Published)
  <2>1. Cardinality(1..Len(cache)) <= Cardinality(Published)
    BY <1>4, <1>5, FS_Injection
  <2>2. Cardinality(1..Len(cache)) = Len(cache)
    <3> HIDE DEF cache
    <3>1. Cardinality(1..Len(cache)) = IF 1 > Len(cache) THEN 0 ELSE Len(cache) - 1 + 1
      BY <1>1, FS_Interval
    <3> QED
      BY <1>1, <3>1
  <2> QED
    BY <2>1, <2>2
<1>7. Cardinality(Published) + 1 <= TERMINAL_CACHE_MAXSIZE
  <2>1. Cardinality(Published \cup {t}) = Cardinality(Published) + 1
    BY <1>4, FS_AddElement DEF Published
  <2>2. Published \cup {t} \subseteq Published'
    BY DEF Published, QueueGoesOn
  <2>3. Cardinality(Published \cup {t}) <= Cardinality(Published')
    BY <1>4, <2>2, FS_Subset
  <2>4. Cardinality(Published') <= TERMINAL_CACHE_MAXSIZE
    BY DEF NoEviction
  <2>5. /\ Cardinality(Published') \in Nat /\ Cardinality(Published) \in Nat
        /\ TERMINAL_CACHE_MAXSIZE \in Nat
    BY <1>4, FS_CardinalityType, StreamAssumption DEF StreamAssumption
  <2> QED
    BY <2>1, <2>3, <2>4, <2>5
<1>8. Cardinality(Published) \in Nat /\ TERMINAL_CACHE_MAXSIZE \in Nat
  BY <1>4, FS_CardinalityType, StreamAssumption DEF StreamAssumption
<1> HIDE DEF cache
<1>9. Len(cache) < TERMINAL_CACHE_MAXSIZE
  BY <1>1, <1>6, <1>7, <1>8
<1>10. \A i \in DOMAIN cache : cache[i] # t
  BY <1>3
<1> QED
  BY <1>9, <1>10 DEF cache

(* A coroutine publishes: the streams that wait get the outcome and their  *)
(* end, those that are about to ask find it in the cache.                  *)
LEMMA StreamPublishes ==
  ASSUME StreamState, NEW n \in Node, NEW t \in TaskId, run_and_publish(n, t), published' # published
  PROVE  StreamInv'
<1> USE DEF rowVars, loopVars, runVars, envVars
<1>0. StreamTypeOK /\ TypeOK
  BY DEF StreamState, HistoryState
<1>1. PICK e \in published'[t] \ published[t] : publish_event(n, t, e)
  BY DEF run_and_publish
<1>2. publish_terminal(n, t)
  BY DEF run_and_publish, run_task, start, mark_task_running, stream_agent, mark_task_complete,
         mark_task_paused, mark_task_failed, fail_dependent_tasks, finish, Mark
<1>3. /\ UNCHANGED <<rowVars, loopVars>> /\ coro[n][t] \in Publishing
      /\ \A u \in TaskId \ {t} : published'[u] = published[u]
  BY <1>0, <1>2 DEF publish_terminal, Publish, Step, Publishing, TypeOK
<1>4. /\ published[t] = {} /\ loop[n] # "down"
      /\ worker_id[t] = NodeId(n) /\ status[t] \notin {"absent", "queued"}
  BY <1>3, Publisher
<1>5. QueueGoesOn /\ published'[t] # {} /\ e \in TerminalEvents
  BY <1>0, <1>1, <1>2, <1>3, <1>4 DEF QueueGoesOn, publish_terminal, Publish, TerminalEvents, TypeOK
<1> DEFINE last == <<Outcome(e), Sentinel>>
<1>6. /\ UNCHANGED <<active_streams, state, at, want, seen, received, sent>>
      /\ \A c \in Client : queue'[c] = IF c \in channels[n][t] THEN queue[c] \o last ELSE queue[c]
      /\ \A m \in Node, u \in TaskId : channels'[m][u] = IF m = n /\ u = t THEN {} ELSE channels[m][u]
  BY <1>0, <1>1 DEF publish_event, push, StreamTypeOK
<1>7. /\ last \in Seq(Message) /\ Len(last) = 2 /\ DOMAIN last = 1..2
      /\ last[1].kind = e /\ last[2] = Sentinel
  BY <1>5, Messages DEF Outcome
<1>8. ASSUME NoEviction'
      PROVE  /\ \A m \in Node \ {n} : terminal_events'[m] = terminal_events[m]
             /\ terminal_events'[n] = Append(terminal_events[n], t)
  <2>1. /\ ~(Len(terminal_events[n]) >= TERMINAL_CACHE_MAXSIZE)
        /\ ~ \E i \in DOMAIN terminal_events[n] : terminal_events[n][i] = t
    <3>1. Len(terminal_events[n]) \in Nat /\ TERMINAL_CACHE_MAXSIZE \in Nat
      BY <1>0, LenProperties, StreamAssumption DEF StreamTypeOK, StreamAssumption
    <3> QED
      BY <1>4, <1>5, <1>8, <3>1, CacheRoom
  <2> QED
    BY <1>0, <1>1, <2>1 DEF publish_event, StreamTypeOK
<1>9. ASSUME NoEviction', NEW m \in Node
      PROVE  /\ DOMAIN terminal_events'[m] = IF m = n THEN 1..(Len(terminal_events[n]) + 1)
                                             ELSE DOMAIN terminal_events[m]
             /\ \A i \in DOMAIN terminal_events[m] :
                   i \in DOMAIN terminal_events'[m] /\ terminal_events'[m][i] = terminal_events[m][i]
             /\ DOMAIN terminal_events[n] = 1..Len(terminal_events[n])
             /\ Len(terminal_events[n]) \in Nat
             /\ terminal_events'[n][Len(terminal_events[n]) + 1] = t
  <2> DEFINE cache == terminal_events[n]
  <2>1. cache \in Seq(TaskId) /\ DOMAIN cache = 1..Len(cache) /\ Len(cache) \in Nat
    BY <1>0, LenProperties DEF StreamTypeOK
  <2>2. /\ DOMAIN Append(cache, t) = 1..(Len(cache) + 1)
        /\ \A i \in 1..Len(cache) : Append(cache, t)[i] = cache[i]
        /\ Append(cache, t)[Len(cache) + 1] = t
    <3>1. /\ Append(cache, t) \in Seq(TaskId) /\ Len(Append(cache, t)) = Len(cache) + 1
          /\ \A i \in 1..Len(cache) : Append(cache, t)[i] = cache[i]
          /\ Append(cache, t)[Len(cache) + 1] = t
      BY <2>1, AppendProperties
    <3> QED
      BY <3>1, LenProperties
  <2> HIDE DEF cache
  <2>3. \A i \in 1..Len(cache) : i \in 1..(Len(cache) + 1)
    BY <2>1
  <2>4. /\ terminal_events'[n] = Append(cache, t)
        /\ \A k \in Node \ {n} : terminal_events'[k] = terminal_events[k]
        /\ cache = terminal_events[n]
    BY <1>8, <1>9 DEF cache
  <2> QED
    BY <2>1, <2>2, <2>3, <2>4
<1>10. ASSUME NoEviction'
       PROVE  Cached(n, t)' /\ \A m \in Node, u \in TaskId : Cached(m, u) => Cached(m, u)'
  <2>1. Cached(n, t)'
    <3>1. Len(terminal_events[n]) + 1 \in DOMAIN terminal_events'[n]
      BY <1>9, <1>10
    <3> QED
      BY <1>9, <1>10, <3>1 DEF Cached
  <2>2. ASSUME NEW m \in Node, NEW u \in TaskId, Cached(m, u) PROVE Cached(m, u)'
    BY <1>9, <1>10, <2>2 DEF Cached
  <2> QED
    BY <2>1, <2>2
<1>11. ASSUME NEW c \in Client PROVE ClientInv(c)'
  <2>0. ClientInv(c) /\ at[c] \in Node
    BY <1>0 DEF StreamState, StreamInv, StreamTypeOK
  <2>n. \A m \in Node : NodeId(m)' = NodeId(m)
    BY <1>3 DEF NodeId
  <2>1. CASE c \in channels[n][t]
    <3> DEFINE ev == Events(c)
    <3>1. state[c] = "waiting" /\ at[c] = n /\ want[c] = t /\ ~Ended(c)
      BY <2>0, <2>1 DEF ClientInv, Connected
    <3>2. ev \in Seq(Message) /\ Events(c)' = ev \o last /\ Ended(c)'
      <4> HIDE DEF last
      <4>1. queue'[c] = queue[c] \o last /\ received'[c] = received[c] /\ 2 \in DOMAIN last
        <5>1. 2 \in DOMAIN last
          BY <1>7
        <5> QED
          BY <1>6, <2>1, <5>1
      <4> QED
        BY <1>0, <1>7, <4>1, Pushed
    <3>3. /\ Len(ev) \in Nat /\ Len(ev \o last) = Len(ev) + 2
          /\ \A i \in 1..Len(ev) : (ev \o last)[i] = ev[i]
          /\ (ev \o last)[Len(ev) + 1] = last[1]
      <4>1. Len(ev) \in Nat
        BY <3>2, LenProperties
      <4>2. /\ Len(ev \o last) = Len(ev) + Len(last)
            /\ \A i \in 1..(Len(ev) + Len(last)) :
                  (ev \o last)[i] = IF i <= Len(ev) THEN ev[i] ELSE last[i - Len(ev)]
        BY <1>7, <3>2, ConcatProperties
      <4> HIDE DEF ev, last
      <4> QED
        BY <1>7, <4>1, <4>2
    <3>4. Connected(c)'
      <4>1. \A m \in Node, u \in TaskId : c \notin channels'[m][u]
        BY <1>6, <2>0, <3>1 DEF ClientInv, Connected
      <4>2. RanHere(c)'
        BY <1>3, <1>4, <1>6, <2>n, <3>1 DEF RanHere
      <4> QED
        BY <1>3, <1>4, <1>6, <3>1, <3>2, <4>1, <4>2 DEF Connected
    <3>5. Ordered(c)'
      <4>1. \A i \in 1..Len(ev) : ev[i] = Progress(sent[t] - Len(ev) + i)
        BY <2>0, <3>1 DEF ClientInv, Ordered, Sequence
      <4>2. Len(ev \o last) - 2 = Len(ev)
        BY <3>3
      <4>3. (ev \o last)[Len(ev) + 1].kind \in published'[t]
        BY <1>1, <1>7, <3>3
      <4> HIDE DEF ev, last
      <4> QED
        BY <1>6, <3>1, <3>2, <3>3, <4>1, <4>2, <4>3 DEF Ordered, Sequence
    <3>6. Told(c)'
      BY <1>6, <3>1, <3>2 DEF Told
    <3> QED
      BY <3>4, <3>5, <3>6 DEF ClientInv
  <2>2. CASE c \notin channels[n][t]
    <3>1. SameStream(c)
      BY <1>6, <2>2 DEF SameStream
    <3>2. state[c] # "idle" => want[c] \in TaskId /\ loop[at[c]] # "down"
      BY <2>0 DEF ClientInv, Connected
    <3>3. CASE at[c] = n /\ want[c] = t /\ state[c] # "idle"
      <4>1. state[c] # "waiting"
        <5> SUFFICES ASSUME state[c] = "waiting" PROVE FALSE
          OBVIOUS
        <5>1. Ended(c)
          BY <2>0, <2>2, <3>3 DEF ClientInv, Connected
        <5> QED
          BY <1>4, <2>0, <3>3, <5>1 DEF ClientInv, Ordered, Sequence
      <4>2. Connected(c)'
        BY <1>3, <2>0, <3>1, <4>1 DEF ClientInv, Connected, SameStream
      <4>3. Ordered(c)'
        BY <3>1, <4>1 DEF Ordered, SameStream
      <4>4. NoEviction' => Told(c)'
        BY <1>10, <3>1, <3>3, <4>1 DEF Told, SameStream, Cached
      <4> QED
        BY <4>2, <4>3, <4>4 DEF ClientInv
    <3>4. CASE ~(at[c] = n /\ want[c] = t /\ state[c] # "idle")
      <4>1. state[c] # "idle" => \/ published'[want[c]] = published[want[c]]
                                 \/ worker_id'[want[c]] # NodeId(at[c])
        <5>1. at[c] # n => NodeId(at[c]) # NodeId(n)
          BY DEF NodeId
        <5> QED
          BY <1>3, <1>4, <3>2, <3>4, <5>1
      <4>2. NoEviction' /\ state[c] = "response" /\ Cached(at[c], want[c]) => Cached(at[c], want[c])'
        BY <1>10, <2>0, <3>1, <3>2 DEF Cached, SameStream
      <4> QED
        BY <1>3, <1>5, <1>6, <3>1, <3>2, <4>1, <4>2, ClientKept
    <3> QED
      BY <3>3, <3>4
  <2> QED
    BY <2>1, <2>2
<1>12. CacheInv'
  <2> SUFFICES ASSUME NoEviction', NEW m \in Node, NEW i \in DOMAIN terminal_events'[m]
               PROVE  /\ published'[terminal_events'[m][i]] # {}
                      /\ \A j \in DOMAIN terminal_events'[m] :
                            terminal_events'[m][i] = terminal_events'[m][j] => i = j
    BY DEF CacheInv
  <2> DEFINE old == DOMAIN terminal_events[m]
  <2>1. \A k \in old : /\ published[terminal_events[m][k]] # {}
                       /\ terminal_events[m][k] \in TaskId \ {t}
                       /\ \A j \in old : terminal_events[m][k] = terminal_events[m][j] => k = j
    <3>1. NoEviction
      BY <1>5, EvictionKept
    <3>2. \A k \in old : terminal_events[m][k] \in TaskId
      BY <1>0, LenProperties, ElementOfSeq DEF StreamTypeOK
    <3> QED
      BY <1>4, <3>1, <3>2 DEF StreamState, StreamInv, CacheInv
  <2>2. \A k \in DOMAIN terminal_events'[m] :
           \/ k \in old /\ terminal_events'[m][k] = terminal_events[m][k]
           \/ m = n /\ k = Len(terminal_events[n]) + 1 /\ terminal_events'[m][k] = t
    <3>1. \A k \in 1..(Len(terminal_events[n]) + 1) :
             k \in 1..Len(terminal_events[n]) \/ k = Len(terminal_events[n]) + 1
      BY <1>9
    <3> QED
      BY <1>9, <3>1
  <2> HIDE DEF old
  <2> QED
    BY <1>3, <1>5, <2>1, <2>2
<1> QED
  BY <1>11, <1>12 DEF StreamInv

LEMMA StreamInvStep == StreamState /\ [StreamNext]_allVars => StreamInv'
<1> SUFFICES ASSUME StreamState, [StreamNext]_allVars PROVE StreamInv'
  OBVIOUS
<1>0. TypeOK
  BY DEF StreamState, HistoryState
<1>1. ASSUME UNCHANGED streamVars, UNCHANGED published,
             \/ Request
             \/ \E n \in Node : task_worker(n) \/ watchdog_interval(n) \/ restart(n)
             \/ \E n \in Node, t \in TaskId : run_task(n, t)
             \/ \E t \in TaskId : grow_stale(t)
      PROVE  StreamInv'
  <2>1. Next
    BY <1>1 DEF Next, Environment
  <2> QED
    BY <1>0, <1>1, <2>1, RowsGoOn, LoopsKept, QuietStep
<1>2. ASSUME UNCHANGED streamVars,
             \/ Request
             \/ \E n \in Node : task_worker(n) \/ watchdog_interval(n) \/ restart(n)
             \/ \E t \in TaskId : grow_stale(t)
      PROVE  StreamInv'
  <2>1. UNCHANGED published
    BY <1>2 DEF Request, create_task, retry_task, cancel_tasks, bulk_delete_tasks, run_db_maintenance,
                delete_rows, update_tags, task_worker, reap_stale_running_tasks, check_slots,
                claim_next_queued_task, launch, lose_claim, skip_watchdog, reap_stuck_tasks,
                grow_stale, watchdog_interval, restart, runVars
  <2> QED
    BY <1>1, <1>2, <2>1
<1>3. ASSUME NEW n \in Node, NEW t \in TaskId, run_and_publish(n, t) PROVE StreamInv'
  <2>1. run_task(n, t) /\ (published' = published => UNCHANGED streamVars)
    BY <1>3 DEF run_and_publish
  <2> QED
    BY <1>1, <1>3, <2>1, StreamPublishes
<1>4. ASSUME NEW c \in Client, send_outcome(c) \/ disconnect(c) \/ abandon_response(c)
      PROVE  StreamInv'
  BY <1>4, StreamCloses DEF send_outcome, disconnect, abandon_response, vars
<1>5. CASE UNCHANGED allVars
  <2>1. QueueGoesOn /\ LoopsGoOn
    BY <1>5 DEF allVars, vars, rowVars, loopVars, runVars, QueueGoesOn, LoopsGoOn
  <2> QED
    BY <1>5, <2>1, QuietStep DEF allVars, vars, runVars
<1>6. CASE StreamNext
  BY <1>2, <1>3, <1>4, <1>6, StreamOpens, StreamReads, StreamSubscribes, StreamMoves, StreamsDrop,
     StreamProgress
     DEF StreamNext, handle_stream
<1> QED
  BY <1>5, <1>6

LEMMA StreamInvariant == StreamSpec => []StreamState
<1>1. StreamInit => StreamTypeOK /\ StreamInv
  BY StreamTypeInit, StreamInvInit
<1>2. HistoryState /\ StreamTypeOK /\ StreamInv /\ [StreamNext]_allVars => StreamTypeOK' /\ StreamInv'
  BY StreamTypeStep, StreamInvStep DEF StreamState
<1> QED
  BY <1>1, <1>2, QueueBelow, PTL DEF StreamSpec, StreamState

(* However many processes, tasks and clients there are, a stream that      *)
(* waits where its task ran has been told of the outcome or is about to    *)
(* be, unless the cache of terminal events had to evict.                   *)
THEOREM NoMissedOutcomeInvariant == StreamSpec => []NoMissedOutcome
<1>1. StreamState => NoMissedOutcome
  BY DEF StreamState, StreamInv, ClientInv, Told, NoMissedOutcome, NoEviction, Published
<1> QED
  BY <1>1, StreamInvariant, PTL

(* Every stream is sent the events of its task in order and without a gap, *)
(* from where it joined up to one outcome.                                 *)
THEOREM InOrderInvariant == StreamSpec => []InOrder
<1>1. StreamState => InOrder
  BY DEF StreamState, StreamInv, ClientInv, Ordered, Sequence, Events, InOrder
<1> QED
  BY <1>1, StreamInvariant, PTL
=============================================================================
