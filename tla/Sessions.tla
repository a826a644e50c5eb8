------------------------------ MODULE Sessions ------------------------------
(***************************************************************************)
(* Conversations: the tasks of one session are its turns                   *)
(* (src/database.py, sessions; src/gateway/routes/sessions.py; the         *)
(* worker's run of a task, src/gateway/worker.py).  A turn runs on the     *)
(* checkpoint thread of its session, so that the graph starts from the     *)
(* messages of the turns before it; when it completes the session counts   *)
(* it.  The worker runs several tasks at a time.                           *)
(***************************************************************************)
EXTENDS Integers, FiniteSets

CONSTANTS
    Conversations,      \* session rows
    Turns,              \* tasks
    NoSession,
    WorkerSlots,        \* tasks the worker runs at a time
    MaxTroubles         \* bound: turns that fail and counts that fail

ASSUME SessionsAssumption ==
    /\ NoSession \notin Conversations /\ IsFiniteSet(Turns)
    /\ WorkerSlots \in Nat \ {0} /\ MaxTroubles \in Nat

VARIABLES
    sessions,           \* session -> its state and turn_count
    turns,              \* task row: status and session
    submitting,         \* task -> the session its submission has checked
    work,               \* task -> where the worker is, the session it was
                        \* claimed with, whether on the session's thread,
                        \* and the turns its graph has seen
    checkpoints,        \* session -> turns in its thread's last checkpoint
    uncounted,          \* history: complete turns whose count failed
    spoken,             \* history: session -> complete turns on its thread
    overlapping,        \* history: sessions with two turns at a time
    troubles

sessionsVars ==
    <<sessions, turns, submitting, work, checkpoints, uncounted, spoken, overlapping, troubles>>

Session == Conversations \cup {NoSession}
AtRest == [stage |-> "none", session |-> NoSession, shared |-> FALSE, seen |-> {}]

SessionsTypeOK ==
    /\ sessions \in [Conversations -> [state : {"none", "open", "deleted"},
                                       turn_count : 0 .. Cardinality(Turns)]]
    /\ turns \in [Turns -> [status : {"none", "queued", "running", "complete", "failed"},
                            session : Session]]
    /\ submitting \in [Turns -> Session]
    /\ work \in [Turns -> [stage : {"none", "thread", "graph", "answer", "count"},
                           session : Session, shared : BOOLEAN, seen : SUBSET Turns]]
    /\ checkpoints \in [Conversations -> SUBSET Turns]
    /\ uncounted \subseteq Turns /\ spoken \in [Conversations -> SUBSET Turns]
    /\ overlapping \subseteq Conversations
    /\ troubles \in 0 .. MaxTroubles

SessionsInit ==
    /\ sessions = [s \in Conversations |-> [state |-> "none", turn_count |-> 0]]
    /\ turns = [t \in Turns |-> [status |-> "none", session |-> NoSession]]
    /\ submitting = [t \in Turns |-> NoSession]
    /\ work = [t \in Turns |-> AtRest]
    /\ checkpoints = [s \in Conversations |-> {}]
    /\ uncounted = {} /\ spoken = [s \in Conversations |-> {}] /\ overlapping = {} /\ troubles = 0

Open(s) == s # NoSession /\ sessions[s].state = "open"
Claimed == {t \in Turns : work[t].stage # "none"}

-----------------------------------------------------------------------------
(* Requests                                                                *)

create_session(s) ==
    /\ sessions[s].state = "none"
    /\ sessions' = [sessions EXCEPT ![s].state = "open"]
    /\ UNCHANGED <<turns, submitting, work, checkpoints, uncounted, spoken, overlapping, troubles>>

(* Its tasks stay, without a session.                                      *)
delete_session(s) ==
    /\ Open(s)
    /\ sessions' = [sessions EXCEPT ![s].state = "deleted"]
    /\ turns' = [t \in Turns |-> IF turns[t].session = s THEN [turns[t] EXCEPT !.session = NoSession]
                                                         ELSE turns[t]]
    /\ UNCHANGED <<submitting, work, checkpoints, uncounted, spoken, overlapping, troubles>>

(* The routes, for the user of the session.                                *)
create_session_endpoint(s) == create_session(s)
delete_session_endpoint(s) == delete_session(s)

(* The session is looked up, then the row is inserted; a session deleted   *)
(* in between breaks the foreign key, and the request fails.               *)
submit_turn(t, s) ==
    /\ turns[t].status = "none" /\ submitting[t] = NoSession
    /\ Open(s)
    /\ submitting' = [submitting EXCEPT ![t] = s]
    /\ UNCHANGED <<sessions, turns, work, checkpoints, uncounted, spoken, overlapping, troubles>>

insert_turn(t) ==
    /\ submitting[t] # NoSession
    /\ submitting' = [submitting EXCEPT ![t] = NoSession]
    /\ turns' = IF Open(submitting[t])
                THEN [turns EXCEPT ![t] = [status |-> "queued", session |-> submitting[t]]]
                ELSE turns
    /\ UNCHANGED <<sessions, work, checkpoints, uncounted, spoken, overlapping, troubles>>

retry_turn(t) ==
    /\ turns[t].status = "failed" /\ t \notin Claimed
    /\ turns' = [turns EXCEPT ![t].status = "queued"]
    /\ UNCHANGED <<sessions, submitting, work, checkpoints, uncounted, spoken, overlapping, troubles>>

-----------------------------------------------------------------------------
(* The worker's run of a turn                                              *)

claim_turn(t) ==
    /\ turns[t].status = "queued" /\ Cardinality(Claimed) < WorkerSlots
    /\ turns' = [turns EXCEPT ![t].status = "running"]
    /\ work' = [work EXCEPT ![t] = [AtRest EXCEPT !.stage = "thread", !.session = turns[t].session]]
    /\ overlapping' = overlapping \cup
          {s \in Conversations : s = turns[t].session /\ \E u \in Claimed : work[u].session = s}
    /\ UNCHANGED <<sessions, submitting, checkpoints, uncounted, spoken, troubles>>

(* The session's thread, if the session is still there (the orchestrator   *)
(* always has a thread of its own).                                        *)
choose_thread(t) ==
    /\ work[t].stage = "thread"
    /\ \E orchestrator \in BOOLEAN :
          work' = [work EXCEPT ![t].stage = "graph",
                               ![t].shared = Open(work[t].session) /\ ~orchestrator]
    /\ UNCHANGED <<sessions, turns, submitting, checkpoints, uncounted, spoken, overlapping, troubles>>

(* A variant: the input takes the place of the messages.                   *)
graph_starts_afresh(t) ==
    /\ work[t].stage = "graph"
    /\ work' = [work EXCEPT ![t].stage = "answer", ![t].seen = {t}]
    /\ checkpoints' = IF work[t].shared
                      THEN [checkpoints EXCEPT ![work[t].session] = {t}] ELSE checkpoints
    /\ UNCHANGED <<sessions, turns, submitting, uncounted, spoken, overlapping, troubles>>

(* The graph loads the last checkpoint of the thread and adds the input.   *)
graph_starts(t) ==
    LET s == work[t].session
        seen == IF work[t].shared THEN checkpoints[s] \cup {t} ELSE {t} IN
    /\ work[t].stage = "graph"
    /\ work' = [work EXCEPT ![t].stage = "answer", ![t].seen = seen]
    /\ checkpoints' = IF work[t].shared THEN [checkpoints EXCEPT ![s] = seen] ELSE checkpoints
    /\ UNCHANGED <<sessions, turns, submitting, uncounted, spoken, overlapping, troubles>>

(* Its later checkpoints build on what it loaded, not on what other turns  *)
(* have written since.                                                     *)
turn_completes(t) ==
    /\ work[t].stage = "answer"
    /\ checkpoints' = IF work[t].shared
                      THEN [checkpoints EXCEPT ![work[t].session] = work[t].seen] ELSE checkpoints
    /\ spoken' = IF work[t].shared
                 THEN [spoken EXCEPT ![work[t].session] = @ \cup {t}] ELSE spoken
    /\ turns' = [turns EXCEPT ![t].status = "complete"]
    /\ work' = [work EXCEPT ![t] = IF @.session = NoSession THEN AtRest ELSE [@ EXCEPT !.stage = "count"]]
    /\ UNCHANGED <<sessions, submitting, uncounted, overlapping, troubles>>

turn_fails(t) ==
    /\ work[t].stage \in {"thread", "graph", "answer"} /\ troubles < MaxTroubles
    /\ troubles' = troubles + 1
    /\ turns' = [turns EXCEPT ![t].status = "failed"]
    /\ work' = [work EXCEPT ![t] = AtRest]
    /\ UNCHANGED <<sessions, submitting, checkpoints, uncounted, spoken, overlapping>>

counted(t) ==
    [sessions EXCEPT ![work[t].session].turn_count = @ + (IF Open(work[t].session) THEN 1 ELSE 0)]

increment_session_turn(t) ==
    /\ work[t].stage = "count"
    /\ sessions' = counted(t)
    /\ work' = [work EXCEPT ![t] = AtRest]
    /\ UNCHANGED <<turns, submitting, checkpoints, uncounted, spoken, overlapping, troubles>>

(* Logged as a warning.                                                    *)
increment_fails(t) ==
    /\ work[t].stage = "count" /\ troubles < MaxTroubles
    /\ troubles' = troubles + 1
    /\ work' = [work EXCEPT ![t] = AtRest]
    /\ uncounted' = uncounted \cup {t}
    /\ UNCHANGED <<sessions, turns, submitting, checkpoints, spoken, overlapping>>

SessionsNext ==
    \/ \E s \in Conversations : create_session_endpoint(s) \/ delete_session_endpoint(s)
    \/ \E t \in Turns, s \in Conversations : submit_turn(t, s)
    \/ \E t \in Turns :
          \/ insert_turn(t) \/ retry_turn(t) \/ claim_turn(t) \/ choose_thread(t)
          \/ graph_starts(t) \/ turn_completes(t) \/ turn_fails(t)
          \/ increment_session_turn(t) \/ increment_fails(t)

SessionsSpec == SessionsInit /\ [][SessionsNext]_sessionsVars

-----------------------------------------------------------------------------
(* turn_count is the number of complete tasks of the session, those whose  *)
(* count is still to come or has failed left out: also when turns overlap, *)
(* fail and are retried.                                                   *)
TurnsCounted ==
    \A s \in Conversations : Open(s) =>
        sessions[s].turn_count =
            Cardinality({t \in Turns : /\ turns[t].session = s /\ turns[t].status = "complete"
                                       /\ work[t].stage # "count" /\ t \notin uncounted})

(* A turn on the session's thread has seen every complete turn that ran on *)
(* it before, as long as the session's turns came one at a time: "allowing *)
(* the agent to maintain context between turns".                           *)
ContextKept ==
    \A t \in Turns : work[t].stage = "answer" /\ work[t].shared =>
        LET s == work[t].session IN s \notin overlapping => spoken[s] \subseteq work[t].seen

(* The count of a session and the context of its turns follow from its     *)
(* complete tasks (increment_session_turn, src/gateway/worker.py).         *)
SessionsInvariant ==
    /\ SessionsTypeOK
    /\ TurnsCounted
    /\ ContextKept

=============================================================================
