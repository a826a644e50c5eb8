------------------------------- MODULE FanOut -------------------------------
(***************************************************************************)
(* Orchestrator runs and the sub-agents they start: the task tokens        *)
(* (src/security/acl.py), the master token that the tools find in a        *)
(* module-level reference (src/agents/orchestrator.py), and the parallel   *)
(* branches behind a semaphore (src/agents/fan_out.py).  Time is in        *)
(* fractions of a second, because a token's expiry is in whole seconds.    *)
(***************************************************************************)
EXTENDS Integers, Sequences, FiniteSets

CONSTANTS
    Runs,               \* run ids of the orchestrator
    SubRun,             \* the run id a researcher gives itself
    Cap,                \* max_concurrency, after it is clamped
    TTL,                \* task_token_ttl_seconds
    Second,             \* ticks in a second
    MaxBranches,        \* bound: tasks of a fan-out (10 in the code)
    MaxTools,           \* bound: tool calls of a run
    MaxTime             \* bound: ticks

ASSUME FanOutAssumption ==
    /\ Cap \in Nat \ {0} /\ TTL \in Nat \ {0}
    /\ Second \in Nat \ {0, 1}   \* less than a second between two readings of the clock
    /\ MaxBranches \in Nat \ {0} /\ MaxTools \in Nat /\ MaxTime \in Nat
    /\ SubRun \notin Runs

VARIABLES
    secret,             \* the signing secret is configured
    time,               \* the clock, in ticks
    _master_token_ref,  \* shared by all runs of the process
    orchestrators,      \* the runs: stage, parent_jwt and free slots of a fan-out
    branches,           \* the sub-agents of the current tool call of each run
    derivations,        \* history: <<child, parent>> of every derived token
    crossed             \* history: two runs overlapped

fanOutVars ==
    <<secret, time, _master_token_ref, orchestrators, branches, derivations, crossed>>

MasterTools == {"spawn_researcher", "fan_out_researchers", "web_fetch"}
ResearcherTools == {"web_fetch"}
MasterClasses == {"public", "internal"}

NoToken == [run_id |-> SubRun, tools |-> {}, classes |-> {}, expires_at |-> 0]
Tokens == [run_id : Runs \cup {SubRun}, tools : SUBSET MasterTools,
           classes : SUBSET MasterClasses, expires_at : Nat]
BranchStates == {"waiting", "running", "success", "error"}

FanOutTypeOK ==
    /\ secret \in BOOLEAN /\ crossed \in BOOLEAN
    /\ time \in Nat /\ time <= MaxTime
    /\ _master_token_ref \in Tokens
    /\ \A r \in Runs :
         /\ orchestrators[r].stage \in {"new", "thinking", "spawned", "fan_out", "done"}
         /\ orchestrators[r].free \in 0 .. Cap
         /\ orchestrators[r].tools \in 0 .. MaxTools
         /\ \A i \in DOMAIN branches[r] :
              /\ branches[r][i].state \in BranchStates
              /\ branches[r][i].token \in Tokens
    /\ derivations \subseteq Tokens \X Tokens

FanOutInit ==
    /\ secret \in BOOLEAN
    /\ time = 0
    /\ _master_token_ref = NoToken
    /\ orchestrators = [r \in Runs |-> [stage |-> "new", parent |-> NoToken, free |-> Cap, tools |-> 0]]
    /\ branches = [r \in Runs |-> <<>>]
    /\ derivations = {}
    /\ crossed = FALSE

-----------------------------------------------------------------------------
(* Task tokens                                                             *)

(* The claim "exp" is a whole number of seconds.                           *)
whole(t) == (t \div Second) * Second

issue_task_token(run, tools, classes, t, ttl) ==
    [run_id |-> run, tools |-> tools, classes |-> classes, expires_at |-> whole(t + ttl * Second)]

(* Signed by this system: what is left to check is the secret and the time.*)
validate_task_token(token) == secret /\ token # NoToken /\ time < token.expires_at

(* The lifetime of a child in seconds, rounded down.                       *)
child_ttl(parent) ==
    LET asked == time + TTL * Second
        expires == IF parent.expires_at < asked THEN parent.expires_at ELSE asked
    IN  (expires - time) \div Second

(* A variant: the child lives as long as a token of its own.               *)
derive_full_ttl(parent, tools, classes, t) ==
    IF validate_task_token(parent) /\ child_ttl(parent) > 0
       /\ tools \subseteq parent.tools /\ classes \subseteq parent.classes
    THEN issue_task_token(parent.run_id, tools, classes, t, TTL) ELSE NoToken

(* The clock is read once for the lifetime and again, at t, for the expiry.*)
(* Its callers turn every exception into no token.                         *)
derive_task_token(parent, tools, classes, t) ==
    IF validate_task_token(parent) /\ child_ttl(parent) > 0
       /\ tools \subseteq parent.tools /\ classes \subseteq parent.classes
    THEN issue_task_token(parent.run_id, tools, classes, t, child_ttl(parent)) ELSE NoToken

_derive_researcher_token(master, t) == derive_task_token(master, ResearcherTools, {"public"}, t)
_derive_branch_token(parent, t) == derive_task_token(parent, ResearcherTools, {"public"}, t)

(* A researcher that is given no token issues one of its own.              *)
run_researcher_token(given, t) ==
    IF given # NoToken \/ ~secret THEN given
    ELSE issue_task_token(SubRun, ResearcherTools, {"public"}, t, TTL)

running(given, t) ==
    [state |-> "running", token |-> run_researcher_token(given, t), started |-> t]

Waiting == [state |-> "waiting", token |-> NoToken, started |-> 0]

-----------------------------------------------------------------------------
(* Runs of the orchestrator                                                *)

_issue_master_token(r) ==
    IF secret THEN issue_task_token(r, MasterTools, MasterClasses, time, TTL) ELSE NoToken

open(r) == orchestrators[r].stage \notin {"new", "done"}

run_orchestrator(r) ==
    /\ orchestrators[r].stage = "new"
    /\ _master_token_ref' = _issue_master_token(r)
    /\ orchestrators' = [orchestrators EXCEPT ![r].stage = "thinking"]
    /\ crossed' = (crossed \/ \E q \in Runs : open(q))
    /\ UNCHANGED <<secret, time, branches, derivations>>

record(child, parent) ==
    derivations' = IF child = NoToken THEN derivations ELSE derivations \cup {<<child, parent>>}

(* The clock may move on between its two readings.                         *)
Readings == {t \in {time, time + 1} : t <= MaxTime}

called(r) == /\ orchestrators[r].stage = "thinking" /\ orchestrators[r].tools < MaxTools

(* One sub-agent, and the run waits for it.                                *)
spawn_researcher(r) ==
    /\ called(r)
    /\ \E t \in Readings :
         LET child == _derive_researcher_token(_master_token_ref, t)
         IN  /\ branches' = [branches EXCEPT ![r] = <<running(child, t)>>]
             /\ record(child, _master_token_ref)
             /\ time' = t
    /\ orchestrators' = [orchestrators EXCEPT ![r].stage = "spawned", ![r].tools = @ + 1]
    /\ UNCHANGED <<secret, _master_token_ref, crossed>>

(* Up to ten tasks; what is not a list of that length is answered with a   *)
(* message.  The token is read once for all branches.                      *)
fan_out_researchers(r) ==
    /\ called(r)
    /\ \E n \in 1 .. MaxBranches : branches' = [branches EXCEPT ![r] = [i \in 1 .. n |-> Waiting]]
    /\ orchestrators' = [orchestrators EXCEPT ![r].stage = "fan_out", ![r].tools = @ + 1,
                                              ![r].parent = _master_token_ref, ![r].free = Cap]
    /\ UNCHANGED <<secret, time, _master_token_ref, derivations, crossed>>

(* The semaphore lets the branches in in their order.                      *)
_run_branch(r, i) ==
    /\ orchestrators[r].stage = "fan_out" /\ orchestrators[r].free > 0
    /\ branches[r][i].state = "waiting"
    /\ \A j \in 1 .. i - 1 : branches[r][j].state # "waiting"
    /\ \E t \in Readings :
         LET child == _derive_branch_token(orchestrators[r].parent, t)
         IN  /\ branches' = [branches EXCEPT ![r][i] = running(child, t)]
             /\ record(child, orchestrators[r].parent)
             /\ time' = t
    /\ orchestrators' = [orchestrators EXCEPT ![r].free = @ - 1]
    /\ UNCHANGED <<secret, _master_token_ref, crossed>>

(* With its result or with an exception, which is kept as a result.        *)
branch_ends(r, i, state) ==
    /\ orchestrators[r].stage = "fan_out" /\ branches[r][i].state = "running"
    /\ branches' = [branches EXCEPT ![r][i].state = state]
    /\ orchestrators' = [orchestrators EXCEPT ![r].free = @ + 1]
    /\ UNCHANGED <<secret, time, _master_token_ref, derivations, crossed>>

(* gather returns when every branch has ended.                             *)
fan_out(r) ==
    /\ orchestrators[r].stage = "fan_out"
    /\ \A i \in DOMAIN branches[r] : branches[r][i].state \in {"success", "error"}
    /\ orchestrators' = [orchestrators EXCEPT ![r].stage = "thinking"]
    /\ branches' = [branches EXCEPT ![r] = <<>>]
    /\ UNCHANGED <<secret, time, _master_token_ref, derivations, crossed>>

_spawn_researcher_sub_agent(r) ==
    /\ orchestrators[r].stage = "spawned"
    /\ orchestrators' = [orchestrators EXCEPT ![r].stage = "thinking"]
    /\ branches' = [branches EXCEPT ![r] = <<>>]
    /\ UNCHANGED <<secret, time, _master_token_ref, derivations, crossed>>

(* The run ends; the reference keeps its token.                            *)
orchestrator_ends(r) ==
    /\ orchestrators[r].stage = "thinking"
    /\ orchestrators' = [orchestrators EXCEPT ![r].stage = "done"]
    /\ UNCHANGED <<secret, time, _master_token_ref, branches, derivations, crossed>>

clock_ticks ==
    /\ time < MaxTime
    /\ time' = time + 1
    /\ UNCHANGED <<secret, _master_token_ref, orchestrators, branches, derivations, crossed>>

-----------------------------------------------------------------------------

BranchStep(r) ==
    \E i \in DOMAIN branches[r] :
        _run_branch(r, i) \/ branch_ends(r, i, "success") \/ branch_ends(r, i, "error")

FanOutNext ==
    \/ \E r \in Runs :
         \/ run_orchestrator(r) \/ spawn_researcher(r) \/ fan_out_researchers(r)
         \/ BranchStep(r) \/ fan_out(r) \/ _spawn_researcher_sub_agent(r) \/ orchestrator_ends(r)
    \/ clock_ticks

FanOutSpec == FanOutInit /\ [][FanOutNext]_fanOutVars

-----------------------------------------------------------------------------
(* Properties                                                              *)

(* A derived token is within its parent: no tool, no data class and no     *)
(* moment more, however the two clock readings and the rounding fall       *)
(* (derive_task_token).                                                    *)
ChildWithinParent ==
    \A d \in derivations :
        /\ d[1].tools \subseteq d[2].tools /\ d[1].classes \subseteq d[2].classes
        /\ d[1].expires_at <= d[2].expires_at
        /\ d[1].run_id = d[2].run_id

(* A sub-agent that gets a token gets one that is still valid when it      *)
(* starts, and with a secret it always gets one: a master token that       *)
(* expired is not handed on (derive_task_token, run_researcher).           *)
StartsValid ==
    \A r \in Runs : \A i \in DOMAIN branches[r] :
        branches[r][i].state # "waiting" /\ secret =>
            branches[r][i].started < branches[r][i].token.expires_at

(* While runs follow one another, a sub-agent works under the token of its *)
(* own run or one of its own, never under that of an earlier run, which    *)
(* _master_token_ref still holds when the next run begins.                 *)
TokenOfOwnRun ==
    ~crossed => \A r \in Runs : \A i \in DOMAIN branches[r] :
                    branches[r][i].token.run_id \in {r, SubRun}

(* The semaphore of a fan-out is exact: a branch that fails gives its slot *)
(* back like one that succeeds, so the others get theirs (fan_out).        *)
SlotsExact ==
    \A r \in Runs : orchestrators[r].stage = "fan_out" =>
        orchestrators[r].free
            + Cardinality({i \in DOMAIN branches[r] : branches[r][i].state = "running"}) = Cap

(* A sub-agent's token is within its parent's, valid when it starts and of *)
(* the run that started it, and no slot of a fan-out is lost, however runs *)
(* and branches interleave with the clock (derive_task_token,              *)
(* src/agents/fan_out.py).                                                 *)
FanOutInvariant ==
    /\ FanOutTypeOK
    /\ ChildWithinParent
    /\ StartsValid
    /\ TokenOfOwnRun
    /\ SlotsExact

=============================================================================
