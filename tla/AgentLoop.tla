----------------------------- MODULE AgentLoop -----------------------------
(***************************************************************************)
(* One agent graph run after run on a thread: the nodes and routes of the  *)
(* base agent, the researcher and the orchestrator (src/base_graph.py,     *)
(* src/agents/researcher.py, src/agents/orchestrator.py), SecureToolNode   *)
(* and the safeguards they share (src/safeguards.py).                      *)
(*                                                                         *)
(* A message is kept only as what routing and the checks look at: who      *)
(* spoke last, the tool calls of the last answer, and which tool calls     *)
(* have no ToolMessage.  LangGraph raises when a run takes more than       *)
(* RecursionLimit supersteps; the limit is max_steps, but one step of the  *)
(* agent with tools is two supersteps.                                     *)
(***************************************************************************)
EXTENDS Integers, Sequences, FiniteSets

CONSTANTS
    Calls,              \* signatures of tool calls: name and arguments
    Granted,            \* those whose tool a task token grants
    MaxSteps,           \* max_steps of the state
    RecursionLimit,     \* recursion_limit of the run's config
    MaxErrors,          \* settings.safeguards.max_errors_per_run
    TokenBudget,        \* settings.safeguards.default_token_budget
    LoopWindow,         \* settings.safeguards.loop_detection_window
    LoopThreshold,      \* settings.safeguards.loop_detection_threshold
    MaxVerifyRounds,    \* MAX_VERIFY_ROUNDS of the orchestrator
    MaxCalls,           \* bound: tool calls in one message
    MaxTokens,          \* bound: tokens of one call of the model
    MaxTurns            \* bound: runs on the thread

ASSUME AgentAssumption ==
    /\ Granted \subseteq Calls
    /\ MaxSteps \in Nat \ {0} /\ RecursionLimit \in Nat
    /\ MaxErrors \in Nat \ {0} /\ TokenBudget \in Nat \ {0}
    /\ LoopWindow \in Nat \ {0} /\ LoopThreshold \in Nat \ {0, 1}
    /\ MaxVerifyRounds \in Nat /\ MaxCalls \in Nat /\ MaxTokens \in Nat
    /\ MaxTurns \in Nat

VARIABLES
    graph,              \* which of the three graphs runs
    node,               \* the node to run next; "idle", "end", "raised"
    step_count, error_count, token_count, verify_rounds,
    force_end, loop_detected, hitl_pending,
    action_history,     \* signatures of the calls that came to loop detection
    last_message,       \* "human", "ai" or "tool"
    tool_calls,         \* tool calls of the last answer
    unanswered,         \* those (by position) that have no ToolMessage
    left_open,          \* an earlier answer has calls without ToolMessage
    tool_run,           \* SecureToolNode's local state
    task_token,         \* "none", "valid" or "invalid" (expired)
    tool_results,       \* what the finalizer finds among the ToolMessages
    result,             \* kind of the run's result
    request,            \* the latest row of hitl_pending of this thread
    supersteps,         \* supersteps of this run
    turn,               \* runs so far
    requested,          \* history: a review was requested on this thread
    repeats             \* history: rounds of tools in a row that ended with
                        \* the same call; a review of another one breaks the row

agentVars == <<graph, node, step_count, error_count, token_count,
               verify_rounds, force_end, loop_detected, hitl_pending,
               action_history, last_message, tool_calls, unanswered,
               left_open, tool_run, task_token, tool_results, result, request,
               supersteps, turn, requested, repeats>>

rest == <<task_token, tool_results, result, request, turn, requested, repeats>>

safeguards == <<step_count, error_count, token_count, force_end,
                loop_detected, hitl_pending, action_history>>

Graphs == {"base_agent", "researcher", "orchestrator"}
Nodes == {"agent", "tools", "verify", "finalize", "hitl_gate"}
Messages == {<<c>> : c \in Calls} \cup (IF MaxCalls < 2 THEN {} ELSE Calls \X Calls)
Speakers == {"human", "ai", "tool"}

NoToolRun == [at |-> 1, approved |-> {}, skipped |-> {}, noted |-> <<>>]

AgentTypeOK ==
    /\ graph \in Graphs /\ node \in Nodes \cup {"idle", "end", "raised"}
    /\ step_count \in 0 .. MaxSteps /\ error_count \in 0 .. MaxErrors
    /\ token_count \in 0 .. TokenBudget + 2 * MaxTokens
    /\ verify_rounds \in 0 .. MaxVerifyRounds
    /\ force_end \in BOOLEAN /\ loop_detected \in BOOLEAN /\ hitl_pending \in BOOLEAN
    /\ action_history \in Seq(Calls) /\ Len(action_history) <= 2 * LoopWindow
    /\ last_message \in Speakers
    /\ tool_calls \in Messages \cup {<<>>}
    /\ unanswered \subseteq DOMAIN tool_calls
    /\ tool_run.approved \cap tool_run.skipped = {}
    /\ request \in {"none", "pending", "approved", "rejected"}
    /\ task_token \in {"none", "valid", "invalid"}
    /\ tool_results \subseteq {"skipped", "real"}
    /\ result \in {"none", "plain", "flagged", "halted"}
    /\ supersteps \in 0 .. RecursionLimit

AgentInit ==
    /\ graph = "base_agent" /\ node = "idle"
    /\ step_count = 0 /\ error_count = 0 /\ token_count = 0 /\ verify_rounds = 0
    /\ force_end = FALSE /\ loop_detected = FALSE /\ hitl_pending = FALSE
    /\ action_history = <<>> /\ last_message = "human"
    /\ tool_calls = <<>> /\ unanswered = {} /\ left_open = FALSE
    /\ tool_run = NoToolRun /\ request = "none" /\ task_token = "none"
    /\ tool_results = {} /\ result = "none"
    /\ supersteps = 0 /\ turn = 0 /\ requested = FALSE /\ repeats = 0

-----------------------------------------------------------------------------
(* Safeguards.  An operator with primed variables reads the state that the *)
(* node hands to the router.                                               *)

Count(s, c) == Cardinality({i \in DOMAIN s : s[i] = c})
Newest(s, n) == SubSeq(s, IF Len(s) > n THEN Len(s) - n + 1 ELSE 1, Len(s))

ends_with(c) == action_history # <<>> /\ action_history[Len(action_history)] = c

detect_action_loop(c) ==
    LET history == Newest(Append(action_history, c), 2 * LoopWindow)
    IN  [history |-> history,
         loop_detected |-> Count(Newest(history, LoopWindow), c) >= LoopThreshold]

check_step_limit == step_count' >= MaxSteps

check_safeguards ==
    IF \/ force_end' \/ loop_detected' \/ check_step_limit
       \/ error_count' >= MaxErrors
    THEN "end"
    ELSE IF hitl_pending' THEN "hitl" ELSE "continue"

(* A variant: the total before this answer is compared.                    *)
check_token_budget_before(used) ==
    /\ token_count' = token_count + used
    /\ force_end' = (token_count > TokenBudget)

check_token_budget(used) ==
    /\ token_count' = token_count + used
    /\ force_end' = (token_count + used >= TokenBudget)

record_error ==
    /\ error_count' = error_count + 1
    /\ force_end' = (error_count + 1 >= MaxErrors)

-----------------------------------------------------------------------------
(* Routes                                                                  *)

(* The base agent has no tools; done stands for the phrases it looks for.  *)
route_after_agent(done) ==
    CASE check_safeguards = "hitl" -> "hitl_gate"
      [] check_safeguards = "end"  -> "finalize"
      [] OTHER                     -> IF done THEN "finalize" ELSE "agent"

route_after_researcher ==
    CASE check_safeguards = "end" -> "finalize"
      [] check_safeguards # "end" /\ last_message' = "ai" /\ tool_calls' # <<>> -> "tools"
      [] OTHER -> "finalize"

route_after_orchestrator ==
    CASE check_safeguards = "end" -> "finalize"
      [] check_safeguards # "end" /\ last_message' = "ai" /\ tool_calls' # <<>> -> "tools"
      [] OTHER -> "verify"

route_after_verify ==
    IF last_message' = "human" /\ verify_rounds' > 0 THEN "agent" ELSE "finalize"

add_edges ==
    \/ graph = "base_agent" /\ \E done \in BOOLEAN : node' = route_after_agent(done)
    \/ graph = "researcher" /\ node' = route_after_researcher
    \/ graph = "orchestrator" /\ node' = route_after_orchestrator

-----------------------------------------------------------------------------
(* A run                                                                   *)

(* SafeguardedState.initial: every run sets all safeguards anew.  In a      *)
(* session the messages of the turns before stay on the thread.            *)
initial(g, session, token) ==
    /\ node \in {"idle", "end", "raised"} /\ turn < MaxTurns
    /\ turn' = turn + 1 /\ graph' = g
    /\ node' = "agent" /\ supersteps' = 0
    /\ step_count' = 0 /\ error_count' = 0 /\ token_count' = 0 /\ verify_rounds' = 0
    /\ force_end' = FALSE /\ loop_detected' = FALSE /\ hitl_pending' = FALSE
    /\ action_history' = <<>> /\ last_message' = "human" /\ repeats' = 0
    /\ tool_calls' = <<>> /\ unanswered' = {}
    /\ left_open' = (session /\ (left_open \/ unanswered # {}))
    /\ tool_results' = IF session THEN tool_results ELSE {}
    /\ task_token' = token /\ result' = "none"
    /\ requested' = (session /\ requested)
    /\ request' = IF session THEN request ELSE "none"
    /\ UNCHANGED tool_run

(* The base agent gets the token it is given; the researcher issues one    *)
(* when it can; the orchestrator always gets a thread of its own.          *)
run_agent == \E session \in BOOLEAN : initial("base_agent", session, "none")

run_researcher ==
    \E session \in BOOLEAN, token \in {"none", "valid"} :
        initial("researcher", session, token)

orchestrator_run == \E token \in {"none", "valid"} : initial("orchestrator", FALSE, token)

superstep == supersteps < RecursionLimit /\ supersteps' = supersteps + 1

(* LangGraph raises GraphRecursionError; the task fails.                   *)
recursion_error ==
    /\ node \in Nodes /\ supersteps = RecursionLimit
    /\ node' = "raised"
    /\ UNCHANGED <<graph, safeguards, verify_rounds, last_message, tool_calls,
                   unanswered, left_open, tool_run, supersteps, rest>>

(* What a message added to the thread does to the calls before it.         *)
append_answer(calls) ==
    /\ last_message' = "ai" /\ tool_calls' = calls
    /\ unanswered' = DOMAIN calls
    /\ left_open' = (left_open \/ unanswered # {})

(* A halt set before: the model is not called.                             *)
agent_skips ==
    /\ node = "agent" /\ force_end /\ superstep
    /\ step_count' = step_count + 1
    /\ UNCHANGED <<error_count, token_count, force_end, loop_detected,
                   hitl_pending, action_history, last_message, tool_calls,
                   unanswered, left_open>>
    /\ add_edges
    /\ UNCHANGED <<graph, verify_rounds, tool_run, rest>>

(* What the model answers.  The base agent has no tools.                   *)
base_agent_node == graph = "base_agent" /\ append_answer(<<>>)

(* The researcher's first step must call a tool: the model is bound to, is *)
(* asked again, and at last the call is made up for it.                    *)
researcher_agent_node ==
    /\ graph = "researcher"
    /\ \E calls \in Messages \cup {<<>>} :
         (step_count = 0 => calls # <<>>) /\ append_answer(calls)

(* So must the orchestrator's; with results before it, it cannot call any. *)
orchestrator_agent_node ==
    /\ graph = "orchestrator"
    /\ \E calls \in Messages \cup {<<>>} :
         /\ step_count = 0 => calls # <<>>
         /\ (step_count > 0 /\ last_message = "tool") => calls = <<>>
         /\ append_answer(calls)

agent_node ==
    /\ node = "agent" /\ ~force_end /\ superstep
    /\ step_count' = step_count + 1
    /\ \E used \in 0 .. MaxTokens : check_token_budget(used)
    /\ base_agent_node \/ researcher_agent_node \/ orchestrator_agent_node
    /\ UNCHANGED <<error_count, loop_detected, hitl_pending, action_history>>
    /\ add_edges
    /\ tool_run' = [NoToolRun EXCEPT !.noted = action_history]
    /\ UNCHANGED <<graph, verify_rounds, rest>>

(* The handlers of the base agent and the researcher add an answer that    *)
(* describes the error; the orchestrator's adds nothing.                   *)
error_message ==
    IF graph = "orchestrator"
    THEN UNCHANGED <<last_message, tool_calls, unanswered, left_open>>
    ELSE append_answer(<<>>)

(* The budget check, the model or what follows raises; tokens are kept     *)
(* when the answer had come, but force_end is the handler's.               *)
agent_raises ==
    /\ node = "agent" /\ ~force_end /\ superstep
    /\ step_count' = step_count + 1
    /\ \E used \in 0 .. (IF step_count = 0 /\ graph # "base_agent" THEN MaxTokens ELSE 0) :
         token_count' = token_count + used
    /\ record_error
    /\ error_message
    /\ UNCHANGED <<loop_detected, hitl_pending, action_history>>
    /\ add_edges
    /\ tool_run' = [NoToolRun EXCEPT !.noted = action_history]
    /\ UNCHANGED <<graph, verify_rounds, rest>>

(* The orchestrator's reviewer accepts, or fails, or finds no answer; or   *)
(* it asks for one more round.                                             *)
verify_node ==
    /\ node = "verify" /\ superstep
    /\ \/ UNCHANGED <<verify_rounds, last_message, tool_calls, unanswered, left_open>>
       \/ /\ verify_rounds < MaxVerifyRounds
          /\ verify_rounds' = verify_rounds + 1
          /\ last_message' = "human" /\ tool_calls' = <<>> /\ unanswered' = {}
          /\ left_open' = (left_open \/ unanswered # {})
    /\ node' = route_after_verify
    /\ UNCHANGED <<graph, safeguards, tool_run, rest>>

(* The base agent explains why it was halted, or gives its last message.   *)
base_finalizer_node ==
    graph = "base_agent" /\ result' = IF force_end THEN "halted" ELSE "plain"

(* The researcher's answer carries a warning when lookups were skipped, or *)
(* when the model says itself that its data is not verified.               *)
researcher_finalizer_node ==
    /\ graph = "researcher"
    /\ IF force_end THEN result' = "halted"
       ELSE result' \in IF "skipped" \in tool_results THEN {"flagged"}
                        ELSE {"flagged", "plain"}

orchestrator_finalizer_node == graph = "orchestrator" /\ result' = "plain"

finalizer_node ==
    /\ node = "finalize" /\ superstep
    /\ base_finalizer_node \/ researcher_finalizer_node \/ orchestrator_finalizer_node
    /\ node' = "end"
    /\ UNCHANGED <<graph, safeguards, verify_rounds, last_message, tool_calls,
                   unanswered, left_open, tool_run, task_token, tool_results,
                   request, turn, requested, repeats>>

-----------------------------------------------------------------------------
(* SecureToolNode: one call after the other is checked, then the approved  *)
(* ones run.                                                               *)

checking == node = "tools" /\ supersteps < RecursionLimit
            /\ tool_run.at <= Len(tool_calls)

this_call == tool_calls[tool_run.at]

(* A run without a token may use every tool.                               *)
validate_acl_token(c) ==
    \/ task_token = "none"
    \/ task_token = "valid" /\ c \in Granted

(* The node returns: the answers it gives, which of them say that the call *)
(* was skipped, and back to the agent.                                     *)
tools_return(answers, skipped) ==
    /\ UNCHANGED <<task_token, result>>
    /\ node' = "agent" /\ superstep
    /\ unanswered' = unanswered \ answers
    /\ last_message' = IF answers = {} THEN last_message ELSE "tool"
    /\ tool_results' = tool_results
         \cup (IF skipped # {} THEN {"skipped"} ELSE {})
         \cup (IF answers \ skipped # {} THEN {"real"} ELSE {})
    /\ tool_run' = NoToolRun
    /\ UNCHANGED <<graph, step_count, error_count, token_count, verify_rounds,
                   tool_calls, left_open, turn>>

(* A variant: the registry's failure does not end the run.                 *)
registry_fails_softly ==
    /\ checking
    /\ tools_return(tool_run.skipped \cup {tool_run.at}, tool_run.skipped)
    /\ force_end' = FALSE /\ loop_detected' = FALSE
    /\ action_history' = tool_run.noted
    /\ UNCHANGED <<hitl_pending, request, requested, repeats>>

(* Not in the registry: this call and those skipped before get an answer.  *)
registry_fails ==
    /\ checking
    /\ tools_return(tool_run.skipped \cup {tool_run.at}, tool_run.skipped)
    /\ force_end' = TRUE /\ loop_detected' = FALSE
    /\ action_history' = tool_run.noted
    /\ UNCHANGED <<hitl_pending, request, requested, repeats>>

(* The token does not grant the tool: every call gets an answer.           *)
acl_denies ==
    /\ checking /\ ~validate_acl_token(this_call)
    /\ tools_return(DOMAIN tool_calls, {})
    /\ force_end' = TRUE /\ loop_detected' = FALSE
    /\ UNCHANGED <<hitl_pending, action_history, request, requested, repeats>>

granted == checking /\ validate_acl_token(this_call)

(* The guardian finds a violation, cannot be reached or answers nonsense.  *)
guardian_halts ==
    /\ granted
    /\ tools_return(DOMAIN tool_calls, {})
    /\ force_end' = TRUE /\ loop_detected' = FALSE
    /\ UNCHANGED <<hitl_pending, action_history, request, requested, repeats>>

(* It asks to skip this call only.                                         *)
guardian_sandboxes ==
    /\ granted
    /\ tool_run' = [tool_run EXCEPT !.at = @ + 1, !.skipped = @ \cup {tool_run.at}]
    /\ UNCHANGED <<graph, node, safeguards, verify_rounds, last_message,
                   tool_calls, unanswered, left_open, supersteps, rest>>

loop_halts ==
    /\ granted /\ detect_action_loop(this_call).loop_detected
    /\ tools_return({}, {})
    /\ force_end' = TRUE /\ loop_detected' = TRUE
    /\ action_history' = detect_action_loop(this_call).history
    /\ UNCHANGED <<hitl_pending, request, requested, repeats>>

no_loop == granted /\ ~detect_action_loop(this_call).loop_detected

(* An injection in the arguments or an address that must not be fetched.   *)
arguments_halt ==
    /\ no_loop
    /\ tools_return({}, {})
    /\ force_end' = TRUE /\ loop_detected' = FALSE
    /\ UNCHANGED <<hitl_pending, action_history, request, requested, repeats>>

(* check_hitl_required: a category for review makes a row and ends the     *)
(* round; one that ends the run by force does so only without a row.       *)
hitl_requests ==
    /\ no_loop
    /\ tools_return({}, {})
    /\ request' = "pending" /\ requested' = TRUE
    /\ hitl_pending' = TRUE
    /\ force_end' = FALSE /\ loop_detected' = FALSE
    /\ action_history' = detect_action_loop(this_call).history
    /\ repeats' = IF ends_with(this_call) THEN repeats ELSE 0

hitl_forces_end ==
    /\ no_loop
    /\ tools_return({}, {})
    /\ force_end' = TRUE /\ loop_detected' = FALSE
    /\ action_history' = detect_action_loop(this_call).history
    /\ UNCHANGED <<hitl_pending, request, requested, repeats>>

approve_call ==
    /\ no_loop
    /\ tool_run' = [at |-> tool_run.at + 1,
                    approved |-> tool_run.approved \cup {tool_run.at},
                    skipped |-> tool_run.skipped,
                    noted |-> detect_action_loop(this_call).history]
    /\ UNCHANGED <<graph, node, safeguards, verify_rounds, last_message,
                   tool_calls, unanswered, left_open, supersteps, rest>>

(* The approved calls run, the skipped ones get their answers.  A result   *)
(* with an injection may end the run; every call has an answer then too.   *)
run_tools ==
    /\ node = "tools" /\ tool_run.at > Len(tool_calls)
    /\ \E injected \in BOOLEAN :
         /\ injected => tool_run.approved # {}
         /\ tools_return(DOMAIN tool_calls, IF injected THEN {} ELSE tool_run.skipped)
         /\ force_end' = injected
         /\ loop_detected' = FALSE
         /\ action_history' = IF injected THEN action_history ELSE tool_run.noted
    /\ repeats' = IF tool_run.approved = {} THEN repeats
                  ELSE IF ends_with(tool_run.noted[Len(tool_run.noted)]) THEN repeats + 1 ELSE 1
    /\ UNCHANGED <<hitl_pending, request, requested>>

(* The token's lifetime ends.                                              *)
token_expires ==
    /\ task_token = "valid" /\ node \in Nodes
    /\ task_token' = "invalid"
    /\ UNCHANGED <<graph, node, safeguards, verify_rounds, last_message,
                   tool_calls, unanswered, left_open, tool_run, tool_results,
                   result, request, supersteps, turn, requested, repeats>>

(* An operator decides (src/gateway/routes/hitl.py).                       *)
operator_decides ==
    /\ request = "pending"
    /\ request' \in {"approved", "rejected"}
    /\ UNCHANGED <<graph, node, safeguards, verify_rounds, last_message,
                   tool_calls, unanswered, left_open, tool_run, task_token,
                   tool_results, result, supersteps, turn, requested, repeats>>

-----------------------------------------------------------------------------

SecureToolNode ==
    \/ registry_fails \/ acl_denies \/ guardian_halts \/ guardian_sandboxes
    \/ loop_halts \/ arguments_halt \/ hitl_requests \/ hitl_forces_end
    \/ approve_call \/ run_tools

AgentNext ==
    \/ run_agent \/ run_researcher \/ orchestrator_run
    \/ recursion_error
    \/ agent_skips \/ agent_node \/ agent_raises
    \/ verify_node \/ finalizer_node
    \/ SecureToolNode
    \/ token_expires \/ operator_decides

AgentSpec == AgentInit /\ [][AgentNext]_agentVars

-----------------------------------------------------------------------------
(* Properties                                                              *)

(* "Calling the LLM with dangling tool_calls (no ToolMessage) produces     *)
(* empty content" (src/base_graph.py 149): on a thread where no review was *)
(* asked for and that starts clean, no model is called while a tool call   *)
(* has no answer, whichever check of SecureToolNode ended the round.       *)
NoDanglingPrompt ==
    (node = "agent" /\ ~force_end /\ ~requested /\ ~left_open) => unanswered = {}

(* Rounds of tools in a row that end with the same call are fewer than the *)
(* threshold, as far as the window reaches (detect_action_loop).           *)
RepeatBound == LoopThreshold <= LoopWindow => repeats < LoopThreshold

tools_execute == node = "tools" /\ tool_run.at > Len(tool_calls)

(* "force_end: set by any safeguard to terminate graph" (src/safeguards.py *)
(* 51): once it is set no model is called and no tool runs in this run.    *)
ForceEndFinal ==
    [][turn' = turn /\ force_end => /\ force_end'
                                    /\ node' \in {"agent", "finalize", "end", "raised"}
                                    /\ tool_calls' = tool_calls]_agentVars

(* The researcher and the base agent stop calling the model once the run's *)
(* token budget is spent, also when the answer that spent it was followed  *)
(* by an error.                                                            *)
BudgetStops ==
    [][(graph # "orchestrator" /\ turn' = turn /\ step_count' = step_count + 1 /\ ~force_end)
         => token_count < TokenBudget]_agentVars

(* "Without this, the finalizer would see the HumanMessage and echo it     *)
(* back" (src/base_graph.py 280): the base agent and the researcher finish *)
(* with something other than the question.                                 *)
NoEcho == (graph # "orchestrator" /\ node = "finalize") => last_message # "human"

(* "Detect when the LLM synthesised from memory because real-time tool     *)
(* calls were blocked" (src/agents/researcher.py 605): an answer without a *)
(* warning, of a run without errors, step limit or review, had a tool run  *)
(* for it in that run.                                                     *)
UngroundedFlagged ==
    (/\ graph = "researcher" /\ node = "end" /\ result = "plain"
     /\ error_count = 0 /\ step_count < MaxSteps /\ ~requested)
        => repeats > 0

(* "The graph is paused at the checkpoint; execution resumes only when an  *)
(* operator calls POST /hitl/{request_id}/approve" (src/safeguards.py      *)
(* 389): while the review a run asked for is pending, the run calls no     *)
(* model and runs no tool.                                                 *)
PausedUntilDecided ==
    [][(turn' = turn /\ hitl_pending /\ request = "pending")
         => step_count' = step_count /\ ~tools_execute]_agentVars

(* What a safeguard ended stays ended, and a spent budget buys no further  *)
(* call of the model (check_safeguards, src/safeguards.py).                *)
SafeguardsStop == ForceEndFinal /\ BudgetStops

(* What a run says is sound at every point: no open tool call reaches the  *)
(* model, no call is repeated past the threshold, and the answer is neither *)
(* the question nor made up without a warning (src/base_graph.py).         *)
AgentInvariant ==
    /\ AgentTypeOK
    /\ NoDanglingPrompt
    /\ RepeatBound
    /\ NoEcho
    /\ UngroundedFlagged

=============================================================================
