---------------------------- MODULE HitlApproval ----------------------------
(***************************************************************************)
(* Rows of hitl_pending and the operators' requests on them                *)
(* (src/gateway/routes/hitl.py; src/database.py 7071-7207).  A request of  *)
(* an operator reads the row, updates it under a condition on its status,  *)
(* and an approval then resumes the graph in the same request, which may   *)
(* fail or end with the process.                                           *)
(***************************************************************************)
EXTENDS Integers, FiniteSets

CONSTANTS
    Reviews,            \* ids of rows of hitl_pending
    Operators,          \* concurrent requests of operators
    MaxDecisions        \* bound: requests of each operator

ASSUME HitlAssumption == MaxDecisions \in Nat

VARIABLES
    hitl_rows,          \* status of each row, "absent" before it is made
    call,               \* what each operator's request does next
    calls_made,         \* requests of each operator so far
    resumed,            \* how often each row's graph was resumed
    told                \* history: answers that confirmed a decision

hitlVars == <<hitl_rows, call, calls_made, resumed, told>>

Decisions == {"approved", "rejected"}
RowStatus == {"absent", "pending"} \cup Decisions
NoCall == [stage |-> "none"]
CallsOf == [stage : {"get", "resolve", "resume"}, review : Reviews, decision : Decisions]

HitlTypeOK ==
    /\ hitl_rows \in [Reviews -> RowStatus]
    /\ call \in [Operators -> CallsOf \cup {NoCall}]
    /\ calls_made \in [Operators -> 0 .. MaxDecisions]
    /\ resumed \in [Reviews -> Nat]
    /\ told \subseteq Reviews \X Decisions

HitlInit ==
    /\ hitl_rows = [r \in Reviews |-> "absent"]
    /\ call = [o \in Operators |-> NoCall]
    /\ calls_made = [o \in Operators |-> 0]
    /\ resumed = [r \in Reviews |-> 0]
    /\ told = {}

-----------------------------------------------------------------------------

(* check_hitl_required makes the row, in the worker.                       *)
create_hitl_request(r) ==
    /\ hitl_rows[r] = "absent"
    /\ hitl_rows' = [hitl_rows EXCEPT ![r] = "pending"]
    /\ UNCHANGED <<call, calls_made, resumed, told>>

(* approve_hitl_request or reject_hitl_request begins.  Its row may not be *)
(* there (404).                                                            *)
begin_request(o, r, d) ==
    /\ call[o] = NoCall /\ calls_made[o] < MaxDecisions
    /\ calls_made' = [calls_made EXCEPT ![o] = @ + 1]
    /\ call' = [call EXCEPT ![o] = [stage |-> "get", review |-> r, decision |-> d]]
    /\ UNCHANGED <<hitl_rows, resumed, told>>

(* The status read before: anything but pending is answered with 409.      *)
get_hitl_request(o) ==
    /\ call[o] # NoCall /\ call[o].stage = "get"
    /\ call' = [call EXCEPT ![o] =
                  IF hitl_rows[call[o].review] = "pending"
                  THEN [call[o] EXCEPT !.stage = "resolve"] ELSE NoCall]
    /\ UNCHANGED <<hitl_rows, calls_made, resumed, told>>

(* A variant: the UPDATE has no condition on the status.                   *)
resolve_any_status(o) ==
    /\ call[o] # NoCall /\ call[o].stage = "resolve"
    /\ hitl_rows' = [hitl_rows EXCEPT ![call[o].review] = call[o].decision]
    /\ call' = [call EXCEPT ![o] =
                  IF call[o].decision = "approved"
                  THEN [call[o] EXCEPT !.stage = "resume"] ELSE NoCall]
    /\ told' = told \cup {<<call[o].review, call[o].decision>>}
    /\ UNCHANGED <<calls_made, resumed>>

(* UPDATE ... WHERE status = 'pending'; no row, no decision (409).         *)
resolve_hitl_request(o) ==
    /\ call[o] # NoCall /\ call[o].stage = "resolve"
    /\ LET r == call[o].review
           updated == hitl_rows[r] = "pending"
       IN  /\ hitl_rows' = IF updated THEN [hitl_rows EXCEPT ![r] = call[o].decision]
                                      ELSE hitl_rows
           /\ call' = [call EXCEPT ![o] =
                         IF updated /\ call[o].decision = "approved"
                         THEN [call[o] EXCEPT !.stage = "resume"] ELSE NoCall]
           /\ told' = IF updated THEN told \cup {<<r, call[o].decision>>} ELSE told
    /\ UNCHANGED <<calls_made, resumed>>

(* The graph of the row's thread is built anew and runs; whether it ends   *)
(* well or raises, the answer is "approved".                               *)
resume_graph(o) ==
    /\ call[o] # NoCall /\ call[o].stage = "resume"
    /\ resumed' = [resumed EXCEPT ![call[o].review] = @ + 1]
    /\ call' = [call EXCEPT ![o] = NoCall]
    /\ UNCHANGED <<hitl_rows, calls_made, told>>

(* The checkpointer cannot be had, the client goes away or the process     *)
(* dies: the row stays as it is and the graph is not resumed.              *)
request_breaks_off(o) ==
    /\ call[o] # NoCall
    /\ call' = [call EXCEPT ![o] = NoCall]
    /\ UNCHANGED <<hitl_rows, calls_made, resumed, told>>

-----------------------------------------------------------------------------

approve_hitl_request(o) ==
    \/ \E r \in Reviews : begin_request(o, r, "approved")
    \/ get_hitl_request(o) \/ resolve_hitl_request(o) \/ resume_graph(o)
    \/ request_breaks_off(o)

reject_hitl_request(o) == \E r \in Reviews : begin_request(o, r, "rejected")

HitlNext ==
    \/ \E r \in Reviews : create_hitl_request(r)
    \/ \E o \in Operators : approve_hitl_request(o) \/ reject_hitl_request(o)

HitlSpec == HitlInit /\ [][HitlNext]_hitlVars

-----------------------------------------------------------------------------
(* Properties                                                              *)

ToResume(r) == {o \in Operators : call[o] # NoCall /\ call[o].stage = "resume"
                                                   /\ call[o].review = r}

(* However many operators decide at the same time, the graph of a row is   *)
(* resumed at most once, and only if the row is and stays approved         *)
(* (resolve_hitl_request updates under status = 'pending').                *)
ResumedOnce ==
    \A r \in Reviews :
        /\ resumed[r] + Cardinality(ToResume(r)) <= 1
        /\ resumed[r] + Cardinality(ToResume(r)) > 0 => hitl_rows[r] = "approved"

(* What an operator was told is what the row says, for good: two operators *)
(* are never told different decisions.                                     *)
ToldAgrees == \A p \in told : hitl_rows[p[1]] = p[2]

(* One decision per request for approval: one resumption at most, and every *)
(* operator is told what the row says (src/gateway/routes/hitl.py).        *)
HitlInvariant ==
    /\ HitlTypeOK
    /\ ResumedOnce
    /\ ToldAgrees

=============================================================================
