--------------------------- MODULE ReviewWorkflow ---------------------------
(***************************************************************************)
(* What agents propose and operators decide: crystallization candidates,   *)
(* packages and their analyses, the registry entry an approved package     *)
(* becomes, and threat rules (src/agents/observer.py, crystallizer.py and  *)
(* threat_analyst.py, src/tools/crystallization_analyzer.py, src/health.py *)
(* 172-240 and 581-875, src/database.py 3419-4147).  The statements of one *)
(* function commit one by one, and operators' requests run beside the      *)
(* agents.                                                                 *)
(***************************************************************************)
EXTENDS Integers, FiniteSets

CONSTANTS
    Candidates,         \* ids of crystallization_candidates
    Packages,           \* ids of crystallization_packages, fresh ones
    Rules,              \* ids of threat_rules
    MaxRevisions        \* bound: packages sent back for revision

ASSUME ReviewAssumption == MaxRevisions \in Nat

VARIABLES
    candidates,         \* status of each candidate
    packages,           \* status of each package
    submission,         \* next step of the submission of each package
    reports,            \* report of its analysis, NoReport before it is made
    analyses,           \* packages with a row in crystallization_analyses
    approving,          \* packages approved by a request that has yet to sign
    registry,           \* status of the crystallized tool in tool_registry
    signed,             \* packages whose approval registered the tool
    rules,              \* status of each threat rule
    revisions,          \* packages sent back so far
    verdicts            \* history: <<rule, decision>> answered to operators

reviewVars == <<candidates, packages, submission, reports, analyses, approving,
                registry, signed, rules, revisions, verdicts>>

PackageStatus == {"absent", "PENDING_ANALYSIS", "REJECTED_BY_ANALYSIS",
                  "READY_FOR_REVIEW", "APPROVED", "REJECTED"}
RuleVerdicts == {"APPROVED", "REJECTED"}

(* What the analyzer finds: none but failed tests can be a matter of degree *)
(* (a package has three test cases or more).                               *)
Findings == {"forbidden_constructs", "undeclared_dependencies", "security_findings"}
PassRates == {"below_80", "below_95", "high"}
NoReport == [status |-> "none", recommendation |-> "none"]

ReviewTypeOK ==
    /\ candidates \in [Candidates -> {"absent", "NOMINATED", "IN_PROGRESS"}]
    /\ packages \in [Packages -> PackageStatus]
    /\ submission \in [Packages -> {"none", "inserted", "analyze", "persist", "stored", "over"}]
    /\ reports \in [Packages ->
          [status : {"REJECTED_BY_ANALYSIS", "READY_FOR_REVIEW"},
           recommendation : {"REJECT", "APPROVE", "NEEDS_REVISION"}] \cup {NoReport}]
    /\ analyses \subseteq Packages /\ approving \subseteq Packages /\ signed \subseteq Packages
    /\ registry \in {"absent", "APPROVED", "REVOKED"}
    /\ rules \in [Rules -> {"absent", "PENDING"} \cup RuleVerdicts]
    /\ revisions \in 0 .. MaxRevisions
    /\ verdicts \subseteq Rules \X RuleVerdicts

ReviewInit ==
    /\ candidates = [c \in Candidates |-> "absent"]
    /\ packages = [p \in Packages |-> "absent"]
    /\ submission = [p \in Packages |-> "none"]
    /\ reports = [p \in Packages |-> NoReport]
    /\ analyses = {} /\ approving = {} /\ signed = {}
    /\ registry = "absent"
    /\ rules = [r \in Rules |-> "absent"]
    /\ revisions = 0 /\ verdicts = {}

ruleVars == <<rules, verdicts>>
operatorVars == <<approving, registry, signed, revisions>>

-----------------------------------------------------------------------------
(* The Observer and the Crystallizer                                       *)

(* INSERT ... ON CONFLICT DO UPDATE: what is there keeps its status.       *)
upsert_candidate(c) ==
    candidates' = [candidates EXCEPT ![c] = IF @ = "absent" THEN "NOMINATED" ELSE @]

(* The tool of the Observer takes a fresh id: it never nominates again     *)
(* what is there.                                                          *)
nominate_candidate(c) ==
    /\ candidates[c] = "absent"
    /\ upsert_candidate(c)
    /\ UNCHANGED <<packages, submission, reports, analyses, operatorVars, ruleVars>>

(* The first statement of create_package, for a candidate that was read.   *)
insert_package(p) ==
    /\ submission[p] = "none"
    /\ \E c \in Candidates : candidates[c] # "absent"
    /\ packages' = [packages EXCEPT ![p] = "PENDING_ANALYSIS"]
    /\ submission' = [submission EXCEPT ![p] = "inserted"]
    /\ UNCHANGED <<candidates, reports, analyses, operatorVars, ruleVars>>

(* The second: the candidate it is for is marked unless it already was.    *)
mark_candidate(p, c) ==
    /\ submission[p] = "inserted" /\ candidates[c] # "absent"
    /\ candidates' = [candidates EXCEPT ![c] = "IN_PROGRESS"]
    /\ submission' = [submission EXCEPT ![p] = "analyze"]
    /\ UNCHANGED <<packages, reports, analyses, operatorVars, ruleVars>>

create_package(p) == insert_package(p) \/ \E c \in Candidates : mark_candidate(p, c)

(* Step 6 of analyze_package: the automatic rejection and what is         *)
(* recommended to the reviewer otherwise.                                  *)
decide_package(found, rate) ==
    IF found # {} \/ rate = "below_80"
    THEN [status |-> "REJECTED_BY_ANALYSIS", recommendation |-> "REJECT"]
    ELSE [status |-> "READY_FOR_REVIEW",
          recommendation |-> IF rate = "high" THEN "APPROVE" ELSE "NEEDS_REVISION"]

(* The row was read; the checks run for as long as they take, without the  *)
(* database.                                                               *)
analyze_package(p) ==
    /\ submission[p] = "analyze"
    /\ \E found \in SUBSET Findings, rate \in PassRates :
         reports' = [reports EXCEPT ![p] = decide_package(found, rate)]
    /\ submission' = [submission EXCEPT ![p] = "persist"]
    /\ UNCHANGED <<candidates, packages, analyses, operatorVars, ruleVars>>

(* The first statement of create_analysis: the report.                     *)
insert_analysis(p) ==
    /\ submission[p] = "persist"
    /\ analyses' = analyses \cup {p}
    /\ submission' = [submission EXCEPT ![p] = "stored"]
    /\ UNCHANGED <<candidates, packages, reports, operatorVars, ruleVars>>

(* The second: the package gets the status of the report, whatever its     *)
(* status is by now.                                                       *)
update_package_status(p) ==
    /\ submission[p] = "stored"
    /\ packages' = [packages EXCEPT ![p] = reports[p].status]
    /\ submission' = [submission EXCEPT ![p] = "over"]
    /\ UNCHANGED <<candidates, reports, analyses, operatorVars, ruleVars>>

(* A variant: the status first, the report after it.                       *)
create_analysis_status_first(p) ==
    \/ /\ submission[p] = "persist"
       /\ packages' = [packages EXCEPT ![p] = reports[p].status]
       /\ submission' = [submission EXCEPT ![p] = "stored"]
       /\ UNCHANGED <<candidates, reports, analyses, operatorVars, ruleVars>>
    \/ /\ submission[p] = "stored"
       /\ analyses' = analyses \cup {p}
       /\ submission' = [submission EXCEPT ![p] = "over"]
       /\ UNCHANGED <<candidates, packages, reports, operatorVars, ruleVars>>

create_analysis(p) == insert_analysis(p) \/ update_package_status(p)

(* A statement fails, or the process ends: what was written stays, and     *)
(* nobody takes the submission up again.                                   *)
submission_breaks_off(p) ==
    /\ submission[p] \notin {"none", "over"}
    /\ submission' = [submission EXCEPT ![p] = "over"]
    /\ UNCHANGED <<candidates, packages, reports, analyses, operatorVars, ruleVars>>

submit_crystallization_package(p) ==
    create_package(p) \/ analyze_package(p) \/ create_analysis(p) \/ submission_breaks_off(p)

-----------------------------------------------------------------------------
(* The operators' requests on packages and on the tool                     *)

approve_package(p) ==
    /\ packages[p] = "READY_FOR_REVIEW"
    /\ packages' = [packages EXCEPT ![p] = "APPROVED"]

(* The endpoint: approved first, then signed and registered.               *)
crystallization_approve(p) ==
    /\ approve_package(p)
    /\ approving' = approving \cup {p}
    /\ UNCHANGED <<candidates, submission, reports, analyses, registry, signed,
                   revisions, ruleVars>>

(* register_tool inserts the tool or updates it: its status is APPROVED    *)
(* from then on, whatever it was.                                          *)
register_crystallized == registry' = "APPROVED"

_sign_and_register(p) ==
    /\ p \in approving
    /\ register_crystallized
    /\ approving' = approving \ {p}
    /\ signed' = signed \cup {p}
    /\ UNCHANGED <<candidates, packages, submission, reports, analyses, revisions,
                   ruleVars>>

(* The package cannot be read again (207), or the process ends.            *)
signing_skipped(p) ==
    /\ p \in approving
    /\ approving' = approving \ {p}
    /\ UNCHANGED <<candidates, packages, submission, reports, analyses, registry,
                   signed, revisions, ruleVars>>

(* Any package that waits, analysed or not.                                *)
reject_package(p) ==
    /\ packages[p] \in {"READY_FOR_REVIEW", "PENDING_ANALYSIS"}
    /\ packages' = [packages EXCEPT ![p] = "REJECTED"]

crystallization_reject(p) ==
    /\ reject_package(p)
    /\ UNCHANGED <<candidates, submission, reports, analyses, approving, registry,
                   signed, revisions, ruleVars>>

revise_package(p) ==
    /\ packages[p] = "READY_FOR_REVIEW"
    /\ packages' = [packages EXCEPT ![p] = "PENDING_ANALYSIS"]

crystallization_revise(p) ==
    /\ revisions < MaxRevisions
    /\ revise_package(p)
    /\ revisions' = revisions + 1
    /\ UNCHANGED <<candidates, submission, reports, analyses, approving, registry,
                   signed, ruleVars>>

revoke_crystallized ==
    /\ registry \notin {"absent", "REVOKED"}
    /\ registry' = "REVOKED"

revoke_tool_endpoint ==
    /\ revoke_crystallized
    /\ UNCHANGED <<candidates, packages, submission, reports, analyses, approving,
                   signed, revisions, ruleVars>>

-----------------------------------------------------------------------------
(* Threat rules                                                            *)

propose_threat_rule(r) == rules[r] = "absent" /\ rules' = [rules EXCEPT ![r] = "PENDING"]

propose_rule(r) ==
    /\ propose_threat_rule(r)
    /\ UNCHANGED <<candidates, packages, submission, reports, analyses, operatorVars, verdicts>>

(* approve_threat_rule and reject_threat_rule: UPDATE ... WHERE status =   *)
(* 'PENDING'; the answer says whether a row was updated.                   *)
decide_rule(r, verdict) ==
    /\ rules[r] = "PENDING"
    /\ rules' = [rules EXCEPT ![r] = verdict]
    /\ verdicts' = verdicts \cup {<<r, verdict>>}

approve_rule(r) ==
    /\ decide_rule(r, "APPROVED")
    /\ UNCHANGED <<candidates, packages, submission, reports, analyses, operatorVars>>

reject_rule(r) ==
    /\ decide_rule(r, "REJECTED")
    /\ UNCHANGED <<candidates, packages, submission, reports, analyses, operatorVars>>

-----------------------------------------------------------------------------

ReviewNext ==
    \/ \E c \in Candidates : nominate_candidate(c)
    \/ \E p \in Packages :
         \/ submit_crystallization_package(p)
         \/ crystallization_approve(p) \/ _sign_and_register(p) \/ signing_skipped(p)
         \/ crystallization_reject(p) \/ crystallization_revise(p)
    \/ revoke_tool_endpoint
    \/ \E r \in Rules : propose_rule(r) \/ approve_rule(r) \/ reject_rule(r)

ReviewSpec == ReviewInit /\ [][ReviewNext]_reviewVars

-----------------------------------------------------------------------------
(* Properties                                                              *)

(* Whoever finds a package ready for review or approves it has its report  *)
(* to read, and the report let it through: create_analysis stores it       *)
(* before it moves the package.                                            *)
ReviewedWithReport ==
    \A p \in Packages :
        packages[p] \in {"READY_FOR_REVIEW", "APPROVED"} =>
            p \in analyses /\ reports[p].status = "READY_FOR_REVIEW"

(* The tool is registered only through an approval that was made, and such *)
(* an approval is not taken back: the late answer of an analysis, the      *)
(* rejection or the revision of another request never change a package     *)
(* whose tool is registered or about to be.                                *)
RegisteredStaysApproved ==
    /\ \A p \in signed \cup approving : packages[p] = "APPROVED"
    /\ registry # "absent" => signed # {}

(* Operators who decide on one threat rule at the same time are not told   *)
(* different things, and the row says what they were told.                 *)
RuleDecidedOnce == \A v \in verdicts : rules[v[1]] = v[2]

(* Decisions stand: a package in review has its report, a registered one   *)
(* stays approved and a rule keeps the verdict that was answered, however  *)
(* agents and operators interleave (src/database.py 3419-4147).            *)
ReviewInvariant ==
    /\ ReviewTypeOK
    /\ ReviewedWithReport
    /\ RegisteredStaysApproved
    /\ RuleDecidedOnce

=============================================================================
