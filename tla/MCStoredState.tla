----------------------------- MODULE MCStoredState -----------------------------
(***************************************************************************)
(* Instance for TLC of what the database keeps and what is counted against *)
(* a limit: the audit log, the roles and their rights, submissions and the *)
(* calls of the models.  These components share no state, so `part` picks  *)
(* at the start the one that moves; the states are the sum of theirs.      *)
(***************************************************************************)
EXTENDS AuditLog, DbRoles, DbGrants, Submission, RateLimiter, TLC

CONSTANTS q1, q2, x, y

VARIABLE part       \* the component that moves

storedStateVars == <<part, auditVars, dbRolesVars, dbGrantsVars, submissionVars, limiterVars>>

(* The two roles whose passwords are set up alike, one of them required.   *)
MCRoleOrder == <<"worker", "maintenance">>

(* A right the gateway no longer gives.                                    *)
MCOldRights == {<<"worker", "UPDATE", "threat_rules">>}

StoredStateInit ==
    /\ part \in {"audit", "roles", "grants", "submission", "limiter"}
    /\ AuditInit /\ DbRolesInit /\ DbGrantsInit /\ RateLimiterInit
    /\ SubmissionInit /\ (part # "submission" => redis)

audit_moves ==
    /\ part = "audit" /\ AuditNext
    /\ UNCHANGED <<part, dbRolesVars, dbGrantsVars, submissionVars, limiterVars>>
roles_move ==
    /\ part = "roles" /\ DbRolesNext
    /\ UNCHANGED <<part, auditVars, dbGrantsVars, submissionVars, limiterVars>>
grants_move ==
    /\ part = "grants" /\ DbGrantsNext
    /\ UNCHANGED <<part, auditVars, dbRolesVars, submissionVars, limiterVars>>
submission_moves ==
    /\ part = "submission" /\ SubmissionNext
    /\ UNCHANGED <<part, auditVars, dbRolesVars, dbGrantsVars, limiterVars>>
limiter_moves ==
    /\ part = "limiter" /\ RateLimiterNext
    /\ UNCHANGED <<part, auditVars, dbRolesVars, dbGrantsVars, submissionVars>>

StoredStateNext ==
    audit_moves \/ roles_move \/ grants_move \/ submission_moves \/ limiter_moves

StoredStateSpec == StoredStateInit /\ [][StoredStateNext]_storedStateVars

(* q1 and q2 are the writers, hosts, starts, requests and calls; x and y   *)
(* the payloads.                                                           *)
Symmetry == Permutations({q1, q2}) \cup Permutations({x, y})
===============================================================================
