------------------------------ MODULE DbGrants ------------------------------
(***************************************************************************)
(* What a starting process grants to the database roles                    *)
(* (src/database.py, _setup_db_roles and _setup_rls).  Each statement      *)
(* commits by itself; those of one try block are skipped together once one *)
(* fails, which happens when another process alters the same table's       *)
(* rights at that moment.  The processes that are already up serve         *)
(* requests meanwhile.                                                     *)
(*                                                                         *)
(* Of the tables, those the properties tell apart: "sessions" stands for   *)
(* the user-scoped tables but tasks; the tables of which one role gets     *)
(* what it already gets of another are left out.                           *)
(***************************************************************************)
EXTENDS Integers, Sequences

CONSTANTS
    Starters,           \* the processes that start
    OldRights,          \* rights an earlier version left in the database
    MaxAborts           \* bound: processes that are killed or stopped

VARIABLES
    rights,             \* what is granted: <<role, privilege, table>>
    rls,                \* per user table: row security on, policy present
    setups,             \* process -> the statement it is at, 0 before; and
                        \* whether one of its statements has failed
    aborts              \* processes that ended

dbGrantsVars == <<rights, rls, setups, aborts>>

grant(block, who, privileges, tables) ==
    [verb |-> "grant", block |-> block, rights |-> {who} \X privileges \X tables]
revoke(block, who, privileges, tables) ==
    [verb |-> "revoke", block |-> block, rights |-> {who} \X privileges \X tables]
on_table(verb, block, table) == [verb |-> verb, block |-> block, table |-> table]

ReadWrite == {"SELECT", "INSERT", "UPDATE"}
Everything == ReadWrite \cup {"DELETE"}
UserTables == {"tasks", "sessions"}

WorkerGrants ==
    << grant("w_tasks", "worker", {"SELECT"}, {"tasks"}),
       grant("w_sessions", "worker", {"SELECT"}, {"sessions"}),
       grant("w", "worker", {"INSERT"}, {"audit_log"}),
       grant("w", "worker", ReadWrite, {"tasks"}),
       grant("w", "worker", {"SELECT", "INSERT"}, {"threat_rules"}),
       revoke("w", "worker", {"UPDATE"}, {"threat_rules"}),
       grant("w", "worker", {"SELECT", "INSERT"}, {"hitl_pending"}) >>

GatewayGrants ==
    << grant("g_tasks", "gateway", ReadWrite, {"tasks"}),
       grant("g_sessions", "gateway", ReadWrite, {"sessions"}),
       grant("g", "gateway", {"DELETE"}, {"sessions"}),
       grant("g", "gateway", {"SELECT", "UPDATE"}, {"threat_rules"}),
       grant("g", "gateway", ReadWrite, {"hitl_pending"}) >>

MaintenanceGrants ==
    << grant("m_tasks", "maintenance", {"DELETE"}, {"tasks"}),
       grant("m", "maintenance", {"INSERT"}, {"audit_anchors"}),
       grant("m", "maintenance", {"DELETE"}, {"audit_log"}) >>

OtherGrants ==
    << grant("guardian", "guardian", {"SELECT"}, {"threat_rules"}),
       grant("r_audit", "readonly", {"SELECT"}, {"audit_log"}),
       grant("r_anchors", "readonly", {"SELECT"}, {"audit_anchors"}) >>

RowSecurity(table) ==
    << on_table("enable", table, table), on_table("drop_policy", table, table),
       on_table("create_policy", table, table) >>

_setup_rls == RowSecurity("tasks") \o RowSecurity("sessions")

_setup_db_roles ==
    WorkerGrants \o GatewayGrants \o MaintenanceGrants \o OtherGrants \o _setup_rls

GrantsDone == Len(_setup_db_roles) + 1

Right == {"worker", "gateway", "maintenance", "guardian", "readonly"} \X Everything
            \X (UserTables \cup {"audit_log", "audit_anchors", "threat_rules", "hitl_pending"})

ASSUME DbGrantsAssumption == OldRights \subseteq Right /\ MaxAborts \in Nat

DbGrantsTypeOK ==
    /\ rights \subseteq Right
    /\ rls \in [UserTables -> [enabled : BOOLEAN, policy : BOOLEAN]]
    /\ setups \in [Starters -> [at : 0 .. GrantsDone, failed : BOOLEAN]]
    /\ aborts \in 0 .. MaxAborts

DbGrantsInit ==
    /\ rights = OldRights
    /\ rls = [t \in UserTables |-> [enabled |-> FALSE, policy |-> FALSE]]
    /\ setups = [p \in Starters |-> [at |-> 0, failed |-> FALSE]]
    /\ aborts = 0

SettingUp == {p \in Starters : setups[p].at \in 1 .. GrantsDone - 1}
Serving == {p \in Starters : setups[p].at = GrantsDone}
statement(p) == _setup_db_roles[setups[p].at]

-----------------------------------------------------------------------------

setup_starts(p) ==
    /\ setups[p].at = 0
    /\ setups' = [setups EXCEPT ![p].at = 1]
    /\ UNCHANGED <<rights, rls, aborts>>

OnRights(p) == p \in SettingUp /\ statement(p).verb \in {"grant", "revoke"}

grant_or_revoke(p) ==
    /\ OnRights(p)
    /\ rights' = IF statement(p).verb = "grant" THEN rights \cup statement(p).rights
                                                ELSE rights \ statement(p).rights
    /\ setups' = [setups EXCEPT ![p].at = @ + 1]
    /\ UNCHANGED <<rls, aborts>>

(* ALTER TABLE and DROP POLICY wait for each other; a policy that is       *)
(* already there is kept.                                                  *)
secure_rows(p) ==
    /\ p \in SettingUp /\ ~OnRights(p)
    /\ rls' = [rls EXCEPT ![statement(p).table] =
                  CASE statement(p).verb = "enable" -> [@ EXCEPT !.enabled = TRUE]
                    [] statement(p).verb = "drop_policy" -> [@ EXCEPT !.policy = FALSE]
                    [] statement(p).verb = "create_policy" -> [@ EXCEPT !.policy = TRUE]]
    /\ setups' = [setups EXCEPT ![p].at = @ + 1]
    /\ UNCHANGED <<rights, aborts>>

tables(p) == {r[3] : r \in statement(p).rights}
Collides(p) ==
    /\ OnRights(p)
    /\ \E q \in SettingUp \ {p} : OnRights(q) /\ tables(p) \cap tables(q) # {}

(* A variant: the failure ends the whole set-up, unnoticed.                *)
skip_the_rest(p) ==
    /\ Collides(p)
    /\ setups' = [setups EXCEPT ![p] = [at |-> GrantsDone, failed |-> FALSE]]
    /\ UNCHANGED <<rights, rls, aborts>>

(* The tuple was updated concurrently: what remains of the try block is    *)
(* skipped, with a line in the debug log.                                  *)
statement_fails(p) ==
    /\ Collides(p)
    /\ LET after == {i \in setups[p].at + 1 .. GrantsDone - 1 :
                        _setup_db_roles[i].block # statement(p).block} \cup {GrantsDone}
       IN setups' = [setups EXCEPT ![p] = [at |-> CHOOSE i \in after : \A j \in after : i <= j,
                                           failed |-> TRUE]]
    /\ UNCHANGED <<rights, rls, aborts>>

(* A process is killed, or stopped, and may start again.                   *)
process_ends(p) ==
    /\ p \in SettingUp \cup Serving /\ aborts < MaxAborts
    /\ aborts' = aborts + 1
    /\ setups' = [setups EXCEPT ![p] = [at |-> 0, failed |-> FALSE]]
    /\ UNCHANGED <<rights, rls>>

DbGrantsNext ==
    \E p \in Starters :
        \/ setup_starts(p) \/ grant_or_revoke(p) \/ secure_rows(p)
        \/ statement_fails(p) \/ process_ends(p)

DbGrantsSpec == DbGrantsInit /\ [][DbGrantsNext]_dbGrantsVars

-----------------------------------------------------------------------------
(* What a query of the gateway's role may return, for a request of one     *)
(* user: its own rows, every row, or none (the policy's USING clause; the  *)
(* default of PostgreSQL without a policy).                                *)
visible(table) ==
    IF <<"gateway", "SELECT", table>> \notin rights THEN "refused"
    ELSE IF ~rls[table].enabled THEN "all"
    ELSE IF rls[table].policy THEN "own" ELSE "none"

(* "fail-closed": no process serves requests while a query could return    *)
(* the rows of other users, also when another process replaces the policy. *)
RowsIsolated == Serving # {} => \A t \in UserTables : visible(t) # "all"

Granted == UNION {_setup_db_roles[i].rights :
                     i \in {j \in DOMAIN _setup_db_roles : _setup_db_roles[j].verb = "grant"}}
Revoked == UNION {_setup_db_roles[i].rights :
                     i \in {j \in DOMAIN _setup_db_roles : _setup_db_roles[j].verb = "revoke"}}

(* A process that came up without a failed statement finds every right in  *)
(* place and the old ones withdrawn, whatever others failed at or were     *)
(* killed in: an agent proposes threat rules and cannot approve them.      *)
RightsInPlace ==
    (\E p \in Serving : ~setups[p].failed) => Granted \subseteq rights /\ Revoked \cap rights = {}

(* The privileges the functions use, with the role of the connection each  *)
(* takes.                                                                  *)
Needs ==
    [delete_session |-> {<<"gateway", "DELETE", "sessions">>},
     resolve_hitl_request |-> {<<"gateway", "UPDATE", "hitl_pending">>},
     bulk_delete_tasks |-> {<<"gateway", "DELETE", "tasks">>},
     increment_session_turn |-> {<<"worker", "UPDATE", "sessions">>},
     append_audit_log |-> {<<"worker", "SELECT", "audit_log">>,
                           <<"worker", "INSERT", "audit_log">>,
                           <<"worker", "UPDATE", "audit_log">>}]

(* "DELETE required for user-facing destructive operations": once the      *)
(* set-up is done, the functions of requests and of the worker may run     *)
(* their statements.                                                       *)
CallsPermitted ==
    (\E p \in Serving : ~setups[p].failed) =>
        \A f \in DOMAIN Needs : Needs[f] \subseteq rights

(* While a process serves, row security holds, and after a set-up without  *)
(* failures so do all rights, whatever other starts do or leave undone     *)
(* (_setup_db_roles, src/database.py).                                     *)
DbGrantsInvariant ==
    /\ DbGrantsTypeOK
    /\ RowsIsolated
    /\ RightsInPlace

=============================================================================
