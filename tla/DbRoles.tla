------------------------------ MODULE DbRoles ------------------------------
(***************************************************************************)
(* The start of a process on the database (src/database.py, init_db): with *)
(* the administrator's connection it gives every database role the         *)
(* password it found in ~/.pgpass, or a new one it adds to that file; then *)
(* it opens one pool per role with the passwords it remembers.  Processes  *)
(* of one host start, stop and start again, sharing the file.              *)
(***************************************************************************)
EXTENDS Integers, Sequences

CONSTANTS
    Hosted,             \* the processes of the host
    RoleOrder,          \* the roles, in the order they are set up
    Mandatory,          \* those without whose pool the start fails
    Attempts,           \* at connecting to the database server
    MaxInits,           \* bound: starts
    MaxWriteErrors      \* bound: failed writes of ~/.pgpass

RoleSet == {RoleOrder[i] : i \in DOMAIN RoleOrder}

ASSUME DbRolesAssumption ==
    /\ RoleOrder \in Seq(RoleSet) /\ RoleOrder # <<>> /\ Mandatory \subseteq RoleSet
    /\ Attempts \in Nat \ {0} /\ MaxInits \in Nat /\ MaxWriteErrors \in Nat

VARIABLES
    server_up,          \* the database server answers
    pg_roles,           \* role -> its password in the database, 0 for no role
    pgpass,             \* role -> its entry in ~/.pgpass, 0 for none
    inits,              \* process -> stage of its start, role it is at,
                        \* attempts left, the lines it read of the file, and
                        \* whether no other process was starting meanwhile
    _role_pw_cache,     \* process -> role -> the password it remembers
    pools,              \* process -> the roles it has a pool for
    generated,          \* passwords generated so far
    init_count, write_errors,
    raced,              \* history: a password was made while another process started
    lone_failures       \* history: a lone start failed for want of a pool

dbRolesVars == <<server_up, pg_roles, pgpass, inits, _role_pw_cache, pools, generated,
                 init_count, write_errors, raced, lone_failures>>

NoPasswords == [r \in RoleSet |-> 0]
Off == [stage |-> "off", at |-> 1, left |-> Attempts, lines |-> NoPasswords, lone |-> TRUE]

DbRolesTypeOK ==
    /\ server_up \in BOOLEAN
    /\ pg_roles \in [RoleSet -> Nat] /\ pgpass \in [RoleSet -> Nat]
    /\ inits \in [Hosted -> [stage : {"off", "connect", "password", "write", "alter", "pool", "on"},
                             at : DOMAIN RoleOrder, left : 0 .. Attempts,
                             lines : [RoleSet -> Nat], lone : BOOLEAN]]
    /\ _role_pw_cache \in [Hosted -> [RoleSet -> Nat]]
    /\ pools \in [Hosted -> SUBSET RoleSet]
    /\ generated \in Nat /\ init_count \in 0 .. MaxInits
    /\ write_errors \in 0 .. MaxWriteErrors
    /\ raced \in BOOLEAN /\ lone_failures \in 0 .. MaxInits

DbRolesInit ==
    /\ server_up = FALSE
    /\ pg_roles = NoPasswords /\ pgpass = NoPasswords
    /\ inits = [p \in Hosted |-> Off]
    /\ _role_pw_cache = [p \in Hosted |-> NoPasswords]
    /\ pools = [p \in Hosted |-> {}]
    /\ generated = 0 /\ init_count = 0 /\ write_errors = 0
    /\ raced = FALSE /\ lone_failures = 0

Underway == {p \in Hosted : inits[p].stage \notin {"off", "on"}}
role(p) == RoleOrder[inits[p].at]
remembered(p) == _role_pw_cache[p][role(p)]
advance(p, stage) == inits' = [inits EXCEPT ![p].stage = stage]

(* On to the next role; after the last one, to the stage `last'.           *)
rolesDone(p) == inits[p].at = Len(RoleOrder)
to_next(p, stage, last) ==
    inits' = [inits EXCEPT ![p].stage = IF rolesDone(p) THEN last ELSE stage,
                           ![p].at = IF rolesDone(p) THEN 1 ELSE @ + 1]

-----------------------------------------------------------------------------

server_starts ==
    /\ ~server_up /\ server_up' = TRUE
    /\ UNCHANGED <<pg_roles, pgpass, inits, _role_pw_cache, pools, generated, init_count,
                   write_errors, raced, lone_failures>>

init_db(p) ==
    /\ inits[p].stage = "off" /\ init_count < MaxInits
    /\ init_count' = init_count + 1
    /\ inits' = [q \in Hosted |->
                    IF q = p THEN [Off EXCEPT !.stage = "connect", !.lone = Underway = {}]
                    ELSE IF q \in Underway THEN [inits[q] EXCEPT !.lone = FALSE]
                    ELSE inits[q]]
    /\ UNCHANGED <<server_up, pg_roles, pgpass, _role_pw_cache, pools, generated,
                   write_errors, raced, lone_failures>>

(* The administrator's pool is tried again, then given up.                 *)
open_admin_pool(p) ==
    /\ inits[p].stage = "connect"
    /\ inits' = [inits EXCEPT ![p] =
                    IF server_up THEN [inits[p] EXCEPT !.stage = "password"]
                    ELSE IF inits[p].left = 1 THEN Off
                    ELSE [inits[p] EXCEPT !.left = inits[p].left - 1]]
    /\ UNCHANGED <<server_up, pg_roles, pgpass, _role_pw_cache, pools, generated,
                   init_count, write_errors, raced, lone_failures>>

_read_pgpass(r) == pgpass[r]

_get_or_generate_role_password(p) ==
    LET found == _read_pgpass(role(p)) IN
    /\ inits[p].stage = "password"
    /\ _role_pw_cache' = [_role_pw_cache EXCEPT ![p][role(p)] =
                              IF found # 0 THEN found ELSE generated + 1]
    /\ IF found # 0
       THEN advance(p, "alter") /\ UNCHANGED <<generated, raced>>
       ELSE /\ generated' = generated + 1
            /\ inits' = [inits EXCEPT ![p].stage = "write", ![p].lines = pgpass]
            /\ raced' = (raced \/ Underway # {p})
    /\ UNCHANGED <<server_up, pg_roles, pgpass, pools, init_count, write_errors, lone_failures>>

(* A variant: the file is written only if it has no entry at all.          *)
write_first_entry(p) ==
    /\ inits[p].stage = "write"
    /\ pgpass' = IF inits[p].lines = NoPasswords
                 THEN [pgpass EXCEPT ![role(p)] = remembered(p)] ELSE pgpass
    /\ advance(p, "alter")
    /\ UNCHANGED <<server_up, pg_roles, _role_pw_cache, pools, generated, init_count,
                   write_errors, raced, lone_failures>>

(* The lines read before, with this role's entry replaced.                 *)
_write_pgpass_entry(p) ==
    /\ inits[p].stage = "write"
    /\ pgpass' = [inits[p].lines EXCEPT ![role(p)] = remembered(p)]
    /\ advance(p, "alter")
    /\ UNCHANGED <<server_up, pg_roles, _role_pw_cache, pools, generated, init_count,
                   write_errors, raced, lone_failures>>

write_fails(p) ==
    /\ inits[p].stage = "write" /\ write_errors < MaxWriteErrors
    /\ write_errors' = write_errors + 1
    /\ advance(p, "alter")
    /\ UNCHANGED <<server_up, pg_roles, pgpass, _role_pw_cache, pools, generated,
                   init_count, raced, lone_failures>>

(* The role is created if missing, and given the password in any case.     *)
create_role(p) ==
    /\ inits[p].stage = "alter"
    /\ pg_roles' = [pg_roles EXCEPT ![role(p)] = remembered(p)]
    /\ to_next(p, "password", "pool")
    /\ UNCHANGED <<server_up, pgpass, _role_pw_cache, pools, generated, init_count,
                   write_errors, raced, lone_failures>>

(* Two processes alter one role: the statement of one fails, with a        *)
(* warning.                                                                *)
role_setup_fails(p) ==
    /\ inits[p].stage = "alter"
    /\ \E q \in Hosted \ {p} : inits[q].stage = "alter" /\ role(q) = role(p)
    /\ to_next(p, "password", "pool")
    /\ UNCHANGED <<server_up, pg_roles, pgpass, _role_pw_cache, pools, generated,
                   init_count, write_errors, raced, lone_failures>>

Accepted(p) == remembered(p) # 0 /\ remembered(p) = pg_roles[role(p)]

_open_role_pool(p) ==
    /\ inits[p].stage = "pool" /\ Accepted(p)
    /\ pools' = [pools EXCEPT ![p] = @ \union {role(p)}]
    /\ to_next(p, "pool", "on")
    /\ UNCHANGED <<server_up, pg_roles, pgpass, _role_pw_cache, generated, init_count,
                   write_errors, raced, lone_failures>>

pool_unavailable(p) ==
    /\ inits[p].stage = "pool" /\ ~Accepted(p) /\ role(p) \notin Mandatory
    /\ to_next(p, "pool", "on")
    /\ UNCHANGED <<server_up, pg_roles, pgpass, _role_pw_cache, pools, generated,
                   init_count, write_errors, raced, lone_failures>>

ended(p) ==
    /\ inits' = [inits EXCEPT ![p] = Off]
    /\ _role_pw_cache' = [_role_pw_cache EXCEPT ![p] = NoPasswords]
    /\ pools' = [pools EXCEPT ![p] = {}]

pool_fatal(p) ==
    /\ inits[p].stage = "pool" /\ ~Accepted(p) /\ role(p) \in Mandatory
    /\ ended(p)
    /\ lone_failures' = IF inits[p].lone THEN lone_failures + 1 ELSE lone_failures
    /\ UNCHANGED <<server_up, pg_roles, pgpass, generated, init_count, write_errors, raced>>

close_db(p) ==
    /\ inits[p].stage = "on"
    /\ ended(p)
    /\ UNCHANGED <<server_up, pg_roles, pgpass, generated, init_count, write_errors, raced,
                   lone_failures>>

DbRolesNext ==
    \/ server_starts
    \/ \E p \in Hosted :
          \/ init_db(p) \/ open_admin_pool(p)
          \/ _get_or_generate_role_password(p)
          \/ _write_pgpass_entry(p) \/ write_fails(p)
          \/ create_role(p) \/ role_setup_fails(p)
          \/ _open_role_pool(p) \/ pool_unavailable(p) \/ pool_fatal(p)
          \/ close_db(p)

DbRolesSpec == DbRolesInit /\ [][DbRolesNext]_dbRolesVars

-----------------------------------------------------------------------------
(* A process that runs can still open connections: the passwords it        *)
(* remembers are the database's, provided the file was always written and  *)
(* no password was made while another process was starting (_role_pw_cache *)
(* outlives the file and the role).                                        *)
RunningCanConnect ==
    ~raced /\ write_errors = 0 =>
        \A p \in Hosted : \A r \in pools[p] : _role_pw_cache[p][r] = pg_roles[r]

(* Whatever earlier starts left in the file and in the database, a process *)
(* that starts alone opens its mandatory pools.                            *)
LoneStartOpens == lone_failures = 0

(* Passwords agree across the database, ~/.pgpass and the processes that   *)
(* remember them, through restarts and failed writes                       *)
(* (_setup_db_roles and _open_role_pool, src/database.py).                 *)
DbRolesInvariant ==
    /\ DbRolesTypeOK
    /\ RunningCanConnect
    /\ LoneStartOpens

=============================================================================
