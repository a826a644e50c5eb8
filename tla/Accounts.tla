------------------------------ MODULE Accounts ------------------------------
(***************************************************************************)
(* The gateway's users, their API keys and the tokens that open an event   *)
(* stream (src/database.py, src/gateway/auth.py, state.py, backends/,      *)
(* routes/admin.py, auth_routes.py).  A request reads its user's row once, *)
(* when it is authenticated, and acts afterwards on what it read; every    *)
(* statement commits by itself.  One auth backend serves a gateway: API    *)
(* keys, or an identity provider (OIDC, GitHub, LDAP, Kerberos), which     *)
(* makes a row at the first login and never consults it.                   *)
(***************************************************************************)
EXTENDS Integers, FiniteSets

CONSTANTS
    People,             \* users
    FirstAdmin,         \* the user the command line made
    Asking,             \* requests being served
    Cli,                \* the operator's command line
    StreamTokens,            \* stream tokens, each issued at most once
    SharedTokens,       \* settings: tokens are kept in Redis
    MaxKeys,            \* bound: API keys a user is given
    MaxCuts             \* bound: requests cut off between two statements

ASSUME AccountsAssumption ==
    /\ FirstAdmin \in People /\ Cli \notin Asking
    /\ SharedTokens \in BOOLEAN /\ MaxKeys \in Nat \ {0} /\ MaxCuts \in Nat

VARIABLES
    accounts,           \* user -> its gateway_users row
    stream_tokens,      \* the tokens stored, each with the key it was asked with
    asked,              \* request -> what its authentication read, and its stage
    to_rotate,          \* the users `rotate-all` has still to do
    provider,           \* settings: the auth backend
    cuts,
    half_rotated,       \* users whose key changed by a rotation that was cut off
    outdated            \* an administrator's request acted when its user was none,
                        \* or the command line deactivated an administrator

accountsVars == <<accounts, stream_tokens, asked, to_rotate, provider,
                  cuts, half_rotated, outdated>>

Providers == {"api_key", "oidc", "github", "ldap", "kerberos"}
AdminOps == {"create", "promote", "demote", "deactivate"}
Ops == {"submit", "rotate"} \cup AdminOps
NoRow == [there |-> FALSE, active |-> FALSE, is_admin |-> FALSE, key |-> 0]
NotAsking == [stage |-> "none", op |-> "submit", user |-> FirstAdmin, target |-> FirstAdmin,
           key |-> 0, late |-> FALSE]

AccountsTypeOK ==
    /\ accounts \in [People -> [there : BOOLEAN, active : BOOLEAN, is_admin : BOOLEAN, key : 0 .. MaxKeys]]
    /\ stream_tokens \subseteq [token : StreamTokens, user : People, key : 0 .. MaxKeys,
                                late : BOOLEAN, expired : BOOLEAN]
    /\ asked \in [Asking \cup {Cli} -> [stage : {"none", "admitted", "hashed"}, op : Ops,
                                        user : People, target : People, key : 0 .. MaxKeys,
                                        late : BOOLEAN]]
    /\ to_rotate \subseteq People
    /\ provider \in Providers
    /\ cuts \in 0 .. MaxCuts
    /\ half_rotated \subseteq People /\ outdated \in BOOLEAN

AccountsInit ==
    /\ accounts = [u \in People |-> IF u = FirstAdmin
                     THEN [there |-> TRUE, active |-> TRUE, is_admin |-> TRUE, key |-> 1]
                     ELSE NoRow]
    /\ stream_tokens = {} /\ to_rotate = {}
    /\ asked = [q \in Asking \cup {Cli} |-> NotAsking]
    /\ provider \in Providers
    /\ cuts = 0
    /\ half_rotated = {} /\ outdated = FALSE

IsAdmin(u) == accounts[u].active /\ accounts[u].is_admin
served(q) == asked' = [asked EXCEPT ![q] = NotAsking]
staged(q, stage) == asked' = [asked EXCEPT ![q].stage = stage]

-----------------------------------------------------------------------------
(* Authentication                                                          *)

Scheme == [p \in Providers |-> IF p = "ldap" THEN "basic"
                               ELSE IF p = "kerberos" THEN "negotiate" ELSE "bearer"]

(* The header names a scheme; a backend takes its own and no other.        *)
require_user(header) == header = Scheme[provider]

(* The caller presents the key of an active user; require_admin reads the  *)
(* flag of the same row.                                                   *)
authenticate_key(q, u, op, target) ==
    /\ provider = "api_key" /\ asked[q].stage = "none"
    /\ accounts[u].active /\ accounts[u].key # 0
    /\ IF op \in AdminOps THEN accounts[u].is_admin ELSE target = u
    /\ asked' = [asked EXCEPT ![q] = [stage |-> "admitted", op |-> op, user |-> u,
                                      target |-> target, late |-> FALSE,
                                      key |-> IF op = "submit" THEN accounts[u].key ELSE 0]]
    /\ UNCHANGED <<accounts, stream_tokens, to_rotate, provider,
                   cuts, half_rotated, outdated>>

(* The provider vouches for the user, a row is made if there is none, and  *)
(* what is returned has no is_admin: every administrator's route refuses.  *)
vouched_for(q, u, op) ==
    /\ asked[q].stage = "none" /\ op \notin AdminOps
    /\ accounts' = [accounts EXCEPT ![u] = IF @.there THEN @
                       ELSE [there |-> TRUE, active |-> TRUE, is_admin |-> FALSE, key |-> 0]]
    /\ asked' = [asked EXCEPT ![q] = [NotAsking EXCEPT !.stage = "admitted", !.op = op,
                                                    !.user = u, !.target = u]]
    /\ UNCHANGED <<stream_tokens, to_rotate, provider, cuts, half_rotated, outdated>>

oidc_login(q, u, op)     == provider = "oidc" /\ vouched_for(q, u, op)
github_login(q, u, op)   == provider = "github" /\ vouched_for(q, u, op)
ldap_login(q, u, op)     == provider = "ldap" /\ vouched_for(q, u, op)
kerberos_login(q, u, op) == provider = "kerberos" /\ vouched_for(q, u, op)

-----------------------------------------------------------------------------
(* Stream tokens                                                           *)

(* A task was created; its stream token is stored in Redis or in the table.*)
create_stream_token(q, t) ==
    /\ asked[q].stage = "admitted" /\ asked[q].op = "submit" /\ \A s \in stream_tokens : s.token # t
    /\ stream_tokens' = stream_tokens \cup
          {[token |-> t, user |-> asked[q].user, key |-> asked[q].key,
            late |-> asked[q].late, expired |-> FALSE]}
    /\ served(q)
    /\ UNCHANGED <<accounts, to_rotate, provider, cuts,
                   half_rotated, outdated>>

(* Thirty minutes: Redis drops the key; a row stays and is not resolved.   *)
stream_token_expires(t) ==
    /\ \E s \in stream_tokens :
          /\ s.token = t /\ ~s.expired
          /\ stream_tokens' = (stream_tokens \ {s}) \cup
                (IF SharedTokens THEN {} ELSE {[s EXCEPT !.expired = TRUE]})
    /\ UNCHANGED <<accounts, asked, to_rotate, provider, cuts, half_rotated, outdated>>

(* The worker, every ten minutes.                                          *)
purge_expired_stream_tokens ==
    /\ \E s \in stream_tokens : s.expired
    /\ stream_tokens' = {s \in stream_tokens : ~s.expired}
    /\ UNCHANGED <<accounts, asked, to_rotate, provider, cuts, half_rotated, outdated>>

(* What opens a stream.                                                    *)
resolve_stream_token(s) == s \in stream_tokens /\ ~s.expired

-----------------------------------------------------------------------------
(* Rotation of a key                                                       *)

Rotating(q, stage) == asked[q].op = "rotate" /\ asked[q].stage = stage

new_key(u) ==
    /\ accounts[u].key < MaxKeys
    /\ accounts' = [accounts EXCEPT ![u].key = @ + 1]

(* The tokens of the user in the table; those in Redis are left to expire. *)
tokens_of(u) == IF SharedTokens THEN {} ELSE {s \in stream_tokens : s.user = u}

(* Submissions that were authenticated with a key that is not the row's.   *)
Belated(p, u) ==
    asked[p].stage = "admitted" /\ asked[p].op = "submit"
    /\ asked[p].user = u /\ asked[p].key # accounts[u].key

(* UPDATE gateway_users SET api_key_hash: of any row, active or not.       *)
update_key(q) ==
    /\ Rotating(q, "admitted")
    /\ new_key(asked[q].user)
    /\ staged(q, "hashed")
    /\ UNCHANGED <<stream_tokens, to_rotate, provider, cuts,
                   half_rotated, outdated>>

(* DELETE FROM stream_tokens; then the audit entry, and the answer.        *)
revoke_stream_tokens(q) ==
    LET u == asked[q].user IN
    /\ Rotating(q, "hashed")
    /\ stream_tokens' = stream_tokens \ tokens_of(u)
    /\ asked' = [p \in DOMAIN asked |->
                    IF p = q THEN NotAsking
                    ELSE IF Belated(p, u) THEN [asked[p] EXCEPT !.late = TRUE] ELSE asked[p]]
    /\ UNCHANGED <<accounts, to_rotate, provider, cuts, half_rotated, outdated>>

(* The key is replaced and nobody is told; the tokens stay.                *)
rotation_cut(q) ==
    /\ Rotating(q, "hashed") /\ cuts < MaxCuts /\ cuts' = cuts + 1
    /\ half_rotated' = half_rotated \cup {asked[q].user}
    /\ served(q)
    /\ UNCHANGED <<accounts, stream_tokens, to_rotate, provider, outdated>>

(* The command line reads the standard users once and rotates each.        *)
rotate_all_standard_users ==
    /\ asked[Cli].stage = "none" /\ to_rotate = {}
    /\ to_rotate' = {u \in People : accounts[u].active /\ ~accounts[u].is_admin}
    /\ UNCHANGED <<accounts, stream_tokens, asked, provider, cuts, half_rotated, outdated>>

(* The next of them: its key is replaced, as update_key does.              *)
rotate_next(u) ==
    /\ asked[Cli].stage = "none" /\ u \in to_rotate
    /\ to_rotate' = to_rotate \ {u}
    /\ asked' = [asked EXCEPT ![Cli] = [NotAsking EXCEPT !.stage = "hashed", !.op = "rotate", !.user = u]]
    /\ new_key(u)
    /\ UNCHANGED <<stream_tokens, provider, cuts, half_rotated, outdated>>

-----------------------------------------------------------------------------
(* Administration                                                          *)

Handles(q, op) == asked[q].op = op /\ asked[q].stage = "admitted"
acts(q) == outdated' = (outdated \/ ~IsAdmin(asked[q].user))

(* INSERT; the user name is unique.                                        *)
create_gateway_user(u, is_admin) ==
    /\ ~accounts[u].there
    /\ accounts' = [accounts EXCEPT ![u] =
                       [there |-> TRUE, active |-> TRUE, is_admin |-> is_admin, key |-> 1]]

create_user(q, is_admin) ==
    /\ Handles(q, "create") /\ acts(q) /\ served(q)
    /\ create_gateway_user(asked[q].target, is_admin)
    /\ UNCHANGED <<stream_tokens, to_rotate, provider, cuts, half_rotated>>

(* UPDATE ... SET is_admin: of any row, active or not.                     *)
promote_gateway_user_to_admin(u, is_admin) ==
    /\ accounts[u].there
    /\ accounts' = [accounts EXCEPT ![u].is_admin = is_admin]

(* A variant: users may take the privilege from themselves.                *)
set_admin_unguarded(q, is_admin) ==
    /\ Handles(q, IF is_admin THEN "promote" ELSE "demote") /\ acts(q) /\ served(q)
    /\ promote_gateway_user_to_admin(asked[q].target, is_admin)
    /\ UNCHANGED <<stream_tokens, to_rotate, provider, cuts, half_rotated>>

(* Never the caller's own privilege away.                                  *)
set_user_admin(q, is_admin) ==
    /\ Handles(q, IF is_admin THEN "promote" ELSE "demote") /\ acts(q) /\ served(q)
    /\ asked[q].target = asked[q].user => is_admin
    /\ promote_gateway_user_to_admin(asked[q].target, is_admin)
    /\ UNCHANGED <<stream_tokens, to_rotate, provider, cuts, half_rotated>>

(* UPDATE ... SET is_active = false, of a row that is active.              *)
deactivate_gateway_user(u) ==
    /\ accounts[u].active
    /\ accounts' = [accounts EXCEPT ![u].active = FALSE]

(* Never the caller's own account.                                         *)
deactivate_user(q) ==
    /\ Handles(q, "deactivate") /\ acts(q) /\ served(q)
    /\ asked[q].target # asked[q].user
    /\ deactivate_gateway_user(asked[q].target)
    /\ UNCHANGED <<stream_tokens, to_rotate, provider, cuts, half_rotated>>

(* 400, 404 or 409.                                                        *)
admin_refused(q) ==
    /\ \/ Handles(q, "create") /\ accounts[asked[q].target].there
       \/ Handles(q, "demote") /\ asked[q].target = asked[q].user
       \/ (Handles(q, "promote") \/ Handles(q, "demote")) /\ ~accounts[asked[q].target].there
       \/ Handles(q, "deactivate")
          /\ (asked[q].target = asked[q].user \/ ~accounts[asked[q].target].active)
    /\ served(q)
    /\ UNCHANGED <<accounts, stream_tokens, to_rotate, provider, cuts, half_rotated, outdated>>

-----------------------------------------------------------------------------
(* The command line: nobody is authenticated, nothing is forbidden         *)

cli_create_user(u, is_admin) ==
    /\ create_gateway_user(u, is_admin)
    /\ UNCHANGED <<stream_tokens, asked, to_rotate, provider, cuts, half_rotated, outdated>>

cli_deactivate_user(u) ==
    /\ deactivate_gateway_user(u)
    /\ outdated' = (outdated \/ accounts[u].is_admin)
    /\ UNCHANGED <<stream_tokens, asked, to_rotate, provider, cuts, half_rotated>>

(* The row is read once: it may be deactivated before its key is replaced. *)
cli_rotate_key(u) ==
    /\ asked[Cli].stage = "none" /\ to_rotate = {}
    /\ accounts[u].active
    /\ asked' = [asked EXCEPT ![Cli] = [NotAsking EXCEPT !.stage = "admitted",
                                                      !.op = "rotate", !.user = u]]
    /\ UNCHANGED <<accounts, stream_tokens, to_rotate, provider, cuts, half_rotated, outdated>>

-----------------------------------------------------------------------------
AccountsNext ==
    \/ \E q \in Asking, u \in People, header \in {"bearer", "basic", "negotiate"} :
          /\ require_user(header)
          /\ \/ \E op \in Ops, target \in People : authenticate_key(q, u, op, target)
             \/ \E op \in {"submit", "rotate"} :
                   \/ oidc_login(q, u, op) \/ github_login(q, u, op)
                   \/ ldap_login(q, u, op) \/ kerberos_login(q, u, op)
    \/ \E q \in Asking :
          \/ \E t \in StreamTokens : create_stream_token(q, t)
          \/ \E is_admin \in BOOLEAN : create_user(q, is_admin)
          \/ \E is_admin \in BOOLEAN : set_user_admin(q, is_admin)
          \/ deactivate_user(q) \/ admin_refused(q)
    \/ \E q \in Asking \cup {Cli} :
          update_key(q) \/ revoke_stream_tokens(q) \/ rotation_cut(q)
    \/ \E u \in People :
          \/ \E is_admin \in BOOLEAN : cli_create_user(u, is_admin)
          \/ cli_deactivate_user(u) \/ cli_rotate_key(u)
    \/ \E t \in StreamTokens : stream_token_expires(t)
    \/ purge_expired_stream_tokens
    \/ rotate_all_standard_users \/ \E u \in People : rotate_next(u)

AccountsSpec == AccountsInit /\ [][AccountsNext]_accountsVars

-----------------------------------------------------------------------------
(* The stream tokens in the table that open a stream were asked for with   *)
(* the user's present key, except while a rotation is between its two      *)
(* statements, after one that was cut off there, and for a submission that *)
(* was authenticated before the key changed and stored its token after the *)
(* rotation had removed the others (src/database.py:5254-5288).            *)
TokensAreCurrent ==
    (provider = "api_key" /\ ~SharedTokens) =>
       \A s \in stream_tokens : resolve_stream_token(s) =>
          \/ s.key = accounts[s.user].key
          \/ s.late
          \/ s.user \in half_rotated
          \/ \E q \in DOMAIN asked : Rotating(q, "hashed") /\ asked[q].user = s.user

(* There is always an active administrator, unless a request acted whose   *)
(* user had lost the privilege since it was authenticated (administrators  *)
(* may take it from each other at one time, routes/admin.py:204-316), or   *)
(* the command line, which guards nothing, deactivated one.                *)
AdminRemains == outdated \/ \E u \in People : IsAdmin(u)

(* The stream tokens that open a stream were asked for with a current key, *)
(* and an administrator remains, whatever rotations, submissions and       *)
(* administrators' requests overlap (src/database.py 5241, routes/admin.py). *)
AccountsInvariant ==
    /\ AccountsTypeOK
    /\ TokensAreCurrent
    /\ AdminRemains

=============================================================================
