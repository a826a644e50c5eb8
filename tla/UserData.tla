------------------------------ MODULE UserData ------------------------------
(***************************************************************************)
(* What users keep beside their tasks: notes, attachments, ratings and     *)
(* shares, each a row that refers to a task (src/database.py;              *)
(* src/gateway/routes/tasks.py, annotations.py).  A request takes a        *)
(* connection of the gateway's pool, names its user on it for the row      *)
(* security policy, checks in one statement that the task is that user's,  *)
(* writes in the next, and takes the name off again.  Each statement       *)
(* commits by itself, so that the task may go in between.                  *)
(***************************************************************************)
EXTENDS Integers, FiniteSets

CONSTANTS
    Owners,             \* users
    Owned,              \* tasks
    OwnerOf,            \* task -> its user
    InFlight,           \* requests being served
    Connections,        \* of the gateway's pool
    Nobody,
    MaxRows,            \* bound: notes, attachments and shares inserted
    MaxBroken           \* bound: statements at a release that fail

ASSUME UserDataAssumption ==
    /\ Owned # {} /\ OwnerOf \in [Owned -> Owners]
    /\ Nobody \notin Owners \cup InFlight
    /\ MaxRows \in Nat /\ MaxBroken \in Nat

VARIABLES
    owned,              \* the tasks that have a row
    kept,               \* the rows that refer to a task
    connections,        \* connection -> app.user_id, and the request it serves
    serving,            \* request -> its stage, what it is to write and for whom
    inserted, broken

userDataVars == <<owned, kept, connections, serving, inserted, broken>>

Kinds == {"note", "attachment", "share", "annotation"}
NoRequest == [stage |-> "none", kind |-> "note", task |-> CHOOSE t \in Owned : TRUE, user |-> Nobody]

UserDataTypeOK ==
    /\ owned \subseteq Owned
    /\ kept \subseteq [kind : Kinds, task : Owned, user : Owners, id : 0 .. MaxRows]
    /\ connections \in [Connections -> [user : Owners \cup {Nobody}, held : InFlight \cup {Nobody}]]
    /\ serving \in [InFlight -> [stage : {"none", "check", "write", "done"}, kind : Kinds,
                                 task : Owned, user : Owners \cup {Nobody}]]
    /\ inserted \in 0 .. MaxRows /\ broken \in 0 .. MaxBroken

UserDataInit ==
    /\ owned = Owned /\ kept = {}
    /\ connections = [c \in Connections |-> [user |-> Nobody, held |-> Nobody]]
    /\ serving = [q \in InFlight |-> NoRequest]
    /\ inserted = 0 /\ broken = 0

Holds(q, c) == connections[c].held = q
to_stage(q, stage) == serving' = [serving EXCEPT ![q].stage = stage]

-----------------------------------------------------------------------------
(* The connection                                                          *)

(* A variant: a connection that still names a user keeps the name.         *)
reuse_connection(q, c, kind, t, u) ==
    /\ serving[q].stage = "none" /\ connections[c].held = Nobody
    /\ connections' = [connections EXCEPT ![c] =
                          [user |-> IF @.user = Nobody THEN u ELSE @.user, held |-> q]]
    /\ serving' = [serving EXCEPT ![q] = [stage |-> "check", kind |-> kind, task |-> t, user |-> u]]
    /\ UNCHANGED <<owned, kept, inserted, broken>>

get_user_connection(q, c, kind, t, u) ==
    /\ serving[q].stage = "none" /\ connections[c].held = Nobody
    /\ connections' = [connections EXCEPT ![c] = [user |-> u, held |-> q]]
    /\ serving' = [serving EXCEPT ![q] = [stage |-> "check", kind |-> kind, task |-> t, user |-> u]]
    /\ UNCHANGED <<owned, kept, inserted, broken>>

returned(q, c, name) ==
    /\ serving[q].stage = "done" /\ Holds(q, c)
    /\ connections' = [connections EXCEPT ![c] = [user |-> name, held |-> Nobody]]
    /\ serving' = [serving EXCEPT ![q] = NoRequest]

release(q, c) ==
    /\ returned(q, c, Nobody)
    /\ UNCHANGED <<owned, kept, inserted, broken>>

(* The failure is ignored; the connection keeps the name.                  *)
release_fails(q, c) ==
    /\ broken < MaxBroken /\ broken' = broken + 1
    /\ returned(q, c, connections[c].user)
    /\ UNCHANGED <<owned, kept, inserted>>

(* The rows the policy lets a statement on the connection see and write.   *)
Visible(user, c) == user = connections[c].user

-----------------------------------------------------------------------------
(* Rows that refer to a task                                               *)

(* SELECT ... WHERE task_id AND user_id: otherwise 404.                    *)
check_owner(q, c) ==
    LET t == serving[q].task IN
    /\ serving[q].stage = "check" /\ Holds(q, c)
    /\ to_stage(q, IF t \in owned /\ OwnerOf[t] = serving[q].user /\ Visible(OwnerOf[t], c)
                   THEN "write" ELSE "done")
    /\ UNCHANGED <<owned, kept, connections, inserted, broken>>

(* The policy's check, and the foreign key.                                *)
may_write(q, c) ==
    /\ serving[q].stage = "write" /\ Holds(q, c)
    /\ Visible(serving[q].user, c) /\ serving[q].task \in owned

(* A new row: notes, attachments and shares have an identifier each.       *)
row(q, id) == [kind |-> serving[q].kind, task |-> serving[q].task, user |-> serving[q].user, id |-> id]

insert_row(q, c, kind) ==
    /\ may_write(q, c) /\ serving[q].kind = kind /\ inserted < MaxRows
    /\ inserted' = inserted + 1
    /\ kept' = kept \cup {row(q, inserted + 1)}
    /\ to_stage(q, "done")
    /\ UNCHANGED <<owned, connections, broken>>

add_task_note(q, c) == insert_row(q, c, "note")
add_task_attachment(q, c) == insert_row(q, c, "attachment")
create_task_share(q, c) == insert_row(q, c, "share")

(* One rating of a task by its user: a second one replaces it.             *)
upsert_task_annotation(q, c) ==
    /\ may_write(q, c) /\ serving[q].kind = "annotation"
    /\ kept' = {r \in kept : ~(r.kind = "annotation" /\ r.task = serving[q].task
                                                     /\ r.user = serving[q].user)}
               \cup {row(q, 0)}
    /\ to_stage(q, "done")
    /\ UNCHANGED <<owned, connections, inserted, broken>>

write_refused(q, c) ==
    /\ serving[q].stage = "write" /\ Holds(q, c) /\ ~may_write(q, c)
    /\ to_stage(q, "done")
    /\ UNCHANGED <<owned, kept, connections, inserted, broken>>

(* Notes, attachments and shares, by their user, in one statement.         *)
delete_row(q, c, kind, r) ==
    /\ serving[q].stage = "check" /\ Holds(q, c)
    /\ r \in kept /\ r.kind = kind
    /\ r.task = serving[q].task /\ kind = serving[q].kind
    /\ r.user = serving[q].user /\ Visible(r.user, c)
    /\ kept' = kept \ {r}
    /\ to_stage(q, "done")
    /\ UNCHANGED <<owned, connections, inserted, broken>>

delete_task_note(q, c, r) == delete_row(q, c, "note", r)
delete_task_attachment(q, c, r) == delete_row(q, c, "attachment", r)
revoke_task_share(q, c, r) == delete_row(q, c, "share", r)

(* By the retention run; ON DELETE CASCADE.                                *)
delete_task(t) ==
    /\ t \in owned
    /\ owned' = owned \ {t}
    /\ kept' = {r \in kept : r.task # t}
    /\ UNCHANGED <<connections, serving, inserted, broken>>

-----------------------------------------------------------------------------
(* The requests, each for a user and a task                                *)

add_note(q, c, t, u) == get_user_connection(q, c, "note", t, u)
add_attachment(q, c, t, u) == get_user_connection(q, c, "attachment", t, u)
share_task(q, c, t, u) == get_user_connection(q, c, "share", t, u)
annotate_task(q, c, t, u) == get_user_connection(q, c, "annotation", t, u)

UserDataNext ==
    \/ \E q \in InFlight, c \in Connections :
          \/ \E t \in Owned, u \in Owners :
                \/ add_note(q, c, t, u) \/ add_attachment(q, c, t, u)
                \/ share_task(q, c, t, u) \/ annotate_task(q, c, t, u)
          \/ release(q, c) \/ release_fails(q, c)
          \/ check_owner(q, c) \/ write_refused(q, c)
          \/ add_task_note(q, c) \/ add_task_attachment(q, c) \/ create_task_share(q, c)
          \/ upsert_task_annotation(q, c)
          \/ \E r \in kept : \/ delete_task_note(q, c, r) \/ delete_task_attachment(q, c, r)
                            \/ revoke_task_share(q, c, r)
    \/ \E t \in Owned : delete_task(t)

UserDataSpec == UserDataInit /\ [][UserDataNext]_userDataVars

-----------------------------------------------------------------------------
(* Whatever is deleted while requests are between their check and their    *)
(* write, every note, attachment, rating and share is of a task that is    *)
(* there, and of its user.                                                 *)
RowsOfOwner == \A r \in kept : r.task \in owned /\ r.user = OwnerOf[r.task]

(* A connection names the user of the request it serves, also when its     *)
(* last release failed: the row security policy lets it see that user's    *)
(* rows.                                                                   *)
ScopedToUser ==
    \A q \in InFlight, c \in Connections : Holds(q, c) => connections[c].user = serving[q].user

(* No interleaving of requests and deletions leaves a row without its task *)
(* or with another user's, and none runs on a connection that names another *)
(* user (src/database.py 134-211, 4730-5960).                              *)
UserDataInvariant ==
    /\ UserDataTypeOK
    /\ RowsOfOwner
    /\ ScopedToUser

=============================================================================
