----------------------------- MODULE UserProofs -----------------------------
(****************************************************************************)
(* The users: what they keep beside their tasks, their accounts and keys,   *)
(* and their sessions. The three modules share no state; each part below    *)
(* is about one of them.                                                    *)
(****************************************************************************)
EXTENDS UserData, Accounts, Sessions, FiniteSetTheorems, TLAPS

(***************************************************************************)
(* Every row is of a task that is there and of its user, and every         *)
(* connection names the user it serves, for every number of requests,      *)
(* connections, tasks and users.  A request that writes has had its task   *)
(* and user compared (CheckedFirst); only the foreign key knows whether    *)
(* the task is still there.  A request takes a connection while it holds   *)
(* none (IdleHoldsNone, OneConnection), so that no connection is left with *)
(* a name that its request no longer has.                                  *)
(***************************************************************************)

CheckedFirst ==
  \A q \in InFlight :
     /\ serving[q].stage # "none" => serving[q].user \in Owners
     /\ serving[q].stage = "write" => OwnerOf[serving[q].task] = serving[q].user

IdleHoldsNone ==
  \A q \in InFlight, c \in Connections : Holds(q, c) => serving[q].stage # "none"

OneConnection ==
  \A q \in InFlight, c, d \in Connections : Holds(q, c) /\ Holds(q, d) => c = d

Scoping == CheckedFirst /\ IdleHoldsNone /\ OneConnection /\ ScopedToUser

UserDataInductive == UserDataTypeOK /\ Scoping /\ RowsOfOwner

Serving_ == [stage : {"none", "check", "write", "done"}, kind : Kinds,
             task : Owned, user : Owners \cup {Nobody}]
Row_ == [kind : Kinds, task : Owned, user : Owners, id : 0 .. MaxRows]

(* A request that is over is one.                                          *)
LEMMA NoRequestType == NoRequest \in Serving_ /\ NoRequest.stage = "none"
<1>1. (CHOOSE t \in Owned : TRUE) \in Owned
  BY UserDataAssumption DEF UserDataAssumption
<1> QED
  BY <1>1 DEF NoRequest, Serving_, Kinds

(* The invariant holds at the start.                                       *)
LEMMA UserDataInductiveInit == UserDataInit => UserDataInductive
<1> SUFFICES ASSUME UserDataInit PROVE UserDataInductive
  OBVIOUS
<1> USE UserDataAssumption DEF UserDataInit, UserDataAssumption
<1>1. UserDataTypeOK
  BY NoRequestType DEF UserDataTypeOK, Serving_
<1>2. CheckedFirst
  BY NoRequestType DEF CheckedFirst
<1>3. IdleHoldsNone /\ OneConnection /\ ScopedToUser
  BY DEF IdleHoldsNone, OneConnection, ScopedToUser, Holds
<1>4. RowsOfOwner
  BY DEF RowsOfOwner
<1> QED
  BY <1>1, <1>2, <1>3, <1>4 DEF UserDataInductive, Scoping

(* A request q that holds a connection comes to another stage.             *)
LEMMA StageMoves ==
  ASSUME UserDataInductive, NEW q \in InFlight, NEW c \in Connections, Holds(q, c),
         NEW stage \in {"check", "write", "done"}, to_stage(q, stage),
         stage = "write" => OwnerOf[serving[q].task] = serving[q].user,
         UNCHANGED connections
  PROVE  serving' \in [InFlight -> Serving_] /\ Scoping'
<1>1. serving \in [InFlight -> Serving_] /\ serving[q].stage # "none"
  BY DEF UserDataInductive, Scoping, UserDataTypeOK, IdleHoldsNone, Serving_
<1>2. [serving[q] EXCEPT !.stage = stage] \in Serving_
  BY <1>1 DEF Serving_
<1>3. serving' = [serving EXCEPT ![q] = [serving[q] EXCEPT !.stage = stage]]
  BY DEF to_stage
<1>4. serving' \in [InFlight -> Serving_]
  BY <1>1, <1>2, <1>3
<1>5. /\ serving'[q].stage = stage
      /\ \A p \in InFlight : /\ serving'[p].user = serving[p].user
                             /\ serving'[p].task = serving[p].task
                             /\ p # q => serving'[p].stage = serving[p].stage
  BY <1>1, <1>3 DEF Serving_
<1>6. CheckedFirst'
  BY <1>1, <1>5 DEF UserDataInductive, Scoping, CheckedFirst
<1>7. IdleHoldsNone' /\ OneConnection' /\ ScopedToUser'
  BY <1>5 DEF UserDataInductive, Scoping, IdleHoldsNone, OneConnection, ScopedToUser, Holds
<1> QED
  BY <1>4, <1>6, <1>7 DEF Scoping

(* A connection is taken from the pool.                                    *)
LEMMA ConnectionTaken ==
  ASSUME UserDataInductive, NEW q \in InFlight, NEW c \in Connections,
         NEW kind \in Kinds, NEW t \in Owned, NEW u \in Owners,
         get_user_connection(q, c, kind, t, u)
  PROVE  UserDataInductive'
<1> DEFINE request == [stage |-> "check", kind |-> kind, task |-> t, user |-> u]
<1> USE UserDataAssumption DEF UserDataAssumption
<1>1. /\ serving[q].stage = "none" /\ connections[c].held = Nobody
      /\ connections' = [connections EXCEPT ![c] = [user |-> u, held |-> q]]
      /\ serving' = [serving EXCEPT ![q] = request]
      /\ UNCHANGED <<owned, kept, inserted, broken>>
  BY DEF get_user_connection
<1>2. request \in Serving_
  BY DEF Serving_
<1>3. UserDataTypeOK'
  BY <1>1, <1>2 DEF UserDataInductive, UserDataTypeOK, Serving_
<1>4. /\ serving'[q] = request /\ connections'[c] = [user |-> u, held |-> q]
      /\ \A p \in InFlight \ {q} : serving'[p] = serving[p]
      /\ \A d \in Connections \ {c} : connections'[d] = connections[d]
  BY <1>1 DEF UserDataInductive, UserDataTypeOK
<1>5. \A d \in Connections : ~Holds(q, d)
  BY <1>1 DEF UserDataInductive, Scoping, IdleHoldsNone
<1>6. CheckedFirst'
  BY <1>4 DEF UserDataInductive, Scoping, CheckedFirst
<1>7. IdleHoldsNone' /\ OneConnection' /\ ScopedToUser'
  BY <1>4, <1>5 DEF UserDataInductive, Scoping, IdleHoldsNone, OneConnection, ScopedToUser, Holds
<1>8. RowsOfOwner'
  BY <1>1 DEF UserDataInductive, RowsOfOwner
<1> QED
  BY <1>3, <1>6, <1>7, <1>8 DEF UserDataInductive, Scoping

(* It is returned, and names nobody.                                       *)
LEMMA ConnectionReturned ==
  ASSUME UserDataInductive, NEW q \in InFlight, NEW c \in Connections,
         release(q, c) \/ release_fails(q, c)
  PROVE  UserDataInductive'
<1> USE UserDataAssumption DEF UserDataAssumption
<1>1. PICK name \in Owners \cup {Nobody} : returned(q, c, name)
  BY DEF release, release_fails, UserDataInductive, UserDataTypeOK
<1>2. /\ Holds(q, c)
      /\ connections' = [connections EXCEPT ![c] = [user |-> name, held |-> Nobody]]
      /\ serving' = [serving EXCEPT ![q] = NoRequest]
      /\ UNCHANGED <<owned, kept, inserted>>
  BY <1>1 DEF returned, release, release_fails
<1>3. broken' \in 0 .. MaxBroken
  BY DEF release, release_fails, UserDataInductive, UserDataTypeOK
<1>4. UserDataTypeOK'
  BY <1>2, <1>3, NoRequestType DEF UserDataInductive, UserDataTypeOK, Serving_
<1>5. /\ serving'[q] = NoRequest /\ connections'[c].held = Nobody
      /\ \A p \in InFlight \ {q} : serving'[p] = serving[p]
      /\ \A d \in Connections \ {c} : connections'[d] = connections[d]
  BY <1>2 DEF UserDataInductive, UserDataTypeOK
<1>6. CheckedFirst'
  BY <1>5, NoRequestType DEF UserDataInductive, Scoping, CheckedFirst
<1>7. \A p \in InFlight, d \in Connections : Holds(p, d)' => Holds(p, d) /\ p # q /\ d # c
  BY <1>2, <1>5 DEF UserDataInductive, Scoping, OneConnection, Holds
<1>8. IdleHoldsNone' /\ OneConnection' /\ ScopedToUser'
  BY <1>5, <1>7 DEF UserDataInductive, Scoping, IdleHoldsNone, OneConnection, ScopedToUser
<1>9. RowsOfOwner'
  BY <1>2 DEF UserDataInductive, RowsOfOwner
<1> QED
  BY <1>4, <1>6, <1>8, <1>9 DEF UserDataInductive, Scoping

(* A request compares the task and its user.                               *)
LEMMA CheckStep ==
  ASSUME UserDataInductive, NEW q \in InFlight, NEW c \in Connections,
         check_owner(q, c) \/ write_refused(q, c)
  PROVE  UserDataInductive'
<1>1. /\ Holds(q, c) /\ UNCHANGED <<owned, kept, connections, inserted, broken>>
      /\ \E stage \in {"write", "done"} :
            /\ to_stage(q, stage)
            /\ stage = "write" => OwnerOf[serving[q].task] = serving[q].user
  BY DEF check_owner, write_refused
<1>2. serving' \in [InFlight -> Serving_] /\ Scoping'
  BY <1>1, StageMoves
<1>3. UserDataTypeOK' /\ RowsOfOwner'
  BY <1>1, <1>2 DEF UserDataInductive, UserDataTypeOK, RowsOfOwner, Serving_
<1> QED
  BY <1>2, <1>3 DEF UserDataInductive

(* The task of the row is there: the foreign key.  The user is the task's: *)
(* compared before, and neither changes.                                   *)
LEMMA WriteStep ==
  ASSUME UserDataInductive, NEW q \in InFlight, NEW c \in Connections,
         NEW id \in 0 .. MaxRows, may_write(q, c), to_stage(q, "done"),
         kept' \subseteq kept \cup {row(q, id)}, inserted' \in 0 .. MaxRows,
         UNCHANGED <<owned, connections, broken>>
  PROVE  UserDataInductive'
<1>1. Holds(q, c) /\ serving[q].stage = "write" /\ serving[q].task \in owned
  BY DEF may_write
<1>2. serving' \in [InFlight -> Serving_] /\ Scoping'
  BY <1>1, StageMoves
<1>3. /\ serving[q] \in Serving_ /\ serving[q].user \in Owners
      /\ OwnerOf[serving[q].task] = serving[q].user
  BY <1>1 DEF UserDataInductive, Scoping, UserDataTypeOK, CheckedFirst, Serving_
<1>4. row(q, id) \in Row_
  BY <1>3 DEF row, Row_, Serving_
<1>5. UserDataTypeOK'
  BY <1>2, <1>4 DEF UserDataInductive, UserDataTypeOK, Serving_, Row_
<1>6. RowsOfOwner'
  BY <1>1, <1>3 DEF UserDataInductive, RowsOfOwner, row
<1> QED
  BY <1>2, <1>5, <1>6 DEF UserDataInductive

(* A task is deleted, with what is kept beside it.                         *)
LEMMA DeleteStep ==
  ASSUME UserDataInductive, NEW q \in InFlight, NEW c \in Connections, NEW kind, NEW r,
         delete_row(q, c, kind, r)
  PROVE  UserDataInductive'
<1>1. /\ Holds(q, c) /\ to_stage(q, "done") /\ kept' = kept \ {r}
      /\ UNCHANGED <<owned, connections, inserted, broken>>
  BY DEF delete_row
<1>2. serving' \in [InFlight -> Serving_] /\ Scoping'
  BY <1>1, StageMoves
<1>3. UserDataTypeOK' /\ RowsOfOwner'
  BY <1>1, <1>2 DEF UserDataInductive, UserDataTypeOK, RowsOfOwner, Serving_
<1> QED
  BY <1>2, <1>3 DEF UserDataInductive

(* Every step keeps the invariant.                                         *)
LEMMA UserDataInductiveStep == UserDataInductive /\ [UserDataNext]_userDataVars => UserDataInductive'
<1> SUFFICES ASSUME UserDataInductive, [UserDataNext]_userDataVars PROVE UserDataInductive'
  OBVIOUS
<1>1. ASSUME NEW q \in InFlight, NEW c \in Connections, NEW t \in Owned, NEW u \in Owners,
             \/ add_note(q, c, t, u) \/ add_attachment(q, c, t, u)
             \/ share_task(q, c, t, u) \/ annotate_task(q, c, t, u)
      PROVE  UserDataInductive'
  BY <1>1, ConnectionTaken DEF add_note, add_attachment, share_task, annotate_task, Kinds
<1>2. ASSUME NEW q \in InFlight, NEW c \in Connections,
             add_task_note(q, c) \/ add_task_attachment(q, c) \/ create_task_share(q, c)
      PROVE  UserDataInductive'
  <2>1. /\ may_write(q, c) /\ to_stage(q, "done") /\ inserted < MaxRows
        /\ inserted' = inserted + 1 /\ kept' = kept \cup {row(q, inserted + 1)}
        /\ UNCHANGED <<owned, connections, broken>>
    BY <1>2 DEF add_task_note, add_task_attachment, create_task_share, insert_row
  <2>2. inserted + 1 \in 0 .. MaxRows
    BY <2>1, UserDataAssumption DEF UserDataInductive, UserDataTypeOK, UserDataAssumption
  <2> QED
    BY <2>1, <2>2, WriteStep
<1>3. ASSUME NEW q \in InFlight, NEW c \in Connections, upsert_task_annotation(q, c)
      PROVE  UserDataInductive'
  <2>1. /\ may_write(q, c) /\ to_stage(q, "done") /\ inserted' = inserted
        /\ kept' \subseteq kept \cup {row(q, 0)}
        /\ UNCHANGED <<owned, connections, broken>>
    BY <1>3 DEF upsert_task_annotation
  <2>2. 0 \in 0 .. MaxRows /\ inserted \in 0 .. MaxRows
    BY UserDataAssumption DEF UserDataInductive, UserDataTypeOK, UserDataAssumption
  <2> QED
    BY <2>1, <2>2, WriteStep
<1>4. ASSUME NEW q \in InFlight, NEW c \in Connections, NEW r \in kept,
             \/ delete_task_note(q, c, r) \/ delete_task_attachment(q, c, r)
             \/ revoke_task_share(q, c, r)
      PROVE  UserDataInductive'
  BY <1>4, DeleteStep DEF delete_task_note, delete_task_attachment, revoke_task_share
<1>5. ASSUME NEW t \in Owned, delete_task(t) PROVE UserDataInductive'
  BY <1>5 DEF delete_task, UserDataInductive, UserDataTypeOK, RowsOfOwner, Scoping, CheckedFirst,
              IdleHoldsNone, OneConnection, ScopedToUser, Holds
<1>6. CASE UNCHANGED userDataVars
  BY <1>6 DEF userDataVars, UserDataInductive, UserDataTypeOK, RowsOfOwner, Scoping, CheckedFirst,
              IdleHoldsNone, OneConnection, ScopedToUser, Holds
<1> QED
  BY <1>1, <1>2, <1>3, <1>4, <1>5, <1>6, ConnectionReturned, CheckStep DEF UserDataNext

(* Rows are of tasks that are there and of their users, and connections    *)
(* name the user they serve, through every interleaving of requests,       *)
(* deletions and failed releases (src/database.py 134-211, 4730-5960).     *)
THEOREM UserDataCorrect == UserDataSpec => []UserDataInvariant
<1>1. UserDataSpec => []UserDataInductive
  BY UserDataInductiveInit, UserDataInductiveStep, PTL DEF UserDataSpec
<1>2. UserDataInductive => UserDataInvariant
  BY DEF UserDataInductive, Scoping, UserDataInvariant
<1> QED
  BY <1>1, <1>2, PTL

-----------------------------------------------------------------------------
(****************************************************************************)
(* Users, keys and stream tokens, for every number of rotations and         *)
(* requests. A token is of the user's current key, or was asked for before  *)
(* the rotation and stored after it, or is about to be taken away by the    *)
(* rotation that is between its two statements (KeysFit).                   *)
(****************************************************************************)

AccountRow == [there : BOOLEAN, active : BOOLEAN, is_admin : BOOLEAN, key : 0 .. MaxKeys]
TokenRow == [token : StreamTokens, user : People, key : 0 .. MaxKeys,
             late : BOOLEAN, expired : BOOLEAN]
KeyCallers == Asking \cup {Cli}
CallRow == [stage : {"none", "admitted", "hashed"}, op : Ops, user : People, target : People,
         key : 0 .. MaxKeys, late : BOOLEAN]

(* An active row exists; tokens and submissions are of users with a row.   *)
RowsFit ==
    /\ \A u \in People : accounts[u].active => accounts[u].there
    /\ \A s \in stream_tokens : accounts[s.user].there
    /\ \A q \in KeyCallers :
          asked[q].stage = "admitted" /\ asked[q].op = "submit" => accounts[asked[q].user].there

(* A rotation of the user's key is between its two statements.             *)
Between(u) ==
    \E q \in KeyCallers : asked[q].op = "rotate" /\ asked[q].stage = "hashed" /\ asked[q].user = u

(* A token stored now for key k of user u, asked for late or not, may stay.*)
TokenFine(u, k, late) == k = accounts[u].key \/ late \/ u \in half_rotated \/ Between(u)

KeysFit ==
    provider = "api_key" /\ ~SharedTokens =>
        /\ \A s \in stream_tokens : ~s.expired => TokenFine(s.user, s.key, s.late)
        /\ \A q \in KeyCallers :
              asked[q].stage = "admitted" /\ asked[q].op = "submit" =>
                  TokenFine(asked[q].user, asked[q].key, asked[q].late)

AccountsInv == AccountsTypeOK /\ RowsFit /\ KeysFit /\ AdminRemains

(* The types in a form that the steps use.                                 *)
LEMMA AccountTypes ==
    ASSUME AccountsTypeOK
    PROVE  /\ accounts \in [People -> AccountRow] /\ stream_tokens \subseteq TokenRow
           /\ asked \in [KeyCallers -> CallRow] /\ DOMAIN asked = KeyCallers
           /\ to_rotate \subseteq People /\ half_rotated \subseteq People
           /\ provider \in Providers /\ cuts \in 0 .. MaxCuts /\ outdated \in BOOLEAN
BY DEF AccountsTypeOK, AccountRow, TokenRow, KeyCallers, CallRow

(* The functions of records are of the types the module states.            *)
LEMMA AccountTypesOK ==
    ASSUME accounts \in [People -> AccountRow], stream_tokens \subseteq TokenRow,
           asked \in [KeyCallers -> CallRow], to_rotate \subseteq People, half_rotated \subseteq People,
           provider \in Providers, cuts \in 0 .. MaxCuts, outdated \in BOOLEAN
    PROVE  AccountsTypeOK
BY DEF AccountsTypeOK, AccountRow, TokenRow, KeyCallers, CallRow

(* What the invariant says of one user and one token.                      *)
LEMMA AccountFacts ==
    /\ FirstAdmin \in People /\ Cli \notin Asking /\ Cli \in KeyCallers /\ Asking \subseteq KeyCallers
    /\ MaxKeys \in Nat /\ MaxKeys >= 1 /\ MaxCuts \in Nat
    /\ NotAsking \in CallRow /\ NotAsking.stage = "none"
    /\ NoRow \in AccountRow /\ NoRow.there = FALSE /\ NoRow.active = FALSE
<1>1. /\ FirstAdmin \in People /\ Cli \notin Asking /\ MaxKeys \in Nat /\ MaxKeys >= 1 /\ MaxCuts \in Nat
  BY AccountsAssumption DEF AccountsAssumption
<1>2. /\ NotAsking \in CallRow /\ NotAsking.stage = "none"
  BY <1>1 DEF NotAsking, CallRow, Ops
<1>3. NoRow \in AccountRow /\ NoRow.there = FALSE /\ NoRow.active = FALSE
  BY <1>1 DEF NoRow, AccountRow
<1> QED
  BY <1>1, <1>2, <1>3 DEF KeyCallers

(* The call of one caller changes, and was no rotation between its         *)
(* statements.                                                             *)
LEMMA StillBetween ==
    ASSUME NEW q \in KeyCallers, ~(asked[q].op = "rotate" /\ asked[q].stage = "hashed"),
           \A p \in KeyCallers : p # q => asked'[p] = asked[p]
    PROVE  \A u : Between(u) => Between(u)'
<1> SUFFICES ASSUME NEW u, Between(u) PROVE Between(u)'
  OBVIOUS
<1>1. PICK p \in KeyCallers : asked[p].op = "rotate" /\ asked[p].stage = "hashed" /\ asked[p].user = u
  BY DEF Between
<1>2. asked'[p] = asked[p]
  BY <1>1
<1> QED
  BY <1>1, <1>2 DEF Between

(* A token that may stay, may stay after a step that leaves the key of     *)
(* its user and the rotations of that user.                                *)
LEMMA StillFine ==
    ASSUME NEW u, NEW k, NEW late, TokenFine(u, k, late),
           accounts'[u].key = accounts[u].key, half_rotated \subseteq half_rotated',
           Between(u) => Between(u)'
    PROVE  TokenFine(u, k, late)'
BY DEF TokenFine

(* The invariant holds at the start.                                       *)
LEMMA AccountsInvInit == AccountsInit => AccountsInv
<1> SUFFICES ASSUME AccountsInit PROVE AccountsInv
  OBVIOUS
<1> DEFINE first == [there |-> TRUE, active |-> TRUE, is_admin |-> TRUE, key |-> 1]
<1>0. /\ first \in AccountRow /\ first.there = TRUE /\ first.active = TRUE /\ first.is_admin = TRUE
  BY AccountFacts DEF AccountRow
<1>1. /\ accounts \in [People -> AccountRow]
      /\ accounts[FirstAdmin] = first
      /\ \A u \in People : u # FirstAdmin => accounts[u] = NoRow
  BY <1>0, AccountFacts DEF AccountsInit
<1> HIDE DEF first
<1>2. \A q \in KeyCallers : asked[q] = NotAsking
  BY DEF AccountsInit, KeyCallers
<1>3. AccountsTypeOK
  <2>1. asked \in [KeyCallers -> CallRow]
    BY AccountFacts DEF AccountsInit, KeyCallers
  <2>2. /\ stream_tokens = {} /\ to_rotate = {} /\ half_rotated = {} /\ provider \in Providers
        /\ cuts = 0
    BY DEF AccountsInit
  <2>3. outdated \in BOOLEAN
    BY DEF AccountsInit
  <2> QED
    BY <1>1, <2>1, <2>2, <2>3, AccountFacts, AccountTypesOK
<1>4. RowsFit
  <2>1. stream_tokens = {}
    BY DEF AccountsInit
  <2> QED
    BY <1>0, <1>1, <1>2, <2>1, AccountFacts DEF RowsFit
<1>5. KeysFit
  <2>1. stream_tokens = {}
    BY DEF AccountsInit
  <2> QED
    BY <1>2, <2>1, AccountFacts DEF KeysFit
<1>6. AdminRemains
  BY <1>0, <1>1, AccountFacts DEF AdminRemains, IsAdmin
<1> QED
  BY <1>3, <1>4, <1>5, <1>6 DEF AccountsInv
(* Steps that change nothing but the call of one caller.                   *)
LEMMA CallMoves ==
    ASSUME AccountsInv, NEW q \in KeyCallers, NEW call \in CallRow, asked' = [asked EXCEPT ![q] = call],
           UNCHANGED <<accounts, stream_tokens, half_rotated, provider, outdated>>,
           to_rotate' \subseteq People, cuts' \in 0 .. MaxCuts,
           ~(asked[q].op = "rotate" /\ asked[q].stage = "hashed"),
           provider = "api_key" /\ call.stage = "admitted" /\ call.op = "submit" =>
               \/ call.key = accounts[call.user].key
               \/ asked[q].stage = "admitted" /\ call = asked[q],
           call.stage = "admitted" /\ call.op = "submit" => accounts[call.user].there
    PROVE  AccountsInv'
<1>1. /\ asked \in [KeyCallers -> CallRow] /\ AccountsTypeOK
      /\ accounts' = accounts /\ stream_tokens' = stream_tokens /\ half_rotated' = half_rotated /\ provider' = provider /\ outdated' = outdated
  BY AccountTypes DEF AccountsInv
<1>2. /\ asked' \in [KeyCallers -> CallRow] /\ asked'[q] = call
      /\ \A p \in KeyCallers : p # q => asked'[p] = asked[p]
  BY <1>1
<1>3. \A u : Between(u) => Between(u)'
  BY <1>2, StillBetween
<1>3a. \A u, k, late : TokenFine(u, k, late) => TokenFine(u, k, late)'
  BY <1>1, <1>3 DEF TokenFine
<1>4. AccountsTypeOK'
  BY <1>1, <1>2 DEF AccountsTypeOK, KeyCallers, CallRow
<1>5. RowsFit'
  BY <1>1, <1>2 DEF AccountsInv, RowsFit
<1>6. KeysFit'
  <2> SUFFICES ASSUME provider = "api_key" /\ ~SharedTokens
               PROVE  /\ \A s \in stream_tokens : ~s.expired => TokenFine(s.user, s.key, s.late)'
                      /\ \A p \in KeyCallers :
                            asked'[p].stage = "admitted" /\ asked'[p].op = "submit" =>
                                TokenFine(asked[p].user, asked[p].key, asked[p].late)'
    BY <1>1 DEF KeysFit
  <2>1. ASSUME NEW s \in stream_tokens, ~s.expired PROVE TokenFine(s.user, s.key, s.late)'
    BY <1>3a, <2>1 DEF AccountsInv, KeysFit
  <2>2. ASSUME NEW p \in KeyCallers, asked'[p].stage = "admitted", asked'[p].op = "submit"
        PROVE  TokenFine(asked[p].user, asked[p].key, asked[p].late)'
    <3>1. CASE p = q /\ call.key = accounts[call.user].key
      BY <1>1, <1>2, <3>1 DEF TokenFine
    <3>2. CASE asked'[p] = asked[p]
      <4>1. PICK u, k, late : u = asked[p].user /\ k = asked[p].key /\ late = asked[p].late
        OBVIOUS
      <4>2. TokenFine(u, k, late)'
        BY <1>3a, <2>2, <3>2, <4>1 DEF AccountsInv, KeysFit
      <4> QED
        BY <3>2, <4>1, <4>2 DEF TokenFine
    <3> QED
      BY <1>2, <2>2, <3>1, <3>2
  <2> QED
    BY <2>1, <2>2
<1>7. AdminRemains'
  BY <1>1 DEF AccountsInv, AdminRemains, IsAdmin
<1> QED
  BY <1>4, <1>5, <1>6, <1>7 DEF AccountsInv

(* Steps that change one row, but not the key of a user who exists, and    *)
(* end at most one call.                                                   *)
LEMMA RowMoves ==
    ASSUME AccountsInv, NEW u \in People, NEW entry \in AccountRow, accounts' = [accounts EXCEPT ![u] = entry],
           accounts[u].there => entry.there /\ entry.key = accounts[u].key, entry.active => entry.there,
           NEW q \in KeyCallers,
           asked' = asked \/ (asked' = [asked EXCEPT ![q] = NotAsking] /\ asked[q].stage = "admitted"),
           UNCHANGED <<stream_tokens, half_rotated, provider, to_rotate, cuts>>,
           outdated' \in BOOLEAN, AdminRemains'
    PROVE  AccountsInv'
<1>1. /\ asked \in [KeyCallers -> CallRow] /\ AccountsTypeOK /\ accounts \in [People -> AccountRow]
      /\ stream_tokens \subseteq TokenRow
      /\ stream_tokens' = stream_tokens /\ half_rotated' = half_rotated /\ provider' = provider
  BY AccountTypes DEF AccountsInv
<1>2. /\ asked' \in [KeyCallers -> CallRow]
      /\ \A p \in KeyCallers : asked'[p] = asked[p] \/ asked'[p].stage = "none"
      /\ \A p \in KeyCallers : asked[p].stage = "hashed" => asked'[p] = asked[p]
  BY <1>1, AccountFacts
<1>3. /\ accounts' \in [People -> AccountRow] /\ accounts'[u] = entry
      /\ \A v \in People : v # u => accounts'[v] = accounts[v]
      /\ \A v \in People : accounts[v].there => accounts'[v].there /\ accounts'[v].key = accounts[v].key
  BY <1>1
<1>3a. \A v : Between(v) => Between(v)'
  BY <1>2 DEF Between
<1>3b. \A v \in People : \A k, late : accounts[v].there /\ TokenFine(v, k, late) => TokenFine(v, k, late)'
  BY <1>1, <1>3, <1>3a DEF TokenFine
<1>4. AccountsTypeOK'
  BY <1>1, <1>2, <1>3 DEF AccountsTypeOK, KeyCallers, CallRow, AccountRow
<1>5. RowsFit'
  <2>1. \A v \in People : accounts'[v].active => accounts'[v].there
    BY <1>3 DEF AccountsInv, RowsFit
  <2>2. \A s \in stream_tokens : accounts'[s.user].there
    BY <1>1, <1>3 DEF AccountsInv, RowsFit, TokenRow
  <2>3. ASSUME NEW p \in KeyCallers, asked'[p].stage = "admitted", asked'[p].op = "submit"
        PROVE  accounts'[asked'[p].user].there
    <3>1. asked'[p] = asked[p] /\ asked[p].user \in People
      BY <1>1, <1>2, <2>3 DEF CallRow
    <3> QED
      BY <1>3, <2>3, <3>1 DEF AccountsInv, RowsFit
  <2> QED
    BY <1>1, <2>1, <2>2, <2>3 DEF RowsFit
<1>6. KeysFit'
  <2> SUFFICES ASSUME provider = "api_key" /\ ~SharedTokens
               PROVE  /\ \A s \in stream_tokens : ~s.expired => TokenFine(s.user, s.key, s.late)'
                      /\ \A p \in KeyCallers :
                            asked'[p].stage = "admitted" /\ asked'[p].op = "submit" =>
                                TokenFine(asked[p].user, asked[p].key, asked[p].late)'
    BY <1>1 DEF KeysFit
  <2>1. ASSUME NEW s \in stream_tokens, ~s.expired PROVE TokenFine(s.user, s.key, s.late)'
    <3>1. s.user \in People /\ accounts[s.user].there
      BY <1>1 DEF AccountsInv, RowsFit, TokenRow
    <3> QED
      BY <1>3b, <2>1, <3>1 DEF AccountsInv, KeysFit
  <2>2. ASSUME NEW p \in KeyCallers, asked'[p].stage = "admitted", asked'[p].op = "submit"
        PROVE  TokenFine(asked[p].user, asked[p].key, asked[p].late)'
    <3>1. asked'[p] = asked[p] /\ asked[p].user \in People
      BY <1>1, <1>2, <2>2 DEF CallRow
    <3>2. PICK v, k, late : v = asked[p].user /\ k = asked[p].key /\ late = asked[p].late
      OBVIOUS
    <3>3. accounts[v].there /\ TokenFine(v, k, late)
      BY <2>2, <3>1, <3>2 DEF AccountsInv, KeysFit, RowsFit
    <3>4. TokenFine(v, k, late)'
      BY <1>3b, <3>1, <3>2, <3>3
    <3> QED
      BY <3>1, <3>2, <3>4 DEF TokenFine
  <2> QED
    BY <2>1, <2>2
<1> QED
  BY <1>4, <1>5, <1>6 DEF AccountsInv

(* A user gets a new key and the caller is between the two statements of   *)
(* the rotation.                                                           *)
LEMMA KeyMoves ==
    ASSUME AccountsInv, NEW u \in People, new_key(u), NEW q \in KeyCallers, NEW call \in CallRow,
           asked' = [asked EXCEPT ![q] = call], call.op = "rotate", call.stage = "hashed",
           call.user = u, ~(asked[q].op = "rotate" /\ asked[q].stage = "hashed"),
           UNCHANGED <<stream_tokens, half_rotated, provider, cuts, outdated>>,
           to_rotate' \subseteq People
    PROVE  AccountsInv'
<1>1. /\ asked \in [KeyCallers -> CallRow] /\ AccountsTypeOK /\ accounts \in [People -> AccountRow]
      /\ accounts[u] \in AccountRow /\ stream_tokens \subseteq TokenRow
      /\ stream_tokens' = stream_tokens /\ half_rotated' = half_rotated /\ provider' = provider /\ outdated' = outdated
  BY AccountTypes DEF AccountsInv
<1>2. /\ asked' \in [KeyCallers -> CallRow] /\ asked'[q] = call
      /\ \A p \in KeyCallers : p # q => asked'[p] = asked[p]
  BY <1>1
<1>3. /\ accounts' \in [People -> AccountRow]
      /\ \A v \in People : v # u => accounts'[v] = accounts[v]
      /\ accounts'[u].there = accounts[u].there /\ accounts'[u].active = accounts[u].active
      /\ accounts'[u].is_admin = accounts[u].is_admin
  <2>1. accounts[u].key < MaxKeys /\ accounts[u].key \in 0 .. MaxKeys
    BY <1>1 DEF new_key, AccountRow
  <2>2. accounts[u].key + 1 \in 0 .. MaxKeys
    BY <2>1, AccountFacts
  <2>3. accounts' = [accounts EXCEPT ![u] = [accounts[u] EXCEPT !.key = accounts[u].key + 1]]
    BY DEF new_key
  <2>4. [accounts[u] EXCEPT !.key = accounts[u].key + 1] \in AccountRow
    BY <1>1, <2>2 DEF AccountRow
  <2> QED
    BY <1>1, <2>3, <2>4 DEF AccountRow
<1>3a. Between(u)' /\ \A v : Between(v) => Between(v)'
  <2>1. Between(u)'
    BY <1>2 DEF Between
  <2> QED
    BY <1>2, <2>1, StillBetween
<1>3b. \A v \in People : \A k, late : TokenFine(v, k, late) => TokenFine(v, k, late)'
  BY <1>1, <1>3, <1>3a DEF TokenFine
<1>4. AccountsTypeOK'
  BY <1>1, <1>2, <1>3 DEF AccountsTypeOK, KeyCallers, CallRow, AccountRow
<1>5. RowsFit'
  <2>1. \A v \in People : accounts'[v].there = accounts[v].there
                          /\ accounts'[v].active = accounts[v].active
    BY <1>3
  <2>2. \A s \in stream_tokens : s.user \in People
    BY <1>1 DEF TokenRow
  <2>3. \A p \in KeyCallers : asked[p].user \in People
    BY <1>1 DEF CallRow
  <2> QED
    BY <1>1, <1>2, <2>1, <2>2, <2>3 DEF AccountsInv, RowsFit
<1>6. KeysFit'
  <2> SUFFICES ASSUME provider = "api_key" /\ ~SharedTokens
               PROVE  /\ \A s \in stream_tokens : ~s.expired => TokenFine(s.user, s.key, s.late)'
                      /\ \A p \in KeyCallers :
                            asked'[p].stage = "admitted" /\ asked'[p].op = "submit" =>
                                TokenFine(asked[p].user, asked[p].key, asked[p].late)'
    BY <1>1 DEF KeysFit
  <2>1. ASSUME NEW s \in stream_tokens, ~s.expired PROVE TokenFine(s.user, s.key, s.late)'
    <3>1. s.user \in People
      BY <1>1 DEF TokenRow
    <3> QED
      BY <1>3b, <2>1, <3>1 DEF AccountsInv, KeysFit
  <2>2. ASSUME NEW p \in KeyCallers, asked'[p].stage = "admitted", asked'[p].op = "submit"
        PROVE  TokenFine(asked[p].user, asked[p].key, asked[p].late)'
    <3>1. asked'[p] = asked[p] /\ asked[p].user \in People
      BY <1>1, <1>2, <2>2 DEF CallRow
    <3>2. PICK v, k, late : v = asked[p].user /\ k = asked[p].key /\ late = asked[p].late
      OBVIOUS
    <3>3. TokenFine(v, k, late)
      BY <2>2, <3>1, <3>2 DEF AccountsInv, KeysFit
    <3>4. TokenFine(v, k, late)'
      BY <1>3b, <3>1, <3>2, <3>3
    <3> QED
      BY <3>1, <3>2, <3>4 DEF TokenFine
  <2> QED
    BY <2>1, <2>2
<1>7. AdminRemains'
  <2>1. \A v \in People : IsAdmin(v) => IsAdmin(v)'
    BY <1>3 DEF IsAdmin
  <2> QED
    BY <1>1, <2>1 DEF AccountsInv, AdminRemains
<1> QED
  BY <1>4, <1>5, <1>6, <1>7 DEF AccountsInv

(* A key is compared with the rows: only the call of its caller moves.     *)
LEMMA AuthenticateKey ==
    ASSUME AccountsInv, NEW q \in Asking, NEW u \in People, NEW op \in Ops, NEW target \in People,
           authenticate_key(q, u, op, target)
    PROVE  AccountsInv'
<1> DEFINE call == [stage |-> "admitted", op |-> op, user |-> u, target |-> target, late |-> FALSE,
                    key |-> IF op = "submit" THEN accounts[u].key ELSE 0]
<1>1. /\ asked[q].stage = "none" /\ accounts[u].active /\ asked' = [asked EXCEPT ![q] = call]
      /\ UNCHANGED <<accounts, stream_tokens, to_rotate, provider, cuts, half_rotated, outdated>>
  BY DEF authenticate_key
<1>2. /\ q \in KeyCallers /\ accounts[u] \in AccountRow /\ to_rotate \subseteq People
      /\ cuts \in 0 .. MaxCuts /\ accounts[u].there
  BY <1>1, AccountTypes, AccountFacts DEF AccountsInv, RowsFit
<1>3. call.key \in 0 .. MaxKeys
  BY <1>2, AccountFacts DEF AccountRow
<1>4. /\ call \in CallRow /\ call.stage = "admitted" /\ call.user = u
      /\ call.op = "submit" => call.key = accounts[u].key
  BY <1>3 DEF CallRow
<1> HIDE DEF call
<1>5. to_rotate' \subseteq People /\ cuts' \in 0 .. MaxCuts
  BY <1>1, <1>2
<1> QED
  BY <1>1, <1>2, <1>4, <1>5, CallMoves

(* A row made at the first login is not an administrator's; its user had   *)
(* no row, so nothing was asked for it.                                    *)
LEMMA VouchedFor ==
    ASSUME AccountsInv, provider # "api_key", NEW q \in Asking, NEW u \in People,
           NEW op \in {"submit", "rotate"}, vouched_for(q, u, op)
    PROVE  AccountsInv'
<1> DEFINE entry == IF accounts[u].there THEN accounts[u]
                  ELSE [there |-> TRUE, active |-> TRUE, is_admin |-> FALSE, key |-> 0]
           call == [NotAsking EXCEPT !.stage = "admitted", !.op = op, !.user = u, !.target = u]
<1>1. /\ asked[q].stage = "none" /\ accounts' = [accounts EXCEPT ![u] = entry]
      /\ asked' = [asked EXCEPT ![q] = call]
      /\ stream_tokens' = stream_tokens /\ half_rotated' = half_rotated /\ provider' = provider /\ outdated' = outdated /\ to_rotate' = to_rotate /\ cuts' = cuts
  BY DEF vouched_for
<1>2. /\ asked \in [KeyCallers -> CallRow] /\ AccountsTypeOK /\ accounts \in [People -> AccountRow]
      /\ accounts[u] \in AccountRow /\ q \in KeyCallers /\ stream_tokens \subseteq TokenRow
  BY AccountTypes, AccountFacts DEF AccountsInv
<1>3. /\ entry \in AccountRow /\ entry.there = TRUE
      /\ accounts[u].there => entry = accounts[u]
  <2>1. CASE accounts[u].there
    BY <1>2, <2>1 DEF AccountRow
  <2>2. CASE ~accounts[u].there
    BY <2>2, AccountFacts DEF AccountRow
  <2> QED
    BY <2>1, <2>2
<1>4. call \in CallRow /\ call.user = u
  BY AccountFacts DEF CallRow, Ops, AdminOps
<1> HIDE DEF entry, call
<1>5. /\ accounts' \in [People -> AccountRow] /\ accounts'[u] = entry
      /\ \A v \in People : v # u => accounts'[v] = accounts[v]
      /\ asked' \in [KeyCallers -> CallRow] /\ asked'[q] = call
      /\ \A p \in KeyCallers : p # q => asked'[p] = asked[p]
  BY <1>1, <1>2, <1>3, <1>4
<1>6. AccountsTypeOK'
  BY <1>1, <1>2, <1>5 DEF AccountsTypeOK, KeyCallers, CallRow, AccountRow
<1>7. RowsFit'
  <2>1. \A v \in People : accounts'[v].active => accounts'[v].there
    BY <1>3, <1>5 DEF AccountsInv, RowsFit
  <2>2. \A v \in People : accounts[v].there => accounts'[v].there
    BY <1>3, <1>5
  <2>3. \A s \in stream_tokens : accounts'[s.user].there
    BY <1>2, <2>2 DEF AccountsInv, RowsFit, TokenRow
  <2>4. ASSUME NEW p \in KeyCallers, asked'[p].stage = "admitted", asked'[p].op = "submit"
        PROVE  accounts'[asked'[p].user].there
    <3>1. CASE p = q
      BY <1>3, <1>4, <1>5, <3>1
    <3>2. CASE p # q
      <4>1. asked'[p] = asked[p] /\ asked[p].user \in People
        BY <1>2, <1>5, <3>2 DEF CallRow
      <4> QED
        BY <2>2, <2>4, <4>1 DEF AccountsInv, RowsFit
    <3> QED
      BY <3>1, <3>2
  <2> QED
    BY <1>1, <2>1, <2>3, <2>4 DEF RowsFit
<1>8. KeysFit'
  BY <1>1 DEF KeysFit
<1>9. AdminRemains'
  <2>1. \A v \in People : IsAdmin(v) => IsAdmin(v)'
    BY <1>3, <1>5 DEF IsAdmin, AccountsInv, RowsFit
  <2> QED
    BY <1>1, <2>1 DEF AccountsInv, AdminRemains
<1> QED
  BY <1>6, <1>7, <1>8, <1>9 DEF AccountsInv

(* A rotation from the command line begins: only its call moves.           *)
LEMMA CliRotateKey == ASSUME AccountsInv, NEW u \in People, cli_rotate_key(u) PROVE AccountsInv'
<1> DEFINE call == [NotAsking EXCEPT !.stage = "admitted", !.op = "rotate", !.user = u]
<1>1. /\ asked[Cli].stage = "none" /\ asked' = [asked EXCEPT ![Cli] = call]
      /\ UNCHANGED <<accounts, stream_tokens, to_rotate, provider, cuts, half_rotated, outdated>>
  BY DEF cli_rotate_key
<1>2. /\ to_rotate' \subseteq People /\ cuts' \in 0 .. MaxCuts
  BY <1>1, AccountTypes DEF AccountsInv
<1>3. call \in CallRow /\ call.op = "rotate"
  BY AccountFacts DEF CallRow, Ops
<1> HIDE DEF call
<1> QED
  BY <1>1, <1>2, <1>3, AccountFacts, CallMoves

(* A refused request only ends.                                            *)
LEMMA AdminRefused == ASSUME AccountsInv, NEW q \in Asking, admin_refused(q) PROVE AccountsInv'
<1>1. /\ asked[q].stage = "admitted" /\ asked' = [asked EXCEPT ![q] = NotAsking]
      /\ UNCHANGED <<accounts, stream_tokens, to_rotate, provider, cuts, half_rotated, outdated>>
  BY DEF admin_refused, Handles, served
<1>2. /\ to_rotate' \subseteq People /\ cuts' \in 0 .. MaxCuts
  BY <1>1, AccountTypes DEF AccountsInv
<1> QED
  BY <1>1, <1>2, AccountFacts, CallMoves

(* The rotation of all users begins: only the list of users is read.       *)
LEMMA RotateAll == ASSUME AccountsInv, rotate_all_standard_users PROVE AccountsInv'
<1>1. /\ to_rotate' \subseteq People
      /\ accounts' = accounts /\ asked' = asked /\ stream_tokens' = stream_tokens /\ half_rotated' = half_rotated
      /\ provider' = provider /\ outdated' = outdated /\ cuts' = cuts
  BY DEF rotate_all_standard_users
<1>2. AccountsTypeOK'
  BY <1>1 DEF AccountsInv, AccountsTypeOK
<1>3. RowsFit' /\ KeysFit' /\ AdminRemains'
  BY <1>1 DEF AccountsInv, RowsFit, KeysFit, TokenFine, Between, AdminRemains, IsAdmin
<1> QED
  BY <1>2, <1>3 DEF AccountsInv

(* The first statement of a rotation: the user has a new key.              *)
LEMMA UpdateKey == ASSUME AccountsInv, NEW q \in KeyCallers, update_key(q) PROVE AccountsInv'
<1>1. /\ asked[q].stage = "admitted" /\ asked[q].op = "rotate" /\ new_key(asked[q].user)
      /\ asked' = [asked EXCEPT ![q] = [asked[q] EXCEPT !.stage = "hashed"]]
      /\ UNCHANGED <<stream_tokens, to_rotate, provider, cuts, half_rotated, outdated>>
  BY DEF update_key, Rotating, staged
<1>2. asked[q] \in CallRow /\ asked[q].user \in People /\ to_rotate' \subseteq People
  BY <1>1, AccountTypes DEF AccountsInv, CallRow
<1>3. PICK u \in People : u = asked[q].user
  BY <1>2
<1>4. PICK call \in CallRow : call = [asked[q] EXCEPT !.stage = "hashed"]
  BY <1>2 DEF CallRow
<1>5. call.op = "rotate" /\ call.stage = "hashed" /\ call.user = u
  BY <1>1, <1>2, <1>3, <1>4 DEF CallRow
<1> QED
  BY <1>1, <1>2, <1>3, <1>4, <1>5, KeyMoves

(* The next user of the rotation of all gets a new key.                    *)
LEMMA RotateNext == ASSUME AccountsInv, NEW u \in People, rotate_next(u) PROVE AccountsInv'
<1>1. /\ asked[Cli].stage = "none" /\ new_key(u) /\ to_rotate' = to_rotate \ {u}
      /\ asked' = [asked EXCEPT ![Cli] = [NotAsking EXCEPT !.stage = "hashed", !.op = "rotate", !.user = u]]
      /\ UNCHANGED <<stream_tokens, provider, cuts, half_rotated, outdated>>
  BY DEF rotate_next
<1>2. to_rotate' \subseteq People
  BY <1>1, AccountTypes DEF AccountsInv
<1>3. PICK call \in CallRow : call = [NotAsking EXCEPT !.stage = "hashed", !.op = "rotate", !.user = u]
  BY AccountFacts DEF CallRow, Ops
<1>4. call.op = "rotate" /\ call.stage = "hashed" /\ call.user = u
  BY <1>3, AccountFacts DEF CallRow
<1> QED
  BY <1>1, <1>2, <1>3, <1>4, AccountFacts, KeyMoves

(* An administrator's request changes the row of another user, or takes    *)
(* nothing from its own: whoever it acts for still is an administrator.    *)
LEMMA AdminActs ==
    ASSUME AccountsInv, NEW q \in KeyCallers, acts(q), NEW u \in People, NEW entry \in AccountRow,
           accounts' = [accounts EXCEPT ![u] = entry],
           IsAdmin(asked[q].user) /\ u = asked[q].user => entry.active /\ entry.is_admin
    PROVE  AdminRemains' /\ outdated' \in BOOLEAN
<1>1. PICK v \in People : v = asked[q].user
  BY AccountTypes DEF AccountsInv, CallRow
<1>2. accounts \in [People -> AccountRow] /\ outdated' = (outdated \/ ~IsAdmin(v))
  BY <1>1, AccountTypes DEF AccountsInv, acts
<1>3. accounts'[u] = entry /\ \A w \in People : w # u => accounts'[w] = accounts[w]
  BY <1>2
<1>4. IsAdmin(v) => IsAdmin(v)'
  BY <1>1, <1>3 DEF IsAdmin
<1> QED
  BY <1>2, <1>4 DEF AdminRemains

(* An administrator makes a user, who has no token yet.                    *)
LEMMA CreateUser ==
    ASSUME AccountsInv, NEW q \in Asking, NEW is_admin \in BOOLEAN, create_user(q, is_admin)
    PROVE  AccountsInv'
<1>1. PICK u \in People : u = asked[q].target
  BY AccountTypes, AccountFacts DEF AccountsInv, CallRow
<1>0. [there |-> TRUE, active |-> TRUE, is_admin |-> is_admin, key |-> 1] \in AccountRow
  <2>1. 1 \in 0 .. MaxKeys
    BY AccountFacts
  <2> QED
    BY <2>1, Zenon DEF AccountRow
<1>2. PICK entry \in AccountRow : entry = [there |-> TRUE, active |-> TRUE, is_admin |-> is_admin, key |-> 1]
  BY <1>0, Zenon
<1>3. /\ asked[q].stage = "admitted" /\ acts(q) /\ asked' = [asked EXCEPT ![q] = NotAsking]
      /\ ~accounts[u].there /\ accounts' = [accounts EXCEPT ![u] = entry]
      /\ UNCHANGED <<stream_tokens, half_rotated, provider, to_rotate, cuts>>
  BY <1>1, <1>2 DEF create_user, Handles, served, create_gateway_user
<1>4. ~IsAdmin(u) /\ entry.there = TRUE
  BY <1>2, <1>3 DEF IsAdmin, AccountsInv, RowsFit
<1>5. IsAdmin(asked[q].user) /\ u = asked[q].user => entry.active /\ entry.is_admin
  BY <1>4
<1>6. AdminRemains' /\ outdated' \in BOOLEAN
  BY <1>3, <1>5, AdminActs, AccountFacts
<1> QED
  BY <1>3, <1>4, <1>6, RowMoves, AccountFacts

(* An administrator makes another user one, or takes it from them.         *)
LEMMA SetUserAdmin ==
    ASSUME AccountsInv, NEW q \in Asking, NEW is_admin \in BOOLEAN, set_user_admin(q, is_admin)
    PROVE  AccountsInv'
<1>1. PICK u \in People : u = asked[q].target
  BY AccountTypes, AccountFacts DEF AccountsInv, CallRow
<1>1a. accounts \in [People -> AccountRow] /\ accounts[u] \in AccountRow
  BY AccountTypes DEF AccountsInv
<1>2. PICK entry \in AccountRow : entry = [accounts[u] EXCEPT !.is_admin = is_admin]
  BY <1>1a DEF AccountRow
<1>2a. /\ entry.there = accounts[u].there /\ entry.active = accounts[u].active
       /\ entry.key = accounts[u].key /\ entry.is_admin = is_admin
  BY <1>1a, <1>2 DEF AccountRow
<1>3. /\ asked[q].stage = "admitted" /\ acts(q) /\ asked' = [asked EXCEPT ![q] = NotAsking]
      /\ accounts[u].there /\ accounts' = [accounts EXCEPT ![u] = entry]
      /\ u = asked[q].user => is_admin
      /\ UNCHANGED <<stream_tokens, half_rotated, provider, to_rotate, cuts>>
  BY <1>1, <1>2 DEF set_user_admin, Handles, served, promote_gateway_user_to_admin
<1>4. entry.active => entry.there
  BY <1>2a DEF AccountsInv, RowsFit
<1>5. IsAdmin(asked[q].user) /\ u = asked[q].user => entry.active /\ entry.is_admin
  BY <1>2a, <1>3 DEF IsAdmin
<1>6. AdminRemains' /\ outdated' \in BOOLEAN
  BY <1>3, <1>5, AdminActs, AccountFacts
<1> QED
  BY <1>2a, <1>3, <1>4, <1>6, RowMoves, AccountFacts

(* An administrator deactivates another user.                              *)
LEMMA DeactivateUser ==
    ASSUME AccountsInv, NEW q \in Asking, deactivate_user(q)
    PROVE  AccountsInv'
<1>1. PICK u \in People : u = asked[q].target
  BY AccountTypes, AccountFacts DEF AccountsInv, CallRow
<1>1a. accounts \in [People -> AccountRow] /\ accounts[u] \in AccountRow
  BY AccountTypes DEF AccountsInv
<1>2. PICK entry \in AccountRow : entry = [accounts[u] EXCEPT !.active = FALSE]
  BY <1>1a DEF AccountRow
<1>2a. entry.there = accounts[u].there /\ entry.active = FALSE /\ entry.key = accounts[u].key
  BY <1>1a, <1>2 DEF AccountRow
<1>3. /\ asked[q].stage = "admitted" /\ acts(q) /\ asked' = [asked EXCEPT ![q] = NotAsking]
      /\ accounts' = [accounts EXCEPT ![u] = entry] /\ u # asked[q].user
      /\ UNCHANGED <<stream_tokens, half_rotated, provider, to_rotate, cuts>>
  BY <1>1, <1>2 DEF deactivate_user, Handles, served, deactivate_gateway_user
<1>6. AdminRemains' /\ outdated' \in BOOLEAN
  BY <1>3, AdminActs, AccountFacts
<1> QED
  BY <1>2a, <1>3, <1>6, RowMoves, AccountFacts

(* A user is made from the command line.                                   *)
LEMMA CliCreateUser ==
    ASSUME AccountsInv, NEW u \in People, NEW is_admin \in BOOLEAN, cli_create_user(u, is_admin)
    PROVE  AccountsInv'
<1>0. [there |-> TRUE, active |-> TRUE, is_admin |-> is_admin, key |-> 1] \in AccountRow
  <2>1. 1 \in 0 .. MaxKeys
    BY AccountFacts
  <2> QED
    BY <2>1, Zenon DEF AccountRow
<1>2. PICK entry \in AccountRow : entry = [there |-> TRUE, active |-> TRUE, is_admin |-> is_admin, key |-> 1]
  BY <1>0, Zenon
<1>3. /\ asked' = asked /\ outdated' = outdated
      /\ ~accounts[u].there /\ accounts' = [accounts EXCEPT ![u] = entry]
      /\ UNCHANGED <<stream_tokens, half_rotated, provider, to_rotate, cuts>>
  BY <1>2 DEF cli_create_user, create_gateway_user
<1>4. accounts \in [People -> AccountRow] /\ outdated \in BOOLEAN
  BY AccountTypes DEF AccountsInv
<1>5. AdminRemains'
  <2>1. \A v \in People : IsAdmin(v) => IsAdmin(v)'
    BY <1>3, <1>4 DEF IsAdmin, AccountsInv, RowsFit
  <2> QED
    BY <1>3, <2>1 DEF AccountsInv, AdminRemains
<1>6. entry.there = TRUE /\ outdated' \in BOOLEAN
  BY <1>2, <1>3, <1>4
<1> QED
  BY <1>3, <1>5, <1>6, RowMoves, AccountFacts

(* A user who is not the last administrator is deactivated from the        *)
(* command line.                                                           *)
LEMMA CliDeactivateUser ==
    ASSUME AccountsInv, NEW u \in People, cli_deactivate_user(u) PROVE AccountsInv'
<1>1a. accounts \in [People -> AccountRow] /\ accounts[u] \in AccountRow /\ outdated \in BOOLEAN
  BY AccountTypes DEF AccountsInv
<1>2. PICK entry \in AccountRow : entry = [accounts[u] EXCEPT !.active = FALSE]
  BY <1>1a DEF AccountRow
<1>2a. entry.there = accounts[u].there /\ entry.active = FALSE /\ entry.key = accounts[u].key
  BY <1>1a, <1>2 DEF AccountRow
<1>3. /\ asked' = asked /\ outdated' = (outdated \/ accounts[u].is_admin)
      /\ accounts' = [accounts EXCEPT ![u] = entry]
      /\ UNCHANGED <<stream_tokens, half_rotated, provider, to_rotate, cuts>>
  BY <1>2 DEF cli_deactivate_user, deactivate_gateway_user
<1>4. AdminRemains'
  <2>1. SUFFICES ASSUME ~outdated' PROVE \E v \in People : IsAdmin(v)'
    BY DEF AdminRemains
  <2>2. PICK v \in People : IsAdmin(v)
    BY <1>3, <2>1 DEF AccountsInv, AdminRemains
  <2>3. v # u
    BY <1>3, <2>1, <2>2 DEF IsAdmin
  <2> QED
    BY <1>1a, <1>3, <2>2, <2>3 DEF IsAdmin
<1>5. outdated' \in BOOLEAN
  BY <1>1a, <1>3 DEF AccountRow
<1> QED
  BY <1>2a, <1>3, <1>4, <1>5, RowMoves, AccountFacts

(* A token is stored: of the current key, or late.                         *)
LEMMA CreateStreamToken ==
    ASSUME AccountsInv, NEW q \in Asking, NEW t \in StreamTokens, create_stream_token(q, t)
    PROVE  AccountsInv'
<1>1. PICK new : new = [token |-> t, user |-> asked[q].user, key |-> asked[q].key,
                        late |-> asked[q].late, expired |-> FALSE]
  OBVIOUS
<1>2. /\ asked[q].stage = "admitted" /\ asked[q].op = "submit"
      /\ stream_tokens' = stream_tokens \cup {new} /\ asked' = [asked EXCEPT ![q] = NotAsking]
      /\ accounts' = accounts /\ half_rotated' = half_rotated /\ provider' = provider
      /\ outdated' = outdated /\ to_rotate' = to_rotate /\ cuts' = cuts
  BY <1>1 DEF create_stream_token, served
<1>3. /\ asked \in [KeyCallers -> CallRow] /\ asked[q] \in CallRow /\ q \in KeyCallers /\ AccountsTypeOK
      /\ stream_tokens \subseteq TokenRow
  BY AccountTypes, AccountFacts DEF AccountsInv
<1>4. new \in TokenRow /\ new.user = asked[q].user /\ new.key = asked[q].key /\ new.late = asked[q].late
  BY <1>1, <1>3 DEF TokenRow, CallRow
<1>5. /\ asked' \in [KeyCallers -> CallRow] /\ asked'[q].stage = "none"
      /\ \A p \in KeyCallers : p # q => asked'[p] = asked[p]
  BY <1>2, <1>3, AccountFacts
<1>6. \A u, k, late : TokenFine(u, k, late) => TokenFine(u, k, late)'
  <2>1. \A u : Between(u) => Between(u)'
    BY <1>2, <1>3, <1>5, StillBetween
  <2> QED
    BY <1>2, <2>1 DEF TokenFine
<1>7. AccountsTypeOK'
  BY <1>2, <1>3, <1>4, <1>5 DEF AccountsTypeOK, KeyCallers, CallRow, TokenRow
<1>8. RowsFit'
  <2>1. accounts[new.user].there
    BY <1>2, <1>3, <1>4 DEF AccountsInv, RowsFit
  <2> QED
    BY <1>2, <1>5, <2>1 DEF AccountsInv, RowsFit
<1>9. KeysFit'
  <2> SUFFICES ASSUME provider = "api_key" /\ ~SharedTokens
               PROVE  /\ \A s \in stream_tokens' : ~s.expired => TokenFine(s.user, s.key, s.late)'
                      /\ \A p \in KeyCallers :
                            asked'[p].stage = "admitted" /\ asked'[p].op = "submit" =>
                                TokenFine(asked[p].user, asked[p].key, asked[p].late)'
    BY <1>2 DEF KeysFit
  <2>1. ASSUME NEW s \in stream_tokens', ~s.expired PROVE TokenFine(s.user, s.key, s.late)'
    <3>1. CASE s = new
      BY <1>2, <1>3, <1>4, <1>6, <3>1 DEF AccountsInv, KeysFit
    <3>2. CASE s \in stream_tokens
      BY <1>6, <2>1, <3>2 DEF AccountsInv, KeysFit
    <3> QED
      BY <1>2, <3>1, <3>2
  <2>2. ASSUME NEW p \in KeyCallers, asked'[p].stage = "admitted", asked'[p].op = "submit"
        PROVE  TokenFine(asked[p].user, asked[p].key, asked[p].late)'
    <3>1. asked'[p] = asked[p]
      BY <1>5, <2>2
    <3>2. PICK v, k, late : v = asked[p].user /\ k = asked[p].key /\ late = asked[p].late
      OBVIOUS
    <3>3. TokenFine(v, k, late)'
      BY <1>6, <2>2, <3>1, <3>2 DEF AccountsInv, KeysFit
    <3> QED
      BY <3>1, <3>2, <3>3 DEF TokenFine
  <2> QED
    BY <2>1, <2>2
<1>10. AdminRemains'
  BY <1>2 DEF AccountsInv, AdminRemains, IsAdmin
<1> QED
  BY <1>7, <1>8, <1>9, <1>10 DEF AccountsInv

(* Tokens are only taken away or expired.                                  *)
LEMMA TokensGo ==
    ASSUME AccountsInv, stream_tokens' \subseteq TokenRow,
           \A s \in stream_tokens' : s \in stream_tokens \/ (s.expired /\ accounts[s.user].there),
           UNCHANGED <<accounts, asked, to_rotate, provider, cuts, half_rotated, outdated>>
    PROVE  AccountsInv'
<1>1. /\ accounts' = accounts /\ half_rotated' = half_rotated /\ provider' = provider /\ asked' = asked
      /\ outdated' = outdated /\ to_rotate' = to_rotate /\ cuts' = cuts
  OBVIOUS
<1>2. AccountsTypeOK'
  BY <1>1 DEF AccountsInv, AccountsTypeOK, TokenRow
<1>3. RowsFit'
  BY <1>1 DEF AccountsInv, RowsFit
<1>4. \A u, k, late : TokenFine(u, k, late) => TokenFine(u, k, late)'
  BY <1>1 DEF TokenFine, Between
<1>5. KeysFit'
  BY <1>1, <1>4 DEF AccountsInv, KeysFit
<1>6. AdminRemains'
  BY <1>1 DEF AccountsInv, AdminRemains, IsAdmin
<1> QED
  BY <1>2, <1>3, <1>5, <1>6 DEF AccountsInv

(* A token expires.                                                        *)
LEMMA TokenExpires ==
    ASSUME AccountsInv, NEW t \in StreamTokens, stream_token_expires(t) PROVE AccountsInv'
<1>1. PICK s \in stream_tokens :
         stream_tokens' = (stream_tokens \ {s}) \cup
                          (IF SharedTokens THEN {} ELSE {[s EXCEPT !.expired = TRUE]})
  BY DEF stream_token_expires
<1>2. UNCHANGED <<accounts, asked, to_rotate, provider, cuts, half_rotated, outdated>>
  BY DEF stream_token_expires
<1>3. stream_tokens \subseteq TokenRow /\ s \in TokenRow
  BY AccountTypes DEF AccountsInv
<1>4. PICK e : e = [s EXCEPT !.expired = TRUE]
  OBVIOUS
<1>5. e \in TokenRow /\ e.expired = TRUE /\ e.user = s.user
  BY <1>3, <1>4 DEF TokenRow
<1>6. accounts[e.user].there
  BY <1>5 DEF AccountsInv, RowsFit
<1> QED
  BY <1>1, <1>2, <1>3, <1>4, <1>5, <1>6, TokensGo

(* Expired tokens are deleted.                                             *)
LEMMA TokensPurged == ASSUME AccountsInv, purge_expired_stream_tokens PROVE AccountsInv'
<1>1. stream_tokens' \subseteq stream_tokens /\ stream_tokens \subseteq TokenRow
  BY AccountTypes DEF AccountsInv, purge_expired_stream_tokens
<1>2. UNCHANGED <<accounts, asked, to_rotate, provider, cuts, half_rotated, outdated>>
  BY DEF purge_expired_stream_tokens
<1> QED
  BY <1>1, <1>2, TokensGo

(* The rotation takes the user's tokens away, and the submissions that     *)
(* still carry another key are late.                                       *)
LEMMA RevokeTokens == ASSUME AccountsInv, NEW q \in KeyCallers, revoke_stream_tokens(q) PROVE AccountsInv'
<1>0. /\ asked \in [KeyCallers -> CallRow] /\ DOMAIN asked = KeyCallers /\ AccountsTypeOK
      /\ stream_tokens \subseteq TokenRow
  BY AccountTypes DEF AccountsInv
<1>u. PICK u \in People : u = asked[q].user
  BY <1>0 DEF CallRow
<1>1. /\ asked[q].op = "rotate" /\ asked[q].stage = "hashed"
      /\ stream_tokens' = stream_tokens \ tokens_of(u)
      /\ asked' = [p \in KeyCallers |->
                      IF p = q THEN NotAsking
                      ELSE IF Belated(p, u) THEN [asked[p] EXCEPT !.late = TRUE] ELSE asked[p]]
      /\ accounts' = accounts /\ half_rotated' = half_rotated /\ provider' = provider
      /\ outdated' = outdated /\ to_rotate' = to_rotate /\ cuts' = cuts
  BY <1>0, <1>u DEF revoke_stream_tokens, Rotating
<1>2. ASSUME NEW p \in KeyCallers, p # q
      PROVE  /\ asked'[p] \in CallRow /\ asked'[p].stage = asked[p].stage /\ asked'[p].op = asked[p].op
             /\ asked'[p].user = asked[p].user /\ asked'[p].key = asked[p].key
             /\ asked[p].late => asked'[p].late
             /\ Belated(p, u) => asked'[p].late
  <2>1. CASE Belated(p, u)
    <3>1. asked'[p] = [asked[p] EXCEPT !.late = TRUE] /\ asked[p] \in CallRow
      BY <1>0, <1>1, <1>2, <2>1
    <3> QED
      BY <3>1 DEF CallRow
  <2>2. CASE ~Belated(p, u)
    BY <1>0, <1>1, <1>2, <2>2
  <2> QED
    BY <2>1, <2>2
<1>3. asked'[q] = NotAsking /\ asked' \in [KeyCallers -> CallRow]
  BY <1>1, <1>2, AccountFacts
<1>4. ASSUME NEW v, v # u, Between(v) PROVE Between(v)'
  BY <1>u, <1>2, <1>4 DEF Between
<1>5. AccountsTypeOK'
  BY <1>0, <1>1, <1>3 DEF AccountsTypeOK, KeyCallers, CallRow, TokenRow
<1>6. RowsFit'
  BY <1>1, <1>2, <1>3, AccountFacts DEF AccountsInv, RowsFit
<1>7. KeysFit'
  <2> SUFFICES ASSUME provider = "api_key" /\ ~SharedTokens
               PROVE  /\ \A s \in stream_tokens' : ~s.expired => TokenFine(s.user, s.key, s.late)'
                      /\ \A p \in KeyCallers :
                            asked'[p].stage = "admitted" /\ asked'[p].op = "submit" =>
                                TokenFine(asked[p].user, asked[p].key, asked[p].late)'
    BY <1>1 DEF KeysFit
  <2>1. ASSUME NEW s \in stream_tokens', ~s.expired PROVE TokenFine(s.user, s.key, s.late)'
    <3>1. s \in stream_tokens /\ s.user # u
      BY <1>1 DEF tokens_of
    <3>2. TokenFine(s.user, s.key, s.late)
      BY <2>1, <3>1 DEF AccountsInv, KeysFit
    <3> QED
      BY <1>1, <1>4, <3>1, <3>2 DEF TokenFine
  <2>2. ASSUME NEW p \in KeyCallers, asked'[p].stage = "admitted", asked'[p].op = "submit"
        PROVE  TokenFine(asked[p].user, asked[p].key, asked[p].late)'
    <3>1. p # q /\ asked[p].stage = "admitted" /\ asked[p].op = "submit"
      BY <1>2, <1>3, <2>2, AccountFacts
    <3>2. TokenFine(asked[p].user, asked[p].key, asked[p].late)
      BY <3>1 DEF AccountsInv, KeysFit
    <3>3. CASE asked[p].user = u
      <4>1. asked[p].key = accounts[u].key \/ asked'[p].late
        BY <1>2, <3>1, <3>3 DEF Belated
      <4> QED
        BY <1>1, <1>2, <3>1, <3>3, <4>1 DEF TokenFine
    <3>4. CASE asked[p].user # u
      <4>1. PICK v : v = asked[p].user
        OBVIOUS
      <4>2. Between(v) => Between(v)'
        BY <1>4, <3>4, <4>1
      <4> QED
        BY <1>1, <1>2, <3>1, <3>2, <4>1, <4>2 DEF TokenFine
    <3> QED
      BY <3>3, <3>4
  <2> QED
    BY <2>1, <2>2
<1>8. AdminRemains'
  BY <1>1 DEF AccountsInv, AdminRemains, IsAdmin
<1> QED
  BY <1>5, <1>6, <1>7, <1>8 DEF AccountsInv

(* A rotation that ends between its statements leaves its user half        *)
(* rotated.                                                                *)
LEMMA RotationCut == ASSUME AccountsInv, NEW q \in KeyCallers, rotation_cut(q) PROVE AccountsInv'
<1>0. /\ asked \in [KeyCallers -> CallRow] /\ AccountsTypeOK /\ stream_tokens \subseteq TokenRow
      /\ cuts \in 0 .. MaxCuts
  BY AccountTypes DEF AccountsInv
<1>u. PICK u \in People : u = asked[q].user
  BY <1>0 DEF CallRow
<1>1. /\ asked[q].op = "rotate" /\ asked[q].stage = "hashed"
      /\ half_rotated' = half_rotated \cup {u}
      /\ asked' = [asked EXCEPT ![q] = NotAsking] /\ cuts < MaxCuts /\ cuts' = cuts + 1
      /\ accounts' = accounts /\ stream_tokens' = stream_tokens /\ provider' = provider
      /\ outdated' = outdated /\ to_rotate' = to_rotate
  BY <1>u DEF rotation_cut, Rotating, served
<1>2. /\ asked' \in [KeyCallers -> CallRow] /\ asked'[q].stage = "none"
      /\ \A p \in KeyCallers : p # q => asked'[p] = asked[p]
  BY <1>0, <1>1, AccountFacts
<1>3. ASSUME NEW v, v # u, Between(v) PROVE Between(v)'
  BY <1>u, <1>2, <1>3 DEF Between
<1>4. ASSUME NEW v, NEW k, NEW late, TokenFine(v, k, late) PROVE TokenFine(v, k, late)'
  BY <1>1, <1>3, <1>4 DEF TokenFine
<1>5. AccountsTypeOK'
  <2>1. cuts' \in 0 .. MaxCuts /\ half_rotated' \subseteq People
    BY <1>0, <1>1, AccountFacts DEF AccountsTypeOK
  <2> QED
    BY <1>0, <1>1, <1>2, <2>1 DEF AccountsTypeOK, KeyCallers, CallRow
<1>6. RowsFit'
  BY <1>1, <1>2 DEF AccountsInv, RowsFit
<1>7. KeysFit'
  <2> SUFFICES ASSUME provider = "api_key" /\ ~SharedTokens
               PROVE  /\ \A s \in stream_tokens : ~s.expired => TokenFine(s.user, s.key, s.late)'
                      /\ \A p \in KeyCallers :
                            asked'[p].stage = "admitted" /\ asked'[p].op = "submit" =>
                                TokenFine(asked[p].user, asked[p].key, asked[p].late)'
    BY <1>1 DEF KeysFit
  <2>1. ASSUME NEW s \in stream_tokens, ~s.expired PROVE TokenFine(s.user, s.key, s.late)'
    BY <1>4, <2>1 DEF AccountsInv, KeysFit
  <2>2. ASSUME NEW p \in KeyCallers, asked'[p].stage = "admitted", asked'[p].op = "submit"
        PROVE  TokenFine(asked[p].user, asked[p].key, asked[p].late)'
    <3>1. asked'[p] = asked[p]
      BY <1>2, <2>2
    <3>2. PICK v, k, late : v = asked[p].user /\ k = asked[p].key /\ late = asked[p].late
      OBVIOUS
    <3>3. TokenFine(v, k, late)'
      BY <1>4, <2>2, <3>1, <3>2 DEF AccountsInv, KeysFit
    <3> QED
      BY <3>1, <3>2, <3>3 DEF TokenFine
  <2> QED
    BY <2>1, <2>2
<1>8. AdminRemains'
  BY <1>1 DEF AccountsInv, AdminRemains, IsAdmin
<1> QED
  BY <1>5, <1>6, <1>7, <1>8 DEF AccountsInv

(* The tokens that open a stream were asked for with a current key, and an *)
(* administrator remains, whatever rotations, submissions and              *)
(* administrators' requests overlap (src/database.py 5241,                 *)
(* routes/admin.py).                                                       *)
THEOREM AccountsCorrect == AccountsSpec => []AccountsInvariant
<1>1. ASSUME AccountsInv, [AccountsNext]_accountsVars PROVE AccountsInv'
  <2>1. ASSUME NEW q \in Asking, NEW u \in People, NEW op \in {"submit", "rotate"},
               oidc_login(q, u, op) \/ github_login(q, u, op)
               \/ ldap_login(q, u, op) \/ kerberos_login(q, u, op)
        PROVE  AccountsInv'
    BY <1>1, <2>1, VouchedFor DEF oidc_login, github_login, ldap_login, kerberos_login
  <2>2. CASE AccountsNext
    BY <1>1, <2>1, <2>2, AuthenticateKey, CreateStreamToken, CreateUser, SetUserAdmin,
       DeactivateUser, AdminRefused, UpdateKey, RevokeTokens, RotationCut, CliCreateUser,
       CliDeactivateUser, CliRotateKey, TokenExpires, TokensPurged, RotateAll, RotateNext
       DEF AccountsNext, KeyCallers
  <2>3. CASE UNCHANGED accountsVars
    BY <1>1, <2>3 DEF accountsVars, AccountsInv, AccountsTypeOK, RowsFit, KeysFit, TokenFine, Between,
                      AdminRemains, IsAdmin
  <2> QED
    BY <1>1, <2>2, <2>3
<1>2. AccountsInv => AccountsInvariant
  <2>1. ASSUME AccountsInv, provider = "api_key", ~SharedTokens, NEW s \in stream_tokens, ~s.expired
        PROVE  \/ s.key = accounts[s.user].key \/ s.late \/ s.user \in half_rotated
               \/ \E q \in DOMAIN asked : Rotating(q, "hashed") /\ asked[q].user = s.user
    <3>1. TokenFine(s.user, s.key, s.late) /\ DOMAIN asked = KeyCallers
      BY <2>1, AccountTypes DEF AccountsInv, KeysFit
    <3> QED
      BY <3>1 DEF TokenFine, Between, Rotating
  <2>2. AccountsInv => TokensAreCurrent
    BY <2>1 DEF TokensAreCurrent, resolve_stream_token
  <2> QED
    BY <2>2 DEF AccountsInv, AccountsInvariant
<1> QED
  BY AccountsInvInit, <1>1, <1>2, PTL DEF AccountsSpec

-----------------------------------------------------------------------------
(****************************************************************************)
(* Sessions, for every number of turns. The counter of a session is the     *)
(* number of its complete turns that have been counted (CountsFit), and     *)
(* while its turns come one at a time, the checkpoint has all those that    *)
(* are complete (ContextFits).                                              *)
(****************************************************************************)

(* How a task's row, its submission and its run fit together.              *)
TurnsFit ==
    \A t \in Turns :
        /\ submitting[t] # NoSession =>
              turns[t].status = "none" /\ sessions[submitting[t]].state # "none"
        /\ turns[t].session # NoSession => sessions[turns[t].session].state = "open"
        /\ work[t].stage \in {"thread", "graph", "answer"} => turns[t].status = "running"
        /\ work[t].stage = "count" => turns[t].status = "complete" /\ work[t].session # NoSession
        /\ work[t].session # NoSession => sessions[work[t].session].state # "none"
        /\ work[t].stage # "none" =>
              \/ turns[t].session = work[t].session
              \/ turns[t].session = NoSession /\ sessions[work[t].session].state = "deleted"
        /\ t \in uncounted => turns[t].status = "complete" /\ work[t].stage = "none"
        /\ work[t].shared => work[t].session # NoSession /\ work[t].stage # "none"

CountedTurns(s) ==
    {t \in Turns : /\ turns[t].session = s /\ turns[t].status = "complete"
                   /\ work[t].stage # "count" /\ t \notin uncounted}

CountsFit ==
    \A s \in Conversations :
        /\ sessions[s].state = "none" => sessions[s].turn_count = 0
        /\ sessions[s].state = "open" => sessions[s].turn_count = Cardinality(CountedTurns(s))

(* Two runs at a time of one session leave it in `overlapping'.            *)
OneAtATime ==
    \A t, u \in Turns :
        t # u /\ work[t].stage # "none" /\ work[u].stage # "none"
        /\ work[t].session = work[u].session /\ work[t].session # NoSession
            => work[t].session \in overlapping

(* The checkpoint of a session whose turns came one at a time has all of   *)
(* them, and so does what the next one reads.                              *)
ContextFits ==
    /\ \A s \in Conversations : s \notin overlapping => spoken[s] \subseteq checkpoints[s]
    /\ \A t \in Turns : work[t].stage = "answer" /\ work[t].shared =>
          /\ t \in work[t].seen
          /\ work[t].session \notin overlapping =>
                spoken[work[t].session] \subseteq work[t].seen

SessionsInv == SessionsTypeOK /\ TurnsFit /\ CountsFit /\ OneAtATime /\ ContextFits

SessionRows == [state : {"none", "open", "deleted"}, turn_count : 0 .. Cardinality(Turns)]
TurnRows == [status : {"none", "queued", "running", "complete", "failed"}, session : Session]
RunRows == [stage : {"none", "thread", "graph", "answer", "count"},
         session : Session, shared : BOOLEAN, seen : SUBSET Turns]

(* The types in a form that the steps use.                                 *)
LEMMA SessionTypes ==
    ASSUME SessionsTypeOK
    PROVE  /\ sessions \in [Conversations -> SessionRows] /\ turns \in [Turns -> TurnRows]
           /\ submitting \in [Turns -> Session] /\ work \in [Turns -> RunRows]
           /\ checkpoints \in [Conversations -> SUBSET Turns]
           /\ spoken \in [Conversations -> SUBSET Turns]
           /\ uncounted \subseteq Turns /\ overlapping \subseteq Conversations
           /\ troubles \in 0 .. MaxTroubles
           /\ \A t \in Turns : /\ submitting[t] # NoSession => submitting[t] \in Conversations
                               /\ turns[t].session # NoSession => turns[t].session \in Conversations
                               /\ work[t].session # NoSession => work[t].session \in Conversations
BY DEF SessionsTypeOK, SessionRows, TurnRows, RunRows, Session

(* The functions of records are of the types the module states.            *)
LEMMA SessionTypesOK ==
    ASSUME sessions \in [Conversations -> SessionRows], turns \in [Turns -> TurnRows],
           submitting \in [Turns -> Session], work \in [Turns -> RunRows],
           checkpoints \in [Conversations -> SUBSET Turns],
           spoken \in [Conversations -> SUBSET Turns],
           uncounted \subseteq Turns, overlapping \subseteq Conversations,
           troubles \in 0 .. MaxTroubles
    PROVE  SessionsTypeOK
BY DEF SessionsTypeOK, SessionRows, TurnRows, RunRows, Session

(* A run at rest is a run.                                                 *)
LEMMA AtRestIsRun ==
    /\ AtRest \in RunRows /\ AtRest.stage = "none" /\ AtRest.session = NoSession
    /\ AtRest.shared = FALSE /\ AtRest.seen = {}
BY DEF AtRest, RunRows, Session

(* No session counts more turns than there are.                            *)
LEMMA CountIsSmall ==
    \A s : /\ IsFiniteSet(CountedTurns(s)) /\ Cardinality(CountedTurns(s)) \in Nat
           /\ Cardinality(CountedTurns(s)) <= Cardinality(Turns)
           /\ Cardinality(Turns) \in Nat
<1> SUFFICES ASSUME NEW s
             PROVE  /\ IsFiniteSet(CountedTurns(s)) /\ Cardinality(CountedTurns(s)) \in Nat
                    /\ Cardinality(CountedTurns(s)) <= Cardinality(Turns)
                    /\ Cardinality(Turns) \in Nat
  OBVIOUS
<1>1. IsFiniteSet(Turns) /\ CountedTurns(s) \subseteq Turns
  BY SessionsAssumption DEF SessionsAssumption, CountedTurns
<1> QED
  BY <1>1, FS_Subset, FS_CardinalityType

(* The invariant holds at the start.                                       *)
LEMMA SessionsInvInit == SessionsInit => SessionsInv
<1> SUFFICES ASSUME SessionsInit PROVE SessionsInv
  OBVIOUS
<1>1. \A s \in Conversations : sessions[s].state = "none" /\ sessions[s].turn_count = 0
                               /\ spoken[s] = {} /\ checkpoints[s] = {}
  BY DEF SessionsInit
<1>2. \A t \in Turns : turns[t].status = "none" /\ turns[t].session = NoSession
                       /\ submitting[t] = NoSession /\ work[t] = AtRest
  BY DEF SessionsInit
<1>3. SessionsTypeOK
  <2>1. sessions \in [Conversations -> SessionRows]
    BY CountIsSmall DEF SessionsInit, SessionRows
  <2>2. /\ turns \in [Turns -> TurnRows] /\ submitting \in [Turns -> Session]
        /\ work \in [Turns -> RunRows]
    BY AtRestIsRun DEF SessionsInit, TurnRows, Session
  <2>3. /\ checkpoints \in [Conversations -> SUBSET Turns]
        /\ spoken \in [Conversations -> SUBSET Turns]
        /\ uncounted = {} /\ overlapping = {}
    BY DEF SessionsInit
  <2>4. troubles \in 0 .. MaxTroubles
    BY SessionsAssumption DEF SessionsInit, SessionsAssumption
  <2> QED
    BY <2>1, <2>2, <2>3, <2>4, SessionTypesOK
<1>4. TurnsFit /\ OneAtATime /\ ContextFits
  <2>1. uncounted = {}
    BY DEF SessionsInit
  <2> QED
    BY <1>1, <1>2, <2>1, AtRestIsRun DEF TurnsFit, OneAtATime, ContextFits
<1>5. CountsFit
  BY <1>1 DEF CountsFit
<1> QED
  BY <1>3, <1>4, <1>5 DEF SessionsInv

(* A session is opened, with no turns.                                     *)
LEMMA CreateSession == ASSUME SessionsInv, NEW s \in Conversations, create_session(s) PROVE SessionsInv'
<1>1. /\ sessions[s].state = "none" /\ sessions' = [sessions EXCEPT ![s].state = "open"]
      /\ turns' = turns /\ submitting' = submitting /\ work' = work /\ checkpoints' = checkpoints
      /\ uncounted' = uncounted /\ spoken' = spoken /\ overlapping' = overlapping
      /\ troubles' = troubles
  BY DEF create_session
<1>2. SessionsTypeOK
  BY DEF SessionsInv
<1>3. /\ sessions' \in [Conversations -> SessionRows] /\ sessions'[s].state = "open"
      /\ sessions'[s].turn_count = sessions[s].turn_count
      /\ \A r \in Conversations : r # s => sessions'[r] = sessions[r]
  <2>1. sessions \in [Conversations -> SessionRows]
    BY <1>2, SessionTypes
  <2>2. sessions' = [sessions EXCEPT ![s] = [sessions[s] EXCEPT !.state = "open"]]
    BY <1>1
  <2>3. [sessions[s] EXCEPT !.state = "open"] \in SessionRows
    BY <2>1 DEF SessionRows
  <2> QED
    BY <2>1, <2>2, <2>3 DEF SessionRows
<1>4. SessionsTypeOK'
  BY <1>1, <1>2, <1>3 DEF SessionsTypeOK, SessionRows
<1>5. TurnsFit'
  <2>1. \A t \in Turns : turns[t].session # s /\ submitting[t] # s /\ work[t].session # s
    BY <1>1, SessionsAssumption DEF SessionsInv, TurnsFit, SessionsAssumption
  <2> QED
    BY <1>1, <1>2, <1>3, <2>1, SessionTypes DEF SessionsInv, TurnsFit
<1>6. CountsFit'
  <2>1. CountedTurns(s) = {} /\ \A r : CountedTurns(r)' = CountedTurns(r)
    BY <1>1, SessionsAssumption DEF CountedTurns, SessionsInv, TurnsFit, SessionsAssumption
  <2>2. sessions[s].turn_count = Cardinality(CountedTurns(s))
    BY <1>1, <2>1, FS_EmptySet DEF SessionsInv, CountsFit
  <2> QED
    BY <1>3, <2>1, <2>2 DEF SessionsInv, CountsFit
<1>7. OneAtATime' /\ ContextFits'
  BY <1>1 DEF SessionsInv, OneAtATime, ContextFits
<1> QED
  BY <1>4, <1>5, <1>6, <1>7 DEF SessionsInv
(* A step that moves one turn, which no session counts before or after it. *)
LEMMA SameCount ==
    ASSUME NEW t \in Turns, NEW s,
           \A u \in Turns : u # t => /\ turns'[u] = turns[u] /\ work'[u] = work[u]
                                     /\ (u \in uncounted' <=> u \in uncounted),
           t \notin CountedTurns(s), t \notin CountedTurns(s)'
    PROVE  CountedTurns(s)' = CountedTurns(s)
BY DEF CountedTurns

(* A step that leaves what is counted leaves the counts.                   *)
LEMMA CountsKept ==
    ASSUME CountsFit, sessions' = sessions,
           \A s \in Conversations : sessions[s].state = "open" => CountedTurns(s)' = CountedTurns(s)
    PROVE  CountsFit'
BY DEF CountsFit

(* A session is deleted; its turns stay without it.                        *)
LEMMA DeleteSession == ASSUME SessionsInv, NEW s \in Conversations, delete_session(s) PROVE SessionsInv'
<1>1. /\ sessions[s].state = "open" /\ sessions' = [sessions EXCEPT ![s].state = "deleted"]
      /\ turns' = [t \in Turns |-> IF turns[t].session = s THEN [turns[t] EXCEPT !.session = NoSession]
                                                            ELSE turns[t]]
      /\ submitting' = submitting /\ work' = work /\ checkpoints' = checkpoints
      /\ uncounted' = uncounted /\ spoken' = spoken /\ overlapping' = overlapping /\ troubles' = troubles
  BY DEF delete_session, Open
<1>2. SessionsTypeOK /\ s # NoSession
  BY <1>1, SessionsAssumption DEF SessionsInv, SessionsAssumption
<1>3. /\ sessions' \in [Conversations -> SessionRows] /\ sessions'[s].state = "deleted"
      /\ sessions'[s].turn_count = sessions[s].turn_count
      /\ \A r \in Conversations : r # s => sessions'[r] = sessions[r]
  <2>1. sessions \in [Conversations -> SessionRows]
    BY <1>2, SessionTypes
  <2>2. sessions' = [sessions EXCEPT ![s] = [sessions[s] EXCEPT !.state = "deleted"]]
    BY <1>1
  <2>3. [sessions[s] EXCEPT !.state = "deleted"] \in SessionRows
    BY <2>1 DEF SessionRows
  <2> QED
    BY <2>1, <2>2, <2>3 DEF SessionRows
<1>3a. ASSUME NEW t \in Turns
       PROVE  /\ turns'[t] \in TurnRows /\ turns'[t].status = turns[t].status
              /\ turns[t].session = s => turns'[t].session = NoSession
              /\ turns[t].session # s => turns'[t] = turns[t]
  <2>1. turns[t] \in TurnRows
    BY <1>2, SessionTypes
  <2> QED
    BY <1>1, <2>1 DEF TurnRows, Session
<1>4. SessionsTypeOK'
  <2>1. turns' \in [Turns -> TurnRows]
    BY <1>1, <1>3a
  <2> QED
    BY <1>1, <1>2, <1>3, <2>1 DEF SessionsTypeOK, SessionRows, TurnRows
<1>5. TurnsFit'
  <2> SUFFICES ASSUME NEW t \in Turns
               PROVE  /\ submitting[t] # NoSession =>
                            turns'[t].status = "none" /\ sessions'[submitting[t]].state # "none"
                      /\ turns'[t].session # NoSession => sessions'[turns'[t].session].state = "open"
                      /\ work[t].stage \in {"thread", "graph", "answer"} => turns'[t].status = "running"
                      /\ work[t].stage = "count" =>
                            turns'[t].status = "complete" /\ work[t].session # NoSession
                      /\ work[t].session # NoSession => sessions'[work[t].session].state # "none"
                      /\ work[t].stage # "none" =>
                            \/ turns'[t].session = work[t].session
                            \/ turns'[t].session = NoSession /\ sessions'[work[t].session].state = "deleted"
                      /\ t \in uncounted => turns'[t].status = "complete" /\ work[t].stage = "none"
                      /\ work[t].shared => work[t].session # NoSession /\ work[t].stage # "none"
    BY <1>1 DEF TurnsFit
  <2>1. /\ submitting[t] # NoSession => submitting[t] \in Conversations
        /\ turns[t].session # NoSession => turns[t].session \in Conversations
        /\ work[t].session # NoSession => work[t].session \in Conversations
    BY <1>2, SessionTypes
  <2>2. /\ submitting[t] # NoSession => sessions'[submitting[t]].state # "none"
        /\ work[t].session # NoSession => sessions'[work[t].session].state # "none"
    BY <1>3, <2>1 DEF SessionsInv, TurnsFit
  <2>3. turns'[t].session # NoSession => sessions'[turns'[t].session].state = "open"
    BY <1>3, <1>3a, <2>1 DEF SessionsInv, TurnsFit
  <2>4. work[t].stage # "none" =>
            \/ turns'[t].session = work[t].session
            \/ turns'[t].session = NoSession /\ sessions'[work[t].session].state = "deleted"
    <3>1. CASE turns[t].session = s
      BY <1>2, <1>3, <1>3a, <3>1 DEF SessionsInv, TurnsFit
    <3>2. CASE turns[t].session # s
      <4>1. turns'[t].session = turns[t].session
        BY <1>3a, <3>2
      <4>2. CASE turns[t].session = work[t].session
        BY <4>1, <4>2
      <4>3. CASE turns[t].session # work[t].session /\ work[t].stage # "none"
        <5>1. turns[t].session = NoSession /\ sessions[work[t].session].state = "deleted"
          BY <4>3 DEF SessionsInv, TurnsFit
        <5>2. work[t].session \in Conversations
          BY <2>1, <4>3, <5>1
        <5> QED
          BY <1>1, <1>3, <4>1, <5>1, <5>2
      <4> QED
        BY <4>2, <4>3
    <3> QED
      BY <3>1, <3>2
  <2> QED
    BY <1>3a, <2>2, <2>3, <2>4 DEF SessionsInv, TurnsFit
<1>6. CountsFit'
  <2>1. ASSUME NEW r \in Conversations, r # s PROVE CountedTurns(r)' = CountedTurns(r)
    <3>1. ASSUME NEW t \in Turns PROVE turns'[t].session = r <=> turns[t].session = r
      BY <1>3a, <2>1, SessionsAssumption DEF SessionsAssumption
    <3> QED
      BY <1>1, <1>3a, <3>1 DEF CountedTurns
  <2> QED
    BY <1>3, <2>1 DEF SessionsInv, CountsFit
<1>7. OneAtATime' /\ ContextFits'
  BY <1>1 DEF SessionsInv, OneAtATime, ContextFits
<1> QED
  BY <1>4, <1>5, <1>6, <1>7 DEF SessionsInv

(* A turn is submitted to a session that is open.                          *)
LEMMA SubmitTurn ==
    ASSUME SessionsInv, NEW t \in Turns, NEW s \in Conversations, submit_turn(t, s) PROVE SessionsInv'
<1>1. /\ turns[t].status = "none" /\ sessions[s].state = "open"
      /\ submitting' = [submitting EXCEPT ![t] = s]
      /\ sessions' = sessions /\ turns' = turns /\ work' = work /\ checkpoints' = checkpoints
      /\ uncounted' = uncounted /\ spoken' = spoken /\ overlapping' = overlapping /\ troubles' = troubles
  BY DEF submit_turn, Open
<1>2. SessionsTypeOK /\ submitting \in [Turns -> Session]
  BY SessionTypes DEF SessionsInv
<1>3. /\ submitting' \in [Turns -> Session] /\ submitting'[t] = s
      /\ \A u \in Turns : u # t => submitting'[u] = submitting[u]
  BY <1>1, <1>2 DEF Session
<1>4. SessionsTypeOK'
  BY <1>1, <1>2, <1>3 DEF SessionsTypeOK
<1>5. TurnsFit'
  BY <1>1, <1>3 DEF SessionsInv, TurnsFit
<1>6. CountsFit'
  BY <1>1 DEF SessionsInv, CountsFit, CountedTurns
<1>7. OneAtATime' /\ ContextFits'
  BY <1>1 DEF SessionsInv, OneAtATime, ContextFits
<1> QED
  BY <1>4, <1>5, <1>6, <1>7 DEF SessionsInv

(* A turn's row is inserted.                                               *)
LEMMA InsertTurn == ASSUME SessionsInv, NEW t \in Turns, insert_turn(t) PROVE SessionsInv'
<1>1. /\ submitting[t] # NoSession /\ submitting' = [submitting EXCEPT ![t] = NoSession]
      /\ turns' = IF sessions[submitting[t]].state = "open"
                  THEN [turns EXCEPT ![t] = [status |-> "queued", session |-> submitting[t]]]
                  ELSE turns
      /\ sessions' = sessions /\ work' = work /\ checkpoints' = checkpoints
      /\ uncounted' = uncounted /\ spoken' = spoken /\ overlapping' = overlapping /\ troubles' = troubles
  BY DEF insert_turn, Open
<1>2. /\ SessionsTypeOK /\ submitting \in [Turns -> Session] /\ turns \in [Turns -> TurnRows]
      /\ submitting[t] \in Conversations /\ turns[t].status = "none"
      /\ work[t].stage = "none" /\ t \notin uncounted
  <2>1. turns[t].status = "none"
    BY <1>1 DEF SessionsInv, TurnsFit
  <2>2. work[t].stage \in {"none", "thread", "graph", "answer", "count"}
    BY SessionTypes DEF SessionsInv, RunRows
  <2> QED
    BY <1>1, <2>1, <2>2, SessionTypes DEF SessionsInv, TurnsFit
<1>3. /\ submitting' \in [Turns -> Session] /\ submitting'[t] = NoSession
      /\ \A u \in Turns : u # t => submitting'[u] = submitting[u] /\ turns'[u] = turns[u]
      /\ turns' \in [Turns -> TurnRows]
      /\ \/ turns' = turns
         \/ /\ turns'[t].status = "queued" /\ turns'[t].session = submitting[t]
            /\ sessions[submitting[t]].state = "open"
  BY <1>1, <1>2 DEF Session, TurnRows
<1>3a. turns'[t].status \in {"none", "queued"}
  BY <1>2, <1>3
<1>4. SessionsTypeOK'
  BY <1>1, <1>2, <1>3 DEF SessionsTypeOK, TurnRows
<1>5. TurnsFit'
  <2>1. /\ turns'[t].session # NoSession => sessions[turns'[t].session].state = "open"
        /\ work[t].session # NoSession => sessions[work[t].session].state # "none"
        /\ ~work[t].shared
    BY <1>1, <1>2, <1>3 DEF SessionsInv, TurnsFit
  <2> QED
    BY <1>1, <1>2, <1>3, <2>1 DEF SessionsInv, TurnsFit
<1>6. CountsFit'
  <2>1. \A s : t \notin CountedTurns(s) /\ t \notin CountedTurns(s)'
    BY <1>2, <1>3a DEF CountedTurns
  <2>2. \A s : CountedTurns(s)' = CountedTurns(s)
    BY <1>1, <1>3, <2>1, SameCount
  <2> QED
    BY <1>1, <2>2, CountsKept DEF SessionsInv
<1>7. OneAtATime' /\ ContextFits'
  BY <1>1 DEF SessionsInv, OneAtATime, ContextFits
<1> QED
  BY <1>4, <1>5, <1>6, <1>7 DEF SessionsInv

(* A failed turn is queued again.                                          *)
LEMMA RetryTurn == ASSUME SessionsInv, NEW t \in Turns, retry_turn(t) PROVE SessionsInv'
<1>1. /\ turns[t].status = "failed" /\ work[t].stage = "none"
      /\ turns' = [turns EXCEPT ![t].status = "queued"]
      /\ sessions' = sessions /\ submitting' = submitting /\ work' = work /\ checkpoints' = checkpoints
      /\ uncounted' = uncounted /\ spoken' = spoken /\ overlapping' = overlapping /\ troubles' = troubles
  BY DEF retry_turn, Claimed
<1>2. SessionsTypeOK /\ turns \in [Turns -> TurnRows] /\ submitting[t] = NoSession /\ t \notin uncounted
  BY <1>1, SessionTypes DEF SessionsInv, TurnsFit
<1>3. /\ turns' \in [Turns -> TurnRows] /\ turns'[t].status = "queued"
      /\ turns'[t].session = turns[t].session
      /\ \A u \in Turns : u # t => turns'[u] = turns[u]
  <2>1. turns' = [turns EXCEPT ![t] = [turns[t] EXCEPT !.status = "queued"]]
    BY <1>1
  <2>2. [turns[t] EXCEPT !.status = "queued"] \in TurnRows
    BY <1>2 DEF TurnRows
  <2> QED
    BY <1>2, <2>1, <2>2 DEF TurnRows
<1>4. SessionsTypeOK'
  BY <1>1, <1>2, <1>3 DEF SessionsTypeOK, TurnRows
<1>5. TurnsFit'
  BY <1>1, <1>2, <1>3 DEF SessionsInv, TurnsFit
<1>6. CountsFit'
  <2>1. \A s : t \notin CountedTurns(s) /\ t \notin CountedTurns(s)'
    BY <1>1, <1>3 DEF CountedTurns
  <2>2. \A s : CountedTurns(s)' = CountedTurns(s)
    BY <1>1, <1>3, <2>1, SameCount
  <2> QED
    BY <1>1, <2>2, CountsKept DEF SessionsInv
<1>7. OneAtATime' /\ ContextFits'
  BY <1>1 DEF SessionsInv, OneAtATime, ContextFits
<1> QED
  BY <1>4, <1>5, <1>6, <1>7 DEF SessionsInv

(* A queued turn has no run.                                               *)
LEMMA ClaimTurn == ASSUME SessionsInv, NEW t \in Turns, claim_turn(t) PROVE SessionsInv'
<1>1. /\ turns[t].status = "queued" /\ turns' = [turns EXCEPT ![t].status = "running"]
      /\ work' = [work EXCEPT ![t] = [AtRest EXCEPT !.stage = "thread", !.session = turns[t].session]]
      /\ overlapping' = overlapping \cup
            {s \in Conversations : s = turns[t].session /\ \E u \in Claimed : work[u].session = s}
      /\ sessions' = sessions /\ submitting' = submitting /\ checkpoints' = checkpoints
      /\ uncounted' = uncounted /\ spoken' = spoken /\ troubles' = troubles
  BY DEF claim_turn
<1>2. /\ SessionsTypeOK /\ turns \in [Turns -> TurnRows] /\ work \in [Turns -> RunRows]
      /\ submitting[t] = NoSession /\ t \notin uncounted /\ work[t].stage = "none"
      /\ turns[t].session # NoSession => /\ turns[t].session \in Conversations
                                        /\ sessions[turns[t].session].state = "open"
  <2>1. work[t].stage \in {"none", "thread", "graph", "answer", "count"}
    BY SessionTypes DEF SessionsInv, RunRows
  <2> QED
    BY <1>1, <2>1, SessionTypes DEF SessionsInv, TurnsFit
<1>3. /\ turns' \in [Turns -> TurnRows] /\ turns'[t].status = "running"
      /\ turns'[t].session = turns[t].session
      /\ \A u \in Turns : u # t => turns'[u] = turns[u] /\ work'[u] = work[u]
  <2>1. turns' = [turns EXCEPT ![t] = [turns[t] EXCEPT !.status = "running"]]
    BY <1>1
  <2>2. [turns[t] EXCEPT !.status = "running"] \in TurnRows
    BY <1>2 DEF TurnRows
  <2> QED
    BY <1>1, <1>2, <2>1, <2>2 DEF TurnRows
<1>3a. /\ work' \in [Turns -> RunRows] /\ work'[t].stage = "thread"
       /\ work'[t].session = turns[t].session /\ work'[t].shared = FALSE
  <2> DEFINE new == [AtRest EXCEPT !.stage = "thread", !.session = turns[t].session]
  <2>1. turns[t].session \in Session
    BY <1>2 DEF TurnRows
  <2>2. /\ new \in RunRows /\ new.stage = "thread" /\ new.session = turns[t].session
        /\ new.shared = FALSE
    BY <2>1, AtRestIsRun DEF RunRows
  <2>3. work' = [work EXCEPT ![t] = new]
    BY <1>1
  <2> HIDE DEF new
  <2> QED
    BY <1>2, <2>2, <2>3
<1>4. SessionsTypeOK'
  <2>1. overlapping' \subseteq Conversations
    BY <1>1, <1>2 DEF SessionsTypeOK
  <2> QED
    BY <1>1, <1>2, <1>3, <1>3a, <2>1 DEF SessionsTypeOK, TurnRows, RunRows
<1>5. TurnsFit'
  BY <1>1, <1>2, <1>3, <1>3a DEF SessionsInv, TurnsFit
<1>6. CountsFit'
  <2>1. \A s : t \notin CountedTurns(s) /\ t \notin CountedTurns(s)'
    BY <1>1, <1>3 DEF CountedTurns
  <2>2. \A s : CountedTurns(s)' = CountedTurns(s)
    BY <1>1, <1>3, <2>1, SameCount
  <2> QED
    BY <1>1, <2>2, CountsKept DEF SessionsInv
<1>7. OneAtATime'
  <2> SUFFICES ASSUME NEW u \in Turns, NEW v \in Turns, u # v, work'[u].stage # "none",
                      work'[v].stage # "none", work'[u].session = work'[v].session,
                      work'[u].session # NoSession
               PROVE  work'[u].session \in overlapping'
    BY DEF OneAtATime
  <2>1. ASSUME NEW w \in Turns, w # t, work[w].stage # "none", work[w].session = turns[t].session,
               turns[t].session # NoSession
        PROVE  turns[t].session \in overlapping'
    BY <1>1, <1>2, <2>1 DEF Claimed
  <2>2. CASE u = t
    BY <1>3, <1>3a, <2>1, <2>2
  <2>3. CASE v = t
    BY <1>3, <1>3a, <2>1, <2>3
  <2>4. CASE u # t /\ v # t
    BY <1>1, <1>3, <2>4 DEF SessionsInv, OneAtATime
  <2> QED
    BY <2>2, <2>3, <2>4
<1>8. ContextFits'
  BY <1>1, <1>3, <1>3a DEF SessionsInv, ContextFits
<1> QED
  BY <1>4, <1>5, <1>6, <1>7, <1>8 DEF SessionsInv

(* The run reads the session from the row.                                 *)
LEMMA ChooseThread == ASSUME SessionsInv, NEW t \in Turns, choose_thread(t) PROVE SessionsInv'
<1>0. PICK orchestrator \in BOOLEAN :
         work' = [work EXCEPT ![t].stage = "graph",
                              ![t].shared = Open(work[t].session) /\ ~orchestrator]
  BY DEF choose_thread
<1>1. /\ work[t].stage = "thread"
      /\ sessions' = sessions /\ turns' = turns /\ submitting' = submitting /\ checkpoints' = checkpoints
      /\ uncounted' = uncounted /\ spoken' = spoken /\ overlapping' = overlapping /\ troubles' = troubles
  BY DEF choose_thread
<1> DEFINE b == Open(work[t].session) /\ ~orchestrator
<1>1a. b \in BOOLEAN /\ (b => work[t].session # NoSession)
  BY DEF Open
<1>1b. work' = [work EXCEPT ![t] = [work[t] EXCEPT !.stage = "graph", !.shared = b]]
  BY <1>0
<1> HIDE DEF b
<1>2. /\ SessionsTypeOK /\ work \in [Turns -> RunRows] /\ work[t] \in RunRows
      /\ turns[t].status = "running" /\ t \notin uncounted
  BY <1>1, SessionTypes DEF SessionsInv, TurnsFit
<1>3. /\ work' \in [Turns -> RunRows] /\ work'[t].stage = "graph"
      /\ work'[t].session = work[t].session /\ work'[t].shared = b
      /\ \A u \in Turns : u # t => work'[u] = work[u]
  <2>1. [work[t] EXCEPT !.stage = "graph", !.shared = b] \in RunRows
    BY <1>1a, <1>2 DEF RunRows
  <2> QED
    BY <1>1b, <1>2, <2>1 DEF RunRows
<1>4. SessionsTypeOK'
  BY <1>1, <1>2, <1>3 DEF SessionsTypeOK, RunRows
<1>5. TurnsFit'
  <2>1. work'[t].shared => work[t].session # NoSession
    BY <1>1a, <1>3
  <2> QED
    BY <1>1, <1>2, <1>3, <2>1 DEF SessionsInv, TurnsFit
<1>6. CountsFit'
  <2>1. \A s : t \notin CountedTurns(s) /\ t \notin CountedTurns(s)'
    BY <1>1, <1>2 DEF CountedTurns
  <2>2. \A s : CountedTurns(s)' = CountedTurns(s)
    BY <1>1, <1>3, <2>1, SameCount
  <2> QED
    BY <1>1, <2>2, CountsKept DEF SessionsInv
<1>7. OneAtATime' /\ ContextFits'
  BY <1>1, <1>3 DEF SessionsInv, OneAtATime, ContextFits
<1> QED
  BY <1>4, <1>5, <1>6, <1>7 DEF SessionsInv

(* The graph reads the checkpoint of the session.                          *)
LEMMA GraphStarts == ASSUME SessionsInv, NEW t \in Turns, graph_starts(t) PROVE SessionsInv'
<1> DEFINE s == work[t].session
           seen == IF work[t].shared THEN checkpoints[s] \cup {t} ELSE {t}
<1>1. /\ work[t].stage = "graph"
      /\ work' = [work EXCEPT ![t].stage = "answer", ![t].seen = seen]
      /\ checkpoints' = IF work[t].shared THEN [checkpoints EXCEPT ![s] = seen] ELSE checkpoints
      /\ sessions' = sessions /\ turns' = turns /\ submitting' = submitting
      /\ uncounted' = uncounted /\ spoken' = spoken /\ overlapping' = overlapping /\ troubles' = troubles
  BY DEF graph_starts
<1>2. /\ SessionsTypeOK /\ work \in [Turns -> RunRows] /\ work[t] \in RunRows
      /\ checkpoints \in [Conversations -> SUBSET Turns]
      /\ turns[t].status = "running" /\ t \notin uncounted
      /\ work[t].shared => s \in Conversations
  BY <1>1, SessionTypes DEF SessionsInv, TurnsFit
<1>2a. /\ seen \subseteq Turns /\ t \in seen
       /\ work[t].shared => checkpoints[s] \subseteq seen
  BY <1>2
<1>3. /\ work' \in [Turns -> RunRows] /\ work'[t].stage = "answer"
      /\ work'[t].session = s /\ work'[t].shared = work[t].shared /\ work'[t].seen = seen
      /\ \A u \in Turns : u # t => work'[u] = work[u]
  <2> HIDE DEF s, seen
  <2>1. work' = [work EXCEPT ![t] = [work[t] EXCEPT !.stage = "answer", !.seen = seen]]
    BY <1>1
  <2>2. [work[t] EXCEPT !.stage = "answer", !.seen = seen] \in RunRows
    BY <1>2, <1>2a DEF RunRows
  <2> QED
    BY <1>2, <2>1, <2>2 DEF RunRows, s
<1> HIDE DEF seen
<1>3a. /\ checkpoints' \in [Conversations -> SUBSET Turns]
       /\ work[t].shared => checkpoints'[s] = seen
       /\ \A r \in Conversations : r # s \/ ~work[t].shared => checkpoints'[r] = checkpoints[r]
  BY <1>1, <1>2, <1>2a
<1>4. SessionsTypeOK'
  BY <1>1, <1>2, <1>3, <1>3a DEF SessionsTypeOK, RunRows
<1>5. TurnsFit'
  BY <1>1, <1>2, <1>3 DEF SessionsInv, TurnsFit
<1>6. CountsFit'
  <2>1. \A r : t \notin CountedTurns(r) /\ t \notin CountedTurns(r)'
    BY <1>1, <1>2, <1>3 DEF CountedTurns
  <2>2. \A r : CountedTurns(r)' = CountedTurns(r)
    BY <1>1, <1>3, <2>1, SameCount
  <2> QED
    BY <1>1, <2>2, CountsKept DEF SessionsInv
<1>7. OneAtATime'
  BY <1>1, <1>3 DEF SessionsInv, OneAtATime
<1>8. ContextFits'
  <2>1. ASSUME NEW r \in Conversations, r \notin overlapping
        PROVE  spoken[r] \subseteq checkpoints'[r]
    <3>1. spoken[r] \subseteq checkpoints[r]
      BY <2>1 DEF SessionsInv, ContextFits
    <3> QED
      BY <1>2a, <1>3a, <3>1
  <2>2. ASSUME NEW u \in Turns, work'[u].stage = "answer", work'[u].shared
        PROVE  /\ u \in work'[u].seen
               /\ work'[u].session \notin overlapping =>
                     spoken[work'[u].session] \subseteq work'[u].seen
    <3>1. CASE u = t
      BY <1>2, <1>2a, <1>3, <1>3a, <2>1, <2>2, <3>1
    <3>2. CASE u # t
      BY <1>3, <2>2, <3>2 DEF SessionsInv, ContextFits
    <3> QED
      BY <3>1, <3>2
  <2> QED
    BY <1>1, <2>1, <2>2 DEF ContextFits
<1> QED
  BY <1>4, <1>5, <1>6, <1>7, <1>8 DEF SessionsInv

(* The complete turn is not counted yet, or has no session to count it.    *)
LEMMA TurnCompletes == ASSUME SessionsInv, NEW t \in Turns, turn_completes(t) PROVE SessionsInv'
<1> DEFINE s == work[t].session
<1>1. /\ work[t].stage = "answer"
      /\ work' = [work EXCEPT ![t] = IF work[t].session = NoSession THEN AtRest
                                     ELSE [work[t] EXCEPT !.stage = "count"]]
      /\ checkpoints' = IF work[t].shared THEN [checkpoints EXCEPT ![s] = work[t].seen] ELSE checkpoints
      /\ spoken' = IF work[t].shared THEN [spoken EXCEPT ![s] = spoken[s] \cup {t}] ELSE spoken
      /\ turns' = [turns EXCEPT ![t].status = "complete"]
      /\ sessions' = sessions /\ submitting' = submitting
      /\ uncounted' = uncounted /\ overlapping' = overlapping /\ troubles' = troubles
  BY DEF turn_completes
<1>2. /\ SessionsTypeOK /\ work \in [Turns -> RunRows] /\ work[t] \in RunRows
      /\ turns \in [Turns -> TurnRows]
      /\ checkpoints \in [Conversations -> SUBSET Turns]
      /\ spoken \in [Conversations -> SUBSET Turns]
      /\ turns[t].status = "running" /\ t \notin uncounted /\ submitting[t] = NoSession
      /\ s \in Session /\ s # NoSession => s \in Conversations
      /\ work[t].shared => s \in Conversations
      /\ work[t].seen \subseteq Turns
      /\ turns[t].session # s => turns[t].session = NoSession
      /\ turns[t].session # s => sessions[s].state = "deleted"
      /\ s # NoSession => sessions[s].state # "none"
      /\ turns[t].session # NoSession => sessions[turns[t].session].state = "open"
  <2>1. work[t] \in RunRows /\ turns[t].status = "running"
    BY <1>1, SessionTypes DEF SessionsInv, TurnsFit
  <2>2. s \in Session /\ work[t].seen \subseteq Turns
    BY <2>1 DEF RunRows
  <2> QED
    BY <1>1, <2>1, <2>2, SessionTypes DEF SessionsInv, TurnsFit
<1>2a. turns[t].session # s => s # NoSession
  BY <1>2
<1>3. /\ work' \in [Turns -> RunRows]
      /\ \/ /\ s = NoSession /\ work'[t].stage = "none" /\ work'[t].session = NoSession
            /\ work'[t].shared = FALSE
         \/ /\ s # NoSession /\ work'[t].stage = "count" /\ work'[t].session = s
            /\ work'[t].shared = work[t].shared
      /\ \A u \in Turns : u # t => work'[u] = work[u] /\ turns'[u] = turns[u]
  <2> DEFINE new == IF work[t].session = NoSession THEN AtRest ELSE [work[t] EXCEPT !.stage = "count"]
  <2>1. /\ new \in RunRows
        /\ \/ /\ s = NoSession /\ new.stage = "none" /\ new.session = NoSession
              /\ new.shared = FALSE
           \/ /\ s # NoSession /\ new.stage = "count" /\ new.session = s
              /\ new.shared = work[t].shared
    <3>1. CASE s = NoSession
      BY <3>1, AtRestIsRun
    <3>2. CASE s # NoSession
      BY <1>2, <3>2 DEF RunRows
    <3> QED
      BY <3>1, <3>2
  <2> HIDE DEF new
  <2>2. work' = [work EXCEPT ![t] = new]
    BY <1>1 DEF new
  <2> QED
    BY <1>1, <1>2, <2>1, <2>2
<1>3a. /\ turns' \in [Turns -> TurnRows] /\ turns'[t].status = "complete"
       /\ turns'[t].session = turns[t].session
  <2>1. turns' = [turns EXCEPT ![t] = [turns[t] EXCEPT !.status = "complete"]]
    BY <1>1
  <2>2. [turns[t] EXCEPT !.status = "complete"] \in TurnRows
    BY <1>2 DEF TurnRows
  <2> QED
    BY <1>2, <2>1, <2>2 DEF TurnRows
<1>3b. /\ checkpoints' \in [Conversations -> SUBSET Turns]
       /\ spoken' \in [Conversations -> SUBSET Turns]
       /\ work[t].shared => checkpoints'[s] = work[t].seen /\ spoken'[s] = spoken[s] \cup {t}
       /\ \A r \in Conversations : r # s \/ ~work[t].shared =>
             checkpoints'[r] = checkpoints[r] /\ spoken'[r] = spoken[r]
  BY <1>1, <1>2
<1> HIDE DEF s
<1>4. SessionsTypeOK'
  BY <1>1, <1>2, <1>3, <1>3a, <1>3b DEF SessionsTypeOK, RunRows, TurnRows
<1>5. TurnsFit'
  <2>1. ASSUME NEW u \in Turns, u # t
        PROVE  work'[u] = work[u] /\ turns'[u] = turns[u] /\ submitting'[u] = submitting[u]
    BY <1>1, <1>3, <2>1
  <2>2. work[t].shared => s # NoSession
    BY <1>2, SessionsAssumption DEF SessionsAssumption
  <2> QED
    BY <1>1, <1>2, <1>2a, <1>3, <1>3a, <2>1, <2>2 DEF SessionsInv, TurnsFit
<1>6. CountsFit'
  <2>1. ASSUME NEW r \in Conversations, sessions[r].state = "open"
        PROVE t \notin CountedTurns(r) /\ t \notin CountedTurns(r)'
    <3>1. t \notin CountedTurns(r)
      BY <1>2 DEF CountedTurns
    <3>2. CASE s = NoSession
      BY <1>2, <1>2a, <1>3a, <3>1, <3>2, SessionsAssumption DEF CountedTurns, SessionsAssumption
    <3>3. CASE s # NoSession
      BY <1>3, <3>1, <3>3 DEF CountedTurns
    <3> QED
      BY <3>2, <3>3
  <2>2. \A r \in Conversations : sessions[r].state = "open" => CountedTurns(r)' = CountedTurns(r)
    BY <1>1, <1>3, <2>1, SameCount
  <2> QED
    BY <1>1, <2>2, CountsKept DEF SessionsInv
<1>7. OneAtATime'
  BY <1>1, <1>3 DEF SessionsInv, OneAtATime, s
<1>8. ContextFits'
  <2>1. ASSUME work[t].shared
        PROVE  t \in work[t].seen /\ (s \notin overlapping => spoken[s] \subseteq work[t].seen)
    BY <1>1, <2>1 DEF SessionsInv, ContextFits, s
  <2>2. ASSUME NEW r \in Conversations, r \notin overlapping
        PROVE  spoken'[r] \subseteq checkpoints'[r]
    <3>1. spoken[r] \subseteq checkpoints[r]
      BY <2>2 DEF SessionsInv, ContextFits
    <3> QED
      BY <1>2, <1>3b, <2>1, <2>2, <3>1
  <2>3. ASSUME NEW u \in Turns, work'[u].stage = "answer", work'[u].shared
        PROVE  /\ u \in work'[u].seen
               /\ work'[u].session \notin overlapping =>
                     spoken'[work'[u].session] \subseteq work'[u].seen
    <3>1. u # t /\ work'[u] = work[u] /\ work[u].session \in Conversations
      BY <1>3, <2>3, SessionTypes DEF SessionsInv, TurnsFit
    <3>2. /\ u \in work[u].seen
          /\ work[u].session \notin overlapping => spoken[work[u].session] \subseteq work[u].seen
      BY <2>3, <3>1 DEF SessionsInv, ContextFits
    <3>3. ASSUME work[u].session \notin overlapping, work[t].shared PROVE work[u].session # s
      BY <1>1, <2>3, <3>1, <3>3, SessionsAssumption DEF SessionsInv, OneAtATime, s, SessionsAssumption
    <3> QED
      BY <1>3b, <3>1, <3>2, <3>3
  <2> QED
    BY <1>1, <2>2, <2>3 DEF ContextFits
<1> QED
  BY <1>4, <1>5, <1>6, <1>7, <1>8 DEF SessionsInv

(* A turn fails: it is counted by nobody.                                  *)
LEMMA TurnFails == ASSUME SessionsInv, NEW t \in Turns, turn_fails(t) PROVE SessionsInv'
<1>1. /\ work[t].stage \in {"thread", "graph", "answer"} /\ troubles < MaxTroubles
      /\ troubles' = troubles + 1 /\ turns' = [turns EXCEPT ![t].status = "failed"]
      /\ work' = [work EXCEPT ![t] = AtRest]
      /\ sessions' = sessions /\ submitting' = submitting /\ checkpoints' = checkpoints
      /\ uncounted' = uncounted /\ spoken' = spoken /\ overlapping' = overlapping
  BY DEF turn_fails
<1>2. /\ SessionsTypeOK /\ work \in [Turns -> RunRows] /\ turns \in [Turns -> TurnRows]
      /\ turns[t].status = "running" /\ t \notin uncounted /\ submitting[t] = NoSession
      /\ turns[t].session # NoSession => sessions[turns[t].session].state = "open"
  BY <1>1, SessionTypes DEF SessionsInv, TurnsFit
<1>3. /\ work' \in [Turns -> RunRows] /\ work'[t].stage = "none" /\ work'[t].session = NoSession
      /\ work'[t].shared = FALSE
      /\ \A u \in Turns : u # t => work'[u] = work[u] /\ turns'[u] = turns[u]
  <2>1. work'[t] = AtRest
    BY <1>1, <1>2
  <2> QED
    BY <1>1, <1>2, <2>1, AtRestIsRun
<1>3a. /\ turns' \in [Turns -> TurnRows] /\ turns'[t].status = "failed"
       /\ turns'[t].session = turns[t].session
  <2>1. turns' = [turns EXCEPT ![t] = [turns[t] EXCEPT !.status = "failed"]]
    BY <1>1
  <2>2. [turns[t] EXCEPT !.status = "failed"] \in TurnRows
    BY <1>2 DEF TurnRows
  <2> QED
    BY <1>2, <2>1, <2>2 DEF TurnRows
<1>4. SessionsTypeOK'
  <2>1. troubles' \in 0 .. MaxTroubles
    BY <1>1, <1>2, SessionTypes, SessionsAssumption DEF SessionsAssumption
  <2> QED
    BY <1>1, <1>2, <1>3, <1>3a, <2>1 DEF SessionsTypeOK, RunRows, TurnRows
<1>5. TurnsFit'
  BY <1>1, <1>2, <1>3, <1>3a DEF SessionsInv, TurnsFit
<1>6. CountsFit'
  <2>1. \A s : t \notin CountedTurns(s) /\ t \notin CountedTurns(s)'
    BY <1>2, <1>3a DEF CountedTurns
  <2>2. \A s : CountedTurns(s)' = CountedTurns(s)
    BY <1>1, <1>3, <2>1, SameCount
  <2> QED
    BY <1>1, <2>2, CountsKept DEF SessionsInv
<1>7. OneAtATime' /\ ContextFits'
  BY <1>1, <1>3 DEF SessionsInv, OneAtATime, ContextFits
<1> QED
  BY <1>4, <1>5, <1>6, <1>7 DEF SessionsInv

(* The session of a turn that is to be counted is the row's, unless it was *)
(* deleted since.                                                          *)
LEMMA IncrementTurn == ASSUME SessionsInv, NEW t \in Turns, increment_session_turn(t) PROVE SessionsInv'
<1>0. work[t].stage = "count" /\ work[t].session \in Conversations
  <2>1. work[t].stage = "count"
    BY DEF increment_session_turn
  <2> QED
    BY <2>1, SessionTypes DEF SessionsInv, TurnsFit
<1>s. PICK s \in Conversations : s = work[t].session
  BY <1>0
<1>o. PICK one \in {0, 1} : one = IF sessions[s].state = "open" THEN 1 ELSE 0
  OBVIOUS
<1>2. /\ SessionsTypeOK /\ work \in [Turns -> RunRows]
      /\ sessions \in [Conversations -> SessionRows] /\ sessions[s] \in SessionRows
      /\ turns[t].status = "complete" /\ t \notin uncounted
      /\ s # NoSession /\ submitting[t] = NoSession
      /\ sessions[s].state = "open" => turns[t].session = s
      /\ sessions[s].state # "open" => turns[t].session = NoSession
      /\ turns[t].session # NoSession => sessions[turns[t].session].state = "open"
  BY <1>0, <1>s, SessionTypes DEF SessionsInv, TurnsFit
<1>1. /\ sessions' = [sessions EXCEPT ![s].turn_count = sessions[s].turn_count + one]
      /\ work' = [work EXCEPT ![t] = AtRest]
      /\ turns' = turns /\ submitting' = submitting /\ checkpoints' = checkpoints
      /\ uncounted' = uncounted /\ spoken' = spoken /\ overlapping' = overlapping /\ troubles' = troubles
  BY <1>s, <1>o, <1>2 DEF increment_session_turn, counted, Open
<1>3. /\ work' \in [Turns -> RunRows] /\ work'[t].stage = "none" /\ work'[t].session = NoSession
      /\ work'[t].shared = FALSE
      /\ \A u \in Turns : u # t => work'[u] = work[u]
  <2>1. work'[t] = AtRest
    BY <1>0, <1>s, <1>1, <1>2
  <2> QED
    BY <1>0, <1>s, <1>1, <1>2, <2>1, AtRestIsRun
<1>3a. \A r \in Conversations : r # s \/ sessions[r].state # "open" => CountedTurns(r)' = CountedTurns(r)
  <2>1. ASSUME NEW r \in Conversations, r # s \/ sessions[r].state # "open"
        PROVE  t \notin CountedTurns(r) /\ t \notin CountedTurns(r)'
    BY <1>0, <1>s, <1>1, <1>2, <2>1, SessionsAssumption DEF CountedTurns, SessionsAssumption
  <2> QED
    BY <1>1, <1>3, <2>1, SameCount
<1>3b. ASSUME sessions[s].state = "open"
       PROVE  Cardinality(CountedTurns(s)') = Cardinality(CountedTurns(s)) + 1
  <2>1. t \notin CountedTurns(s) /\ t \in CountedTurns(s)'
    BY <1>0, <1>s, <1>1, <1>2, <1>3, <1>3b DEF CountedTurns
  <2>2. ASSUME NEW u \in Turns, u # t PROVE u \in CountedTurns(s)' <=> u \in CountedTurns(s)
    BY <1>1, <1>3, <2>2 DEF CountedTurns
  <2>3. CountedTurns(s) \subseteq Turns /\ CountedTurns(s)' \subseteq Turns
    BY DEF CountedTurns
  <2>4. CountedTurns(s)' = CountedTurns(s) \cup {t}
    BY <2>1, <2>2, <2>3
  <2> QED
    BY <2>1, <2>4, CountIsSmall, FS_AddElement
<1>3c. one \in {0, 1} /\ sessions[s].turn_count + one \in 0 .. Cardinality(Turns)
  <2>1. sessions[s].turn_count \in 0 .. Cardinality(Turns) /\ Cardinality(Turns) \in Nat
    BY <1>2, CountIsSmall DEF SessionRows
  <2>2. CASE sessions[s].state = "open"
    <3>1. sessions[s].turn_count = Cardinality(CountedTurns(s))
      BY <1>2, <2>2 DEF SessionsInv, CountsFit
    <3>2. Cardinality(CountedTurns(s)') <= Cardinality(Turns)
      <4>1. IsFiniteSet(Turns) /\ CountedTurns(s)' \subseteq Turns
        BY SessionsAssumption DEF SessionsAssumption, CountedTurns
      <4> QED
        BY <4>1, FS_Subset
    <3>3. Cardinality(CountedTurns(s)') = Cardinality(CountedTurns(s)) + 1
      BY <1>3b, <2>2
    <3> QED
      BY <1>o, <2>1, <2>2, <3>1, <3>2, <3>3
  <2>3. CASE sessions[s].state # "open"
    BY <1>o, <2>1, <2>3
  <2> QED
    BY <2>2, <2>3
<1>3d. /\ sessions' \in [Conversations -> SessionRows]
       /\ sessions'[s].state = sessions[s].state
       /\ sessions'[s].turn_count = sessions[s].turn_count + one
       /\ \A r \in Conversations : r # s => sessions'[r] = sessions[r]
  <2>1. sessions' = [sessions EXCEPT ![s] = [sessions[s] EXCEPT !.turn_count = sessions[s].turn_count + one]]
    BY <1>1
  <2>2. [sessions[s] EXCEPT !.turn_count = sessions[s].turn_count + one] \in SessionRows
    BY <1>2, <1>3c DEF SessionRows
  <2> QED
    BY <1>2, <2>1, <2>2 DEF SessionRows
<1>3e. \A r \in Conversations : sessions'[r].state = sessions[r].state
  BY <1>3d
<1>4. SessionsTypeOK'
  BY <1>0, <1>s, <1>1, <1>2, <1>3, <1>3d DEF SessionsTypeOK, RunRows, SessionRows
<1>5. TurnsFit'
  <2>1. \A u \in Turns :
           /\ submitting[u] # NoSession => sessions'[submitting[u]].state = sessions[submitting[u]].state
           /\ turns[u].session # NoSession =>
                 sessions'[turns[u].session].state = sessions[turns[u].session].state
           /\ work[u].session # NoSession =>
                 sessions'[work[u].session].state = sessions[work[u].session].state
    BY <1>2, <1>3e, SessionTypes
  <2>2. ASSUME NEW u \in Turns, u # t, work[u].stage # "none"
        PROVE  \/ turns[u].session = work[u].session
               \/ turns[u].session = NoSession /\ sessions'[work[u].session].state = "deleted"
    <3>1. CASE work[u].session = NoSession
      <4>1. turns[u].session = NoSession
        BY <2>2, <3>1 DEF SessionsInv, TurnsFit
      <4> QED
        BY <3>1, <4>1
    <3>2. CASE work[u].session # NoSession
      BY <2>1, <2>2, <3>2 DEF SessionsInv, TurnsFit
    <3> QED
      BY <3>1, <3>2
  <2> QED
    BY <1>0, <1>s, <1>1, <1>2, <1>3, <2>1, <2>2 DEF SessionsInv, TurnsFit
<1>6. CountsFit'
  <2> SUFFICES ASSUME NEW r \in Conversations
               PROVE  /\ sessions'[r].state = "none" => sessions'[r].turn_count = 0
                      /\ sessions'[r].state = "open" =>
                            sessions'[r].turn_count = Cardinality(CountedTurns(r)')
    BY DEF CountsFit
  <2>1. /\ sessions[r].state = "none" => sessions[r].turn_count = 0
        /\ sessions[r].state = "open" => sessions[r].turn_count = Cardinality(CountedTurns(r))
    BY DEF SessionsInv, CountsFit
  <2>2. CASE r # s
    BY <1>3a, <1>3d, <2>1, <2>2
  <2>3. CASE r = s
    <3>1. sessions[s].state # "none"
      BY <1>0, <1>s DEF SessionsInv, TurnsFit
    <3>2. CASE sessions[s].state = "open"
      BY <1>o, <1>3b, <1>3d, <2>1, <2>3, <3>1, <3>2
    <3> QED
      BY <1>o, <1>3d, <2>3, <3>1, <3>2
  <2> QED
    BY <2>2, <2>3
<1>7. OneAtATime' /\ ContextFits'
  BY <1>1, <1>3 DEF SessionsInv, OneAtATime, ContextFits
<1> QED
  BY <1>4, <1>5, <1>6, <1>7 DEF SessionsInv

(* The count fails, and the turn stays uncounted.                          *)
LEMMA IncrementFails == ASSUME SessionsInv, NEW t \in Turns, increment_fails(t) PROVE SessionsInv'
<1>1. /\ work[t].stage = "count" /\ troubles < MaxTroubles /\ troubles' = troubles + 1
      /\ work' = [work EXCEPT ![t] = AtRest] /\ uncounted' = uncounted \cup {t}
      /\ sessions' = sessions /\ turns' = turns /\ submitting' = submitting /\ checkpoints' = checkpoints
      /\ spoken' = spoken /\ overlapping' = overlapping
  BY DEF increment_fails
<1>2. /\ SessionsTypeOK /\ work \in [Turns -> RunRows]
      /\ turns[t].status = "complete" /\ submitting[t] = NoSession
      /\ turns[t].session # NoSession => sessions[turns[t].session].state = "open"
  BY <1>1, SessionTypes DEF SessionsInv, TurnsFit
<1>3. /\ work' \in [Turns -> RunRows] /\ work'[t].stage = "none" /\ work'[t].session = NoSession
      /\ work'[t].shared = FALSE
      /\ \A u \in Turns : u # t => work'[u] = work[u]
  <2>1. work'[t] = AtRest
    BY <1>1, <1>2
  <2> QED
    BY <1>1, <1>2, <2>1, AtRestIsRun
<1>4. SessionsTypeOK'
  <2>1. troubles' \in 0 .. MaxTroubles /\ uncounted' \subseteq Turns
    BY <1>1, <1>2, SessionTypes, SessionsAssumption DEF SessionsAssumption
  <2> QED
    BY <1>1, <1>2, <1>3, <2>1 DEF SessionsTypeOK, RunRows
<1>5. TurnsFit'
  BY <1>1, <1>2, <1>3 DEF SessionsInv, TurnsFit
<1>6. CountsFit'
  <2>1. \A s : t \notin CountedTurns(s) /\ t \notin CountedTurns(s)'
    BY <1>1 DEF CountedTurns
  <2>2. \A s : CountedTurns(s)' = CountedTurns(s)
    BY <1>1, <1>3, <2>1, SameCount
  <2> QED
    BY <1>1, <2>2, CountsKept DEF SessionsInv
<1>7. OneAtATime' /\ ContextFits'
  BY <1>1, <1>3 DEF SessionsInv, OneAtATime, ContextFits
<1> QED
  BY <1>4, <1>5, <1>6, <1>7 DEF SessionsInv

(* A session counts its complete turns and a turn sees those before it,    *)
(* whatever turns overlap, fail and are retried, and whichever sessions    *)
(* are deleted meanwhile (increment_session_turn, src/gateway/worker.py).  *)
THEOREM SessionsCorrect == SessionsSpec => []SessionsInvariant
<1>1. ASSUME SessionsInv, [SessionsNext]_sessionsVars PROVE SessionsInv'
  <2>1. CASE SessionsNext
    BY <1>1, <2>1, CreateSession, DeleteSession, SubmitTurn, InsertTurn, RetryTurn, ClaimTurn,
       ChooseThread, GraphStarts, TurnCompletes, TurnFails, IncrementTurn, IncrementFails
       DEF SessionsNext, create_session_endpoint, delete_session_endpoint
  <2>2. CASE UNCHANGED sessionsVars
    BY <1>1, <2>2 DEF sessionsVars, SessionsInv, SessionsTypeOK, TurnsFit, CountsFit, CountedTurns,
                      OneAtATime, ContextFits
  <2> QED
    BY <1>1, <2>1, <2>2
<1>2. SessionsInv => SessionsInvariant
  <2>1. CountsFit => TurnsCounted
    BY DEF CountsFit, TurnsCounted, CountedTurns, Open
  <2>2. ContextFits => ContextKept
    BY DEF ContextFits, ContextKept
  <2> QED
    BY <2>1, <2>2 DEF SessionsInv, SessionsInvariant
<1> QED
  BY SessionsInvInit, <1>1, <1>2, PTL DEF SessionsSpec
=============================================================================
