------------------------------ MODULE AuditLog ------------------------------
(***************************************************************************)
(* The hash chain of table audit_log (src/database.py 2929-3204) and the   *)
(* check of it at start-up (init_db).                                      *)
(*                                                                         *)
(* append_audit_log is three statements that commit one by one, so calls   *)
(* of several coroutines and nodes interleave between them, and a call may *)
(* end between them.  A row's hash is the tuple of what it is computed     *)
(* from: two rows have the same hash when all of that is the same.         *)
(***************************************************************************)
EXTENDS Integers, FiniteSets

CONSTANTS
    Appenders,          \* concurrent calls of append_audit_log
    Payloads,           \* event_type, agent_id and payload of a record
    Genesis,            \* _AUDIT_LOG_GENESIS
    Pending,            \* the placeholder of a row's hash
    AdminDictRows,      \* rows of the admin connection are dictionaries;
                        \* FALSE in the code (no row_factory, line 3118),
                        \* where a pruning is a stutter: every behaviour
                        \* of FALSE is one of TRUE
    RetentionDays,      \* retention of the records, in ticks of the clock
    MaxSeq,             \* bound: sequence numbers used
    MaxDays,            \* bound: ticks of the clock
    MaxFailures,        \* bound: calls that end in the middle
    MaxEdits            \* bound: rows changed by hand

ASSUME AuditAssumption ==
    /\ MaxSeq \in Nat /\ MaxDays \in Nat /\ RetentionDays \in Nat
    /\ MaxFailures \in Nat /\ MaxEdits \in Nat
    /\ AdminDictRows \in BOOLEAN
    /\ Genesis # Pending

VARIABLES
    audit_log,          \* seq -> row, for the rows that are in the table
    next_seq,           \* the BIGSERIAL
    anchor,             \* the latest record of audit_anchors
    step,               \* step[w]: the statement call w makes next
    local,              \* local[w]: what call w has read so far
    today,              \* the clock
    verifier,           \* verify_audit_log_chain: has it read the anchor, which
    halted,             \* init_db raises on what it returned last
    failures, edits,    \* counters of the bounds
    disturbed           \* history: appends overlapped, one ended in the
                        \* middle, or a pruning emptied the table

auditVars == <<audit_log, next_seq, anchor, step, local, today, verifier,
               halted, failures, edits, disturbed>>

Seqs == DOMAIN audit_log

(* Steps of an append: nothing under way, INSERT next, UPDATE next.        *)
AppendSteps == {"idle", "insert", "update"}

Blank == [payload |-> Pending, prev_hash |-> Genesis, seq |-> 0]

NoAnchor == [last_seq_kept |-> 0, boundary_hash |-> Genesis]

Last(S) == CHOOSE s \in S : \A r \in S : r <= s
First(S) == CHOOSE s \in S : \A r \in S : s <= r

AuditTypeOK ==
    /\ Seqs \subseteq 1 .. next_seq - 1
    /\ next_seq \in 1 .. MaxSeq + 1
    /\ \A s \in Seqs : /\ audit_log[s].payload \in Payloads
                       /\ audit_log[s].written \in Payloads
                       /\ audit_log[s].ts \in 0 .. today
    /\ anchor.last_seq_kept \in 0 .. next_seq
    /\ step \in [Appenders -> AppendSteps]
    /\ \A w \in Appenders : /\ local[w].payload \in Payloads \cup {Pending}
                            /\ local[w].seq \in 0 .. next_seq - 1
    /\ today \in 0 .. MaxDays
    /\ disturbed \in BOOLEAN /\ halted \in BOOLEAN

AuditInit ==
    /\ audit_log = [s \in {} |-> 0]
    /\ next_seq = 1
    /\ anchor = NoAnchor
    /\ step = [w \in Appenders |-> "idle"]
    /\ local = [w \in Appenders |-> Blank]
    /\ today = 0
    /\ verifier = [busy |-> FALSE, anchor |-> NoAnchor]
    /\ halted = FALSE
    /\ failures = 0 /\ edits = 0
    /\ disturbed = FALSE

-----------------------------------------------------------------------------
(* Appending                                                               *)

_compute_audit_row_hash(seq, payload, prev_hash) == <<seq, payload, prev_hash>>

last_row_hash == IF Seqs = {} THEN Genesis ELSE audit_log[Last(Seqs)].row_hash

(* The first statement: the hash of the last row.                          *)
append_select(w) ==
    /\ step[w] = "idle"
    /\ \E p \in Payloads :
         local' = [local EXCEPT ![w] =
                     [payload |-> p, prev_hash |-> last_row_hash, seq |-> 0]]
    /\ step' = [step EXCEPT ![w] = "insert"]
    /\ disturbed' = (disturbed \/ \E v \in Appenders \ {w} : step[v] # "idle")
    /\ UNCHANGED <<audit_log, next_seq, anchor, today, verifier, halted,
                   failures, edits>>

(* The second: the row, without its hash.  written is what the call stored *)
(* there, for the properties.                                              *)
append_insert(w) ==
    /\ step[w] = "insert"
    /\ next_seq <= MaxSeq
    /\ audit_log' = [s \in Seqs \cup {next_seq} |->
                       IF s = next_seq
                       THEN [payload |-> local[w].payload, written |-> local[w].payload,
                             prev_hash |-> local[w].prev_hash, row_hash |-> Pending,
                             ts |-> today]
                       ELSE audit_log[s]]
    /\ local' = [local EXCEPT ![w].seq = next_seq]
    /\ next_seq' = next_seq + 1
    /\ step' = [step EXCEPT ![w] = "update"]
    /\ UNCHANGED <<anchor, today, verifier, halted, failures, edits, disturbed>>

(* The third: the hash.  A row that was pruned meanwhile stays away.       *)
append_update(w) ==
    /\ step[w] = "update"
    /\ audit_log' = [s \in Seqs |->
                       IF s = local[w].seq
                       THEN [audit_log[s] EXCEPT !.row_hash =
                               _compute_audit_row_hash(s, local[w].payload, local[w].prev_hash)]
                       ELSE audit_log[s]]
    /\ step' = [step EXCEPT ![w] = "idle"]
    /\ local' = [local EXCEPT ![w] = Blank]
    /\ UNCHANGED <<next_seq, anchor, today, verifier, halted, failures,
                   edits, disturbed>>

(* A statement raises, the request is cancelled or the process dies.       *)
append_fails(w) ==
    /\ step[w] # "idle" /\ failures < MaxFailures
    /\ failures' = failures + 1
    /\ step' = [step EXCEPT ![w] = "idle"]
    /\ local' = [local EXCEPT ![w] = Blank]
    /\ disturbed' = TRUE
    /\ UNCHANGED <<audit_log, next_seq, anchor, today, verifier, halted, edits>>

(* Somebody changes a record by hand.                                      *)
edit_row(s) ==
    /\ edits < MaxEdits /\ s \in Seqs
    /\ \E p \in Payloads \ {audit_log[s].payload} :
         audit_log' = [audit_log EXCEPT ![s].payload = p]
    /\ edits' = edits + 1
    /\ UNCHANGED <<next_seq, anchor, step, local, today, verifier, halted,
                   failures, disturbed>>

-----------------------------------------------------------------------------
(* Pruning, one transaction.                                               *)

old(s) == audit_log[s].ts + RetentionDays < today

(* A variant: the anchor holds the hash of the first row that is kept.     *)
prune_anchor_of_kept ==
    LET boundary_seq == Last({s \in Seqs : old(s)})
        kept == {s \in Seqs : s > boundary_seq}
    IN  /\ \E s \in Seqs : old(s)
        /\ AdminDictRows /\ kept # {}
        /\ anchor' = [boundary_hash |-> audit_log[First(kept)].row_hash,
                      last_seq_kept |-> First(kept)]
        /\ audit_log' = [s \in kept |-> audit_log[s]]
        /\ UNCHANGED <<next_seq, step, local, today, verifier, halted,
                       failures, edits, disturbed>>

(* prune_audit_log indexes the rows of its connection by name, which raises *)
(* unless they are dictionaries; the transaction is then rolled back.      *)
prune_audit_log ==
    LET boundary_seq == Last({s \in Seqs : old(s)})
        kept == {s \in Seqs : s > boundary_seq}
    IN  /\ \E s \in Seqs : old(s)
        /\ AdminDictRows
        /\ anchor' = [boundary_hash |-> audit_log[boundary_seq].row_hash,
                      last_seq_kept |-> IF kept # {} THEN First(kept)
                                                     ELSE boundary_seq + 1]
        /\ audit_log' = [s \in kept |-> audit_log[s]]
        /\ disturbed' = (disturbed \/ kept = {})
        /\ UNCHANGED <<next_seq, step, local, today, verifier, halted,
                       failures, edits>>

day_passes ==
    /\ today < MaxDays
    /\ today' = today + 1
    /\ UNCHANGED <<audit_log, next_seq, anchor, step, local, verifier, halted,
                   failures, edits, disturbed>>

-----------------------------------------------------------------------------
(* Verification: two statements, the latest anchor and the rows from it;   *)
(* init_db halts if a row after the first does not fit.                    *)

expected_prev(a, s) ==
    LET before == {r \in Seqs : a.last_seq_kept <= r /\ r < s}
    IN  IF before = {} THEN a.boundary_hash ELSE audit_log[Last(before)].row_hash

row_ok(a, s) ==
    /\ audit_log[s].prev_hash = expected_prev(a, s)
    /\ audit_log[s].row_hash =
         _compute_audit_row_hash(s, audit_log[s].payload, audit_log[s].prev_hash)

verify_rows(a) == {s \in Seqs : s >= a.last_seq_kept}

chain_ok(a) == \A s \in verify_rows(a) : row_ok(a, s)

verified_rows(a) ==
    LET bad == {s \in verify_rows(a) : ~row_ok(a, s)}
    IN  IF bad = {} THEN Cardinality(verify_rows(a))
        ELSE Cardinality({s \in verify_rows(a) : s < First(bad)})

verify_anchor ==
    /\ ~verifier.busy
    /\ verifier' = [busy |-> TRUE, anchor |-> anchor]
    /\ UNCHANGED <<audit_log, next_seq, anchor, step, local, today, halted,
                   failures, edits, disturbed>>

verify_audit_log_chain ==
    /\ verifier.busy
    /\ halted' = (~chain_ok(verifier.anchor) /\ verified_rows(verifier.anchor) > 0)
    /\ verifier' = [busy |-> FALSE, anchor |-> NoAnchor]
    /\ UNCHANGED <<audit_log, next_seq, anchor, step, local, today, failures,
                   edits, disturbed>>

-----------------------------------------------------------------------------

append_audit_log(w) ==
    append_select(w) \/ append_insert(w) \/ append_update(w) \/ append_fails(w)

AuditNext ==
    \/ \E w \in Appenders : append_audit_log(w)
    \/ \E s \in Seqs : edit_row(s)
    \/ prune_audit_log
    \/ day_passes
    \/ verify_anchor
    \/ verify_audit_log_chain

AuditSpec == AuditInit /\ [][AuditNext]_auditVars

-----------------------------------------------------------------------------
(* Properties                                                              *)

Edited(s) == audit_log[s].payload # audit_log[s].written

(* A log that nobody edited verifies whenever no append is under way,      *)
(* whatever was pruned, unless appends overlapped, one was cut short or a  *)
(* pruning emptied the table: append_audit_log, prune_audit_log and        *)
(* verify_audit_log_chain agree on where the chain starts and goes on.     *)
ChainVerifies ==
    /\ ~disturbed
    /\ \A w \in Appenders : step[w] = "idle"
    /\ \A s \in Seqs : ~Edited(s)
    => chain_ok(anchor)

(* "Any modification to historical rows will be detected by                *)
(* verify_audit_log_chain()" (src/database.py 2963), whatever appends and  *)
(* prunings do at the same time: a complete row that was edited and is     *)
(* still in the table is found.                                            *)
EditDetected ==
    (\E s \in Seqs : Edited(s) /\ audit_log[s].row_hash # Pending) => ~chain_ok(anchor)

(* The chain verifies exactly when nothing was changed by hand: neither an *)
(* append nor a pruning breaks it, and neither hides an edit               *)
(* (src/database.py 2932-3204).                                            *)
AuditInvariant ==
    /\ AuditTypeOK
    /\ ChainVerifies
    /\ EditDetected

=============================================================================
