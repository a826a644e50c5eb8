--------------------------- MODULE DatabaseProofs ---------------------------
(****************************************************************************)
(* What the database keeps beside the tasks: the audit chain, the           *)
(* passwords of its roles and what they may do. The three modules share no  *)
(* state; each part below is about one of them.                             *)
(****************************************************************************)
EXTENDS AuditLog, FiniteSetTheorems, WellFoundedInduction, DbRoles,
        DbGrants, SequenceTheorems, NaturalsInduction, TLAPS

(***************************************************************************)
(* The audit log, for any number of concurrent appends, rows, prunings and *)
(* edits.  Two things make the properties inductive: a hash is computed of *)
(* what the call wrote into its row, and never of what the row says later  *)
(* (so an edit shows); and while the appends follow one another, the hash  *)
(* a call has read stays that of the last row until it inserts its own.    *)
(***************************************************************************)

RowFields == {"payload", "written", "prev_hash", "row_hash", "ts"}

(* The table and what the calls hold are functions of records.             *)
Shape ==
    /\ audit_log = [s \in Seqs |-> audit_log[s]]
    /\ \A s \in Seqs : /\ audit_log[s] = [f \in RowFields |-> audit_log[s][f]]
    /\ local = [w \in Appenders |-> local[w]]
    /\ \A w \in Appenders : local[w] = [f \in {"payload", "prev_hash", "seq"} |-> local[w][f]]

(* A call that is to write a hash computes it of what its row says.        *)
Writing ==
    \A w \in Appenders :
        /\ step[w] # "idle" => local[w].payload \in Payloads
        /\ step[w] = "update" /\ local[w].seq \in Seqs =>
              /\ audit_log[local[w].seq].written = local[w].payload
              /\ audit_log[local[w].seq].prev_hash = local[w].prev_hash

Complete(s) ==
    audit_log[s].row_hash = _compute_audit_row_hash(s, audit_log[s].written, audit_log[s].prev_hash)

Hashed == \A s \in Seqs : audit_log[s].row_hash = Pending \/ Complete(s)

Kept == \A s \in Seqs : anchor.last_seq_kept <= s

(* As long as one call runs at a time and to its end, the rows are linked, *)
(* only the one being written has no hash, and it is the last.             *)
Linked ==
    /\ \A v, w \in Appenders : step[v] # "idle" /\ step[w] # "idle" => v = w
    /\ \A s \in Seqs : audit_log[s].prev_hash = expected_prev(anchor, s)
    /\ \A s \in Seqs : Complete(s) \/ \E w \in Appenders : step[w] = "update" /\ local[w].seq = s
    /\ \A w \in Appenders :
          /\ step[w] = "insert" => local[w].prev_hash = last_row_hash
          /\ step[w] = "update" => local[w].seq = next_seq - 1 /\ local[w].seq \in Seqs
    /\ Seqs = {} => anchor.boundary_hash = Genesis

AuditInv == AuditTypeOK /\ Shape /\ Writing /\ Hashed /\ Kept /\ (~disturbed => Linked)

-----------------------------------------------------------------------------
(* The last and the first of some rows.                                    *)

(* A set of numbers has a least one.                                       *)
LEMMA LeastOf ==
    ASSUME NEW T, T \subseteq Nat, T # {}
    PROVE  \E x \in T : \A y \in T : x <= y
<1>1. PICK x \in T : \A y \in T : ~ (<<y, x>> \in OpToRel(<, Nat))
  BY NatLessThanWellFounded, WFMin
<1>2. ASSUME NEW y \in T PROVE x <= y
  <2>1. ~ (y < x)
    BY <1>1 DEF OpToRel
  <2> QED
    BY <2>1
<1> QED
  BY <1>2

(* The first of a set of sequence numbers.                                 *)
LEMMA FirstOf ==
    ASSUME NEW T, T \subseteq Nat, T # {}
    PROVE  First(T) \in T /\ \A y \in T : First(T) <= y
BY LeastOf DEF First

(* The last of a bounded set of them.                                      *)
LEMMA LastOf ==
    ASSUME NEW n \in Nat, NEW T, T \subseteq 1..n, T # {}
    PROVE  Last(T) \in T /\ \A y \in T : y <= Last(T)
<1> DEFINE back == {n - s : s \in T}
<1>1. back \subseteq Nat /\ back # {}
  <2>1. \A s \in T : s \in Int /\ n - s \in Nat
    OBVIOUS
  <2> QED
    BY <2>1
<1>2. PICK x \in back : \A y \in back : x <= y
  BY <1>1, LeastOf
<1>3. PICK s \in T : x = n - s
  BY <1>2
<1>4. ASSUME NEW r \in T PROVE r <= s
  <2>1. n - s <= n - r
    BY <1>2, <1>3
  <2> QED
    BY <2>1
<1> QED
  BY <1>3, <1>4 DEF Last

(* A member that no other exceeds is the last.                             *)
LEMMA LastIs ==
    ASSUME NEW n \in Nat, NEW T, T \subseteq 1..n, NEW x \in T, \A y \in T : y <= x
    PROVE  Last(T) = x
<1>1. Last(T) \in T /\ x <= Last(T) /\ Last(T) <= x
  BY LastOf
<1>2. \A y \in T : y \in Int
  OBVIOUS
<1>3. \A y, z \in Int : y <= z /\ z <= y => y = z
  OBVIOUS
<1> QED
  BY <1>1, <1>2, <1>3, Zenon

(* With the anchor below every row, all rows before one are looked at.     *)
Before(s) == {r \in Seqs : r < s}

(* The hash that the row after it has to repeat.                           *)
LEMMA ExpectedPrev ==
    ASSUME Kept, NEW s
    PROVE  expected_prev(anchor, s) = IF Before(s) = {} THEN anchor.boundary_hash
                                      ELSE audit_log[Last(Before(s))].row_hash
<1>1. {r \in Seqs : anchor.last_seq_kept <= r /\ r < s} = Before(s)
  BY DEF Kept, Before
<1> QED
  BY <1>1 DEF expected_prev

(* The one that the next row to be inserted has to repeat.                 *)
LEMMA ExpectedPrevNext ==
    ASSUME Kept', NEW s
    PROVE  expected_prev(anchor, s)' = IF Before(s)' = {} THEN anchor'.boundary_hash
                                       ELSE audit_log'[Last(Before(s)')].row_hash
<1>1. {r \in Seqs' : anchor'.last_seq_kept <= r /\ r < s} = Before(s)'
  BY DEF Kept, Before
<1> QED
  BY <1>1 DEF expected_prev

(* The invariant holds at the start.                                       *)
LEMMA AuditInvInit == AuditInit => AuditInv
<1> SUFFICES ASSUME AuditInit PROVE AuditInv
  OBVIOUS
<1> USE AuditAssumption DEF AuditAssumption, AuditInit
<1>1. Seqs = {}
  BY DEF Seqs
<1>2. AuditTypeOK
  <2>1. \A w \in Appenders : local[w].payload = Pending /\ local[w].seq = 0
    BY DEF Blank
  <2>2. anchor.last_seq_kept = 0
    BY DEF NoAnchor
  <2> QED
    <3>1. step \in [Appenders -> AppendSteps]
      BY DEF AppendSteps
    <3>2. next_seq \in 1..MaxSeq + 1 /\ today \in 0..MaxDays /\ 0 \in 0..next_seq /\ 0 \in 0..next_seq - 1
      OBVIOUS
    <3> QED
      BY <1>1, <2>1, <2>2, <3>1, <3>2 DEF AuditTypeOK
<1>3. Shape
  BY <1>1 DEF Shape, Blank
<1>4. Writing /\ Hashed /\ Kept /\ Linked
  BY <1>1 DEF Writing, Hashed, Kept, Linked, NoAnchor
<1> QED
  BY <1>2, <1>3, <1>4 DEF AuditInv

(* Steps that leave the table and the calls alone.                         *)
LEMMA AuditKept ==
    ASSUME AuditInv, UNCHANGED <<audit_log, next_seq, anchor, step, local, disturbed>>,
           today' \in today .. MaxDays, halted' \in BOOLEAN
    PROVE  AuditInv'
<1> USE DEF AuditInv
<1>1. Seqs' = Seqs
  BY DEF Seqs
<1>2. AuditTypeOK'
  BY <1>1, AuditAssumption DEF AuditTypeOK, AuditAssumption
<1>3. Shape' /\ Writing' /\ Hashed' /\ Kept'
  BY <1>1 DEF Shape, Writing, Hashed, Kept, Complete
<1>4. ASSUME ~disturbed PROVE Linked'
  <2>1. Linked
    BY <1>4
  <2>2. \A s \in Seqs : expected_prev(anchor, s)' = expected_prev(anchor, s)
    BY <1>1 DEF expected_prev
  <2>3. last_row_hash' = last_row_hash /\ \A s \in Seqs : Complete(s)' <=> Complete(s)
    BY <1>1 DEF last_row_hash, Complete
  <2> QED
    BY <1>1, <2>1, <2>2, <2>3 DEF Linked
<1> QED
  BY <1>2, <1>3, <1>4

(* The types in a form that the steps use.                                 *)
LEMMA AuditTypes ==
    ASSUME AuditInv
    PROVE  /\ next_seq \in Nat \ {0} /\ Seqs \subseteq 1..next_seq - 1 /\ Seqs \subseteq Nat
           /\ next_seq - 1 \in Nat /\ next_seq \notin Seqs
           /\ \A s \in Seqs : s < next_seq /\ s \in Nat
           /\ \A w \in Appenders : local[w].seq \in Nat /\ local[w].seq < next_seq
BY AuditAssumption DEF AuditAssumption, AuditInv, AuditTypeOK

(* A call starts and reads the hash of the last row.                       *)
LEMMA AppendSelect ==
    ASSUME AuditInv, NEW w \in Appenders, append_select(w) PROVE AuditInv'
<1> USE DEF AuditInv
<1>1. PICK p \in Payloads :
        local' = [local EXCEPT ![w] = [payload |-> p, prev_hash |-> last_row_hash, seq |-> 0]]
  BY DEF append_select
<1>2. /\ step[w] = "idle" /\ step' = [step EXCEPT ![w] = "insert"]
      /\ disturbed' = (disturbed \/ \E v \in Appenders \ {w} : step[v] # "idle")
      /\ UNCHANGED <<audit_log, next_seq, anchor, today, halted>>
  BY DEF append_select
<1>3. Seqs' = Seqs
  BY <1>2 DEF Seqs
<1>4. /\ local'[w].payload = p /\ local'[w].prev_hash = last_row_hash /\ local'[w].seq = 0
      /\ \A v \in Appenders \ {w} : local'[v] = local[v]
      /\ local' = [v \in Appenders |-> local'[v]]
      /\ local'[w] = [f \in {"payload", "prev_hash", "seq"} |-> local'[w][f]]
  BY <1>1 DEF Shape
<1>5. step'[w] = "insert" /\ \A v \in Appenders \ {w} : step'[v] = step[v]
  BY <1>2 DEF AuditTypeOK
<1>6. AuditTypeOK'
  <2>1. step' \in [Appenders -> AppendSteps]
    BY <1>2 DEF AuditTypeOK, AppendSteps
  <2>2. \A v \in Appenders : local'[v].payload \in Payloads \cup {Pending} /\ local'[v].seq \in 0..next_seq - 1
    BY <1>4, AuditTypes DEF AuditTypeOK
  <2> QED
    BY <1>2, <1>3, <2>1, <2>2 DEF AuditTypeOK
<1>7. Shape'
  BY <1>2, <1>3, <1>4 DEF Shape
<1>8. Writing'
  BY <1>2, <1>3, <1>4, <1>5 DEF Writing
<1>9. Hashed' /\ Kept'
  BY <1>2, <1>3 DEF Hashed, Kept, Complete
<1>10. ASSUME ~disturbed' PROVE Linked'
  <2>1. Linked /\ \A v \in Appenders : step[v] = "idle"
    BY <1>2, <1>10
  <2>2. /\ expected_prev(anchor, 0)' = expected_prev(anchor, 0)
        /\ \A s \in Seqs : expected_prev(anchor, s)' = expected_prev(anchor, s)
        /\ last_row_hash' = last_row_hash
    BY <1>2, <1>3 DEF expected_prev, last_row_hash
  <2> QED
    BY <1>2, <1>3, <1>4, <1>5, <2>1, <2>2 DEF Linked, Complete
<1> QED
  BY <1>6, <1>7, <1>8, <1>9, <1>10

(* A new row comes after all others and is linked to the last of them.     *)
LEMMA AppendInsert ==
    ASSUME AuditInv, NEW w \in Appenders, append_insert(w) PROVE AuditInv'
<1> USE DEF AuditInv
<1>n. PICK n \in Nat : n = next_seq
  BY AuditTypes
<1> USE <1>n
<1>0. /\ n \in Nat \ {0} /\ Seqs \subseteq 1..n - 1 /\ n - 1 \in Nat /\ n \notin Seqs
      /\ \A s \in Seqs : s < n /\ s \in Nat
      /\ \A v \in Appenders : local[v].seq \in Nat /\ local[v].seq < n
  BY AuditTypes
<1>1. /\ step[w] = "insert" /\ n <= MaxSeq /\ next_seq' = n + 1
      /\ step' = [step EXCEPT ![w] = "update"] /\ local' = [local EXCEPT ![w].seq = n]
      /\ UNCHANGED <<anchor, today, halted, disturbed>>
  BY DEF append_insert
<1>2. Seqs' = Seqs \cup {n}
  BY DEF append_insert, Seqs
<1>3. /\ \A s \in Seqs : audit_log'[s] = audit_log[s]
      /\ audit_log'[n] = [payload |-> local[w].payload, written |-> local[w].payload,
                          prev_hash |-> local[w].prev_hash, row_hash |-> Pending, ts |-> today]
      /\ audit_log' = [s \in Seqs' |-> audit_log'[s]]
      /\ audit_log'[n] = [f \in RowFields |-> audit_log'[n][f]]
  BY <1>0, <1>2 DEF append_insert, RowFields
<1>4. /\ local'[w].payload = local[w].payload /\ local'[w].prev_hash = local[w].prev_hash
      /\ local'[w].seq = n
      /\ \A v \in Appenders \ {w} : local'[v] = local[v]
      /\ local' = [v \in Appenders |-> local'[v]]
      /\ local'[w] = [f \in {"payload", "prev_hash", "seq"} |-> local'[w][f]]
  BY <1>1 DEF Shape
<1>5. step'[w] = "update" /\ \A v \in Appenders \ {w} : step'[v] = step[v]
  BY <1>1 DEF AuditTypeOK
<1>6. local[w].payload \in Payloads
  BY <1>1 DEF Writing
<1>7. AuditTypeOK'
  <2>1. step' \in [Appenders -> AppendSteps]
    BY <1>1 DEF AuditTypeOK, AppendSteps
  <2>2. /\ n + 1 \in 1..MaxSeq + 1 /\ Seqs' \subseteq 1..(n + 1) - 1
        /\ \A k \in 0..n : k \in 0..n + 1
        /\ \A k \in 0..n - 1 : k \in 0..(n + 1) - 1
        /\ n \in 0..(n + 1) - 1
    BY <1>0, <1>1, <1>2, AuditAssumption DEF AuditAssumption
  <2>3. \A v \in Appenders : local'[v].payload \in Payloads \cup {Pending} /\ local'[v].seq \in 0..(n + 1) - 1
    BY <1>4, <1>6, <2>2 DEF AuditTypeOK
  <2>4. today \in 0..today
    BY AuditAssumption DEF AuditTypeOK, AuditAssumption
  <2>5. \A s \in Seqs' : /\ audit_log'[s].payload \in Payloads
                         /\ audit_log'[s].written \in Payloads
                         /\ audit_log'[s].ts \in 0..today
    BY <1>2, <1>3, <1>6, <2>4 DEF AuditTypeOK
  <2> QED
    BY <1>1, <2>1, <2>2, <2>3, <2>5 DEF AuditTypeOK
<1>8. Shape'
  BY <1>2, <1>3, <1>4 DEF Shape
<1>9. Writing'
  BY <1>0, <1>2, <1>3, <1>4, <1>5, <1>6 DEF Writing
<1>10. Hashed'
  BY <1>2, <1>3 DEF Hashed, Complete
<1>11. Kept'
  <2>1. anchor.last_seq_kept <= n
    BY DEF AuditTypeOK
  <2> QED
    BY <1>1, <1>2, <2>1 DEF Kept
<1>12. ASSUME ~disturbed' PROVE Linked'
  <2>1. Linked
    BY <1>1, <1>12
  <2>2. ASSUME NEW s \in Seqs'
        PROVE  Before(s)' = Before(s) /\ Before(s) \subseteq Seqs
    <3>1. s <= n /\ ~(n < s)
      BY <1>0, <1>2
    <3> QED
      BY <1>2, <3>1 DEF Before
  <2>3. ASSUME NEW s \in Seqs'
        PROVE  expected_prev(anchor, s)' = IF Before(s) = {} THEN anchor.boundary_hash
                                           ELSE audit_log[Last(Before(s))].row_hash
    <3>1. expected_prev(anchor, s)' = IF Before(s)' = {} THEN anchor'.boundary_hash
                                      ELSE audit_log'[Last(Before(s)')].row_hash
      BY <1>11, ExpectedPrevNext
    <3>2. Before(s) # {} => Last(Before(s)) \in Seqs
      <4>1. Before(s) \subseteq 1..n - 1
        BY <1>0, <2>2
      <4> QED
        BY <1>0, <2>2, <4>1, LastOf
    <3> QED
      BY <1>1, <1>3, <2>2, <3>1, <3>2
  <2>4. \A s \in Seqs : audit_log'[s].prev_hash = expected_prev(anchor, s)'
    BY <1>2, <1>3, <2>1, <2>3, ExpectedPrev DEF Linked
  <2>5. audit_log'[n].prev_hash = expected_prev(anchor, n)'
    <3>1. Before(n) = Seqs
      BY <1>0 DEF Before
    <3>2. local[w].prev_hash = last_row_hash /\ (Seqs = {} => anchor.boundary_hash = Genesis)
      BY <1>1, <2>1 DEF Linked
    <3>3. expected_prev(anchor, n)' = last_row_hash
      BY <1>2, <2>3, <3>1, <3>2 DEF last_row_hash
    <3> QED
      BY <1>3, <3>2, <3>3
  <2>6. \A v \in Appenders \ {w} : step'[v] = "idle"
    BY <1>1, <1>5, <2>1 DEF Linked
  <2> QED
    BY <1>0, <1>1, <1>2, <1>3, <1>4, <1>5, <2>1, <2>4, <2>5, <2>6 DEF Linked, Complete
<1> QED
  BY <1>7, <1>8, <1>9, <1>10, <1>11, <1>12

(* The hash of a row is written; nothing is linked to it yet.              *)
LEMMA AppendUpdate ==
    ASSUME AuditInv, NEW w \in Appenders, append_update(w) PROVE AuditInv'
<1> USE DEF AuditInv
<1>n. PICK k \in Nat : k = local[w].seq
  BY AuditTypes
<1>0. /\ next_seq \in Nat /\ Seqs \subseteq 1..next_seq - 1 /\ next_seq - 1 \in Nat
      /\ \A s \in Seqs : s < next_seq /\ s \in Nat
  BY AuditTypes
<1>1. /\ step[w] = "update" /\ step' = [step EXCEPT ![w] = "idle"]
      /\ local' = [local EXCEPT ![w] = Blank]
      /\ UNCHANGED <<next_seq, anchor, today, halted, disturbed>>
  BY DEF append_update
<1>2. Seqs' = Seqs /\ audit_log' = [s \in Seqs |-> audit_log'[s]]
  BY DEF append_update, Seqs
<1>3. /\ \A s \in Seqs \ {k} : audit_log'[s] = audit_log[s]
      /\ k \in Seqs => /\ audit_log'[k] = [audit_log[k] EXCEPT !.row_hash =
                             _compute_audit_row_hash(k, local[w].payload, local[w].prev_hash)]
  BY <1>n DEF append_update
<1>4. k \in Seqs => /\ audit_log'[k] = [f \in RowFields |-> audit_log'[k][f]]
                    /\ audit_log'[k].payload = audit_log[k].payload
                    /\ audit_log'[k].written = audit_log[k].written
                    /\ audit_log'[k].prev_hash = audit_log[k].prev_hash
                    /\ audit_log'[k].ts = audit_log[k].ts
                    /\ audit_log'[k].row_hash =
                          _compute_audit_row_hash(k, audit_log[k].written, audit_log[k].prev_hash)
  <2> SUFFICES ASSUME k \in Seqs
               PROVE  /\ audit_log'[k] = [f \in RowFields |-> audit_log'[k][f]]
                      /\ audit_log'[k].payload = audit_log[k].payload
                      /\ audit_log'[k].written = audit_log[k].written
                      /\ audit_log'[k].prev_hash = audit_log[k].prev_hash
                      /\ audit_log'[k].ts = audit_log[k].ts
                      /\ audit_log'[k].row_hash =
                            _compute_audit_row_hash(k, audit_log[k].written, audit_log[k].prev_hash)
    OBVIOUS
  <2>1. audit_log[k].written = local[w].payload /\ audit_log[k].prev_hash = local[w].prev_hash
    BY <1>n, <1>1 DEF Writing
  <2>2. audit_log[k] = [f \in RowFields |-> audit_log[k][f]]
    BY DEF Shape
  <2> QED
    BY <1>3, <2>1, <2>2 DEF RowFields
<1>5. /\ local'[w] = Blank /\ \A v \in Appenders \ {w} : local'[v] = local[v]
      /\ local' = [v \in Appenders |-> local'[v]]
      /\ Blank = [f \in {"payload", "prev_hash", "seq"} |-> Blank[f]]
      /\ Blank.payload = Pending /\ Blank.seq = 0
  BY <1>1 DEF Shape, Blank
<1>6. step'[w] = "idle" /\ \A v \in Appenders \ {w} : step'[v] = step[v]
  BY <1>1 DEF AuditTypeOK
<1>7. AuditTypeOK'
  <2>1. step' \in [Appenders -> AppendSteps]
    BY <1>1 DEF AuditTypeOK, AppendSteps
  <2>2. \A v \in Appenders : local'[v].payload \in Payloads \cup {Pending} /\ local'[v].seq \in 0..next_seq - 1
    BY <1>0, <1>5 DEF AuditTypeOK
  <2>3. \A s \in Seqs : /\ audit_log'[s].payload \in Payloads
                        /\ audit_log'[s].written \in Payloads
                        /\ audit_log'[s].ts \in 0..today
    BY <1>3, <1>4 DEF AuditTypeOK
  <2> QED
    BY <1>1, <1>2, <2>1, <2>2, <2>3 DEF AuditTypeOK
<1>8. Shape'
  <2>1. \A s \in Seqs : audit_log'[s] = [f \in RowFields |-> audit_log'[s][f]]
    BY <1>3, <1>4 DEF Shape
  <2>2. \A v \in Appenders : local'[v] = [f \in {"payload", "prev_hash", "seq"} |-> local'[v][f]]
    BY <1>5 DEF Shape
  <2> QED
    BY <1>2, <1>5, <2>1, <2>2 DEF Shape
<1>9. Writing'
  BY <1>1, <1>2, <1>3, <1>4, <1>5, <1>6 DEF Writing
<1>10. Hashed' /\ Kept'
  BY <1>1, <1>2, <1>3, <1>4 DEF Hashed, Kept, Complete
<1>11. ASSUME ~disturbed' PROVE Linked'
  <2>1. Linked /\ k = next_seq - 1 /\ k \in Seqs
    BY <1>n, <1>1, <1>11 DEF Linked
  <2>2. \A v \in Appenders : step'[v] = "idle"
    BY <1>1, <1>6, <2>1 DEF Linked
  <2>3. ASSUME NEW s \in Seqs PROVE expected_prev(anchor, s)' = expected_prev(anchor, s)
    <3>1. Before(s)' = Before(s) /\ Before(s) \subseteq 1..next_seq - 1 /\ Before(s) \subseteq Seqs \ {k}
      BY <1>0, <1>2, <2>1 DEF Before
    <3>2. Before(s) # {} => Last(Before(s)) \in Seqs \ {k}
      BY <1>0, <3>1, LastOf
    <3> QED
      BY <1>1, <1>3, <1>10, <3>1, <3>2, ExpectedPrev, ExpectedPrevNext
  <2>4. \A s \in Seqs : audit_log'[s].prev_hash = expected_prev(anchor, s)'
    BY <1>3, <1>4, <2>1, <2>3 DEF Linked
  <2>5. ASSUME NEW s \in Seqs PROVE Complete(s)'
    <3>1. CASE s = k
      BY <1>4, <3>1 DEF Complete
    <3>2. CASE s # k
      <4>1. ~ \E v \in Appenders : step[v] = "update" /\ local[v].seq = s
        BY <1>n, <1>1, <2>1, <3>2 DEF Linked
      <4> QED
        BY <1>3, <2>1, <3>2, <4>1 DEF Linked, Complete
    <3> QED
      BY <3>1, <3>2
  <2> QED
    BY <1>1, <1>2, <2>1, <2>2, <2>4, <2>5 DEF Linked
<1> QED
  BY <1>7, <1>8, <1>9, <1>10, <1>11

(* A call that ends in the middle leaves its row as it is.                 *)
LEMMA AppendFails ==
    ASSUME AuditInv, NEW w \in Appenders, append_fails(w) PROVE AuditInv'
<1> USE DEF AuditInv
<1>1. /\ step' = [step EXCEPT ![w] = "idle"] /\ local' = [local EXCEPT ![w] = Blank]
      /\ disturbed' = TRUE /\ UNCHANGED <<audit_log, next_seq, anchor, today, halted>>
  BY DEF append_fails
<1>2. Seqs' = Seqs
  BY <1>1 DEF Seqs
<1>3. /\ local'[w] = Blank /\ \A v \in Appenders \ {w} : local'[v] = local[v]
      /\ local' = [v \in Appenders |-> local'[v]]
      /\ Blank = [f \in {"payload", "prev_hash", "seq"} |-> Blank[f]]
      /\ Blank.payload = Pending /\ Blank.seq = 0
  BY <1>1 DEF Shape, Blank
<1>4. step'[w] = "idle" /\ \A v \in Appenders \ {w} : step'[v] = step[v]
  BY <1>1 DEF AuditTypeOK
<1>5. AuditTypeOK'
  <2>1. step' \in [Appenders -> AppendSteps]
    BY <1>1 DEF AuditTypeOK, AppendSteps
  <2>2. \A v \in Appenders : local'[v].payload \in Payloads \cup {Pending} /\ local'[v].seq \in 0..next_seq - 1
    BY <1>3, AuditTypes DEF AuditTypeOK
  <2> QED
    BY <1>1, <1>2, <2>1, <2>2 DEF AuditTypeOK
<1>6. Shape'
  <2>1. \A v \in Appenders : local'[v] = [f \in {"payload", "prev_hash", "seq"} |-> local'[v][f]]
    BY <1>3 DEF Shape
  <2> QED
    BY <1>1, <1>2, <1>3, <2>1 DEF Shape
<1>7. Writing' /\ Hashed' /\ Kept'
  BY <1>1, <1>2, <1>3, <1>4 DEF Writing, Hashed, Kept, Complete
<1> QED
  BY <1>1, <1>5, <1>6, <1>7

(* An edit changes what a row says, and not what its hash was made of.     *)
LEMMA EditRow ==
    ASSUME AuditInv, NEW x \in Seqs, edit_row(x) PROVE AuditInv'
<1> USE DEF AuditInv
<1>1. PICK p \in Payloads : audit_log' = [audit_log EXCEPT ![x].payload = p]
  BY DEF edit_row
<1>2. UNCHANGED <<next_seq, anchor, step, local, today, halted, disturbed>>
  BY DEF edit_row
<1>3. Seqs' = Seqs /\ audit_log' = [s \in Seqs |-> audit_log'[s]]
  BY <1>1 DEF Seqs, Shape
<1>4. /\ \A s \in Seqs \ {x} : audit_log'[s] = audit_log[s]
      /\ audit_log'[x] = [audit_log[x] EXCEPT !.payload = p]
  BY <1>1 DEF Shape, Seqs
<1>5. /\ audit_log'[x] = [f \in RowFields |-> audit_log'[x][f]]
      /\ audit_log'[x].payload = p
      /\ audit_log'[x].written = audit_log[x].written
      /\ audit_log'[x].prev_hash = audit_log[x].prev_hash
      /\ audit_log'[x].row_hash = audit_log[x].row_hash
      /\ audit_log'[x].ts = audit_log[x].ts
  <2>1. audit_log[x] = [f \in RowFields |-> audit_log[x][f]]
    BY DEF Shape
  <2> QED
    BY <1>4, <2>1 DEF RowFields
<1>6. \A s \in Seqs : /\ audit_log'[s].written = audit_log[s].written
                      /\ audit_log'[s].prev_hash = audit_log[s].prev_hash
                      /\ audit_log'[s].row_hash = audit_log[s].row_hash
                      /\ audit_log'[s].ts = audit_log[s].ts
                      /\ audit_log'[s].payload \in Payloads
  BY <1>4, <1>5 DEF AuditTypeOK
<1>7. AuditTypeOK'
  BY <1>2, <1>3, <1>6 DEF AuditTypeOK
<1>8. Shape'
  <2>1. \A s \in Seqs : audit_log'[s] = [f \in RowFields |-> audit_log'[s][f]]
    BY <1>4, <1>5 DEF Shape
  <2> QED
    BY <1>2, <1>3, <2>1 DEF Shape
<1>9. \A s \in Seqs : Complete(s)' <=> Complete(s)
  BY <1>6 DEF Complete
<1>10. Writing' /\ Hashed' /\ Kept'
  BY <1>2, <1>3, <1>6, <1>9 DEF Writing, Hashed, Kept
<1>11. ASSUME ~disturbed' PROVE Linked'
  <2>1. Linked
    BY <1>2, <1>11
  <2>2. ASSUME NEW s \in Seqs PROVE expected_prev(anchor, s)' = expected_prev(anchor, s)
    <3>1. Before(s)' = Before(s) /\ Before(s) \subseteq 1..next_seq - 1 /\ Before(s) \subseteq Seqs
      BY <1>3, AuditTypes DEF Before
    <3>2. Before(s) # {} => Last(Before(s)) \in Seqs
      BY <3>1, AuditTypes, LastOf
    <3> QED
      BY <1>2, <1>6, <1>10, <3>1, <3>2, ExpectedPrev, ExpectedPrevNext
  <2>3. last_row_hash' = last_row_hash
    <3>1. Seqs # {} => Last(Seqs) \in Seqs
      BY AuditTypes, LastOf
    <3> QED
      BY <1>3, <1>6, <3>1 DEF last_row_hash
  <2> QED
    BY <1>2, <1>3, <1>6, <1>9, <2>1, <2>2, <2>3 DEF Linked
<1> QED
  BY <1>2, <1>7, <1>8, <1>10, <1>11

(* A pruning takes the rows up to one of them, whose hash the anchor       *)
(* holds: what the first row that stays is linked to.                      *)
LEMMA PruneAuditLog ==
    ASSUME AuditInv, prune_audit_log PROVE AuditInv'
<1> USE DEF AuditInv
<1> DEFINE oldRows == {s \in Seqs : old(s)}
           b == Last(oldRows)
           kept == {s \in Seqs : s > b}
<1>0. /\ next_seq \in Nat /\ Seqs \subseteq 1..next_seq - 1 /\ next_seq - 1 \in Nat
      /\ \A s \in Seqs : s < next_seq /\ s \in Nat
  BY AuditTypes
<1>1. /\ oldRows # {}
      /\ anchor' = [boundary_hash |-> audit_log[b].row_hash,
                    last_seq_kept |-> IF kept # {} THEN First(kept) ELSE b + 1]
      /\ audit_log' = [s \in kept |-> audit_log[s]]
      /\ disturbed' = (disturbed \/ kept = {})
      /\ UNCHANGED <<next_seq, step, local, today, halted>>
  BY DEF prune_audit_log
<1>2. b \in Seqs
  <2>1. oldRows \subseteq Seqs /\ oldRows \subseteq 1..next_seq - 1
    BY <1>0
  <2> HIDE DEF oldRows
  <2>2. Last(oldRows) \in oldRows
    BY <1>0, <1>1, <2>1, LastOf
  <2> QED
    BY <2>1, <2>2
<1>p. PICK c \in Seqs : c = b
  BY <1>2
<1>h. PICK h : h = audit_log[c].row_hash
  OBVIOUS
<1>k. PICK K \in SUBSET Seqs : K = {s \in Seqs : s > c} /\ K = kept
  BY <1>p
<1>3. /\ anchor'.boundary_hash = h
      /\ K # {} => anchor'.last_seq_kept = First(K)
      /\ K = {} => anchor'.last_seq_kept = c + 1
      /\ audit_log' = [s \in K |-> audit_log[s]]
      /\ disturbed' = (disturbed \/ K = {})
  BY <1>1, <1>p, <1>k, <1>h
<1>4. Seqs' = K /\ \A s \in K : audit_log'[s] = audit_log[s]
  BY <1>3 DEF Seqs
<1> HIDE DEF oldRows, b, kept
<1>5. K \subseteq Nat /\ K \subseteq 1..next_seq - 1
  BY <1>0
<1>6. K # {} => First(K) \in K /\ \A s \in K : First(K) <= s
  BY <1>5, FirstOf
<1>7. AuditTypeOK'
  <2>1. anchor'.last_seq_kept \in 0..next_seq
    <3>1. CASE K = {}
      BY <1>0, <1>3, <3>1
    <3>2. CASE K # {}
      <4>1. First(K) \in 1..next_seq - 1
        BY <1>5, <1>6, <3>2
      <4> QED
        BY <1>0, <1>3, <3>2, <4>1
    <3> QED
      BY <3>1, <3>2
  <2>2. \A s \in K : /\ audit_log'[s].payload \in Payloads
                     /\ audit_log'[s].written \in Payloads
                     /\ audit_log'[s].ts \in 0..today
    BY <1>4 DEF AuditTypeOK
  <2>3. disturbed' \in BOOLEAN
    BY <1>3 DEF AuditTypeOK
  <2> QED
    BY <1>1, <1>4, <1>5, <2>1, <2>2, <2>3 DEF AuditTypeOK
<1>8. Shape'
  <2>1. audit_log' = [s \in Seqs' |-> audit_log'[s]]
    BY <1>3, <1>4
  <2> QED
    BY <1>1, <1>4, <2>1 DEF Shape
<1>9. Writing' /\ Hashed'
  BY <1>1, <1>4 DEF Writing, Hashed, Complete
<1>10. Kept'
  BY <1>3, <1>4, <1>6 DEF Kept
<1>11. ASSUME ~disturbed' PROVE Linked'
  <2>1. Linked /\ K # {}
    BY <1>3, <1>11
  <2>2. ASSUME NEW s \in K PROVE audit_log'[s].prev_hash = expected_prev(anchor, s)'
    <3>1. /\ Before(s)' = {r \in K : r < s} /\ Before(s) \subseteq 1..next_seq - 1
          /\ c \in Before(s)
      BY <1>0, <1>4, <1>k DEF Before
    <3>2. audit_log[s].prev_hash = audit_log[Last(Before(s))].row_hash
      BY <2>1, <3>1, ExpectedPrev DEF Linked
    <3>3. CASE Before(s)' = {}
      <4>1. \A r \in Before(s) : r <= c
        BY <1>0, <1>k, <3>1, <3>3 DEF Before
      <4>2. Last(Before(s)) = c
        BY <1>0, <3>1, <4>1, LastIs
      <4>3. expected_prev(anchor, s)' = h
        BY <1>3, <1>10, <3>3, ExpectedPrevNext
      <4> QED
        BY <1>4, <1>h, <3>2, <4>2, <4>3
    <3>4. CASE Before(s)' # {}
      <4> DEFINE T == {r \in K : r < s}
                 l == Last(T)
      <4>1. T \subseteq 1..next_seq - 1 /\ T # {}
        BY <1>5, <3>1, <3>4
      <4>t. T \subseteq K
        OBVIOUS
      <4>x. T \subseteq Before(s) /\ \A r \in Before(s) : r \in T \/ r <= c
        BY <1>0, <1>k DEF Before
      <4> HIDE DEF T
      <4>2. l \in T /\ \A r \in T : r <= l
        BY <1>0, <4>1, LastOf
      <4>3. \A r \in Before(s) : r <= l
        <5>1. c < l /\ c \in Nat /\ l \in Nat
          BY <1>0, <1>k, <4>2, <4>t
        <5>2. \A r \in Before(s) : r \in Nat
          BY <1>0 DEF Before
        <5> QED
          BY <4>2, <4>x, <5>1, <5>2
      <4>4. Last(Before(s)) = l
        BY <1>0, <3>1, <4>2, <4>3, <4>x, LastIs
      <4>5. expected_prev(anchor, s)' = audit_log'[l].row_hash
        BY <1>10, <3>1, <3>4, ExpectedPrevNext DEF T
      <4> QED
        BY <1>4, <3>2, <4>2, <4>4, <4>5, <4>t
    <3> QED
      BY <3>3, <3>4
  <2>3. last_row_hash' = last_row_hash
    <3>1. Last(K) \in K /\ \A r \in K : r <= Last(K)
      BY <1>0, <1>5, <2>1, LastOf
    <3>2. \A r \in Seqs : r <= Last(K)
      <4>1. c < Last(K) /\ c \in Nat /\ Last(K) \in Nat
        BY <1>0, <1>k, <3>1
      <4> QED
        BY <1>0, <1>k, <3>1, <4>1
    <3>3. Last(Seqs) = Last(K)
      BY <1>0, <3>1, <3>2, LastIs
    <3>4. last_row_hash' = audit_log'[Last(K)].row_hash
      BY <1>4, <2>1 DEF last_row_hash
    <3> QED
      BY <1>4, <2>1, <3>1, <3>3, <3>4 DEF last_row_hash
  <2>4. next_seq - 1 \in Seqs => next_seq - 1 \in K
    <3>1. PICK r \in K : r > c /\ r <= next_seq - 1
      BY <1>5, <1>k, <2>1
    <3> QED
      BY <1>0, <1>k, <3>1
  <2>5. \A s \in K : Complete(s)' <=> Complete(s)
    BY <1>4 DEF Complete
  <2>6. \A v, w \in Appenders : step'[v] # "idle" /\ step'[w] # "idle" => v = w
    BY <1>1, <2>1 DEF Linked
  <2>7. \A s \in K : Complete(s)' \/ \E w \in Appenders : step'[w] = "update" /\ local'[w].seq = s
    BY <1>1, <2>1, <2>5 DEF Linked
  <2>8. \A w \in Appenders :
          /\ step'[w] = "insert" => local'[w].prev_hash = last_row_hash'
          /\ step'[w] = "update" => local'[w].seq = next_seq' - 1 /\ local'[w].seq \in K
    BY <1>1, <2>1, <2>3, <2>4 DEF Linked
  <2> QED
    BY <1>4, <2>1, <2>2, <2>6, <2>7, <2>8 DEF Linked
<1> QED
  BY <1>7, <1>8, <1>9, <1>10, <1>11

(* Every step keeps the invariant.                                         *)
LEMMA AuditStep == AuditInv /\ [AuditNext]_auditVars => AuditInv'
<1> SUFFICES ASSUME AuditInv, [AuditNext]_auditVars PROVE AuditInv'
  OBVIOUS
<1>0. today \in Nat /\ today \in 0..MaxDays /\ halted \in BOOLEAN /\ MaxDays \in Nat
  BY AuditAssumption DEF AuditAssumption, AuditInv, AuditTypeOK
<1>1. CASE \E w \in Appenders : append_audit_log(w)
  BY <1>1, AppendSelect, AppendInsert, AppendUpdate, AppendFails DEF append_audit_log
<1>2. CASE \E s \in Seqs : edit_row(s)
  BY <1>2, EditRow
<1>3. CASE prune_audit_log
  BY <1>3, PruneAuditLog
<1>4. CASE day_passes
  <2>1. today' \in today..MaxDays /\ halted' \in BOOLEAN
    BY <1>0, <1>4 DEF day_passes
  <2> QED
    BY <1>4, <2>1, AuditKept DEF day_passes
<1>5. CASE verify_anchor
  <2>1. today' \in today..MaxDays /\ halted' \in BOOLEAN
    BY <1>0, <1>5 DEF verify_anchor
  <2> QED
    BY <1>5, <2>1, AuditKept DEF verify_anchor
<1>6. CASE verify_audit_log_chain
  <2>1. today' \in today..MaxDays /\ halted' \in BOOLEAN
    BY <1>0, <1>6 DEF verify_audit_log_chain
  <2> QED
    BY <1>6, <2>1, AuditKept DEF verify_audit_log_chain
<1>7. CASE UNCHANGED auditVars
  <2>1. today' \in today..MaxDays /\ halted' \in BOOLEAN
    BY <1>0, <1>7 DEF auditVars
  <2> QED
    BY <1>7, <2>1, AuditKept DEF auditVars
<1> QED
  BY <1>1, <1>2, <1>3, <1>4, <1>5, <1>6, <1>7 DEF AuditNext

(* The chain verifies: every row is complete and linked, and what its hash *)
(* was made of is what it says.                                            *)
LEMMA AuditChain == AuditInv => ChainVerifies
<1> SUFFICES ASSUME AuditInv, ~disturbed, \A w \in Appenders : step[w] = "idle",
                    \A s \in Seqs : ~Edited(s), NEW s \in verify_rows(anchor)
             PROVE  row_ok(anchor, s)
  BY DEF ChainVerifies, chain_ok
<1>1. s \in Seqs
  BY DEF verify_rows
<1>2. audit_log[s].prev_hash = expected_prev(anchor, s) /\ Complete(s)
  BY <1>1 DEF AuditInv, Linked
<1>3. audit_log[s].payload = audit_log[s].written
  BY <1>1 DEF Edited
<1> QED
  BY <1>2, <1>3 DEF row_ok, Complete

(* An edit shows: the hash of a complete row is that of what was written.  *)
LEMMA AuditEdit == AuditInv => EditDetected
<1> SUFFICES ASSUME AuditInv, NEW s \in Seqs, Edited(s), audit_log[s].row_hash # Pending
             PROVE  ~chain_ok(anchor)
  BY DEF EditDetected
<1>1. Complete(s) /\ anchor.last_seq_kept <= s
  BY DEF AuditInv, Hashed, Kept
<1>2. s \in verify_rows(anchor)
  BY <1>1 DEF verify_rows
<1>3. ~row_ok(anchor, s)
  BY <1>1 DEF row_ok, Complete, Edited, _compute_audit_row_hash
<1> QED
  BY <1>2, <1>3 DEF chain_ok

(* AuditInvariant, for any number of concurrent calls of append_audit_log, *)
(* of rows, prunings and edits: verify_audit_log_chain accepts a log that  *)
(* nobody edited, and never one with a complete row that was edited.       *)
THEOREM AuditCorrect == AuditSpec => []AuditInvariant
<1>1. AuditInv => AuditInvariant
  BY AuditChain, AuditEdit DEF AuditInvariant, AuditInv
<1> QED
  BY <1>1, AuditInvInit, AuditStep, PTL DEF AuditSpec

-----------------------------------------------------------------------------
(****************************************************************************)
(* The passwords of the database's roles, for every number of processes,    *)
(* roles and starts. Writers of ~/.pgpass exclude one another, so what a    *)
(* process remembers is in the file, or is what the one writer is about to  *)
(* put there (FileAgrees); and a start that is the only one underway has    *)
(* given each role the password it remembers (LoneGives).                   *)
(****************************************************************************)

(* Before a process opens its pools it has none; what it is about to write *)
(* or to give a role is a password.                                        *)
ByStage ==
    \A p \in Hosted :
        /\ inits[p].left >= 1
        /\ inits[p].stage = "connect" => inits[p].at = 1
        /\ inits[p].stage \notin {"pool", "on"} => pools[p] = {}
        /\ inits[p].stage \in {"write", "alter"} => remembered(p) # 0

(* With every password made alone and written, there is one writer at a    *)
(* time, it replaces no entry, and what a process remembers is in the file *)
(* or about to be.  So nobody ever gives a role another password than the  *)
(* one that those who have a pool remember.                                *)
FileAgrees ==
    \A p \in Hosted :
        /\ inits[p].stage = "write" => /\ inits[p].lines = pgpass /\ pgpass[role(p)] = 0
                                 /\ \A q \in Hosted \ {p} : inits[q].stage # "write"
        /\ \A r \in RoleSet :
              _role_pw_cache[p][r] # 0 =>
                  \/ pgpass[r] = _role_pw_cache[p][r]
                  \/ inits[p].stage = "write" /\ r = role(p)
        /\ \A r \in pools[p] : _role_pw_cache[p][r] # 0 /\ _role_pw_cache[p][r] = pg_roles[r]

(* A lone start has given each role it is past the password it remembers.  *)
GivenTo(p, i) ==
    _role_pw_cache[p][RoleOrder[i]] # 0 /\ _role_pw_cache[p][RoleOrder[i]] = pg_roles[RoleOrder[i]]

PastGiven(p) ==
    /\ inits[p].stage = "password" => \A i \in 1 .. inits[p].at - 1 : GivenTo(p, i)
    /\ inits[p].stage \in {"write", "alter"} =>
          \A i \in 1 .. inits[p].at - 1 : RoleOrder[i] # role(p) => GivenTo(p, i)
    /\ inits[p].stage = "pool" => \A i \in DOMAIN RoleOrder : GivenTo(p, i)

LoneGives == \A p \in Underway : inits[p].lone => Underway = {p} /\ PastGiven(p)

RolesInv ==
    /\ DbRolesTypeOK /\ ByStage /\ LoneGives /\ LoneStartOpens
    /\ (~raced /\ write_errors = 0 => FileAgrees)

(* The order of the roles is a sequence that is not empty.                 *)
LEMMA RoleOrderFacts ==
    /\ Len(RoleOrder) \in Nat \ {0} /\ DOMAIN RoleOrder = 1 .. Len(RoleOrder)
    /\ \A i \in DOMAIN RoleOrder : RoleOrder[i] \in RoleSet
    /\ NoPasswords \in [RoleSet -> Nat]
    /\ Attempts \in Nat \ {0} /\ MaxInits \in Nat /\ MaxWriteErrors \in Nat
BY DbRolesAssumption DEF DbRolesAssumption, RoleSet, NoPasswords

StartStages == {"off", "connect", "password", "write", "alter", "pool", "on"}
InitRecords ==
    [stage : StartStages, at : DOMAIN RoleOrder, left : 0 .. Attempts,
     lines : [RoleSet -> Nat], lone : BOOLEAN]

(* A process that is off is a start that is over.                          *)
LEMMA OffIsRecord ==
    Off \in InitRecords /\ Off.stage = "off" /\ Off.left = Attempts /\ Off.at = 1
BY RoleOrderFacts DEF Off, InitRecords, StartStages

(* The invariant holds at the start.                                       *)
LEMMA RolesInvInit == DbRolesInit => RolesInv
<1> SUFFICES ASSUME DbRolesInit PROVE RolesInv
  OBVIOUS
<1>1. \A p \in Hosted : inits[p] = Off /\ pools[p] = {} /\ \A r \in RoleSet : _role_pw_cache[p][r] = 0
  BY DEF DbRolesInit, NoPasswords
<1>2. DbRolesTypeOK
  <2>1. inits \in [Hosted -> InitRecords]
    BY OffIsRecord DEF DbRolesInit
  <2>2. /\ pg_roles \in [RoleSet -> Nat] /\ pgpass \in [RoleSet -> Nat]
        /\ _role_pw_cache \in [Hosted -> [RoleSet -> Nat]] /\ pools \in [Hosted -> SUBSET RoleSet]
    BY RoleOrderFacts, SMT DEF DbRolesInit
  <2>3. /\ MaxInits \in Nat /\ MaxWriteErrors \in Nat
    BY RoleOrderFacts
  <2>4. /\ server_up \in BOOLEAN /\ raced \in BOOLEAN /\ generated \in Nat
        /\ init_count \in 0 .. MaxInits /\ write_errors \in 0 .. MaxWriteErrors
        /\ lone_failures \in 0 .. MaxInits
    <3>1. /\ server_up = FALSE /\ raced = FALSE /\ generated = 0 /\ init_count = 0
          /\ write_errors = 0 /\ lone_failures = 0
      BY DEF DbRolesInit
    <3>2. server_up \in BOOLEAN /\ raced \in BOOLEAN
      BY <3>1
    <3>3. /\ generated \in Nat /\ init_count \in 0 .. MaxInits
          /\ write_errors \in 0 .. MaxWriteErrors /\ lone_failures \in 0 .. MaxInits
      BY <2>3, <3>1
    <3> QED
      BY <3>2, <3>3
  <2> QED
    BY <2>1, <2>2, <2>4 DEF DbRolesTypeOK, InitRecords, StartStages
<1>3. ByStage /\ LoneGives
  BY <1>1, OffIsRecord, RoleOrderFacts DEF ByStage, LoneGives, PastGiven, Underway
<1>4. LoneStartOpens
  BY DEF DbRolesInit, LoneStartOpens
<1>5. FileAgrees
  BY <1>1, OffIsRecord DEF FileAgrees
<1> QED
  BY <1>2, <1>3, <1>4, <1>5 DEF RolesInv

(* The types in a form that the steps use.                                 *)
LEMMA RoleTypes ==
    ASSUME RolesInv
    PROVE  /\ inits \in [Hosted -> InitRecords]
           /\ pg_roles \in [RoleSet -> Nat] /\ pgpass \in [RoleSet -> Nat]
           /\ _role_pw_cache \in [Hosted -> [RoleSet -> Nat]]
           /\ pools \in [Hosted -> SUBSET RoleSet] /\ generated \in Nat
           /\ \A p \in Hosted : role(p) \in RoleSet /\ remembered(p) \in Nat
BY RoleOrderFacts DEF RolesInv, DbRolesTypeOK, InitRecords, StartStages, role, remembered

(* The server comes up: nobody has a pool of it.                           *)
LEMMA ServerStarts == ASSUME RolesInv, server_starts PROVE RolesInv'
<1>1. /\ server_up' = TRUE /\ pg_roles' = pg_roles /\ pgpass' = pgpass /\ inits' = inits
      /\ _role_pw_cache' = _role_pw_cache /\ pools' = pools /\ generated' = generated
      /\ init_count' = init_count /\ write_errors' = write_errors /\ raced' = raced
      /\ lone_failures' = lone_failures
  BY DEF server_starts
<1>2. DbRolesTypeOK'
  BY <1>1 DEF RolesInv, DbRolesTypeOK
<1>3. ByStage' /\ LoneGives' /\ LoneStartOpens'
  BY <1>1 DEF RolesInv, ByStage, LoneGives, LoneStartOpens, Underway, PastGiven, GivenTo, role, remembered
<1>4. ~raced' /\ write_errors' = 0 => FileAgrees'
  BY <1>1 DEF RolesInv, FileAgrees, role
<1> QED
  BY <1>2, <1>3, <1>4 DEF RolesInv

(* A process starts, alone or while another one is underway.               *)
LEMMA InitDb == ASSUME RolesInv, NEW p \in Hosted, init_db(p) PROVE RolesInv'
<1>t. /\ inits \in [Hosted -> InitRecords] /\ init_count \in Nat /\ MaxInits \in Nat
      /\ Attempts \in Nat \ {0}
    <2>1. init_count \in 0 .. MaxInits
    BY DEF RolesInv, DbRolesTypeOK
  <2> QED
    BY <2>1, RoleTypes, RoleOrderFacts
<1>1. /\ inits[p].stage = "off" /\ init_count < MaxInits /\ init_count' = init_count + 1
      /\ server_up' = server_up /\ pg_roles' = pg_roles /\ pgpass' = pgpass
      /\ _role_pw_cache' = _role_pw_cache /\ pools' = pools /\ generated' = generated
      /\ write_errors' = write_errors /\ raced' = raced /\ lone_failures' = lone_failures
  BY DEF init_db
<1>2. /\ inits'[p] = [Off EXCEPT !.stage = "connect", !.lone = (Underway = {})]
      /\ \A q \in Hosted \ {p} :
            inits'[q] = IF q \in Underway THEN [inits[q] EXCEPT !.lone = FALSE] ELSE inits[q]
      /\ inits' = [q \in Hosted |-> inits'[q]]
  BY DEF init_db
<1>3. /\ inits'[p] \in InitRecords /\ inits'[p].stage = "connect" /\ inits'[p].left = Attempts
      /\ inits'[p].at = 1 /\ inits'[p].lone = (Underway = {})
  BY <1>2, OffIsRecord DEF InitRecords, StartStages
<1>4. ASSUME NEW q \in Hosted, q # p
      PROVE  /\ inits'[q] \in InitRecords /\ inits'[q].stage = inits[q].stage
             /\ inits'[q].at = inits[q].at /\ inits'[q].left = inits[q].left
             /\ inits'[q].lines = inits[q].lines
  <2>1. inits[q] \in InitRecords
    BY <1>t
  <2>2. CASE q \in Underway
    <3>1. inits'[q] = [inits[q] EXCEPT !.lone = FALSE]
      BY <1>2, <1>4, <2>2
    <3> QED
      BY <2>1, <3>1 DEF InitRecords
  <2>3. CASE q \notin Underway
    BY <1>2, <1>4, <2>1, <2>3
  <2> QED
    BY <2>2, <2>3
<1>4a. ASSUME NEW q \in Hosted, q # p, q \in Underway PROVE ~inits'[q].lone
  <2>1. inits'[q] = [inits[q] EXCEPT !.lone = FALSE] /\ inits[q] \in InitRecords
    BY <1>2, <1>4a, <1>t
  <2> QED
    BY <2>1, <1>4a DEF InitRecords
<1>5. DbRolesTypeOK'
  <2>1. inits' \in [Hosted -> InitRecords]
    BY <1>2, <1>3, <1>4
  <2>2. init_count' \in 0 .. MaxInits
    BY <1>1, <1>t
  <2> QED
    BY <1>1, <2>1, <2>2 DEF RolesInv, DbRolesTypeOK, InitRecords, StartStages
<1>6. ByStage'
  BY <1>1, <1>3, <1>4, <1>t DEF RolesInv, ByStage, remembered, role
<1>7. LoneGives'
  <2>1. Underway' = Underway \cup {p}
    BY <1>1, <1>3, <1>4 DEF Underway
  <2>2. ASSUME NEW q \in Underway', inits'[q].lone PROVE q = p /\ Underway' = {p}
    BY <1>3, <1>4a, <2>1, <2>2 DEF Underway
  <2> QED
    BY <1>3, <2>2 DEF LoneGives, PastGiven
<1>8. LoneStartOpens'
  BY <1>1 DEF RolesInv, LoneStartOpens
<1>9. ASSUME FileAgrees PROVE FileAgrees'
  BY <1>1, <1>3, <1>4, <1>9 DEF FileAgrees, role
<1> QED
  BY <1>1, <1>5, <1>6, <1>7, <1>8, <1>9 DEF RolesInv
(* The three ways in which a step changes the start of a process.          *)
LEMMA Advances ==
    ASSUME inits \in [Hosted -> InitRecords], NEW p \in Hosted, NEW st \in StartStages, advance(p, st)
    PROVE  /\ inits' \in [Hosted -> InitRecords]
           /\ \A q \in Hosted : q # p => inits'[q] = inits[q]
           /\ inits'[p].stage = st /\ inits'[p].at = inits[p].at /\ inits'[p].left = inits[p].left
           /\ inits'[p].lone = inits[p].lone /\ inits'[p].lines = inits[p].lines
<1>1. inits[p] \in InitRecords
  OBVIOUS
<1>2. inits' = [inits EXCEPT ![p] = [inits[p] EXCEPT !.stage = st]]
  BY DEF advance
<1>3. [inits[p] EXCEPT !.stage = st] \in InitRecords
  BY <1>1 DEF InitRecords
<1>4. inits'[p] = [inits[p] EXCEPT !.stage = st] /\ inits' \in [Hosted -> InitRecords]
  BY <1>2, <1>3
<1> QED
  BY <1>1, <1>2, <1>4 DEF InitRecords

(* The start goes on to its next role, or to its pools.                    *)
LEMMA NextRole ==
    ASSUME inits \in [Hosted -> InitRecords], NEW p \in Hosted,
           NEW st \in StartStages, NEW last \in StartStages, to_next(p, st, last)
    PROVE  /\ inits' \in [Hosted -> InitRecords]
           /\ \A q \in Hosted : q # p => inits'[q] = inits[q]
           /\ inits'[p].left = inits[p].left /\ inits'[p].lone = inits[p].lone
           /\ inits[p].at = Len(RoleOrder) => inits'[p].stage = last /\ inits'[p].at = 1
           /\ inits[p].at # Len(RoleOrder) =>
                 /\ inits'[p].stage = st /\ inits'[p].at = inits[p].at + 1
<1>1. inits[p] \in InitRecords /\ inits[p].at \in 1 .. Len(RoleOrder)
  BY RoleOrderFacts DEF InitRecords
<1> DEFINE stg == IF inits[p].at = Len(RoleOrder) THEN last ELSE st
           pos == IF inits[p].at = Len(RoleOrder) THEN 1 ELSE inits[p].at + 1
<1>2. stg \in StartStages /\ pos \in 1 .. Len(RoleOrder)
  BY <1>1, RoleOrderFacts
<1>3. inits' = [inits EXCEPT ![p] = [inits[p] EXCEPT !.stage = stg, !.at = pos]]
  BY DEF to_next, rolesDone
<1> HIDE DEF stg, pos
<1>4. [inits[p] EXCEPT !.stage = stg, !.at = pos] \in InitRecords
  BY <1>1, <1>2, RoleOrderFacts DEF InitRecords
<1>5. inits'[p] = [inits[p] EXCEPT !.stage = stg, !.at = pos] /\ inits' \in [Hosted -> InitRecords]
  BY <1>3, <1>4
<1>6. inits'[p].stage = stg /\ inits'[p].at = pos /\ inits'[p].left = inits[p].left
      /\ inits'[p].lone = inits[p].lone
  BY <1>1, <1>5 DEF InitRecords
<1> QED
  BY <1>3, <1>5, <1>6 DEF stg, pos

(* A lone process is the only one underway: when another one is, only that *)
(* one can be lone after its step.                                         *)
LEMMA OnlyLone ==
    ASSUME LoneGives, NEW p \in Underway, NEW q \in Underway, q # p
    PROVE  ~inits[q].lone
BY DEF LoneGives

(* A step of a start that is underway leaves it so.                        *)
LEMMA StillUnderway ==
    ASSUME NEW p \in Underway, \A q \in Hosted : q # p => inits'[q] = inits[q]
    PROVE  /\ inits'[p].stage \notin {"off", "on"} => Underway' = Underway
           /\ inits'[p].stage \in {"off", "on"} => Underway' = Underway \ {p}
BY DEF Underway

(* A step of one process leaves the lone starts as they should be, if that *)
(* process has given the roles it is now past their passwords.             *)
LEMMA LoneStep ==
    ASSUME LoneGives, NEW p \in Underway, \A q \in Hosted : q # p => inits'[q] = inits[q],
           inits'[p].stage \notin {"off", "on"} =>
               inits'[p].lone = inits[p].lone /\ (inits[p].lone => PastGiven(p)')
    PROVE  LoneGives'
<1> SUFFICES ASSUME NEW q \in Underway', inits'[q].lone
             PROVE  Underway' = {q} /\ PastGiven(q)'
  BY DEF LoneGives
<1>1. q = p
  <2>1. SUFFICES ASSUME q # p PROVE FALSE
    OBVIOUS
  <2>2. q \in Underway /\ inits[q].lone
    BY <2>1 DEF Underway
  <2> QED
    BY <2>1, <2>2, OnlyLone
<1>2. inits'[p].stage \notin {"off", "on"} /\ inits[p].lone /\ PastGiven(p)'
  BY <1>1 DEF Underway
<1>3. Underway' = Underway /\ Underway = {p}
  BY <1>2, StillUnderway DEF LoneGives
<1> QED
  BY <1>1, <1>2, <1>3

(* The administrative pool is opened, or cannot be.                        *)
LEMMA OpenAdminPool == ASSUME RolesInv, NEW p \in Hosted, open_admin_pool(p) PROVE RolesInv'
<1>1. /\ inits[p].stage = "connect" /\ pg_roles' = pg_roles /\ pgpass' = pgpass
      /\ _role_pw_cache' = _role_pw_cache /\ pools' = pools /\ generated' = generated
      /\ write_errors' = write_errors /\ raced' = raced /\ lone_failures' = lone_failures
      /\ server_up' = server_up /\ init_count' = init_count
  BY DEF open_admin_pool
<1>2. inits \in [Hosted -> InitRecords] /\ inits[p] \in InitRecords /\ inits[p].left >= 1
      /\ inits[p].at = 1 /\ pools[p] = {} /\ p \in Underway
  BY <1>1, RoleTypes DEF RolesInv, ByStage, Underway
<1>3. /\ inits' \in [Hosted -> InitRecords]
      /\ \A q \in Hosted : q # p => inits'[q] = inits[q]
      /\ inits'[p].stage \in {"off", "connect", "password"} /\ inits'[p].left >= 1
      /\ inits'[p].at = 1 /\ (inits'[p].stage # "off" => inits'[p].lone = inits[p].lone)
  <2> DEFINE new == IF server_up THEN [inits[p] EXCEPT !.stage = "password"]
                    ELSE IF inits[p].left = 1 THEN Off
                    ELSE [inits[p] EXCEPT !.left = inits[p].left - 1]
  <2>1. inits' = [inits EXCEPT ![p] = new]
    BY DEF open_admin_pool
  <2>2. /\ new \in InitRecords /\ new.stage \in {"off", "connect", "password"} /\ new.left >= 1
        /\ new.at = 1 /\ (new.stage # "off" => new.lone = inits[p].lone)
    <3>1. CASE server_up
      BY <1>1, <1>2, <3>1 DEF InitRecords, StartStages
    <3>2. CASE ~server_up /\ inits[p].left = 1
      BY <1>2, <3>2, OffIsRecord, RoleOrderFacts
    <3>3. CASE ~server_up /\ inits[p].left # 1
      <4>1. inits[p].left \in 0 .. Attempts /\ Attempts \in Nat
        BY <1>2, RoleOrderFacts DEF InitRecords
      <4>2. inits[p].left - 1 \in 0 .. Attempts /\ inits[p].left - 1 >= 1
        BY <1>2, <3>3, <4>1
      <4> QED
        BY <1>1, <1>2, <3>3, <4>2 DEF InitRecords
    <3> QED
      BY <3>1, <3>2, <3>3
  <2> HIDE DEF new
  <2> QED
    BY <1>2, <2>1, <2>2
<1>4. DbRolesTypeOK'
  BY <1>1, <1>3 DEF RolesInv, DbRolesTypeOK, InitRecords, StartStages
<1>5. ByStage'
  BY <1>1, <1>2, <1>3 DEF RolesInv, ByStage, remembered, role
<1>6. LoneGives'
  <2>1. PastGiven(p)'
    BY <1>3 DEF PastGiven
  <2> QED
    BY <1>2, <1>3, <2>1, LoneStep DEF RolesInv
<1>7. LoneStartOpens'
  BY <1>1 DEF RolesInv, LoneStartOpens
<1>8. ASSUME FileAgrees PROVE FileAgrees'
  BY <1>1, <1>2, <1>3, <1>8 DEF FileAgrees, role
<1> QED
  BY <1>1, <1>4, <1>5, <1>6, <1>7, <1>8 DEF RolesInv

(* The password is remembered, read from the file, or made.                *)
LEMMA GetPassword ==
    ASSUME RolesInv, NEW p \in Hosted, _get_or_generate_role_password(p) PROVE RolesInv'
<1> DEFINE r == role(p)
           pw == IF pgpass[r] # 0 THEN pgpass[r] ELSE generated + 1
<1>1. /\ inits[p].stage = "password" /\ pg_roles' = pg_roles /\ pgpass' = pgpass
      /\ pools' = pools /\ write_errors' = write_errors /\ lone_failures' = lone_failures
      /\ server_up' = server_up /\ init_count' = init_count
      /\ _role_pw_cache' = [_role_pw_cache EXCEPT ![p][r] = pw]
  BY DEF _get_or_generate_role_password, _read_pgpass
<1>2. /\ inits \in [Hosted -> InitRecords] /\ inits[p] \in InitRecords /\ p \in Underway
      /\ r \in RoleSet /\ pw \in Nat /\ pw # 0 /\ pools[p] = {} /\ generated \in Nat
      /\ inits[p].left >= 1 /\ pgpass \in [RoleSet -> Nat]
      /\ _role_pw_cache \in [Hosted -> [RoleSet -> Nat]]
  BY <1>1, RoleTypes DEF RolesInv, ByStage, Underway
<1>3. /\ inits' \in [Hosted -> InitRecords]
      /\ \A q \in Hosted : q # p => inits'[q] = inits[q]
      /\ inits'[p].at = inits[p].at /\ inits'[p].lone = inits[p].lone
      /\ inits'[p].left = inits[p].left
      /\ \/ /\ pgpass[r] # 0 /\ inits'[p].stage = "alter"
            /\ generated' = generated /\ raced' = raced
         \/ /\ pgpass[r] = 0 /\ inits'[p].stage = "write" /\ inits'[p].lines = pgpass
            /\ generated' = generated + 1 /\ raced' = (raced \/ Underway # {p})
  <2>1. CASE pgpass[r] # 0
    <3>1. advance(p, "alter") /\ generated' = generated /\ raced' = raced
      BY <2>1 DEF _get_or_generate_role_password, _read_pgpass
    <3> QED
      BY <1>2, <2>1, <3>1, Advances DEF StartStages
  <2>2. CASE pgpass[r] = 0
    <3>1. /\ inits' = [inits EXCEPT ![p].stage = "write", ![p].lines = pgpass]
          /\ generated' = generated + 1 /\ raced' = (raced \/ Underway # {p})
      BY <2>2 DEF _get_or_generate_role_password, _read_pgpass
    <3>2. inits' = [inits EXCEPT ![p] = [inits[p] EXCEPT !.stage = "write", !.lines = pgpass]]
      BY <3>1
    <3>3. [inits[p] EXCEPT !.stage = "write", !.lines = pgpass] \in InitRecords
      BY <1>2 DEF InitRecords, StartStages
    <3> QED
      BY <1>2, <2>2, <3>1, <3>2, <3>3 DEF InitRecords
  <2> QED
    BY <2>1, <2>2
<1> HIDE DEF pw, r
<1>4. /\ _role_pw_cache' \in [Hosted -> [RoleSet -> Nat]] /\ _role_pw_cache'[p][r] = pw
      /\ \A q \in Hosted : \A s \in RoleSet :
            q # p \/ s # r => _role_pw_cache'[q][s] = _role_pw_cache[q][s]
  BY <1>1, <1>2
<1>5. role(p)' = r /\ role(p) = r
  BY <1>3 DEF role, r
<1>6. DbRolesTypeOK'
  <2>1. generated' \in Nat /\ raced' \in BOOLEAN
    <3>1. raced \in BOOLEAN
      BY DEF RolesInv, DbRolesTypeOK
    <3>2. generated' \in Nat
      BY <1>2, <1>3
    <3> QED
      BY <1>3, <3>1, <3>2
  <2> QED
    BY <1>1, <1>3, <1>4, <2>1 DEF RolesInv, DbRolesTypeOK, InitRecords, StartStages
<1>7. ByStage'
  <2>1. remembered(p)' # 0
    BY <1>2, <1>4, <1>5 DEF remembered
  <2>2. ASSUME NEW q \in Hosted, q # p PROVE remembered(q)' = remembered(q)
    <3>1. role(q)' = role(q) /\ role(q) \in RoleSet
      BY <1>3, <2>2, RoleTypes DEF role
    <3> QED
      BY <1>4, <2>2, <3>1 DEF remembered
  <2> QED
    BY <1>1, <1>2, <1>3, <2>1, <2>2 DEF RolesInv, ByStage
<1>8. LoneGives'
  <2>1. ASSUME inits[p].lone PROVE PastGiven(p)'
    <3>1. \A i \in 1 .. inits[p].at - 1 : GivenTo(p, i)
      BY <1>1, <1>2, <2>1 DEF RolesInv, LoneGives, PastGiven
    <3>2. ASSUME NEW i \in 1 .. inits[p].at - 1, RoleOrder[i] # r PROVE GivenTo(p, i)'
      <4>1. RoleOrder[i] \in RoleSet
        <5>1. inits[p].at \in 1 .. Len(RoleOrder)
          BY <1>2, RoleOrderFacts DEF InitRecords
        <5>2. i \in DOMAIN RoleOrder
          BY <5>1, RoleOrderFacts
        <5> QED
          BY <5>2, RoleOrderFacts
      <4> QED
        BY <1>1, <1>4, <3>1, <3>2, <4>1 DEF GivenTo
    <3> QED
      BY <1>3, <1>5, <3>2 DEF PastGiven
  <2> QED
    BY <1>2, <1>3, <2>1, LoneStep DEF RolesInv
<1>9. LoneStartOpens'
  BY <1>1 DEF RolesInv, LoneStartOpens
<1>10. ASSUME FileAgrees, ~raced' PROVE FileAgrees'
  <2>1. ASSUME NEW q \in Hosted, q # p, inits'[p].stage = "write" PROVE inits'[q].stage # "write"
    BY <1>3, <1>10, <2>1 DEF Underway
  <2>2. ASSUME NEW q \in Hosted, q # p PROVE role(q)' = role(q)
    BY <1>3, <2>2 DEF role
  <2>3. ASSUME NEW q \in Hosted, inits'[q].stage = "write"
        PROVE  /\ inits'[q].lines = pgpass' /\ pgpass'[role(q)'] = 0
               /\ \A s \in Hosted \ {q} : inits'[s].stage # "write"
    <3>1. CASE q = p
      BY <1>1, <1>3, <1>5, <2>1, <2>3, <3>1
    <3>2. CASE q # p
      BY <1>1, <1>3, <1>10, <2>1, <2>2, <2>3, <3>2 DEF FileAgrees
    <3> QED
      BY <3>1, <3>2
  <2>4. ASSUME NEW q \in Hosted, NEW s \in RoleSet, _role_pw_cache'[q][s] # 0
        PROVE  pgpass'[s] = _role_pw_cache'[q][s] \/ (inits'[q].stage = "write" /\ s = role(q)')
    <3>1. CASE q = p /\ s = r
      BY <1>1, <1>3, <1>4, <1>5, <2>4, <3>1 DEF pw
    <3>2. CASE q = p /\ s # r
      BY <1>1, <1>4, <1>10, <2>4, <3>2 DEF FileAgrees
    <3>3. CASE q # p
      BY <1>1, <1>3, <1>4, <1>10, <2>2, <2>4, <3>3 DEF FileAgrees
    <3> QED
      BY <3>1, <3>2, <3>3
  <2>5. ASSUME NEW q \in Hosted, NEW s \in pools'[q]
        PROVE  _role_pw_cache'[q][s] # 0 /\ _role_pw_cache'[q][s] = pg_roles'[s]
    <3>1. q # p /\ s \in RoleSet
      BY <1>1, <1>2, <2>5, RoleTypes
    <3> QED
      BY <1>1, <1>4, <1>10, <2>5, <3>1 DEF FileAgrees
  <2> QED
    BY <2>3, <2>4, <2>5 DEF FileAgrees
<1>11. ~raced' => ~raced
  BY <1>3
<1> QED
  BY <1>1, <1>6, <1>7, <1>8, <1>9, <1>10, <1>11 DEF RolesInv

(* A new password is written into the file, by the one writer.             *)
LEMMA WritePgpass == ASSUME RolesInv, NEW p \in Hosted, _write_pgpass_entry(p) PROVE RolesInv'
<1>1. /\ inits[p].stage = "write" /\ pgpass' = [inits[p].lines EXCEPT ![role(p)] = remembered(p)]
      /\ advance(p, "alter") /\ server_up' = server_up /\ pg_roles' = pg_roles
      /\ _role_pw_cache' = _role_pw_cache /\ pools' = pools /\ generated' = generated
      /\ init_count' = init_count /\ write_errors' = write_errors /\ raced' = raced
      /\ lone_failures' = lone_failures
  BY DEF _write_pgpass_entry
<1>2. /\ inits \in [Hosted -> InitRecords] /\ inits[p] \in InitRecords /\ p \in Underway
      /\ role(p) \in RoleSet /\ inits[p].left >= 1
      /\ remembered(p) \in Nat /\ remembered(p) # 0 /\ pools[p] = {}
      /\ pgpass \in [RoleSet -> Nat] /\ inits[p].lines \in [RoleSet -> Nat]
  BY <1>1, RoleTypes DEF RolesInv, ByStage, Underway, InitRecords
<1>3. /\ inits' \in [Hosted -> InitRecords]
      /\ \A q \in Hosted : q # p => inits'[q] = inits[q]
      /\ inits'[p].stage = "alter" /\ inits'[p].at = inits[p].at
      /\ inits'[p].left = inits[p].left /\ inits'[p].lone = inits[p].lone
  BY <1>1, <1>2, Advances DEF StartStages
<1>4. \A q \in Hosted : role(q)' = role(q)
  BY <1>3 DEF role
<1>5. DbRolesTypeOK'
  <2>1. pgpass' \in [RoleSet -> Nat]
    BY <1>1, <1>2
  <2> QED
    BY <1>1, <1>3, <2>1 DEF RolesInv, DbRolesTypeOK, InitRecords, StartStages
<1>6. ByStage'
  <2>1. \A q \in Hosted : remembered(q)' = remembered(q)
    BY <1>1, <1>4 DEF remembered
  <2> QED
    BY <1>1, <1>2, <1>3, <2>1 DEF RolesInv, ByStage
<1>7. LoneGives'
  <2>1. ASSUME inits[p].lone PROVE PastGiven(p)'
    BY <1>1, <1>2, <1>3, <1>4, <2>1 DEF RolesInv, LoneGives, PastGiven, GivenTo
  <2> QED
    BY <1>2, <1>3, <2>1, LoneStep DEF RolesInv
<1>8. LoneStartOpens'
  BY <1>1 DEF RolesInv, LoneStartOpens
<1>9. ASSUME FileAgrees PROVE FileAgrees'
  <2>1. /\ inits[p].lines = pgpass /\ pgpass[role(p)] = 0
        /\ \A q \in Hosted \ {p} : inits[q].stage # "write"
    BY <1>1, <1>9 DEF FileAgrees
  <2>2. \A q \in Hosted : inits'[q].stage # "write"
    BY <1>3, <2>1
  <2>3. /\ pgpass'[role(p)] = remembered(p)
        /\ \A s \in RoleSet : s # role(p) => pgpass'[s] = pgpass[s]
    BY <1>1, <1>2, <2>1
  <2>4. ASSUME NEW q \in Hosted, NEW s \in RoleSet, _role_pw_cache[q][s] # 0
        PROVE  pgpass'[s] = _role_pw_cache[q][s]
    <3>1. CASE q = p /\ s = role(p)
      BY <2>3, <3>1 DEF remembered
    <3>2. CASE ~(q = p /\ s = role(p))
      <4>1. pgpass[s] = _role_pw_cache[q][s]
        BY <1>9, <2>1, <2>4, <3>2 DEF FileAgrees
      <4> QED
        BY <2>1, <2>3, <2>4, <4>1
    <3> QED
      BY <3>1, <3>2
  <2> QED
    BY <1>1, <1>9, <2>2, <2>4 DEF FileAgrees
<1> QED
  BY <1>1, <1>5, <1>6, <1>7, <1>8, <1>9 DEF RolesInv

(* The write fails, and the process goes on with a password nobody else    *)
(* knows.                                                                  *)
LEMMA WriteFails == ASSUME RolesInv, NEW p \in Hosted, write_fails(p) PROVE RolesInv'
<1>1. /\ inits[p].stage = "write" /\ pgpass' = pgpass /\ write_errors < MaxWriteErrors
      /\ advance(p, "alter") /\ server_up' = server_up /\ pg_roles' = pg_roles
      /\ _role_pw_cache' = _role_pw_cache /\ pools' = pools /\ generated' = generated
      /\ init_count' = init_count /\ write_errors' = write_errors + 1 /\ raced' = raced
      /\ lone_failures' = lone_failures
  BY DEF write_fails
<1>2. /\ inits \in [Hosted -> InitRecords] /\ inits[p] \in InitRecords /\ p \in Underway
      /\ role(p) \in RoleSet /\ inits[p].left >= 1
      /\ remembered(p) # 0 /\ pools[p] = {}
  BY <1>1, RoleTypes DEF RolesInv, ByStage, Underway
<1>2a. write_errors' \in 1 .. MaxWriteErrors
  <2>1. write_errors \in 0 .. MaxWriteErrors
    BY DEF RolesInv, DbRolesTypeOK
  <2> QED
    BY <1>1, <2>1, RoleOrderFacts
<1>3. /\ inits' \in [Hosted -> InitRecords]
      /\ \A q \in Hosted : q # p => inits'[q] = inits[q]
      /\ inits'[p].stage = "alter" /\ inits'[p].at = inits[p].at
      /\ inits'[p].left = inits[p].left /\ inits'[p].lone = inits[p].lone
  BY <1>1, <1>2, Advances DEF StartStages
<1>4. \A q \in Hosted : role(q)' = role(q)
  BY <1>3 DEF role
<1>5. DbRolesTypeOK'
  <2>1. write_errors' \in 0 .. MaxWriteErrors
    BY <1>2a, RoleOrderFacts
  <2> QED
    BY <1>1, <1>3, <2>1 DEF RolesInv, DbRolesTypeOK, InitRecords, StartStages
<1>6. ByStage'
  <2>1. \A q \in Hosted : remembered(q)' = remembered(q)
    BY <1>1, <1>4 DEF remembered
  <2> QED
    BY <1>1, <1>2, <1>3, <2>1 DEF RolesInv, ByStage
<1>7. LoneGives'
  <2>1. ASSUME inits[p].lone PROVE PastGiven(p)'
    BY <1>1, <1>2, <1>3, <1>4, <2>1 DEF RolesInv, LoneGives, PastGiven, GivenTo
  <2> QED
    BY <1>2, <1>3, <2>1, LoneStep DEF RolesInv
<1>8. LoneStartOpens'
  BY <1>1 DEF RolesInv, LoneStartOpens
<1>9. write_errors' # 0
  BY <1>2a, RoleOrderFacts
<1> QED
  BY <1>5, <1>6, <1>7, <1>8, <1>9 DEF RolesInv

(* A role is only given the password that is in the file: those who have a *)
(* pool for it remember that one.                                          *)
LEMMA CreateRole == ASSUME RolesInv, NEW p \in Hosted, create_role(p) PROVE RolesInv'
<1>1. /\ inits[p].stage = "alter" /\ pg_roles' = [pg_roles EXCEPT ![role(p)] = remembered(p)]
      /\ to_next(p, "password", "pool") /\ pools' = pools /\ server_up' = server_up /\ generated' = generated
      /\ _role_pw_cache' = _role_pw_cache /\ pgpass' = pgpass
      /\ init_count' = init_count /\ write_errors' = write_errors /\ raced' = raced
      /\ lone_failures' = lone_failures
  BY DEF create_role
<1>2. /\ inits \in [Hosted -> InitRecords] /\ inits[p] \in InitRecords /\ p \in Underway
      /\ role(p) \in RoleSet /\ inits[p].left >= 1
      /\ remembered(p) \in Nat /\ remembered(p) # 0 /\ pools[p] = {}
      /\ pg_roles \in [RoleSet -> Nat]
  BY <1>1, RoleTypes DEF RolesInv, ByStage, Underway
<1>2a. inits[p].at \in 1 .. Len(RoleOrder) /\ Len(RoleOrder) \in Nat
  BY <1>2, RoleOrderFacts DEF InitRecords
<1>3. /\ inits' \in [Hosted -> InitRecords]
      /\ \A q \in Hosted : q # p => inits'[q] = inits[q]
      /\ inits'[p].left = inits[p].left /\ inits'[p].lone = inits[p].lone
      /\ inits[p].at = Len(RoleOrder) => inits'[p].stage = "pool" /\ inits'[p].at = 1
      /\ inits[p].at # Len(RoleOrder) =>
            /\ inits'[p].stage = "password" /\ inits'[p].at = inits[p].at + 1
  BY <1>1, <1>2, NextRole DEF StartStages
<1>4. \A q \in Hosted : q # p => role(q)' = role(q)
  BY <1>3 DEF role
<1>4a. /\ pg_roles' \in [RoleSet -> Nat] /\ pg_roles'[role(p)] = remembered(p)
       /\ \A s \in RoleSet : s # role(p) => pg_roles'[s] = pg_roles[s]
  BY <1>1, <1>2
<1>5. DbRolesTypeOK'
  BY <1>1, <1>3, <1>4a DEF RolesInv, DbRolesTypeOK, InitRecords, StartStages
<1>6. ByStage'
  <2>1. \A q \in Hosted : q # p => remembered(q)' = remembered(q)
    BY <1>1, <1>4 DEF remembered
  <2> QED
    BY <1>1, <1>2, <1>3, <2>1 DEF RolesInv, ByStage
<1>7. LoneGives'
  <2>1. ASSUME inits[p].lone PROVE PastGiven(p)'
    <3>1. ASSUME NEW i \in 1 .. inits[p].at PROVE GivenTo(p, i)'
      <4>1. i \in DOMAIN RoleOrder /\ RoleOrder[i] \in RoleSet
        BY <1>2a, RoleOrderFacts
      <4>2. CASE RoleOrder[i] = role(p)
        BY <1>1, <1>2, <1>4a, <4>2 DEF GivenTo, remembered
      <4>3. CASE RoleOrder[i] # role(p)
        <5>1. i \in 1 .. inits[p].at - 1
          BY <1>2a, <4>3 DEF role
        <5>2. GivenTo(p, i)
          BY <1>1, <1>2, <2>1, <4>3, <5>1 DEF RolesInv, LoneGives, PastGiven
        <5> QED
          BY <1>1, <1>4a, <4>1, <4>3, <5>2 DEF GivenTo
      <4> QED
        BY <4>2, <4>3
    <3>2. CASE inits[p].at = Len(RoleOrder)
      BY <1>3, <3>1, <3>2, RoleOrderFacts DEF PastGiven
    <3>3. CASE inits[p].at # Len(RoleOrder)
      <4>2. inits'[p].stage = "password" /\ inits'[p].at = inits[p].at + 1
        BY <1>3, <3>3
      <4>3. ASSUME NEW i \in 1 .. inits'[p].at - 1 PROVE GivenTo(p, i)'
        <5>1. i \in 1 .. inits[p].at
          BY <1>2a, <4>2
        <5> QED
          BY <3>1, <5>1
      <4> QED
        BY <4>2, <4>3 DEF PastGiven
    <3> QED
      BY <3>2, <3>3
  <2> QED
    BY <1>2, <1>3, <2>1, LoneStep DEF RolesInv
<1>8. LoneStartOpens'
  BY <1>1 DEF RolesInv, LoneStartOpens
<1>9. ASSUME FileAgrees PROVE FileAgrees'
  <2>1. ASSUME NEW q \in Hosted, NEW s \in pools[q]
        PROVE  _role_pw_cache[q][s] # 0 /\ _role_pw_cache[q][s] = pg_roles'[s]
    <3>1. s \in RoleSet /\ _role_pw_cache[q][s] # 0 /\ _role_pw_cache[q][s] = pg_roles[s]
      BY <1>9, <2>1, RoleTypes DEF FileAgrees
    <3>2. CASE s = role(p)
      <4>1. inits[q].stage \in {"pool", "on"}
        BY <2>1 DEF RolesInv, ByStage
      <4>2. pgpass[s] = _role_pw_cache[q][s]
        BY <1>9, <3>1, <4>1 DEF FileAgrees
      <4>3. pgpass[s] = remembered(p)
        BY <1>1, <1>2, <1>9, <3>2 DEF FileAgrees, remembered
      <4> QED
        BY <1>4a, <3>1, <3>2, <4>2, <4>3
    <3>3. CASE s # role(p)
      BY <1>4a, <3>1, <3>3
    <3> QED
      BY <3>2, <3>3
  <2>2. ASSUME NEW q \in Hosted
        PROVE  (inits'[q].stage = "write") = (inits[q].stage = "write")
    BY <1>1, <1>3
  <2>3. ASSUME NEW q \in Hosted, inits'[q].stage = "write"
        PROVE  role(q)' = role(q) /\ inits'[q].lines = inits[q].lines /\ inits[q].stage = "write"
    BY <1>1, <1>3, <1>4, <2>3
  <2>4. ASSUME NEW q \in Hosted, inits[q].stage = "write"
        PROVE  role(q)' = role(q) /\ inits'[q].stage = "write"
    BY <1>1, <1>3, <1>4, <2>4
  <2> QED
    BY <1>1, <1>9, <2>1, <2>3, <2>4 DEF FileAgrees
<1> QED
  BY <1>1, <1>5, <1>6, <1>7, <1>8, <1>9 DEF RolesInv

(* A statement on a role fails: the role is left as it was.                *)
LEMMA RoleSetupFails == ASSUME RolesInv, NEW p \in Hosted, role_setup_fails(p) PROVE RolesInv'
<1>1. /\ inits[p].stage = "alter" /\ pg_roles' = pg_roles
      /\ to_next(p, "password", "pool") /\ pools' = pools /\ server_up' = server_up /\ generated' = generated
      /\ _role_pw_cache' = _role_pw_cache /\ pgpass' = pgpass
      /\ init_count' = init_count /\ write_errors' = write_errors /\ raced' = raced
      /\ lone_failures' = lone_failures
      /\ \E q \in Hosted \ {p} : inits[q].stage = "alter"
  BY DEF role_setup_fails
<1>2. /\ inits \in [Hosted -> InitRecords] /\ inits[p] \in InitRecords /\ p \in Underway
      /\ role(p) \in RoleSet /\ inits[p].left >= 1
      /\ pools[p] = {}
  BY <1>1, RoleTypes DEF RolesInv, ByStage, Underway
<1>2a. inits[p].at \in 1 .. Len(RoleOrder) /\ Len(RoleOrder) \in Nat
  BY <1>2, RoleOrderFacts DEF InitRecords
<1>3. /\ inits' \in [Hosted -> InitRecords]
      /\ \A q \in Hosted : q # p => inits'[q] = inits[q]
      /\ inits'[p].left = inits[p].left /\ inits'[p].lone = inits[p].lone
      /\ inits[p].at = Len(RoleOrder) => inits'[p].stage = "pool" /\ inits'[p].at = 1
      /\ inits[p].at # Len(RoleOrder) =>
            /\ inits'[p].stage = "password" /\ inits'[p].at = inits[p].at + 1
  BY <1>1, <1>2, NextRole DEF StartStages
<1>4. \A q \in Hosted : q # p => role(q)' = role(q)
  BY <1>3 DEF role
<1>5. DbRolesTypeOK'
  BY <1>1, <1>3 DEF RolesInv, DbRolesTypeOK, InitRecords, StartStages
<1>6. ByStage'
  <2>1. \A q \in Hosted : q # p => remembered(q)' = remembered(q)
    BY <1>1, <1>4 DEF remembered
  <2> QED
    BY <1>1, <1>2, <1>3, <2>1 DEF RolesInv, ByStage
<1>7. LoneGives'
  <2>1. ~inits[p].lone
    BY <1>1, <1>2 DEF RolesInv, LoneGives, Underway
  <2> QED
    BY <1>2, <1>3, <2>1, LoneStep DEF RolesInv
<1>8. LoneStartOpens'
  BY <1>1 DEF RolesInv, LoneStartOpens
<1>9. ASSUME FileAgrees PROVE FileAgrees'
  <2>3. ASSUME NEW q \in Hosted, inits'[q].stage = "write"
        PROVE  role(q)' = role(q) /\ inits'[q].lines = inits[q].lines /\ inits[q].stage = "write"
    BY <1>1, <1>3, <1>4, <2>3
  <2>4. ASSUME NEW q \in Hosted, inits[q].stage = "write"
        PROVE  role(q)' = role(q) /\ inits'[q].stage = "write"
    BY <1>1, <1>3, <1>4, <2>4
  <2> QED
    BY <1>1, <1>9, <2>3, <2>4 DEF FileAgrees
<1> QED
  BY <1>1, <1>5, <1>6, <1>7, <1>8, <1>9 DEF RolesInv

(* A role's pool is opened with the password the process remembers.        *)
LEMMA OpenRolePool == ASSUME RolesInv, NEW p \in Hosted, _open_role_pool(p) PROVE RolesInv'
<1>1. /\ inits[p].stage = "pool" /\ pools' = [pools EXCEPT ![p] = @ \union {role(p)}]
      /\ to_next(p, "pool", "on") /\ Accepted(p) /\ pg_roles' = pg_roles /\ server_up' = server_up /\ generated' = generated
      /\ _role_pw_cache' = _role_pw_cache /\ pgpass' = pgpass
      /\ init_count' = init_count /\ write_errors' = write_errors /\ raced' = raced
      /\ lone_failures' = lone_failures
  BY DEF _open_role_pool
<1>2. /\ inits \in [Hosted -> InitRecords] /\ inits[p] \in InitRecords /\ p \in Underway
      /\ role(p) \in RoleSet /\ inits[p].left >= 1
      /\ pools \in [Hosted -> SUBSET RoleSet]
  BY <1>1, RoleTypes DEF RolesInv, ByStage, Underway
<1>3. /\ inits' \in [Hosted -> InitRecords]
      /\ \A q \in Hosted : q # p => inits'[q] = inits[q]
      /\ inits'[p].left = inits[p].left /\ inits'[p].lone = inits[p].lone
      /\ inits[p].at = Len(RoleOrder) => inits'[p].stage = "on" /\ inits'[p].at = 1
      /\ inits[p].at # Len(RoleOrder) =>
            /\ inits'[p].stage = "pool" /\ inits'[p].at = inits[p].at + 1
  BY <1>1, <1>2, NextRole DEF StartStages
<1>4. \A q \in Hosted : q # p => role(q)' = role(q)
  BY <1>3 DEF role
<1>5. DbRolesTypeOK'
  BY <1>1, <1>2, <1>3 DEF RolesInv, DbRolesTypeOK, InitRecords, StartStages
<1>6. ByStage'
  <2>1. \A q \in Hosted : q # p => remembered(q)' = remembered(q) /\ pools'[q] = pools[q]
    BY <1>1, <1>2, <1>4 DEF remembered
  <2> QED
    BY <1>1, <1>2, <1>3, <2>1 DEF RolesInv, ByStage
<1>7. LoneGives'
  <2>1. ASSUME inits[p].lone, inits'[p].stage \notin {"off", "on"} PROVE PastGiven(p)'
    <3>1. inits'[p].stage = "pool" /\ \A i \in DOMAIN RoleOrder : GivenTo(p, i)
      BY <1>1, <1>2, <1>3, <2>1 DEF RolesInv, LoneGives, PastGiven
    <3> QED
      BY <1>1, <3>1 DEF PastGiven, GivenTo
  <2> QED
    BY <1>2, <1>3, <2>1, LoneStep DEF RolesInv
<1>8. LoneStartOpens'
  BY <1>1 DEF RolesInv, LoneStartOpens
<1>9. ASSUME FileAgrees PROVE FileAgrees'
  <2>1. ASSUME NEW q \in Hosted, NEW s \in pools'[q]
        PROVE  _role_pw_cache[q][s] # 0 /\ _role_pw_cache[q][s] = pg_roles[s]
    <3>1. CASE q = p /\ s = role(p)
      BY <1>1, <3>1 DEF Accepted, remembered
    <3>2. CASE ~(q = p /\ s = role(p))
      <4>1. s \in pools[q]
        BY <1>1, <1>2, <2>1, <3>2
      <4> QED
        BY <1>9, <4>1 DEF FileAgrees
    <3> QED
      BY <3>1, <3>2
  <2>3. ASSUME NEW q \in Hosted, inits'[q].stage = "write"
        PROVE  role(q)' = role(q) /\ inits'[q].lines = inits[q].lines /\ inits[q].stage = "write"
    BY <1>1, <1>3, <1>4, <2>3
  <2>4. ASSUME NEW q \in Hosted, inits[q].stage = "write"
        PROVE  role(q)' = role(q) /\ inits'[q].stage = "write"
    BY <1>1, <1>3, <1>4, <2>4
  <2> QED
    BY <1>1, <1>9, <2>1, <2>3, <2>4 DEF FileAgrees
<1> QED
  BY <1>1, <1>5, <1>6, <1>7, <1>8, <1>9 DEF RolesInv

(* The pool cannot be opened and the process goes on without it.           *)
LEMMA PoolUnavailable == ASSUME RolesInv, NEW p \in Hosted, pool_unavailable(p) PROVE RolesInv'
<1>1. /\ inits[p].stage = "pool" /\ pools' = pools
      /\ to_next(p, "pool", "on") /\ pg_roles' = pg_roles /\ server_up' = server_up /\ generated' = generated
      /\ _role_pw_cache' = _role_pw_cache /\ pgpass' = pgpass
      /\ init_count' = init_count /\ write_errors' = write_errors /\ raced' = raced
      /\ lone_failures' = lone_failures
  BY DEF pool_unavailable
<1>2. /\ inits \in [Hosted -> InitRecords] /\ inits[p] \in InitRecords /\ p \in Underway
      /\ role(p) \in RoleSet /\ inits[p].left >= 1
  BY <1>1, RoleTypes DEF RolesInv, ByStage, Underway
<1>3. /\ inits' \in [Hosted -> InitRecords]
      /\ \A q \in Hosted : q # p => inits'[q] = inits[q]
      /\ inits'[p].left = inits[p].left /\ inits'[p].lone = inits[p].lone
      /\ inits[p].at = Len(RoleOrder) => inits'[p].stage = "on" /\ inits'[p].at = 1
      /\ inits[p].at # Len(RoleOrder) =>
            /\ inits'[p].stage = "pool" /\ inits'[p].at = inits[p].at + 1
  BY <1>1, <1>2, NextRole DEF StartStages
<1>4. \A q \in Hosted : q # p => role(q)' = role(q)
  BY <1>3 DEF role
<1>5. DbRolesTypeOK'
  BY <1>1, <1>3 DEF RolesInv, DbRolesTypeOK, InitRecords, StartStages
<1>6. ByStage'
  <2>1. \A q \in Hosted : q # p => remembered(q)' = remembered(q)
    BY <1>1, <1>4 DEF remembered
  <2> QED
    BY <1>1, <1>2, <1>3, <2>1 DEF RolesInv, ByStage
<1>7. LoneGives'
  <2>1. ASSUME inits[p].lone, inits'[p].stage \notin {"off", "on"} PROVE PastGiven(p)'
    <3>1. inits'[p].stage = "pool" /\ \A i \in DOMAIN RoleOrder : GivenTo(p, i)
      BY <1>1, <1>2, <1>3, <2>1 DEF RolesInv, LoneGives, PastGiven
    <3> QED
      BY <1>1, <3>1 DEF PastGiven, GivenTo
  <2> QED
    BY <1>2, <1>3, <2>1, LoneStep DEF RolesInv
<1>8. LoneStartOpens'
  BY <1>1 DEF RolesInv, LoneStartOpens
<1>9. ASSUME FileAgrees PROVE FileAgrees'
  <2>3. ASSUME NEW q \in Hosted, inits'[q].stage = "write"
        PROVE  role(q)' = role(q) /\ inits'[q].lines = inits[q].lines /\ inits[q].stage = "write"
    BY <1>1, <1>3, <1>4, <2>3
  <2>4. ASSUME NEW q \in Hosted, inits[q].stage = "write"
        PROVE  role(q)' = role(q) /\ inits'[q].stage = "write"
    BY <1>1, <1>3, <1>4, <2>4
  <2> QED
    BY <1>1, <1>9, <2>3, <2>4 DEF FileAgrees
<1> QED
  BY <1>1, <1>5, <1>6, <1>7, <1>8, <1>9 DEF RolesInv

(* A lone start has given the role it is at its password: it cannot fail   *)
(* to open the pool.                                                       *)
LEMMA PoolFatal == ASSUME RolesInv, NEW p \in Hosted, pool_fatal(p) PROVE RolesInv'
<1>1. /\ inits[p].stage = "pool" /\ ended(p) /\ ~Accepted(p)
      /\ lone_failures' = (IF inits[p].lone THEN lone_failures + 1 ELSE lone_failures)
      /\ server_up' = server_up /\ generated' = generated
      /\ pg_roles' = pg_roles /\ pgpass' = pgpass
      /\ init_count' = init_count /\ write_errors' = write_errors /\ raced' = raced
  BY DEF pool_fatal
<1>2. /\ inits \in [Hosted -> InitRecords] /\ pools \in [Hosted -> SUBSET RoleSet]
      /\ _role_pw_cache \in [Hosted -> [RoleSet -> Nat]]
  BY <1>1, RoleTypes
<1>2a. p \in Underway /\ inits[p].at \in DOMAIN RoleOrder
  BY <1>1, <1>2 DEF Underway, InitRecords
<1>8. LoneStartOpens' /\ lone_failures' = lone_failures
  <2>1. ASSUME inits[p].lone PROVE FALSE
    <3>1. GivenTo(p, inits[p].at)
      BY <1>1, <1>2a, <2>1 DEF RolesInv, LoneGives, PastGiven
    <3> QED
      BY <1>1, <3>1 DEF GivenTo, Accepted, remembered, role
  <2> QED
    BY <1>1, <2>1 DEF RolesInv, LoneStartOpens
<1>3. /\ inits' = [inits EXCEPT ![p] = Off]
      /\ _role_pw_cache' = [_role_pw_cache EXCEPT ![p] = NoPasswords]
      /\ pools' = [pools EXCEPT ![p] = {}]
  BY <1>1 DEF ended
<1>4. /\ inits' \in [Hosted -> InitRecords] /\ inits'[p].stage = "off"
      /\ inits'[p].left >= 1 /\ _role_pw_cache' \in [Hosted -> [RoleSet -> Nat]]
      /\ pools' \in [Hosted -> SUBSET RoleSet] /\ pools'[p] = {}
      /\ \A s \in RoleSet : _role_pw_cache'[p][s] = 0
      /\ \A q \in Hosted : q # p => /\ inits'[q] = inits[q] /\ pools'[q] = pools[q]
                                    /\ _role_pw_cache'[q] = _role_pw_cache[q]
  <2>1. _role_pw_cache'[p] = NoPasswords /\ inits'[p] = Off
    BY <1>2, <1>3
  <2> QED
    BY <1>2, <1>3, <2>1, OffIsRecord, RoleOrderFacts DEF NoPasswords
<1>4a. \A q \in Hosted : q # p => role(q)' = role(q)
  BY <1>4 DEF role
<1>5. DbRolesTypeOK'
  BY <1>1, <1>4, <1>8 DEF RolesInv, DbRolesTypeOK, InitRecords, StartStages, LoneStartOpens
<1>6. ByStage'
  <2>1. \A q \in Hosted : q # p => remembered(q)' = remembered(q)
    BY <1>4, <1>4a DEF remembered
  <2> QED
    BY <1>4, <2>1 DEF RolesInv, ByStage
<1>7. LoneGives'
  BY <1>2a, <1>4, LoneStep DEF RolesInv
<1>9. ASSUME FileAgrees PROVE FileAgrees'
  <2>1. ASSUME NEW q \in Hosted, q # p
        PROVE  /\ role(q)' = role(q) /\ inits'[q] = inits[q] /\ pools'[q] = pools[q]
               /\ _role_pw_cache'[q] = _role_pw_cache[q]
    BY <1>4, <1>4a, <2>1
  <2>2. ASSUME NEW q \in Hosted, inits'[q].stage = "write"
        PROVE  /\ inits'[q].lines = pgpass' /\ pgpass'[role(q)'] = 0
               /\ \A s \in Hosted \ {q} : inits'[s].stage # "write"
    <3>1. q # p
      BY <1>4, <2>2
    <3>2. /\ inits[q].lines = pgpass /\ pgpass[role(q)] = 0
          /\ \A s \in Hosted \ {q} : inits[s].stage # "write"
      BY <1>9, <2>1, <2>2, <3>1 DEF FileAgrees
    <3>3. ASSUME NEW s \in Hosted \ {q} PROVE inits'[s].stage # "write"
      BY <1>4, <2>1, <3>2, <3>3
    <3> QED
      BY <1>1, <2>1, <3>1, <3>2, <3>3
  <2>3. ASSUME NEW q \in Hosted, NEW s \in RoleSet, _role_pw_cache'[q][s] # 0
        PROVE  pgpass'[s] = _role_pw_cache'[q][s] \/ (inits'[q].stage = "write" /\ s = role(q)')
    BY <1>1, <1>4, <1>9, <2>1, <2>3 DEF FileAgrees
  <2>4. ASSUME NEW q \in Hosted, NEW s \in pools'[q]
        PROVE  _role_pw_cache'[q][s] # 0 /\ _role_pw_cache'[q][s] = pg_roles'[s]
    BY <1>1, <1>4, <1>9, <2>1, <2>4 DEF FileAgrees
  <2> QED
    BY <2>2, <2>3, <2>4 DEF FileAgrees
<1> QED
  BY <1>1, <1>5, <1>6, <1>7, <1>8, <1>9 DEF RolesInv

(* A process closes its pools.                                             *)
LEMMA CloseDb == ASSUME RolesInv, NEW p \in Hosted, close_db(p) PROVE RolesInv'
<1>1. /\ inits[p].stage = "on" /\ ended(p) /\ lone_failures' = lone_failures
      /\ server_up' = server_up /\ generated' = generated
      /\ pg_roles' = pg_roles /\ pgpass' = pgpass
      /\ init_count' = init_count /\ write_errors' = write_errors /\ raced' = raced
  BY DEF close_db
<1>2. /\ inits \in [Hosted -> InitRecords] /\ pools \in [Hosted -> SUBSET RoleSet]
      /\ _role_pw_cache \in [Hosted -> [RoleSet -> Nat]]
  BY <1>1, RoleTypes
<1>8. LoneStartOpens' /\ lone_failures' = lone_failures
  BY <1>1 DEF RolesInv, LoneStartOpens
<1>3. /\ inits' = [inits EXCEPT ![p] = Off]
      /\ _role_pw_cache' = [_role_pw_cache EXCEPT ![p] = NoPasswords]
      /\ pools' = [pools EXCEPT ![p] = {}]
  BY <1>1 DEF ended
<1>4. /\ inits' \in [Hosted -> InitRecords] /\ inits'[p].stage = "off"
      /\ inits'[p].left >= 1 /\ _role_pw_cache' \in [Hosted -> [RoleSet -> Nat]]
      /\ pools' \in [Hosted -> SUBSET RoleSet] /\ pools'[p] = {}
      /\ \A s \in RoleSet : _role_pw_cache'[p][s] = 0
      /\ \A q \in Hosted : q # p => /\ inits'[q] = inits[q] /\ pools'[q] = pools[q]
                                    /\ _role_pw_cache'[q] = _role_pw_cache[q]
  <2>1. _role_pw_cache'[p] = NoPasswords /\ inits'[p] = Off
    BY <1>2, <1>3
  <2> QED
    BY <1>2, <1>3, <2>1, OffIsRecord, RoleOrderFacts DEF NoPasswords
<1>4a. \A q \in Hosted : q # p => role(q)' = role(q)
  BY <1>4 DEF role
<1>5. DbRolesTypeOK'
  BY <1>1, <1>4, <1>8 DEF RolesInv, DbRolesTypeOK, InitRecords, StartStages, LoneStartOpens
<1>6. ByStage'
  <2>1. \A q \in Hosted : q # p => remembered(q)' = remembered(q)
    BY <1>4, <1>4a DEF remembered
  <2> QED
    BY <1>4, <2>1 DEF RolesInv, ByStage
<1>7. LoneGives'
  <2>1. Underway' = Underway /\ p \notin Underway
    BY <1>1, <1>4 DEF Underway
  <2>2. ASSUME NEW q \in Underway, inits'[q].lone PROVE Underway' = {q} /\ PastGiven(q)'
    <3>1. q # p /\ inits[q].lone /\ q \in Hosted
      BY <1>4, <2>1, <2>2 DEF Underway
    <3>2. Underway = {q} /\ PastGiven(q)
      BY <3>1, <2>2 DEF RolesInv, LoneGives
    <3>3. PastGiven(q)'
      BY <1>1, <1>4, <1>4a, <3>1, <3>2 DEF PastGiven, GivenTo
    <3> QED
      BY <2>1, <3>2, <3>3
  <2> QED
    BY <2>1, <2>2 DEF LoneGives
<1>9. ASSUME FileAgrees PROVE FileAgrees'
  <2>1. ASSUME NEW q \in Hosted, q # p
        PROVE  /\ role(q)' = role(q) /\ inits'[q] = inits[q] /\ pools'[q] = pools[q]
               /\ _role_pw_cache'[q] = _role_pw_cache[q]
    BY <1>4, <1>4a, <2>1
  <2>2. ASSUME NEW q \in Hosted, inits'[q].stage = "write"
        PROVE  /\ inits'[q].lines = pgpass' /\ pgpass'[role(q)'] = 0
               /\ \A s \in Hosted \ {q} : inits'[s].stage # "write"
    <3>1. q # p
      BY <1>4, <2>2
    <3>2. /\ inits[q].lines = pgpass /\ pgpass[role(q)] = 0
          /\ \A s \in Hosted \ {q} : inits[s].stage # "write"
      BY <1>9, <2>1, <2>2, <3>1 DEF FileAgrees
    <3>3. ASSUME NEW s \in Hosted \ {q} PROVE inits'[s].stage # "write"
      BY <1>4, <2>1, <3>2, <3>3
    <3> QED
      BY <1>1, <2>1, <3>1, <3>2, <3>3
  <2>3. ASSUME NEW q \in Hosted, NEW s \in RoleSet, _role_pw_cache'[q][s] # 0
        PROVE  pgpass'[s] = _role_pw_cache'[q][s] \/ (inits'[q].stage = "write" /\ s = role(q)')
    BY <1>1, <1>4, <1>9, <2>1, <2>3 DEF FileAgrees
  <2>4. ASSUME NEW q \in Hosted, NEW s \in pools'[q]
        PROVE  _role_pw_cache'[q][s] # 0 /\ _role_pw_cache'[q][s] = pg_roles'[s]
    BY <1>1, <1>4, <1>9, <2>1, <2>4 DEF FileAgrees
  <2> QED
    BY <2>2, <2>3, <2>4 DEF FileAgrees
<1> QED
  BY <1>1, <1>5, <1>6, <1>7, <1>8, <1>9 DEF RolesInv

(* Passwords agree across the database, ~/.pgpass and the processes that   *)
(* remember them, whatever starts, stops and failed writes came before     *)
(* (_setup_db_roles and _open_role_pool, src/database.py).                 *)
THEOREM DbRolesCorrect == DbRolesSpec => []DbRolesInvariant
<1>1. ASSUME RolesInv, [DbRolesNext]_dbRolesVars PROVE RolesInv'
  <2>1. CASE DbRolesNext
    BY <1>1, <2>1, ServerStarts, InitDb, OpenAdminPool, GetPassword, WritePgpass, WriteFails,
       CreateRole, RoleSetupFails, OpenRolePool, PoolUnavailable, PoolFatal, CloseDb
       DEF DbRolesNext
  <2>2. CASE UNCHANGED dbRolesVars
    <3>1. DbRolesTypeOK'
      BY <1>1, <2>2 DEF dbRolesVars, RolesInv, DbRolesTypeOK
    <3>2. ByStage' /\ LoneGives' /\ LoneStartOpens'
      BY <1>1, <2>2 DEF dbRolesVars, RolesInv, ByStage, LoneGives, LoneStartOpens, Underway,
                        PastGiven, GivenTo, role, remembered
    <3>3. ~raced' /\ write_errors' = 0 => FileAgrees'
      BY <1>1, <2>2 DEF dbRolesVars, RolesInv, FileAgrees, role
    <3> QED
      BY <3>1, <3>2, <3>3 DEF RolesInv
  <2> QED
    BY <1>1, <2>1, <2>2
<1>2. RolesInv => DbRolesInvariant
  <2>1. FileAgrees => \A p \in Hosted : \A r \in pools[p] : _role_pw_cache[p][r] = pg_roles[r]
    BY DEF FileAgrees
  <2> QED
    BY <2>1 DEF RolesInv, DbRolesInvariant, RunningCanConnect
<1> QED
  BY RolesInvInit, <1>1, <1>2, PTL DEF DbRolesSpec

-----------------------------------------------------------------------------
(****************************************************************************)
(* The statements on rights and on row security, for every number of        *)
(* processes that run them. No statement withdraws what another one grants  *)
(* (RightsStep), and none turns row security off: so what a process has     *)
(* run is in place, whoever else is in the middle of the same statements    *)
(* (RowsOn, RightsOn).                                                      *)
(****************************************************************************)

(* The statements on rights: none grants what another withdraws.           *)
Withdrawn == <<"worker", "UPDATE", "threat_rules">>
OnRows == {"tasks", "sessions"}
RoleBlocks ==
    {"w_tasks", "w_sessions", "w", "g_tasks", "g_sessions", "g", "m_tasks", "m", "guardian",
     "r_audit", "r_anchors"}
RightsStep ==
    {x \in [verb : {"grant"}, block : RoleBlocks, rights : SUBSET Right] :
        x.block \notin OnRows /\ Withdrawn \notin x.rights}
    \cup {x \in [verb : {"revoke"}, block : RoleBlocks, rights : SUBSET Right] :
        x.block \notin OnRows /\ x.rights = {Withdrawn}}
RowStep == [verb : {"enable", "drop_policy", "create_policy"}, block : OnRows, table : UserTables]

GrantRoles == {"worker", "gateway", "maintenance", "guardian", "readonly"}
GrantTables == UserTables \cup {"audit_log", "audit_anchors", "threat_rules", "hitl_pending"}

(* A grant is a step on rights, if it grants nothing that is withdrawn.    *)
LEMMA GrantIsStep ==
    ASSUME NEW block \in RoleBlocks, NEW who \in GrantRoles,
           NEW privileges \in SUBSET Everything, NEW tabs \in SUBSET GrantTables,
           who = "worker" /\ "UPDATE" \in privileges => "threat_rules" \notin tabs
    PROVE  grant(block, who, privileges, tabs) \in RightsStep
<1>1. {who} \X privileges \X tabs \subseteq Right
  BY DEF Right, GrantRoles, GrantTables
<1>2. Withdrawn \notin {who} \X privileges \X tabs
  BY DEF Withdrawn
<1>3. grant(block, who, privileges, tabs) \in [verb : {"grant"}, block : RoleBlocks, rights : SUBSET Right]
  BY <1>1 DEF grant
<1>4. grant(block, who, privileges, tabs).block \notin OnRows
      /\ Withdrawn \notin grant(block, who, privileges, tabs).rights
  BY <1>2 DEF grant, RoleBlocks, OnRows
<1> QED
  BY <1>3, <1>4 DEF RightsStep

(* The sets of privileges that the statements grant.                       *)
LEMMA PrivilegeSets ==
    /\ {"SELECT"} \in SUBSET Everything /\ {"INSERT"} \in SUBSET Everything
    /\ {"DELETE"} \in SUBSET Everything /\ ReadWrite \in SUBSET Everything
    /\ {"SELECT", "INSERT"} \in SUBSET Everything /\ {"SELECT", "UPDATE"} \in SUBSET Everything
    /\ \A t \in GrantTables : {t} \in SUBSET GrantTables
    /\ "tasks" \in GrantTables /\ "sessions" \in GrantTables /\ "audit_log" \in GrantTables
    /\ "audit_anchors" \in GrantTables /\ "threat_rules" \in GrantTables /\ "hitl_pending" \in GrantTables
BY DEF Everything, ReadWrite, GrantTables, UserTables

(* A list of seven statements that are steps is a sequence of steps.       *)
LEMMA SequenceOf7 ==
    ASSUME NEW A, NEW a \in A, NEW b \in A, NEW c \in A, NEW d \in A, NEW e \in A, NEW f \in A, NEW g \in A
    PROVE  <<a, b, c, d, e, f, g>> \in Seq(A)
OBVIOUS

(* The worker's statements are steps on rights.                            *)
LEMMA WorkerSteps == WorkerGrants \in Seq(RightsStep)
<1>1. grant("w_tasks", "worker", {"SELECT"}, {"tasks"}) \in RightsStep
  BY PrivilegeSets, GrantIsStep DEF GrantRoles, RoleBlocks
<1>2. grant("w_sessions", "worker", {"SELECT"}, {"sessions"}) \in RightsStep
  BY PrivilegeSets, GrantIsStep DEF GrantRoles, RoleBlocks
<1>3. grant("w", "worker", {"INSERT"}, {"audit_log"}) \in RightsStep
  BY PrivilegeSets, GrantIsStep DEF GrantRoles, RoleBlocks
<1>4. grant("w", "worker", ReadWrite, {"tasks"}) \in RightsStep
  BY PrivilegeSets, GrantIsStep DEF GrantRoles, RoleBlocks
<1>5. grant("w", "worker", {"SELECT", "INSERT"}, {"threat_rules"}) \in RightsStep
  BY PrivilegeSets, GrantIsStep DEF GrantRoles, RoleBlocks
<1>6. revoke("w", "worker", {"UPDATE"}, {"threat_rules"}) \in RightsStep
  <2>1. PICK product : product = {"worker"} \X {"UPDATE"} \X {"threat_rules"}
    OBVIOUS
  <2>2. product = {Withdrawn} /\ product \in SUBSET Right
    BY <2>1 DEF Withdrawn, Right, Everything, ReadWrite
  <2>3. revoke("w", "worker", {"UPDATE"}, {"threat_rules"}) = [verb |-> "revoke", block |-> "w", rights |-> product]
    BY <2>1 DEF revoke
  <2>4. [verb |-> "revoke", block |-> "w", rights |-> product] \in
            [verb : {"revoke"}, block : RoleBlocks, rights : SUBSET Right]
    BY <2>2 DEF RoleBlocks
  <2>5. "w" \notin OnRows
    BY DEF OnRows
  <2> QED
    BY <2>2, <2>3, <2>4, <2>5 DEF RightsStep
<1>7. grant("w", "worker", {"SELECT", "INSERT"}, {"hitl_pending"}) \in RightsStep
  BY PrivilegeSets, GrantIsStep DEF GrantRoles, RoleBlocks
<1> QED
  BY <1>1, <1>2, <1>3, <1>4, <1>5, <1>6, <1>7, SequenceOf7 DEF WorkerGrants

(* A list of five statements that are steps is a sequence of steps.        *)
LEMMA SequenceOf5 ==
    ASSUME NEW A, NEW a \in A, NEW b \in A, NEW c \in A, NEW d \in A, NEW e \in A
    PROVE  <<a, b, c, d, e>> \in Seq(A)
OBVIOUS

(* The gateway's statements are steps on rights.                           *)
LEMMA GatewaySteps == GatewayGrants \in Seq(RightsStep)
<1>1. grant("g_tasks", "gateway", ReadWrite, {"tasks"}) \in RightsStep
  BY PrivilegeSets, GrantIsStep DEF GrantRoles, RoleBlocks
<1>2. grant("g_sessions", "gateway", ReadWrite, {"sessions"}) \in RightsStep
  BY PrivilegeSets, GrantIsStep DEF GrantRoles, RoleBlocks
<1>3. grant("g", "gateway", {"DELETE"}, {"sessions"}) \in RightsStep
  BY PrivilegeSets, GrantIsStep DEF GrantRoles, RoleBlocks
<1>4. grant("g", "gateway", {"SELECT", "UPDATE"}, {"threat_rules"}) \in RightsStep
  BY PrivilegeSets, GrantIsStep DEF GrantRoles, RoleBlocks
<1>5. grant("g", "gateway", ReadWrite, {"hitl_pending"}) \in RightsStep
  BY PrivilegeSets, GrantIsStep DEF GrantRoles, RoleBlocks
<1> QED
  BY <1>1, <1>2, <1>3, <1>4, <1>5, SequenceOf5 DEF GatewayGrants

(* A list of three statements that are steps is a sequence of steps.       *)
LEMMA SequenceOf3 ==
    ASSUME NEW A, NEW a \in A, NEW b \in A, NEW c \in A
    PROVE  <<a, b, c>> \in Seq(A)
OBVIOUS

(* Those of the maintenance role are.                                      *)
LEMMA MaintenanceSteps == MaintenanceGrants \in Seq(RightsStep)
<1>1. grant("m_tasks", "maintenance", {"DELETE"}, {"tasks"}) \in RightsStep
  BY PrivilegeSets, GrantIsStep DEF GrantRoles, RoleBlocks
<1>2. grant("m", "maintenance", {"INSERT"}, {"audit_anchors"}) \in RightsStep
  BY PrivilegeSets, GrantIsStep DEF GrantRoles, RoleBlocks
<1>3. grant("m", "maintenance", {"DELETE"}, {"audit_log"}) \in RightsStep
  BY PrivilegeSets, GrantIsStep DEF GrantRoles, RoleBlocks
<1> QED
  BY <1>1, <1>2, <1>3, SequenceOf3 DEF MaintenanceGrants

(* And those of the two roles that only read.                              *)
LEMMA OtherSteps == OtherGrants \in Seq(RightsStep)
<1>1. grant("guardian", "guardian", {"SELECT"}, {"threat_rules"}) \in RightsStep
  BY PrivilegeSets, GrantIsStep DEF GrantRoles, RoleBlocks
<1>2. grant("r_audit", "readonly", {"SELECT"}, {"audit_log"}) \in RightsStep
  BY PrivilegeSets, GrantIsStep DEF GrantRoles, RoleBlocks
<1>3. grant("r_anchors", "readonly", {"SELECT"}, {"audit_anchors"}) \in RightsStep
  BY PrivilegeSets, GrantIsStep DEF GrantRoles, RoleBlocks
<1> QED
  BY <1>1, <1>2, <1>3, SequenceOf3 DEF OtherGrants

RightsPart == WorkerGrants \o GatewayGrants \o MaintenanceGrants \o OtherGrants

(* The statements on row security follow, three for each table.            *)
LEMMA RowSteps ==
    /\ _setup_rls \in Seq(RowStep) /\ Len(_setup_rls) = 6
    /\ _setup_rls[1] = on_table("enable", "tasks", "tasks")
    /\ _setup_rls[4] = on_table("enable", "sessions", "sessions")
<1> DEFINE a == on_table("enable", "tasks", "tasks")
           b == on_table("drop_policy", "tasks", "tasks")
           c == on_table("create_policy", "tasks", "tasks")
           d == on_table("enable", "sessions", "sessions")
           e == on_table("drop_policy", "sessions", "sessions")
           f == on_table("create_policy", "sessions", "sessions")
<1>1. /\ a \in RowStep /\ b \in RowStep /\ c \in RowStep
      /\ d \in RowStep /\ e \in RowStep /\ f \in RowStep
  BY DEF on_table, RowStep, OnRows, UserTables
<1>2. _setup_rls = <<a, b, c>> \o <<d, e, f>>
  BY DEF _setup_rls, RowSecurity
<1> HIDE DEF a, b, c, d, e, f
<1>3. <<a, b, c>> \in Seq(RowStep) /\ <<d, e, f>> \in Seq(RowStep)
  BY <1>1
<1>4. _setup_rls \in Seq(RowStep)
  BY <1>2, <1>3, ConcatProperties
<1>5. Len(<<a, b, c>> \o <<d, e, f>>) = 6 /\ (<<a, b, c>> \o <<d, e, f>>)[1] = a
      /\ (<<a, b, c>> \o <<d, e, f>>)[4] = d
  OBVIOUS
<1> QED
  BY <1>2, <1>4, <1>5 DEF a, d

(* Which statements are on rights, which on row security, and that each    *)
(* table has its three in their order.                                     *)
LEMMA StatementFacts ==
    /\ Len(RightsPart) \in Nat /\ GrantsDone = Len(RightsPart) + 7
    /\ Len(_setup_db_roles) = Len(RightsPart) + 6
    /\ DOMAIN _setup_db_roles = 1 .. Len(RightsPart) + 6
    /\ \A i \in 1 .. Len(RightsPart) : _setup_db_roles[i] \in RightsStep
    /\ \A i \in Len(RightsPart) + 1 .. Len(RightsPart) + 6 : _setup_db_roles[i] \in RowStep
    /\ _setup_db_roles[Len(RightsPart) + 1] = on_table("enable", "tasks", "tasks")
    /\ _setup_db_roles[Len(RightsPart) + 4] = on_table("enable", "sessions", "sessions")
<1>1. RightsPart \in Seq(RightsStep)
  BY WorkerSteps, GatewaySteps, MaintenanceSteps, OtherSteps, ConcatProperties DEF RightsPart
<1>2. _setup_db_roles = RightsPart \o _setup_rls
  BY DEF _setup_db_roles, RightsPart
<1> DEFINE any == RightsStep \cup RowStep
<1>3. RightsPart \in Seq(any) /\ _setup_rls \in Seq(any)
  BY <1>1, RowSteps
<1> HIDE DEF any
<1>4. /\ Len(_setup_db_roles) = Len(RightsPart) + Len(_setup_rls)
      /\ _setup_db_roles \in Seq(any)
      /\ \A i \in 1 .. Len(RightsPart) + Len(_setup_rls) :
            _setup_db_roles[i] = IF i <= Len(RightsPart) THEN RightsPart[i]
                                                        ELSE _setup_rls[i - Len(RightsPart)]
  BY <1>2, <1>3, ConcatProperties
<1>5. Len(RightsPart) \in Nat /\ \A i \in 1 .. Len(RightsPart) : RightsPart[i] \in RightsStep
  BY <1>1
<1>6. Len(_setup_rls) = 6 /\ \A i \in 1 .. 6 : _setup_rls[i] \in RowStep
  <2>1. _setup_rls \in Seq(RowStep) /\ Len(_setup_rls) = 6
    BY RowSteps
  <2> QED
    BY <2>1, ElementOfSeq
<1>7. /\ GrantsDone = Len(RightsPart) + 7
      /\ DOMAIN _setup_db_roles = 1 .. Len(RightsPart) + 6
  BY <1>4, <1>5, <1>6 DEF GrantsDone
<1>8. \A i \in 1 .. Len(RightsPart) : _setup_db_roles[i] \in RightsStep
  BY <1>4, <1>5, <1>6
<1>9. ASSUME NEW i \in Len(RightsPart) + 1 .. Len(RightsPart) + 6
      PROVE  _setup_db_roles[i] = _setup_rls[i - Len(RightsPart)] /\ i - Len(RightsPart) \in 1 .. 6
  <2>1. /\ i \in 1 .. Len(RightsPart) + Len(_setup_rls) /\ ~(i <= Len(RightsPart))
        /\ i - Len(RightsPart) \in 1 .. 6
    BY <1>5, <1>6
  <2> QED
    BY <1>4, <2>1
<1>10. /\ _setup_db_roles[Len(RightsPart) + 1] = _setup_rls[1]
       /\ _setup_db_roles[Len(RightsPart) + 4] = _setup_rls[4]
  <2>1. /\ Len(RightsPart) + 1 \in Len(RightsPart) + 1 .. Len(RightsPart) + 6
        /\ Len(RightsPart) + 4 \in Len(RightsPart) + 1 .. Len(RightsPart) + 6
        /\ Len(RightsPart) + 1 - Len(RightsPart) = 1 /\ Len(RightsPart) + 4 - Len(RightsPart) = 4
    BY <1>5
  <2> QED
    BY <1>9, <2>1
<1> QED
  BY <1>4, <1>5, <1>6, <1>7, <1>8, <1>9, <1>10, RowSteps

Granting == Len(RightsPart)         \* the last statement on rights

(* The effect of a statement on rights is in place.                        *)
InPlace(i) ==
    /\ _setup_db_roles[i].verb = "grant" => _setup_db_roles[i].rights \subseteq rights
    /\ _setup_db_roles[i].verb = "revoke" => _setup_db_roles[i].rights \cap rights = {}

(* Past a statement, its effect is in place: that of one on rights if none *)
(* of the process's statements failed.                                     *)
RowsOn ==
    \A p \in Starters :
        /\ setups[p].at > Granting + 1 => rls["tasks"].enabled
        /\ setups[p].at > Granting + 4 => rls["sessions"].enabled

RightsOn ==
    \A p \in Starters : ~setups[p].failed =>
        \A i \in 1 .. Granting : setups[p].at > i => InPlace(i)

GrantsInv == DbGrantsTypeOK /\ RowsOn /\ RightsOn

TableState == [enabled : BOOLEAN, policy : BOOLEAN]
SetUp == [at : 0 .. GrantsDone, failed : BOOLEAN]

(* The types in a form that the steps use.                                 *)
LEMMA GrantTypes ==
    ASSUME DbGrantsTypeOK
    PROVE  /\ rights \subseteq Right /\ rls \in [UserTables -> TableState]
           /\ setups \in [Starters -> SetUp] /\ aborts \in 0 .. MaxAborts
           /\ Granting \in Nat /\ GrantsDone = Granting + 7
           /\ \A p \in Starters : setups[p].at \in 0 .. GrantsDone
BY StatementFacts DEF DbGrantsTypeOK, TableState, SetUp, Granting

(* The invariant holds at the start.                                       *)
LEMMA GrantsInvInit == DbGrantsInit => GrantsInv
<1> SUFFICES ASSUME DbGrantsInit PROVE GrantsInv
  OBVIOUS
<1>1. Granting \in Nat /\ GrantsDone = Granting + 7 /\ MaxAborts \in Nat /\ OldRights \subseteq Right
  BY StatementFacts, DbGrantsAssumption DEF DbGrantsAssumption, Granting
<1>2. \A p \in Starters : setups[p].at = 0
  BY DEF DbGrantsInit
<1>3. DbGrantsTypeOK
  <2>1. /\ rls \in [UserTables -> TableState] /\ setups \in [Starters -> SetUp]
    BY <1>1 DEF DbGrantsInit, TableState, SetUp
  <2>2. rights \subseteq Right /\ aborts \in 0 .. MaxAborts
    BY <1>1 DEF DbGrantsInit
  <2> QED
    BY <2>1, <2>2 DEF DbGrantsTypeOK, TableState, SetUp
<1>4. \A p \in Starters : /\ ~(setups[p].at > Granting + 1) /\ ~(setups[p].at > Granting + 4)
                          /\ \A i \in 1 .. Granting : ~(setups[p].at > i)
  <2>1. Granting \in Nat
    BY <1>1
  <2>2. ~(0 > Granting + 1) /\ ~(0 > Granting + 4) /\ \A i \in 1 .. Granting : ~(0 > i)
    BY <2>1
  <2> QED
    BY <1>2, <2>2
<1>5. RowsOn /\ RightsOn
  BY <1>4 DEF RowsOn, RightsOn
<1> QED
  BY <1>3, <1>5 DEF GrantsInv

(* What a statement on rights does, undoes no other one.                   *)
LEMMA StatementKinds ==
    /\ \A i \in 1 .. Granting :
          \/ /\ _setup_db_roles[i].verb = "grant" /\ _setup_db_roles[i].rights \subseteq Right
             /\ Withdrawn \notin _setup_db_roles[i].rights
          \/ _setup_db_roles[i].verb = "revoke" /\ _setup_db_roles[i].rights = {Withdrawn}
    /\ \A i \in 1 .. Granting : _setup_db_roles[i].block \in RoleBlocks
    /\ \A i \in Granting + 1 .. Granting + 6 :
          /\ _setup_db_roles[i].verb \in {"enable", "drop_policy", "create_policy"}
          /\ _setup_db_roles[i].table \in UserTables
    /\ _setup_db_roles[Granting + 1].block = "tasks"
    /\ _setup_db_roles[Granting + 1].verb = "enable" /\ _setup_db_roles[Granting + 1].table = "tasks"
    /\ _setup_db_roles[Granting + 4].verb = "enable" /\ _setup_db_roles[Granting + 4].table = "sessions"
<1>1. ASSUME NEW i \in 1 .. Granting
      PROVE  /\ \/ /\ _setup_db_roles[i].verb = "grant" /\ _setup_db_roles[i].rights \subseteq Right
                   /\ Withdrawn \notin _setup_db_roles[i].rights
                \/ _setup_db_roles[i].verb = "revoke" /\ _setup_db_roles[i].rights = {Withdrawn}
             /\ _setup_db_roles[i].block \in RoleBlocks
  <2>1. PICK x \in RightsStep : x = _setup_db_roles[i]
    BY StatementFacts DEF Granting
  <2> QED
    BY <2>1 DEF RightsStep
<1>2. ASSUME NEW i \in Granting + 1 .. Granting + 6
      PROVE  /\ _setup_db_roles[i].verb \in {"enable", "drop_policy", "create_policy"}
             /\ _setup_db_roles[i].table \in UserTables
  <2>1. _setup_db_roles[i] \in RowStep
    BY StatementFacts DEF Granting
  <2> QED
    BY <2>1 DEF RowStep
<1>3. /\ _setup_db_roles[Granting + 1] = on_table("enable", "tasks", "tasks")
      /\ _setup_db_roles[Granting + 4] = on_table("enable", "sessions", "sessions")
  BY StatementFacts DEF Granting
<1> QED
  BY <1>1, <1>2, <1>3 DEF on_table

(* A process starts with the first statement.                              *)
LEMMA SetupStarts == ASSUME GrantsInv, NEW p \in Starters, setup_starts(p) PROVE GrantsInv'
<1>1. /\ setups[p].at = 0 /\ setups' = [setups EXCEPT ![p] = [setups[p] EXCEPT !.at = 1]]
      /\ rights' = rights /\ rls' = rls /\ aborts' = aborts
  BY DEF setup_starts
<1>2. /\ setups \in [Starters -> SetUp] /\ Granting \in Nat /\ GrantsDone = Granting + 7
      /\ \A q \in Starters : setups[q].at \in 0 .. GrantsDone
  BY GrantTypes DEF GrantsInv
<1>3. /\ setups' \in [Starters -> SetUp] /\ setups'[p].at = 1
      /\ \A q \in Starters : q # p => setups'[q] = setups[q]
  <2>1. [setups[p] EXCEPT !.at = 1] \in SetUp
    BY <1>2 DEF SetUp
  <2> QED
    BY <1>1, <1>2, <2>1 DEF SetUp
<1>4. DbGrantsTypeOK'
  BY <1>1, <1>3 DEF GrantsInv, DbGrantsTypeOK, SetUp
<1>5. RowsOn'
  BY <1>1, <1>2, <1>3 DEF GrantsInv, RowsOn
<1>6. RightsOn'
  BY <1>1, <1>2, <1>3 DEF GrantsInv, RightsOn, InPlace
<1> QED
  BY <1>4, <1>5, <1>6 DEF GrantsInv

(* A statement on rights is run.                                           *)
LEMMA GrantOrRevoke == ASSUME GrantsInv, NEW p \in Starters, grant_or_revoke(p) PROVE GrantsInv'
<1>1. PICK k : k = setups[p].at
  OBVIOUS
<1>2. /\ k \in 1 .. GrantsDone - 1 /\ _setup_db_roles[k].verb \in {"grant", "revoke"}
      /\ rights' = IF _setup_db_roles[k].verb = "grant" THEN rights \cup _setup_db_roles[k].rights
                                                        ELSE rights \ _setup_db_roles[k].rights
      /\ setups' = [setups EXCEPT ![p] = [setups[p] EXCEPT !.at = k + 1]]
      /\ rls' = rls /\ aborts' = aborts
  BY <1>1 DEF grant_or_revoke, OnRights, SettingUp, statement
<1>3. /\ setups \in [Starters -> SetUp] /\ Granting \in Nat /\ GrantsDone = Granting + 7
      /\ \A q \in Starters : setups[q].at \in 0 .. GrantsDone
      /\ rights \subseteq Right
  BY GrantTypes DEF GrantsInv
<1>4. k \in 1 .. Granting
  <2>1. k \in 1 .. Granting \/ k \in Granting + 1 .. Granting + 6
    BY <1>2, <1>3
  <2> QED
    BY <1>2, <2>1, StatementKinds
<1>5. /\ setups' \in [Starters -> SetUp] /\ setups'[p].at = k + 1
      /\ setups'[p].failed = setups[p].failed
      /\ \A q \in Starters : q # p => setups'[q] = setups[q]
  <2>1. k + 1 \in 0 .. GrantsDone /\ setups[p] \in SetUp
    BY <1>2, <1>3
  <2>2. [setups[p] EXCEPT !.at = k + 1] \in SetUp
    BY <2>1 DEF SetUp
  <2> QED
    BY <1>2, <1>3, <2>1, <2>2 DEF SetUp
<1>6. rights' \subseteq Right
  BY <1>2, <1>3, <1>4, StatementKinds
<1>7. InPlace(k)'
  BY <1>2 DEF InPlace
<1>8. ASSUME NEW i \in 1 .. Granting, InPlace(i) PROVE InPlace(i)'
  <2>1. CASE _setup_db_roles[k].verb = "grant"
    <3>1. rights' = rights \cup _setup_db_roles[k].rights /\ Withdrawn \notin _setup_db_roles[k].rights
      BY <1>2, <1>4, <2>1, StatementKinds
    <3> QED
      BY <1>8, <3>1, StatementKinds DEF InPlace
  <2>2. CASE _setup_db_roles[k].verb = "revoke"
    <3>1. rights' = rights \ {Withdrawn}
      BY <1>2, <1>4, <2>2, StatementKinds
    <3> QED
      BY <1>8, <3>1, StatementKinds DEF InPlace
  <2> QED
    BY <1>2, <2>1, <2>2
<1>9. DbGrantsTypeOK'
  BY <1>2, <1>5, <1>6 DEF GrantsInv, DbGrantsTypeOK, SetUp
<1>10. RowsOn'
  <2>1. \A q \in Starters :
           /\ setups'[q].at > Granting + 1 => setups[q].at > Granting + 1
           /\ setups'[q].at > Granting + 4 => setups[q].at > Granting + 4
    BY <1>3, <1>4, <1>5
  <2> QED
    BY <1>2, <2>1 DEF GrantsInv, RowsOn
<1>11. RightsOn'
  <2> SUFFICES ASSUME NEW q \in Starters, ~setups'[q].failed, NEW i \in 1 .. Granting,
                      setups'[q].at > i
               PROVE  InPlace(i)'
    BY DEF RightsOn
  <2>1. CASE q = p /\ i = k
    BY <1>7, <2>1
  <2>2. CASE ~(q = p /\ i = k)
    <3>1. ~setups[q].failed
      BY <1>5
    <3>2. setups[q].at > i
      BY <1>1, <1>3, <1>4, <1>5, <2>2
    <3> QED
      BY <1>8, <3>1, <3>2 DEF GrantsInv, RightsOn
  <2> QED
    BY <2>1, <2>2
<1> QED
  BY <1>9, <1>10, <1>11 DEF GrantsInv

(* A statement on row security is run.                                     *)
LEMMA SecureRows == ASSUME GrantsInv, NEW p \in Starters, secure_rows(p) PROVE GrantsInv'
<1>1. PICK k : k = setups[p].at
  OBVIOUS
<1>2. PICK x : x = _setup_db_roles[k]
  OBVIOUS
<1>3. /\ k \in 1 .. GrantsDone - 1 /\ ~(x.verb \in {"grant", "revoke"})
      /\ rls' = [rls EXCEPT ![x.table] =
                    CASE x.verb = "enable" -> [rls[x.table] EXCEPT !.enabled = TRUE]
                      [] x.verb = "drop_policy" -> [rls[x.table] EXCEPT !.policy = FALSE]
                      [] x.verb = "create_policy" -> [rls[x.table] EXCEPT !.policy = TRUE]]
      /\ setups' = [setups EXCEPT ![p] = [setups[p] EXCEPT !.at = k + 1]]
      /\ rights' = rights /\ aborts' = aborts
  BY <1>1, <1>2 DEF secure_rows, OnRights, SettingUp, statement
<1>4. /\ setups \in [Starters -> SetUp] /\ Granting \in Nat /\ GrantsDone = Granting + 7
      /\ \A q \in Starters : setups[q].at \in 0 .. GrantsDone
      /\ rls \in [UserTables -> TableState]
  BY GrantTypes DEF GrantsInv
<1>5. k \in Granting + 1 .. Granting + 6
  <2>1. k \in 1 .. Granting \/ k \in Granting + 1 .. Granting + 6
    BY <1>3, <1>4
  <2> QED
    BY <1>2, <1>3, <2>1, StatementKinds
<1>6. x.verb \in {"enable", "drop_policy", "create_policy"} /\ x.table \in UserTables
  BY <1>2, <1>5, StatementKinds
<1>7. /\ setups' \in [Starters -> SetUp] /\ setups'[p].at = k + 1
      /\ setups'[p].failed = setups[p].failed
      /\ \A q \in Starters : q # p => setups'[q] = setups[q]
  <2>1. k + 1 \in 0 .. GrantsDone /\ setups[p] \in SetUp
    BY <1>3, <1>4
  <2>2. [setups[p] EXCEPT !.at = k + 1] \in SetUp
    BY <2>1 DEF SetUp
  <2> QED
    BY <1>3, <1>4, <2>1, <2>2 DEF SetUp
<1>8. PICK r \in TableState :
         /\ rls' = [rls EXCEPT ![x.table] = r]
         /\ rls[x.table].enabled => r.enabled
         /\ x.verb = "enable" => r.enabled
  <2>1. rls[x.table] \in TableState
    BY <1>4, <1>6
  <2>2. CASE x.verb = "enable"
    <3> DEFINE r == [rls[x.table] EXCEPT !.enabled = TRUE]
    <3>1. r \in TableState /\ r.enabled
      BY <2>1 DEF TableState
    <3>2. rls' = [rls EXCEPT ![x.table] = r]
      BY <1>3, <2>2
    <3> HIDE DEF r
    <3> QED
      BY <3>1, <3>2
  <2>3. CASE x.verb = "drop_policy"
    <3> DEFINE r == [rls[x.table] EXCEPT !.policy = FALSE]
    <3>1. r \in TableState /\ r.enabled = rls[x.table].enabled
      BY <2>1 DEF TableState
    <3>2. rls' = [rls EXCEPT ![x.table] = r]
      BY <1>3, <2>3
    <3> HIDE DEF r
    <3> QED
      BY <3>1, <3>2, <2>3
  <2>4. CASE x.verb = "create_policy"
    <3> DEFINE r == [rls[x.table] EXCEPT !.policy = TRUE]
    <3>1. r \in TableState /\ r.enabled = rls[x.table].enabled
      BY <2>1 DEF TableState
    <3>2. rls' = [rls EXCEPT ![x.table] = r]
      BY <1>3, <2>4
    <3> HIDE DEF r
    <3> QED
      BY <3>1, <3>2, <2>4
  <2> QED
    BY <1>6, <2>2, <2>3, <2>4
<1>9. /\ rls' \in [UserTables -> TableState] /\ rls'[x.table] = r
      /\ \A t \in UserTables : t # x.table => rls'[t] = rls[t]
  BY <1>4, <1>6, <1>8
<1>10. \A t \in UserTables : rls[t].enabled => rls'[t].enabled
  BY <1>8, <1>9
<1>11. DbGrantsTypeOK'
  BY <1>3, <1>7, <1>9 DEF GrantsInv, DbGrantsTypeOK, SetUp, TableState
<1>12. RowsOn'
  <2> SUFFICES ASSUME NEW q \in Starters
               PROVE  /\ setups'[q].at > Granting + 1 => rls'["tasks"].enabled
                      /\ setups'[q].at > Granting + 4 => rls'["sessions"].enabled
    BY DEF RowsOn
  <2>1. CASE q # p
    BY <1>7, <1>10, <2>1 DEF GrantsInv, RowsOn, UserTables
  <2>2. CASE q = p
    <3>1. k = Granting + 1 => rls'["tasks"].enabled
      BY <1>2, <1>8, <1>9, StatementKinds
    <3>2. k = Granting + 4 => rls'["sessions"].enabled
      BY <1>2, <1>8, <1>9, StatementKinds
    <3>3. k > Granting + 1 => rls'["tasks"].enabled
      BY <1>1, <1>10 DEF GrantsInv, RowsOn, UserTables
    <3>4. k > Granting + 4 => rls'["sessions"].enabled
      BY <1>1, <1>10 DEF GrantsInv, RowsOn, UserTables
    <3>5. setups'[q].at > Granting + 1 => k > Granting + 1 \/ k = Granting + 1
      BY <1>4, <1>5, <1>7, <2>2
    <3>6. setups'[q].at > Granting + 4 => k > Granting + 4 \/ k = Granting + 4
      BY <1>4, <1>5, <1>7, <2>2
    <3> QED
      BY <3>1, <3>2, <3>3, <3>4, <3>5, <3>6
  <2> QED
    BY <2>1, <2>2
<1>13. RightsOn'
  <2> SUFFICES ASSUME NEW q \in Starters, ~setups'[q].failed, NEW i \in 1 .. Granting,
                      setups'[q].at > i
               PROVE  InPlace(i)'
    BY DEF RightsOn
  <2>1. ~setups[q].failed
    BY <1>7
  <2>2. setups[q].at > i
    BY <1>1, <1>4, <1>5, <1>7
  <2>3. InPlace(i)
    BY <2>1, <2>2 DEF GrantsInv, RightsOn
  <2> QED
    BY <1>3, <2>3 DEF InPlace
<1> QED
  BY <1>11, <1>12, <1>13 DEF GrantsInv

(* A statement fails: the block it is in is rolled back and left.          *)
LEMMA StatementFails == ASSUME GrantsInv, NEW p \in Starters, statement_fails(p) PROVE GrantsInv'
<1>1. PICK k : k = setups[p].at
  OBVIOUS
<1> DEFINE after == {i \in k + 1 .. GrantsDone - 1 :
                        _setup_db_roles[i].block # _setup_db_roles[k].block} \cup {GrantsDone}
           next == CHOOSE i \in after : \A j \in after : i <= j
<1>2. /\ k \in 1 .. GrantsDone - 1 /\ _setup_db_roles[k].verb \in {"grant", "revoke"}
      /\ setups' = [setups EXCEPT ![p] = [at |-> next, failed |-> TRUE]]
      /\ rights' = rights /\ rls' = rls /\ aborts' = aborts
  BY <1>1 DEF statement_fails, Collides, OnRights, SettingUp, statement
<1>3. /\ setups \in [Starters -> SetUp] /\ Granting \in Nat /\ GrantsDone = Granting + 7
  BY GrantTypes DEF GrantsInv
<1>4. k \in 1 .. Granting
  <2>1. k \in 1 .. Granting \/ k \in Granting + 1 .. Granting + 6
    BY <1>2, <1>3
  <2> QED
    BY <1>2, <2>1, StatementKinds
<1>5. Granting + 1 \in after
  <2>1. _setup_db_roles[Granting + 1].block # _setup_db_roles[k].block
    BY <1>4, StatementKinds DEF RoleBlocks
  <2>2. Granting + 1 \in k + 1 .. GrantsDone - 1
    BY <1>3, <1>4
  <2> QED
    BY <2>1, <2>2
<1>6. after \subseteq Nat
  BY <1>3, <1>4
<1>7. next \in after /\ \A j \in after : next <= j
  <2>1. \E i \in after : \A j \in after : i <= j
    <3> HIDE DEF after
    <3> QED
      BY <1>5, <1>6, LeastOf
  <2> HIDE DEF after
  <2> QED
    BY <2>1
<1>8. next \in 0 .. GrantsDone /\ next <= Granting + 1
  <2>1. next <= Granting + 1 /\ next \in Nat
    <3> HIDE DEF after, next
    <3> QED
      BY <1>5, <1>6, <1>7
  <2> QED
    BY <1>3, <2>1
<1> HIDE DEF after, next
<1>9. /\ setups' \in [Starters -> SetUp] /\ setups'[p].at = next /\ setups'[p].failed
      /\ \A q \in Starters : q # p => setups'[q] = setups[q]
  BY <1>2, <1>3, <1>8 DEF SetUp
<1>10. DbGrantsTypeOK'
  BY <1>2, <1>9 DEF GrantsInv, DbGrantsTypeOK, SetUp
<1>11. RowsOn'
  <2>1. ~(setups'[p].at > Granting + 1) /\ ~(setups'[p].at > Granting + 4)
    BY <1>3, <1>8, <1>9
  <2> QED
    BY <1>2, <1>9, <2>1 DEF GrantsInv, RowsOn
<1>12. RightsOn'
  BY <1>2, <1>9 DEF GrantsInv, RightsOn, InPlace
<1> QED
  BY <1>10, <1>11, <1>12 DEF GrantsInv

(* A process ends.                                                         *)
LEMMA SetupProcessEnds == ASSUME GrantsInv, NEW p \in Starters, process_ends(p) PROVE GrantsInv'
<1>1. /\ setups' = [setups EXCEPT ![p] = [at |-> 0, failed |-> FALSE]] /\ aborts < MaxAborts
      /\ aborts' = aborts + 1 /\ rights' = rights /\ rls' = rls
  BY DEF process_ends
<1>2. /\ setups \in [Starters -> SetUp] /\ Granting \in Nat /\ GrantsDone = Granting + 7
      /\ aborts \in 0 .. MaxAborts /\ MaxAborts \in Nat
  BY GrantTypes, DbGrantsAssumption DEF GrantsInv, DbGrantsAssumption
<1>3. /\ setups' \in [Starters -> SetUp] /\ setups'[p].at = 0
      /\ \A q \in Starters : q # p => setups'[q] = setups[q]
  BY <1>1, <1>2 DEF SetUp
<1>4. aborts' \in 0 .. MaxAborts
  BY <1>1, <1>2
<1>5. DbGrantsTypeOK'
  BY <1>1, <1>3, <1>4 DEF GrantsInv, DbGrantsTypeOK, SetUp
<1>6. /\ ~(setups'[p].at > Granting + 1) /\ ~(setups'[p].at > Granting + 4)
      /\ \A i \in 1 .. Granting : ~(setups'[p].at > i)
  BY <1>2, <1>3
<1>7. RowsOn'
  BY <1>1, <1>3, <1>6 DEF GrantsInv, RowsOn
<1>8. RightsOn'
  BY <1>1, <1>3, <1>6 DEF GrantsInv, RightsOn, InPlace
<1> QED
  BY <1>5, <1>7, <1>8 DEF GrantsInv

(* Every step keeps the invariant.                                         *)
LEMMA GrantsInvHolds == DbGrantsSpec => []GrantsInv
<1>1. ASSUME GrantsInv, [DbGrantsNext]_dbGrantsVars PROVE GrantsInv'
  <2>1. CASE UNCHANGED dbGrantsVars
    BY <1>1, <2>1 DEF dbGrantsVars, GrantsInv, DbGrantsTypeOK, RowsOn, RightsOn, InPlace
  <2>2. ASSUME NEW p \in Starters,
               \/ setup_starts(p) \/ grant_or_revoke(p) \/ secure_rows(p)
               \/ statement_fails(p) \/ process_ends(p)
        PROVE  GrantsInv'
    BY <1>1, <2>2, SetupStarts, GrantOrRevoke, SecureRows, StatementFails, SetupProcessEnds
  <2> QED
    BY <1>1, <2>1, <2>2 DEF DbGrantsNext
<1> QED
  BY GrantsInvInit, <1>1, PTL DEF DbGrantsSpec

(* A process that is through has all of its statements in place.           *)
LEMMA GrantsInvImplies == GrantsInv => DbGrantsInvariant
<1> SUFFICES ASSUME GrantsInv PROVE DbGrantsInvariant
  OBVIOUS
<1>1. /\ Granting \in Nat /\ GrantsDone = Granting + 7
  BY GrantTypes DEF GrantsInv
<1>2. RowsIsolated
  <2> SUFFICES ASSUME NEW p \in Starters, setups[p].at = GrantsDone, NEW t \in UserTables
               PROVE  visible(t) # "all"
    BY DEF RowsIsolated, Serving
  <2>1. setups[p].at > Granting + 1 /\ setups[p].at > Granting + 4
    BY <1>1
  <2>2. rls[t].enabled
    BY <2>1 DEF GrantsInv, RowsOn, UserTables
  <2> QED
    BY <2>2 DEF visible
<1>3. RightsInPlace
  <2> SUFFICES ASSUME NEW p \in Starters, setups[p].at = GrantsDone, ~setups[p].failed
               PROVE  Granted \subseteq rights /\ Revoked \cap rights = {}
    BY DEF RightsInPlace, Serving
  <2>1. \A i \in 1 .. Granting : InPlace(i)
    <3>1. \A i \in 1 .. Granting : setups[p].at > i
      BY <1>1
    <3> QED
      BY <3>1 DEF GrantsInv, RightsOn
  <2>2. \A i \in DOMAIN _setup_db_roles : _setup_db_roles[i].verb \in {"grant", "revoke"} => i \in 1 .. Granting
    <3>1. DOMAIN _setup_db_roles = 1 .. Granting + 6
      BY StatementFacts DEF Granting
    <3>2. \A i \in 1 .. Granting + 6 : i \in 1 .. Granting \/ i \in Granting + 1 .. Granting + 6
      BY <1>1
    <3> QED
      BY <3>1, <3>2, StatementKinds
  <2> QED
    BY <2>1, <2>2 DEF Granted, Revoked, InPlace
<1> QED
  BY <1>2, <1>3 DEF DbGrantsInvariant, GrantsInv

(* Whichever statements fail and whoever ends in the middle of them:       *)
(* while a process serves, no query returns the rows of other users, and   *)
(* after a set-up without failures every right is in place and the old     *)
(* ones are withdrawn (_setup_db_roles and _setup_rls, src/database.py).   *)
THEOREM DbGrantsCorrect == DbGrantsSpec => []DbGrantsInvariant
BY GrantsInvHolds, GrantsInvImplies, PTL
=============================================================================
