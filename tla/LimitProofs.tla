---------------------------- MODULE LimitProofs -----------------------------
(****************************************************************************)
(* What is counted against a limit: the submissions of a user, and the      *)
(* tokens of the calls of a model. The two modules share no state; each     *)
(* part below is about one of them.                                         *)
(****************************************************************************)
EXTENDS Submission, FiniteSetTheorems, RateLimiter, TLAPS

(****************************************************************************)
(* Submissions, for every number of requests, users and limits. The         *)
(* windows keep every request that a span reaching the present can count    *)
(* (WindowsInv), the day's counter holds what was created and every         *)
(* reservation that is not settled (ReservedInv), and while the requests    *)
(* of a user do not overlap, one at a time is between its check of the      *)
(* depth and what it creates (DepthInv).                                    *)
(****************************************************************************)

(* Reservations under the key of a day that are not settled, and of those  *)
(* the ones that will pass.                                                *)
Holding(d) == {r \in Requests : requests[r].stage \in {"compare", "rollback"} /\ requests[r].on = d}
Passing(d) ==
    {r \in Requests : requests[r].stage = "compare" /\ requests[r].on = d
                        /\ requests[r].reached <= DailyLimit}

(* What the windows keep is enough to count any span that reaches now.     *)
WindowsInv ==
    \A p \in Paths :
        /\ \A e \in admitted[p] : e[2] <= clock
        /\ evict(admitted[p]) \subseteq windows[p]
        /\ \A s \in Nat :
              Cardinality({e \in admitted[p] : e[2] \in s .. s + Window - 1}) <= RateLimit

ReservedInv ==
    \A d \in Days :
        /\ granted[d] + Cardinality(Holding(d)) <= counters[d]
        /\ granted[d] + Cardinality(Passing(d)) <= DailyLimit

(* What is left to create of a request, and what it created.               *)
TodoInv ==
    \A r \in Requests :
        /\ requests[r].stage = "unsent" => created[r] = 0
        /\ requests[r].stage # "unsent" => created[r] + requests[r].todo = Tasks(requests[r].kind)
        /\ requests[r].stage \in {"depth", "budget", "compare", "rollback", "insert"} =>
              requests[r].todo > 0

Retried == {r \in Requests : requests[r].kind = "retry" /\ created[r] > 0}

(* The depth check of the request is behind it.                            *)
DepthChecked(r) ==
    \/ requests[r].kind = "/tasks/batch"
       /\ requests[r].stage \in {"budget", "compare", "rollback", "insert", "token"}
    \/ requests[r].kind = "/tasks" /\ requests[r].stage \in {"insert", "token"}

Alone ==
    \A r, s \in Served : requests[r].kind \in Paths /\ requests[s].kind \in Paths => r = s
DepthBound ==
    /\ pending <= MaxQueued + Cardinality(Retried)
    /\ \A r \in Requests : DepthChecked(r) =>
          pending + requests[r].todo <= MaxQueued + Cardinality(Retried)
DepthInv == ~overlapped => Alone /\ DepthBound

SubmissionInv == SubmissionTypeOK /\ WindowsInv /\ ReservedInv /\ TodoInv /\ DepthInv

(* The limits are numbers and the requests finitely many.                  *)
LEMMA SubmissionConstants ==
    /\ IsFiniteSet(Requests) /\ BatchSize \in Nat /\ BatchSize >= 1
    /\ RateLimit \in Nat /\ RateLimit >= 1 /\ Window \in Nat /\ Window >= 1
    /\ DailyLimit \in Nat /\ MaxQueued \in Nat /\ MaxClock \in Nat /\ LastDay \in Nat /\ 0 \in Days
BY SubmissionAssumption DEF SubmissionAssumption, Days

(* The number of members of a finite set is a number.                      *)
LEMMA CountOf ==
    ASSUME NEW T \in SUBSET Requests PROVE IsFiniteSet(T) /\ Cardinality(T) \in Nat
BY SubmissionConstants, FS_Subset, FS_CardinalityType

(* A window has finitely many entries.                                     *)
LEMMA EntriesFinite ==
    ASSUME NEW T \in SUBSET Entries PROVE IsFiniteSet(T) /\ Cardinality(T) \in Nat
<1>1. IsFiniteSet(0 .. MaxClock)
  BY SubmissionConstants, FS_Interval
<1>2. IsFiniteSet(Entries)
  BY <1>1, SubmissionConstants, FS_Product DEF Entries
<1> QED
  BY <1>2, FS_Subset, FS_CardinalityType

-----------------------------------------------------------------------------
(* Requests                                                                *)

(* The types of one request.                                               *)
LEMMA RequestTypes ==
    ASSUME SubmissionTypeOK, NEW r \in Requests
    PROVE  /\ requests \in [Requests -> Request]
           /\ requests[r].stage \in Stages /\ requests[r].kind \in Kinds
           /\ requests[r].todo \in 0 .. BatchSize /\ requests[r].todo \in Nat
           /\ requests[r].on \in Days /\ requests[r].reached \in Nat
           /\ created[r] \in 0 .. BatchSize /\ created[r] \in Nat
<1>1. requests \in [Requests -> Request] /\ requests[r] \in Request /\ created[r] \in 0 .. BatchSize
  BY DEF SubmissionTypeOK
<1> QED
  BY <1>1, SubmissionConstants DEF Request

(* A request that goes to another stage keeps its kind and what is left    *)
(* to create.                                                              *)
LEMMA RequestGoes ==
    ASSUME SubmissionTypeOK, NEW r \in Requests, NEW stage \in Stages, goto(r, stage)
    PROVE  /\ requests' \in [Requests -> Request]
           /\ requests' = [requests EXCEPT ![r] = requests'[r]]
           /\ requests'[r].stage = stage /\ requests'[r].kind = requests[r].kind
           /\ requests'[r].todo = requests[r].todo
           /\ \A s \in Requests : s # r => requests'[s] = requests[s]
<1>1. requests \in [Requests -> Request] /\ requests[r] \in Request
  BY DEF SubmissionTypeOK
<1>2. requests' = [requests EXCEPT ![r] =
                     [requests[r] EXCEPT !.stage = stage, !.on = 0, !.reached = 0]]
  BY <1>1 DEF goto, Request
<1>3. [requests[r] EXCEPT !.stage = stage, !.on = 0, !.reached = 0] \in Request
  BY <1>1, SubmissionConstants DEF Request
<1> QED
  BY <1>1, <1>2, <1>3 DEF Request

-----------------------------------------------------------------------------
(* The invariants, each over the steps that touch what it speaks of        *)

(* A step that leaves the windows and the clock leaves what they keep.     *)
LEMMA WindowsUntouched ==
    ASSUME WindowsInv, windows' = windows, admitted' = admitted, clock' = clock PROVE WindowsInv'
BY DEF WindowsInv, evict

(* The clock goes on: what falls out of the window is not needed again.    *)
LEMMA WindowsTick ==
    ASSUME SubmissionTypeOK, WindowsInv, windows' = windows, admitted' = admitted, clock' = clock + 1
    PROVE  WindowsInv'
<1>1. clock \in Nat /\ Window \in Nat
  BY SubmissionConstants DEF SubmissionTypeOK
<1>2. ASSUME NEW p \in Paths
      PROVE  /\ \A e \in admitted[p] : e[2] <= clock'
             /\ evict(admitted[p])' \subseteq windows[p]
             /\ \A s \in Nat :
                  Cardinality({e \in admitted[p] : e[2] \in s .. s + Window - 1}) <= RateLimit
  <2>1. \A e \in admitted[p] : e[2] \in Nat /\ e[2] <= clock
    BY DEF SubmissionTypeOK, WindowsInv, Entries
  <2>2. \A e \in admitted[p] : clock' - e[2] < Window => clock - e[2] < Window
    BY <1>1, <2>1
  <2>3. \A e \in admitted[p] : e[2] <= clock'
    BY <1>1, <2>1
  <2> QED
    BY <2>2, <2>3 DEF WindowsInv, evict
<1> QED
  BY <1>2 DEF WindowsInv

(* Reservations are counted by numbers.                                    *)
LEMMA ReservationMade ==
    ASSUME SubmissionTypeOK, NEW d \in Days
    PROVE  /\ Holding(d) \in SUBSET Requests /\ Passing(d) \in SUBSET Requests
           /\ Passing(d) \subseteq Holding(d)
           /\ Cardinality(Holding(d)) \in Nat /\ Cardinality(Passing(d)) \in Nat
           /\ Cardinality(Passing(d)) <= Cardinality(Holding(d))
           /\ granted[d] \in Nat /\ counters[d] \in Nat
<1>1. Holding(d) \in SUBSET Requests /\ Passing(d) \in SUBSET Requests /\ Passing(d) \subseteq Holding(d)
  BY DEF Holding, Passing
<1>2. Cardinality(Passing(d)) <= Cardinality(Holding(d))
  BY <1>1, CountOf, FS_Subset
<1> QED
  BY <1>1, <1>2, CountOf DEF SubmissionTypeOK

(* A request that holds no reservation afterwards: what it may have held   *)
(* stays in the counter.                                                   *)
LEMMA ReservationLeft ==
    ASSUME SubmissionTypeOK, ReservedInv, NEW r \in Requests,
           counters' = counters, granted' = granted,
           requests'[r].stage \notin {"compare", "rollback"},
           \A s \in Requests : s # r => requests'[s] = requests[s]
    PROVE  ReservedInv'
<1> SUFFICES ASSUME NEW d \in Days
             PROVE  /\ granted[d] + Cardinality(Holding(d)') <= counters[d]
                    /\ granted[d] + Cardinality(Passing(d)') <= DailyLimit
  BY DEF ReservedInv
<1>1. Holding(d)' \subseteq Holding(d) /\ Passing(d)' \subseteq Passing(d)
  BY DEF Holding, Passing
<1>2. /\ Cardinality(Holding(d)') \in Nat /\ Cardinality(Holding(d)') <= Cardinality(Holding(d))
      /\ Cardinality(Passing(d)') \in Nat /\ Cardinality(Passing(d)') <= Cardinality(Passing(d))
  BY <1>1, ReservationMade, CountOf, FS_Subset
<1>3. /\ granted[d] + Cardinality(Holding(d)) <= counters[d]
      /\ granted[d] + Cardinality(Passing(d)) <= DailyLimit
  BY DEF ReservedInv
<1> QED
  BY <1>2, <1>3, ReservationMade, SubmissionConstants

(* What a step of a request does to what is left to create, when it        *)
(* creates nothing.                                                        *)
LEMMA TodoKept ==
    ASSUME TodoInv, NEW r \in Requests, created' = created,
           requests[r].stage # "unsent", requests'[r].stage # "unsent",
           requests'[r].kind = requests[r].kind, requests'[r].todo = requests[r].todo,
           requests'[r].stage \in {"depth", "budget", "compare", "rollback", "insert"} =>
               requests[r].todo > 0,
           \A s \in Requests : s # r => requests'[s] = requests[s]
    PROVE  TodoInv'
BY DEF TodoInv

(* A step of one request that creates nothing leaves the bound on the      *)
(* depth, if its check of the depth, when it is one, was within the        *)
(* limit.                                                                  *)
LEMMA DepthKept ==
    ASSUME SubmissionTypeOK, DepthInv, NEW r \in Requests,
           created' = created, pending' = pending, overlapped' = overlapped,
           r \in Served, requests'[r].kind = requests[r].kind, requests'[r].todo = requests[r].todo,
           DepthChecked(r)' => DepthChecked(r) \/ pending + requests[r].todo <= MaxQueued,
           \A s \in Requests : s # r => requests'[s] = requests[s]
    PROVE  DepthInv'
<1> SUFFICES ASSUME Alone, DepthBound PROVE Alone' /\ DepthBound'
  BY DEF DepthInv
<1>1. Served' \subseteq Served
  BY DEF Served
<1>2. \A s \in Requests : requests'[s].kind = requests[s].kind /\ requests'[s].todo = requests[s].todo
  OBVIOUS
<1>3. Alone'
  <2>1. \A s \in Served' : requests'[s].kind = requests[s].kind
    BY <1>2 DEF Served
  <2> QED
    BY <1>1, <2>1 DEF Alone
<1>4. Retried' = Retried
  BY <1>2 DEF Retried
<1>5. Cardinality(Retried) \in Nat /\ pending \in Nat
  BY CountOf DEF Retried, SubmissionTypeOK
<1>6. ASSUME NEW s \in Requests, DepthChecked(s)'
      PROVE  pending + requests[s].todo <= MaxQueued + Cardinality(Retried)
  <2>1. CASE s # r
    <3>1. DepthChecked(s)
      BY <1>6, <2>1 DEF DepthChecked
    <3> QED
      BY <3>1 DEF DepthBound
  <2>2. CASE s = r
    <3>1. CASE DepthChecked(r)
      BY <2>2, <3>1 DEF DepthBound
    <3>2. CASE pending + requests[r].todo <= MaxQueued
      BY <1>5, <2>2, <3>2, RequestTypes, SubmissionConstants
    <3> QED
      BY <1>6, <2>2, <3>1, <3>2
  <2> QED
    BY <2>1, <2>2
<1>7. DepthBound'
  BY <1>2, <1>4, <1>6 DEF DepthBound
<1> QED
  BY <1>3, <1>7

-----------------------------------------------------------------------------
(* Steps                                                                   *)

(* A request enters its window, or is refused.                             *)
LEMMA RequestDispatched ==
    ASSUME SubmissionInv, NEW r \in Requests, NEW kind \in Kinds, dispatch(r, kind)
    PROVE  SubmissionInv'
<1> DEFINE allowed == kind \in Paths => Cardinality(evict(windows[kind])) < RateLimit
           first == IF kind = "/tasks/batch" THEN "depth" ELSE "budget"
           entry == IF allowed THEN {<<r, clock>>} ELSE {}
           stage == IF allowed THEN first ELSE "rejected"
           after == [stage |-> stage, kind |-> kind, todo |-> Tasks(kind), on |-> 0, reached |-> 0]
<1>1. /\ requests[r].stage = "unsent"
      /\ windows' = IF kind \in Paths
                    THEN [windows EXCEPT ![kind] = evict(windows[kind]) \cup entry] ELSE windows
      /\ requests' = [requests EXCEPT ![r] = after]
      /\ admitted' = IF kind \in Paths
                     THEN [admitted EXCEPT ![kind] = admitted[kind] \cup entry] ELSE admitted
      /\ overlapped' = (overlapped \/ (kind \in Paths /\ Served # {}))
      /\ redis' = redis /\ clock' = clock /\ day' = day /\ counters' = counters
      /\ pending' = pending /\ created' = created /\ granted' = granted
  BY DEF dispatch
<1>2. SubmissionTypeOK
  BY DEF SubmissionInv
<1>3. stage \in {"depth", "budget", "rejected"} /\ (stage = "depth" => kind = "/tasks/batch")
      /\ (stage = "budget" => kind # "/tasks/batch")
  OBVIOUS
<1>4. entry \subseteq {<<r, clock>>} /\ (entry # {} => allowed)
  OBVIOUS
<1>5. Tasks(kind) \in 1 .. BatchSize
  BY SubmissionConstants DEF Tasks
<1>6. clock \in 0 .. MaxClock /\ windows \in [Paths -> SUBSET Entries] /\ admitted \in [Paths -> SUBSET Entries]
      /\ requests \in [Requests -> Request]
  BY <1>2 DEF SubmissionTypeOK
<1> HIDE DEF entry, stage
<1>7. after \in Request
  BY <1>3, <1>5, SubmissionConstants DEF Request, Stages
<1>8. /\ requests' \in [Requests -> Request] /\ requests'[r].stage = stage
      /\ requests'[r].kind = kind /\ requests'[r].todo = Tasks(kind)
      /\ \A s \in Requests : s # r => requests'[s] = requests[s]
  BY <1>1, <1>6, <1>7
<1>9. entry \subseteq Entries
  BY <1>4, <1>6 DEF Entries
<1>10. windows' \in [Paths -> SUBSET Entries] /\ admitted' \in [Paths -> SUBSET Entries]
  <2>1. CASE kind \in Paths
    <3>1. evict(windows[kind]) \cup entry \in SUBSET Entries /\ admitted[kind] \cup entry \in SUBSET Entries
      BY <1>6, <1>9, <2>1 DEF evict
    <3> QED
      BY <1>1, <1>6, <2>1, <3>1
  <2>2. CASE kind \notin Paths
    BY <1>1, <1>6, <2>2
  <2> QED
    BY <2>1, <2>2
<1>11. overlapped' \in BOOLEAN
  BY <1>1, <1>2 DEF SubmissionTypeOK
<1>12. SubmissionTypeOK'
  BY <1>1, <1>2, <1>8, <1>10, <1>11 DEF SubmissionTypeOK
<1>13. WindowsInv'
  <2> SUFFICES ASSUME NEW p \in Paths
               PROVE  /\ \A e \in admitted'[p] : e[2] <= clock
                      /\ evict(admitted'[p]) \subseteq windows'[p]
                      /\ \A s \in Nat : Cardinality({e \in admitted'[p] : e[2] \in s .. s + Window - 1})
                                           <= RateLimit
    BY <1>1 DEF WindowsInv, evict
  <2>1. /\ \A e \in admitted[p] : e[2] <= clock /\ e[2] \in Nat
        /\ evict(admitted[p]) \subseteq windows[p]
        /\ \A s \in Nat : Cardinality({e \in admitted[p] : e[2] \in s .. s + Window - 1}) <= RateLimit
    BY <1>2 DEF SubmissionInv, WindowsInv, SubmissionTypeOK, Entries
  <2>2. CASE p # kind \/ kind \notin Paths
    BY <1>1, <1>6, <2>1, <2>2
  <2>3. CASE p = kind
    <3>1. admitted'[p] = admitted[p] \cup entry /\ windows'[p] = evict(windows[p]) \cup entry
      BY <1>1, <1>6, <2>3
    <3>2. \A e \in admitted'[p] : e[2] <= clock
      BY <1>4, <1>6, <2>1, <3>1
    <3>3. evict(admitted'[p]) \subseteq windows'[p]
      BY <2>1, <3>1 DEF evict
    <3>4. ASSUME NEW s \in Nat
          PROVE  Cardinality({e \in admitted'[p] : e[2] \in s .. s + Window - 1}) <= RateLimit
      <4> DEFINE before == {e \in admitted[p] : e[2] \in s .. s + Window - 1}
                 later == {e \in admitted'[p] : e[2] \in s .. s + Window - 1}
      <4>1. CASE later \subseteq before
        <5>1. before \in SUBSET Entries
          BY <1>6
        <5>2. Cardinality(later) <= Cardinality(before) /\ Cardinality(later) \in Nat
              /\ Cardinality(before) \in Nat
          BY <4>1, <5>1, EntriesFinite, FS_Subset
        <5>3. Cardinality(before) <= RateLimit
          BY <2>1
        <5> HIDE DEF later, before
        <5>4. Cardinality(later) <= RateLimit
          BY <5>2, <5>3, SubmissionConstants
        <5> QED
          BY <5>4 DEF later
      <4>2. CASE ~(later \subseteq before)
        <5>1. /\ entry # {} /\ clock \in s .. s + Window - 1
              /\ later = before \cup {<<r, clock>>}
          BY <1>4, <1>6, <3>1, <4>2
        <5>2. before \subseteq evict(windows[p])
          <6>1. ASSUME NEW e \in before PROVE e \in evict(admitted[p]) /\ clock - e[2] < Window
            <7>1. e \in admitted[p] /\ e[2] \in Nat /\ e[2] >= s /\ e[2] <= clock
              BY <2>1, <3>4
            <7>2. clock \in Nat /\ clock <= s + Window - 1
              BY <1>6, <5>1, SubmissionConstants
            <7>3. clock - e[2] < Window
              BY <7>1, <7>2, SubmissionConstants
            <7> QED
              BY <7>1, <7>3 DEF evict
          <6> QED
            BY <2>1, <6>1 DEF evict
        <5>3. evict(windows[p]) \in SUBSET Entries /\ before \in SUBSET Entries
          BY <1>6 DEF evict
        <5>4. /\ Cardinality(before) <= Cardinality(evict(windows[p])) /\ Cardinality(before) \in Nat
              /\ Cardinality(evict(windows[p])) \in Nat /\ IsFiniteSet(before)
          BY <5>2, <5>3, EntriesFinite, FS_Subset
        <5>5. Cardinality(evict(windows[p])) < RateLimit
          BY <1>4, <2>3, <5>1
        <5> HIDE DEF before
        <5>6. Cardinality(before \cup {<<r, clock>>}) <= Cardinality(before) + 1
              /\ Cardinality(before \cup {<<r, clock>>}) \in Nat
          <6>1. \/ Cardinality(before \cup {<<r, clock>>}) = Cardinality(before)
                \/ Cardinality(before \cup {<<r, clock>>}) = Cardinality(before) + 1
            BY <5>4, FS_AddElement
          <6> QED
            BY <5>4, <6>1
        <5>7. Cardinality(before \cup {<<r, clock>>}) <= RateLimit
          BY <5>4, <5>5, <5>6, SubmissionConstants
        <5> QED
          BY <5>1, <5>7
      <4> QED
        BY <4>1, <4>2
    <3> QED
      BY <3>2, <3>3, <3>4
  <2> QED
    BY <2>2, <2>3
<1>14. ReservedInv'
  BY <1>1, <1>2, <1>3, <1>8, ReservationLeft DEF SubmissionInv
<1>15. created[r] = 0
  BY <1>1 DEF SubmissionInv, TodoInv
<1>16. TodoInv'
  <2>1. Tasks(kind) > 0 /\ 0 + Tasks(kind) = Tasks(kind)
    BY <1>5
  <2> QED
    BY <1>1, <1>3, <1>8, <1>15, <2>1 DEF SubmissionInv, TodoInv
<1>17. DepthInv'
  <2> SUFFICES ASSUME ~overlapped' PROVE Alone' /\ DepthBound'
    BY DEF DepthInv
  <2>1. ~overlapped /\ Alone /\ DepthBound /\ (kind \in Paths => Served = {})
    BY <1>1 DEF SubmissionInv, DepthInv
  <2>2. Served' \subseteq Served \cup {r}
    BY <1>8 DEF Served
  <2>3. Alone'
    <3> SUFFICES ASSUME NEW t \in Served', NEW u \in Served',
                        requests'[t].kind \in Paths, requests'[u].kind \in Paths
                 PROVE  t = u
      BY DEF Alone
    <3>1. CASE kind \in Paths
      BY <2>1, <2>2, <3>1
    <3>2. CASE kind \notin Paths
      <4>1. t # r /\ u # r
        BY <1>8, <3>2
      <4> QED
        BY <1>8, <2>1, <2>2, <4>1 DEF Alone, Served
    <3> QED
      BY <3>1, <3>2
  <2>4. Retried' = Retried
    <3>1. ~(created[r] > 0)
      BY <1>15
    <3> QED
      BY <1>1, <1>8, <3>1 DEF Retried
  <2>5. \A s \in Requests : DepthChecked(s)' => DepthChecked(s) /\ requests'[s] = requests[s]
    BY <1>3, <1>8 DEF DepthChecked
  <2>6. DepthBound'
    BY <1>1, <2>1, <2>4, <2>5 DEF DepthBound
  <2> QED
    BY <2>3, <2>6
<1> QED
  BY <1>12, <1>13, <1>14, <1>16, <1>17 DEF SubmissionInv

(* A step of a request that creates nothing and reserves nothing.          *)
LEMMA RequestSteps ==
    ASSUME SubmissionInv, NEW r \in Served, NEW stage \in Stages, goto(r, stage),
           stage \notin {"unsent", "compare", "rollback"},
           stage \in {"depth", "budget", "insert"} => requests[r].todo > 0,
           DepthChecked(r)' => DepthChecked(r) \/ pending + requests[r].todo <= MaxQueued,
           UNCHANGED <<redis, clock, day, windows, counters, pending, created, historyVars>>
    PROVE  SubmissionInv'
<1>1. /\ redis' = redis /\ clock' = clock /\ day' = day /\ windows' = windows /\ counters' = counters
      /\ pending' = pending /\ created' = created /\ admitted' = admitted
      /\ granted' = granted /\ overlapped' = overlapped
  BY DEF historyVars
<1>2. SubmissionTypeOK /\ r \in Requests /\ requests[r].stage # "unsent"
  BY DEF SubmissionInv, Served
<1>3. /\ requests' \in [Requests -> Request]
      /\ requests'[r].stage = stage /\ requests'[r].kind = requests[r].kind
      /\ requests'[r].todo = requests[r].todo
      /\ \A s \in Requests : s # r => requests'[s] = requests[s]
  BY <1>2, RequestGoes
<1>4. SubmissionTypeOK'
  BY <1>1, <1>2, <1>3 DEF SubmissionTypeOK
<1>5. WindowsInv'
  BY <1>1, WindowsUntouched DEF SubmissionInv
<1>6. ReservedInv'
  BY <1>1, <1>2, <1>3, ReservationLeft DEF SubmissionInv
<1>7. TodoInv'
  BY <1>1, <1>2, <1>3, TodoKept DEF SubmissionInv
<1>8. DepthInv'
  BY <1>1, <1>2, <1>3, DepthKept DEF SubmissionInv
<1> QED
  BY <1>4, <1>5, <1>6, <1>7, <1>8 DEF SubmissionInv

(* The depth of a user is a number.                                        *)
LEMMA DepthOf ==
    ASSUME NEW r \in Requests
    PROVE  DepthChecked(r)' <=>
             \/ requests'[r].kind = "/tasks/batch"
                /\ requests'[r].stage \in {"budget", "compare", "rollback", "insert", "token"}
             \/ requests'[r].kind = "/tasks" /\ requests'[r].stage \in {"insert", "token"}
BY DEF DepthChecked

(* The depth is compared with the limit.                                   *)
LEMMA ChecksDepth ==
    ASSUME SubmissionInv, NEW r \in Requests, _check_queue_depth(r) PROVE SubmissionInv'
<1> DEFINE stage == IF pending + requests[r].todo > MaxQueued THEN "rejected"
                    ELSE IF requests[r].kind = "/tasks/batch" THEN "budget" ELSE "insert"
<1>1. /\ requests[r].stage = "depth" /\ goto(r, stage)
      /\ UNCHANGED <<redis, clock, day, windows, counters, pending, created, historyVars>>
  BY DEF _check_queue_depth
<1>2. SubmissionTypeOK /\ r \in Served /\ requests[r].todo > 0
  BY <1>1 DEF SubmissionInv, Served, TodoInv
<1>3. requests[r].todo \in Nat /\ pending \in Nat
  BY <1>2, RequestTypes DEF SubmissionTypeOK
<1>4. stage \in {"rejected", "budget", "insert"}
      /\ (stage # "rejected" => pending + requests[r].todo <= MaxQueued)
  BY <1>3, SubmissionConstants
<1> HIDE DEF stage
<1>5. stage \in Stages /\ requests'[r].stage = stage
  BY <1>1, <1>2, <1>4, RequestGoes DEF Stages
<1>6. DepthChecked(r)' => pending + requests[r].todo <= MaxQueued
  BY <1>4, <1>5, DepthOf
<1> QED
  BY <1>1, <1>2, <1>4, <1>5, <1>6, RequestSteps

(* The database answers for the request, or does not.                      *)
LEMMA ChecksDatabase ==
    ASSUME SubmissionInv, NEW r \in Requests, db_budget_check(r) PROVE SubmissionInv'
<1>1. PICK stage \in {within_budget(r), "rejected"} :
         /\ requests[r].stage = "budget" /\ goto(r, stage)
         /\ UNCHANGED <<redis, clock, day, windows, counters, pending, created, historyVars>>
  BY DEF db_budget_check
<1>2. SubmissionTypeOK /\ r \in Served /\ requests[r].todo > 0
  BY <1>1 DEF SubmissionInv, Served, TodoInv
<1>3. /\ stage \in {"depth", "insert", "rejected"}
      /\ (requests[r].kind = "/tasks" => stage # "insert")
  BY <1>1 DEF within_budget
<1>4. stage \in Stages /\ requests'[r].stage = stage /\ requests'[r].kind = requests[r].kind
  BY <1>1, <1>2, <1>3, RequestGoes DEF Stages
<1>5. DepthChecked(r)' => DepthChecked(r)
  BY <1>1, <1>3, <1>4, DepthOf DEF DepthChecked
<1> QED
  BY <1>1, <1>2, <1>3, <1>4, <1>5, RequestSteps

(* A request is refused.                                                   *)
LEMMA RefusesTask ==
    ASSUME SubmissionInv, NEW r \in Requests, invalid_task(r) PROVE SubmissionInv'
<1>1. /\ requests[r].stage \in {"budget", "insert"} /\ goto(r, "rejected")
      /\ UNCHANGED <<redis, clock, day, windows, counters, pending, created, historyVars>>
  BY DEF invalid_task
<1>2. SubmissionTypeOK /\ r \in Served
  BY <1>1 DEF SubmissionInv, Served
<1>3. "rejected" \in Stages /\ requests'[r].stage = "rejected"
  BY <1>1, <1>2, RequestGoes DEF Stages
<1>4. ~DepthChecked(r)'
  BY <1>3, DepthOf
<1> QED
  BY <1>1, <1>2, <1>3, <1>4, RequestSteps

(* A request fails.                                                        *)
LEMMA RequestFails ==
    ASSUME SubmissionInv, NEW r \in Requests, request_fails(r) PROVE SubmissionInv'
<1>1. /\ r \in Served /\ goto(r, "lost")
      /\ UNCHANGED <<redis, clock, day, windows, counters, pending, created, historyVars>>
  BY DEF request_fails
<1>2. SubmissionTypeOK
  BY DEF SubmissionInv
<1>3. "lost" \in Stages /\ requests'[r].stage = "lost"
  BY <1>1, <1>2, RequestGoes DEF Stages
<1>4. ~DepthChecked(r)'
  BY <1>3, DepthOf
<1> QED
  BY <1>1, <1>2, <1>3, <1>4, RequestSteps

(* The stream token is stored.                                             *)
LEMMA CreatesToken ==
    ASSUME SubmissionInv, NEW r \in Requests, create_stream_token(r) PROVE SubmissionInv'
<1> DEFINE stage == IF requests[r].todo > 0 THEN "budget" ELSE "answered"
<1>1. /\ requests[r].stage = "token" /\ goto(r, stage)
      /\ UNCHANGED <<redis, clock, day, windows, counters, pending, created, historyVars>>
  BY DEF create_stream_token
<1>2. SubmissionTypeOK /\ r \in Served
  BY <1>1 DEF SubmissionInv, Served
<1>3. stage \in {"budget", "answered"} /\ (stage = "budget" => requests[r].todo > 0)
  OBVIOUS
<1> HIDE DEF stage
<1>4. stage \in Stages /\ requests'[r].stage = stage /\ requests'[r].kind = requests[r].kind
  BY <1>1, <1>2, <1>3, RequestGoes DEF Stages
<1>5. DepthChecked(r)' => DepthChecked(r)
  BY <1>1, <1>3, <1>4, DepthOf DEF DepthChecked
<1> QED
  BY <1>1, <1>2, <1>3, <1>4, <1>5, RequestSteps

(* The day's counter is incremented: a reservation.                        *)
LEMMA BudgetIncremented ==
    ASSUME SubmissionInv, NEW r \in Requests, redis_incrby(r) PROVE SubmissionInv'
<1>1. /\ requests[r].stage = "budget"
      /\ counters' = [counters EXCEPT ![day] = counters[day] + 1]
      /\ requests' = [requests EXCEPT ![r] = [requests[r] EXCEPT !.stage = "compare", !.on = day,
                                                 !.reached = counters[day] + 1]]
      /\ redis' = redis /\ clock' = clock /\ day' = day /\ windows' = windows
      /\ pending' = pending /\ created' = created /\ admitted' = admitted
      /\ granted' = granted /\ overlapped' = overlapped
  <2>1. requests \in [Requests -> Request]
    BY DEF SubmissionInv, SubmissionTypeOK
  <2> QED
    BY <2>1 DEF redis_incrby, historyVars, Request
<1>2. SubmissionTypeOK /\ r \in Served /\ requests[r].todo > 0
  BY <1>1 DEF SubmissionInv, Served, TodoInv
<1>3. requests \in [Requests -> Request] /\ requests[r] \in Request /\ day \in Days
      /\ counters \in [Days -> Nat] /\ granted \in [Days -> Nat]
  BY <1>2 DEF SubmissionTypeOK
<1>4. [requests[r] EXCEPT !.stage = "compare", !.on = day, !.reached = counters[day] + 1] \in Request
  <2>1. counters[day] + 1 \in Nat /\ "compare" \in Stages
    BY <1>3 DEF Stages
  <2> QED
    BY <1>3, <2>1 DEF Request
<1>5. /\ requests' \in [Requests -> Request]
      /\ requests'[r].stage = "compare" /\ requests'[r].kind = requests[r].kind
      /\ requests'[r].todo = requests[r].todo /\ requests'[r].on = day
      /\ requests'[r].reached = counters[day] + 1
      /\ \A s \in Requests : s # r => requests'[s] = requests[s]
  BY <1>1, <1>3, <1>4 DEF Request
<1>6. /\ counters' \in [Days -> Nat] /\ counters'[day] = counters[day] + 1
      /\ \A d \in Days : d # day => counters'[d] = counters[d]
  BY <1>1, <1>3
<1>7. SubmissionTypeOK'
  BY <1>1, <1>2, <1>5, <1>6 DEF SubmissionTypeOK
<1>8. WindowsInv'
  BY <1>1, WindowsUntouched DEF SubmissionInv
<1>9. ReservedInv'
  <2> SUFFICES ASSUME NEW d \in Days
               PROVE  /\ granted[d] + Cardinality(Holding(d)') <= counters'[d]
                      /\ granted[d] + Cardinality(Passing(d)') <= DailyLimit
    BY <1>1 DEF ReservedInv
  <2>1. /\ granted[d] + Cardinality(Holding(d)) <= counters[d]
        /\ granted[d] + Cardinality(Passing(d)) <= DailyLimit
    BY DEF SubmissionInv, ReservedInv
  <2>2. CASE d # day
    <3>1. Holding(d)' = Holding(d) /\ Passing(d)' = Passing(d)
      BY <1>1, <1>5, <2>2 DEF Holding, Passing
    <3> QED
      BY <1>6, <2>1, <2>2, <3>1
  <2>3. CASE d = day
    <3>1. Holding(d)' = Holding(d) \cup {r} /\ r \notin Holding(d) /\ r \notin Passing(d)
      BY <1>1, <1>5, <2>3 DEF Holding, Passing
    <3>2. Passing(d)' \subseteq Passing(d) \cup {r}
          /\ (r \in Passing(d)' => counters[d] + 1 <= DailyLimit)
      BY <1>5, <2>3 DEF Passing
    <3>3. /\ IsFiniteSet(Holding(d)) /\ IsFiniteSet(Passing(d))
          /\ Cardinality(Passing(d)) <= Cardinality(Holding(d))
          /\ Cardinality(Holding(d)) \in Nat /\ Cardinality(Passing(d)) \in Nat
          /\ granted[d] \in Nat /\ counters[d] \in Nat
      BY <1>2, ReservationMade, CountOf
    <3>4. Cardinality(Holding(d)') = Cardinality(Holding(d)) + 1
      BY <3>1, <3>3, FS_AddElement
    <3>5. granted[d] + Cardinality(Holding(d)') <= counters'[d]
      BY <1>6, <2>1, <2>3, <3>3, <3>4
    <3>6. CASE r \in Passing(d)'
      <4>1. Cardinality(Passing(d) \cup {r}) = Cardinality(Passing(d)) + 1
            /\ IsFiniteSet(Passing(d) \cup {r})
        BY <3>1, <3>3, FS_AddElement
      <4>2. Cardinality(Passing(d)') <= Cardinality(Passing(d)) + 1 /\ Cardinality(Passing(d)') \in Nat
        BY <3>2, <4>1, FS_Subset, FS_CardinalityType
      <4>3. counters[d] + 1 <= DailyLimit
        BY <3>2, <3>6
      <4> QED
        BY <2>1, <3>3, <3>5, <4>2, <4>3, SubmissionConstants
    <3>7. CASE r \notin Passing(d)'
      <4>1. Passing(d)' \subseteq Passing(d)
        BY <3>2, <3>7
      <4>2. Cardinality(Passing(d)') <= Cardinality(Passing(d)) /\ Cardinality(Passing(d)') \in Nat
        BY <3>3, <4>1, FS_Subset, FS_CardinalityType
      <4> QED
        BY <2>1, <3>3, <3>5, <4>2, SubmissionConstants
    <3> QED
      BY <3>6, <3>7
  <2> QED
    BY <2>2, <2>3
<1>10. TodoInv'
  BY <1>1, <1>2, <1>5, TodoKept DEF SubmissionInv
<1>11. DepthChecked(r)' => DepthChecked(r)
  BY <1>1, <1>5, DepthOf DEF DepthChecked
<1>12. DepthInv'
  BY <1>1, <1>2, <1>5, <1>11, DepthKept DEF SubmissionInv
<1> QED
  BY <1>7, <1>8, <1>9, <1>10, <1>12 DEF SubmissionInv

(* The reservation is within the budget.                                   *)
LEMMA BudgetPasses ==
    ASSUME SubmissionInv, NEW r \in Requests, redis_compare(r), requests[r].reached <= DailyLimit
    PROVE  SubmissionInv'
<1>1. /\ requests[r].stage = "compare" /\ goto(r, within_budget(r))
      /\ granted' = [granted EXCEPT ![requests[r].on] = granted[requests[r].on] + 1]
      /\ redis' = redis /\ clock' = clock /\ day' = day /\ windows' = windows /\ counters' = counters
      /\ pending' = pending /\ created' = created /\ admitted' = admitted /\ overlapped' = overlapped
  BY DEF redis_compare
<1>2. SubmissionTypeOK /\ r \in Served /\ requests[r].todo > 0
  BY <1>1 DEF SubmissionInv, Served, TodoInv
<1>3. /\ within_budget(r) \in {"depth", "insert"}
      /\ (requests[r].kind = "/tasks" => within_budget(r) = "depth")
  BY DEF within_budget
<1>4. within_budget(r) \in Stages
  BY <1>3 DEF Stages
<1>5. /\ requests' \in [Requests -> Request]
      /\ requests'[r].stage = within_budget(r) /\ requests'[r].kind = requests[r].kind
      /\ requests'[r].todo = requests[r].todo
      /\ \A s \in Requests : s # r => requests'[s] = requests[s]
  BY <1>1, <1>2, <1>4, RequestGoes
<1>6. requests[r].on \in Days /\ granted \in [Days -> Nat]
  BY <1>2, RequestTypes DEF SubmissionTypeOK
<1>7. /\ granted' \in [Days -> Nat] /\ granted'[requests[r].on] = granted[requests[r].on] + 1
      /\ \A d \in Days : d # requests[r].on => granted'[d] = granted[d]
  BY <1>1, <1>6
<1>8. SubmissionTypeOK'
  BY <1>1, <1>2, <1>5, <1>7 DEF SubmissionTypeOK
<1>9. WindowsInv'
  BY <1>1, WindowsUntouched DEF SubmissionInv
<1>10. ReservedInv'
  <2> SUFFICES ASSUME NEW d \in Days
               PROVE  /\ granted'[d] + Cardinality(Holding(d)') <= counters[d]
                      /\ granted'[d] + Cardinality(Passing(d)') <= DailyLimit
    BY <1>1 DEF ReservedInv
  <2>1. /\ granted[d] + Cardinality(Holding(d)) <= counters[d]
        /\ granted[d] + Cardinality(Passing(d)) <= DailyLimit
    BY DEF SubmissionInv, ReservedInv
  <2>2. Holding(d)' = Holding(d) \ {r} /\ Passing(d)' = Passing(d) \ {r}
    BY <1>3, <1>5 DEF Holding, Passing
  <2>3. CASE d # requests[r].on
    <3>1. r \notin Holding(d) /\ r \notin Passing(d)
      BY <2>3 DEF Holding, Passing
    <3>2. Holding(d)' = Holding(d) /\ Passing(d)' = Passing(d)
      BY <2>2, <3>1
    <3> QED
      BY <1>7, <2>1, <2>3, <3>2
  <2>4. CASE d = requests[r].on
    <3>1. r \in Holding(d) /\ r \in Passing(d)
      BY <1>1, <2>4 DEF Holding, Passing
    <3>2. /\ IsFiniteSet(Holding(d)) /\ IsFiniteSet(Passing(d))
          /\ Cardinality(Holding(d)) \in Nat /\ Cardinality(Passing(d)) \in Nat
          /\ granted[d] \in Nat /\ counters[d] \in Nat
      BY <1>2, ReservationMade, CountOf
    <3>3. /\ Cardinality(Holding(d)') = Cardinality(Holding(d)) - 1
          /\ Cardinality(Passing(d)') = Cardinality(Passing(d)) - 1
      BY <2>2, <3>1, <3>2, FS_RemoveElement
    <3> QED
      BY <1>7, <2>1, <2>4, <3>2, <3>3, SubmissionConstants
  <2> QED
    BY <2>3, <2>4
<1>11. TodoInv'
  BY <1>1, <1>2, <1>3, <1>5, TodoKept DEF SubmissionInv
<1>12. DepthChecked(r)' => DepthChecked(r)
  BY <1>1, <1>3, <1>5, DepthOf DEF DepthChecked
<1>13. DepthInv'
  BY <1>1, <1>2, <1>5, <1>12, DepthKept DEF SubmissionInv
<1> QED
  BY <1>8, <1>9, <1>10, <1>11, <1>13 DEF SubmissionInv

(* The reservation is beyond the budget.                                   *)
LEMMA BudgetExceeded ==
    ASSUME SubmissionInv, NEW r \in Requests, redis_compare(r), ~(requests[r].reached <= DailyLimit)
    PROVE  SubmissionInv'
<1>1. /\ requests[r].stage = "compare"
      /\ requests' = [requests EXCEPT ![r] = [requests[r] EXCEPT !.stage = "rollback"]]
      /\ redis' = redis /\ clock' = clock /\ day' = day /\ windows' = windows /\ counters' = counters
      /\ pending' = pending /\ created' = created /\ admitted' = admitted
      /\ granted' = granted /\ overlapped' = overlapped
  BY DEF redis_compare
<1>2. SubmissionTypeOK /\ r \in Served /\ requests[r].todo > 0
  BY <1>1 DEF SubmissionInv, Served, TodoInv
<1>3. requests \in [Requests -> Request] /\ requests[r] \in Request
  BY <1>2 DEF SubmissionTypeOK
<1>4. [requests[r] EXCEPT !.stage = "rollback"] \in Request
  BY <1>3 DEF Request, Stages
<1>5. /\ requests' \in [Requests -> Request]
      /\ requests'[r].stage = "rollback" /\ requests'[r].kind = requests[r].kind
      /\ requests'[r].todo = requests[r].todo /\ requests'[r].on = requests[r].on
      /\ \A s \in Requests : s # r => requests'[s] = requests[s]
  BY <1>1, <1>3, <1>4 DEF Request
<1>6. SubmissionTypeOK'
  BY <1>1, <1>2, <1>5 DEF SubmissionTypeOK
<1>7. WindowsInv'
  BY <1>1, WindowsUntouched DEF SubmissionInv
<1>8. ReservedInv'
  <2>1. \A d \in Days : Holding(d)' = Holding(d) /\ Passing(d)' = Passing(d)
    BY <1>1, <1>5 DEF Holding, Passing
  <2> QED
    BY <1>1, <2>1 DEF SubmissionInv, ReservedInv
<1>9. TodoInv'
  BY <1>1, <1>2, <1>5, TodoKept DEF SubmissionInv
<1>10. DepthChecked(r)' => DepthChecked(r)
  BY <1>1, <1>5, DepthOf DEF DepthChecked
<1>11. DepthInv'
  BY <1>1, <1>2, <1>5, <1>10, DepthKept DEF SubmissionInv
<1> QED
  BY <1>6, <1>7, <1>8, <1>9, <1>11 DEF SubmissionInv

(* It is given back, under the key of the day.                             *)
LEMMA BudgetRollsBack ==
    ASSUME SubmissionInv, NEW r \in Requests, redis_rollback(r) PROVE SubmissionInv'
<1>1. /\ requests[r].stage = "rollback" /\ goto(r, "rejected")
      /\ counters' = [counters EXCEPT ![requests[r].on] = counters[requests[r].on] - 1]
      /\ redis' = redis /\ clock' = clock /\ day' = day /\ windows' = windows
      /\ pending' = pending /\ created' = created /\ admitted' = admitted
      /\ granted' = granted /\ overlapped' = overlapped
  BY DEF redis_rollback, historyVars
<1>2. SubmissionTypeOK /\ r \in Served /\ "rejected" \in Stages
  BY <1>1 DEF SubmissionInv, Served, Stages
<1>3. /\ requests' \in [Requests -> Request]
      /\ requests'[r].stage = "rejected" /\ requests'[r].kind = requests[r].kind
      /\ requests'[r].todo = requests[r].todo
      /\ \A s \in Requests : s # r => requests'[s] = requests[s]
  BY <1>1, <1>2, RequestGoes
<1>4. PICK on \in Days : on = requests[r].on
  BY <1>2, RequestTypes
<1>5. /\ IsFiniteSet(Holding(on)) /\ Cardinality(Holding(on)) \in Nat /\ r \in Holding(on)
      /\ granted[on] + Cardinality(Holding(on)) <= counters[on]
      /\ granted[on] \in Nat /\ counters[on] \in Nat
  BY <1>1, <1>2, <1>4, ReservationMade, CountOf DEF Holding, SubmissionInv, ReservedInv
<1>6. Cardinality(Holding(on) \ {r}) = Cardinality(Holding(on)) - 1 /\ Cardinality(Holding(on) \ {r}) \in Nat
  BY <1>5, FS_RemoveElement, FS_CardinalityType
<1>7. counters[on] - 1 \in Nat
  BY <1>5, <1>6
<1>8. /\ counters' \in [Days -> Nat] /\ counters'[on] = counters[on] - 1
      /\ \A d \in Days : d # on => counters'[d] = counters[d]
  <2>1. counters \in [Days -> Nat]
    BY <1>2 DEF SubmissionTypeOK
  <2> QED
    BY <1>1, <1>4, <1>7, <2>1
<1>9. SubmissionTypeOK'
  BY <1>1, <1>2, <1>3, <1>8 DEF SubmissionTypeOK
<1>10. WindowsInv'
  BY <1>1, WindowsUntouched DEF SubmissionInv
<1>11. ReservedInv'
  <2> SUFFICES ASSUME NEW d \in Days
               PROVE  /\ granted[d] + Cardinality(Holding(d)') <= counters'[d]
                      /\ granted[d] + Cardinality(Passing(d)') <= DailyLimit
    BY <1>1 DEF ReservedInv
  <2>1. /\ granted[d] + Cardinality(Holding(d)) <= counters[d]
        /\ granted[d] + Cardinality(Passing(d)) <= DailyLimit
    BY DEF SubmissionInv, ReservedInv
  <2>2. Holding(d)' = Holding(d) \ {r} /\ Passing(d)' = Passing(d)
    BY <1>1, <1>3 DEF Holding, Passing
  <2>3. CASE d # on
    <3>1. r \notin Holding(d)
      BY <1>4, <2>3 DEF Holding
    <3>2. Holding(d)' = Holding(d)
      BY <2>2, <3>1
    <3> QED
      BY <1>8, <2>1, <2>2, <2>3, <3>2
  <2>4. CASE d = on
    BY <1>5, <1>6, <1>8, <2>1, <2>2, <2>4
  <2> QED
    BY <2>3, <2>4
<1>12. TodoInv'
  BY <1>1, <1>2, <1>3, TodoKept DEF SubmissionInv, Served
<1>13. ~DepthChecked(r)'
  BY <1>3, DepthOf
<1>14. DepthInv'
  BY <1>1, <1>2, <1>3, <1>13, DepthKept DEF SubmissionInv
<1> QED
  BY <1>9, <1>10, <1>11, <1>12, <1>14 DEF SubmissionInv

(* A task is created, which the reservation or the retry pays for.         *)
LEMMA TaskCreated ==
    ASSUME SubmissionInv, NEW r \in Requests, create_task(r) PROVE SubmissionInv'
<1>1. /\ requests[r].stage = "insert" /\ pending' = pending + 1
      /\ created' = [created EXCEPT ![r] = created[r] + 1]
      /\ requests' = [requests EXCEPT ![r] = [requests[r] EXCEPT !.stage = "token",
                                                 !.todo = requests[r].todo - 1]]
      /\ redis' = redis /\ clock' = clock /\ day' = day /\ windows' = windows /\ counters' = counters
      /\ admitted' = admitted /\ granted' = granted /\ overlapped' = overlapped
  <2>1. requests \in [Requests -> Request]
    BY DEF SubmissionInv, SubmissionTypeOK
  <2> QED
    BY <2>1 DEF create_task, historyVars, Request
<1>2. SubmissionTypeOK /\ r \in Served /\ requests[r].todo > 0
      /\ created[r] + requests[r].todo = Tasks(requests[r].kind)
  BY <1>1 DEF SubmissionInv, Served, TodoInv
<1>3. requests \in [Requests -> Request] /\ requests[r] \in Request
      /\ created \in [Requests -> 0 .. BatchSize] /\ pending \in Nat
  BY <1>2 DEF SubmissionTypeOK
<1>4. /\ requests[r].todo \in Nat /\ created[r] \in Nat /\ requests[r].todo \in 0 .. BatchSize
      /\ requests[r].kind \in Kinds
  BY <1>2, RequestTypes
<1>5. Tasks(requests[r].kind) <= BatchSize /\ Tasks(requests[r].kind) \in Nat
      /\ (requests[r].kind # "/tasks/batch" => Tasks(requests[r].kind) = 1)
  BY SubmissionConstants DEF Tasks
<1>6. requests[r].todo - 1 \in 0 .. BatchSize /\ created[r] + 1 \in 0 .. BatchSize
      /\ created[r] + 1 > 0
  BY <1>2, <1>4, <1>5, SubmissionConstants
<1>7. [requests[r] EXCEPT !.stage = "token", !.todo = requests[r].todo - 1] \in Request
  BY <1>3, <1>6 DEF Request, Stages
<1>8. /\ requests' \in [Requests -> Request]
      /\ requests'[r].stage = "token" /\ requests'[r].kind = requests[r].kind
      /\ requests'[r].todo = requests[r].todo - 1
      /\ \A s \in Requests : s # r => requests'[s] = requests[s]
  BY <1>1, <1>3, <1>7 DEF Request
<1>9. /\ created' \in [Requests -> 0 .. BatchSize] /\ created'[r] = created[r] + 1
      /\ \A s \in Requests : s # r => created'[s] = created[s]
  BY <1>1, <1>3, <1>6
<1>10. SubmissionTypeOK'
  BY <1>1, <1>2, <1>3, <1>8, <1>9 DEF SubmissionTypeOK
<1>11. WindowsInv'
  BY <1>1, WindowsUntouched DEF SubmissionInv
<1>12. ReservedInv'
  BY <1>1, <1>2, <1>8, ReservationLeft DEF SubmissionInv
<1>13. TodoInv'
  <2>1. created'[r] + requests'[r].todo = Tasks(requests'[r].kind)
    BY <1>2, <1>4, <1>5, <1>8, <1>9
  <2> QED
    BY <1>8, <1>9, <2>1 DEF SubmissionInv, TodoInv
<1>14. DepthInv'
  <2> SUFFICES ASSUME Alone, DepthBound PROVE Alone' /\ DepthBound'
    BY <1>1 DEF SubmissionInv, DepthInv
  <2>1. Served' = Served /\ r \in Served /\ \A s \in Served : requests'[s].kind = requests[s].kind
    BY <1>2, <1>8 DEF Served
  <2>2. Alone'
    BY <2>1 DEF Alone
  <2>3. /\ Retried \in SUBSET Requests /\ IsFiniteSet(Retried) /\ Cardinality(Retried) \in Nat
        /\ MaxQueued \in Nat
    BY CountOf, SubmissionConstants DEF Retried
  <2>4. \A s \in Requests : requests[s].todo \in Nat
    BY <1>2, RequestTypes
  <2>5. CASE requests[r].kind = "retry"
    <3>1. created[r] = 0
      BY <1>2, <1>4, <1>5, <2>5
    <3>2. Retried' = Retried \cup {r} /\ r \notin Retried
      BY <1>6, <1>8, <1>9, <2>5, <3>1 DEF Retried
    <3>3. Cardinality(Retried') = Cardinality(Retried) + 1
      BY <2>3, <3>2, FS_AddElement
    <3>4. ~DepthChecked(r)'
      BY <1>8, <2>5, DepthOf
    <3>5. pending' <= MaxQueued + Cardinality(Retried')
      BY <1>1, <1>3, <2>3, <3>3 DEF DepthBound
    <3>6. ASSUME NEW s \in Requests, DepthChecked(s)'
          PROVE  pending' + requests'[s].todo <= MaxQueued + Cardinality(Retried')
      <4>1. requests'[s] = requests[s]
        BY <1>8, <3>4, <3>6
      <4>2. DepthChecked(s)
        BY <3>6, <4>1 DEF DepthChecked
      <4>3. pending + requests[s].todo <= MaxQueued + Cardinality(Retried)
        BY <4>2 DEF DepthBound
      <4> QED
        BY <1>1, <1>3, <2>3, <2>4, <3>3, <4>1, <4>3
    <3> QED
      BY <2>2, <3>5, <3>6 DEF DepthBound
  <2>6. CASE requests[r].kind # "retry"
    <3>1. Retried' = Retried
      BY <1>8, <1>9, <2>6 DEF Retried
    <3>2. requests[r].kind \in Paths /\ DepthChecked(r)
      BY <1>1, <1>4, <2>6 DEF Kinds, Paths, DepthChecked
    <3>3. pending + requests[r].todo <= MaxQueued + Cardinality(Retried)
      BY <3>2 DEF DepthBound
    <3>4. pending' + requests'[r].todo <= MaxQueued + Cardinality(Retried)
      BY <1>1, <1>3, <1>4, <1>8, <2>3, <3>3
    <3>5. pending' <= MaxQueued + Cardinality(Retried)
      BY <1>1, <1>2, <1>3, <1>4, <2>3, <3>3
    <3>6. ASSUME NEW s \in Requests, DepthChecked(s)' PROVE s = r
      <4>1. s \in Served' /\ requests'[s].kind \in Paths
        BY <3>6 DEF DepthChecked, Served, Paths
      <4> QED
        BY <2>1, <3>2, <4>1 DEF Alone
    <3> QED
      BY <2>2, <3>1, <3>4, <3>5, <3>6 DEF DepthBound
  <2> QED
    BY <2>5, <2>6
<1> QED
  BY <1>10, <1>11, <1>12, <1>13, <1>14 DEF SubmissionInv

(* A task ends.                                                            *)
LEMMA TaskEnds == ASSUME SubmissionInv, task_ends PROVE SubmissionInv'
<1>1. /\ pending > 0 /\ pending' = pending - 1
      /\ redis' = redis /\ clock' = clock /\ day' = day /\ windows' = windows /\ requests' = requests
      /\ counters' = counters /\ created' = created /\ admitted' = admitted
      /\ granted' = granted /\ overlapped' = overlapped
  BY DEF task_ends, historyVars
<1>2. SubmissionTypeOK /\ pending \in Nat
  BY DEF SubmissionInv, SubmissionTypeOK
<1>3. SubmissionTypeOK'
  BY <1>1, <1>2 DEF SubmissionTypeOK
<1>4. WindowsInv'
  BY <1>1, WindowsUntouched DEF SubmissionInv
<1>5. ReservedInv'
  BY <1>1 DEF SubmissionInv, ReservedInv, Holding, Passing
<1>6. TodoInv'
  BY <1>1 DEF SubmissionInv, TodoInv
<1>7. DepthInv'
  <2> SUFFICES ASSUME Alone, DepthBound PROVE Alone' /\ DepthBound'
    BY <1>1 DEF SubmissionInv, DepthInv
  <2>1. Alone' /\ Retried' = Retried /\ \A s \in Requests : DepthChecked(s)' => DepthChecked(s)
    BY <1>1 DEF Alone, Served, Retried, DepthChecked
  <2>2. Cardinality(Retried) \in Nat /\ MaxQueued \in Nat
    BY CountOf, SubmissionConstants DEF Retried
  <2>3. pending' <= MaxQueued + Cardinality(Retried)
    BY <1>1, <1>2, <2>2 DEF DepthBound
  <2>4. ASSUME NEW s \in Requests, DepthChecked(s)'
        PROVE  pending' + requests'[s].todo <= MaxQueued + Cardinality(Retried)
    <3>1. pending + requests[s].todo <= MaxQueued + Cardinality(Retried)
      BY <2>1, <2>4 DEF DepthBound
    <3>2. requests[s].todo \in Nat
      BY <1>2, RequestTypes
    <3> QED
      BY <1>1, <1>2, <2>2, <3>1, <3>2
  <2> QED
    BY <2>1, <2>3, <2>4 DEF DepthBound
<1> QED
  BY <1>3, <1>4, <1>5, <1>6, <1>7 DEF SubmissionInv

(* Time passes, and the day changes.                                       *)
LEMMA SubmissionTimePasses == ASSUME SubmissionInv, tick \/ midnight PROVE SubmissionInv'
<1>1. /\ pending' = pending /\ redis' = redis /\ windows' = windows /\ requests' = requests
      /\ counters' = counters /\ created' = created /\ admitted' = admitted
      /\ granted' = granted /\ overlapped' = overlapped
  BY DEF tick, midnight, historyVars
<1>2. SubmissionTypeOK
  BY DEF SubmissionInv
<1>3. \/ clock < MaxClock /\ clock' = clock + 1 /\ day' = day
      \/ day < LastDay /\ day' = day + 1 /\ clock' = clock
  BY DEF tick, midnight, historyVars
<1>4. clock' \in 0 .. MaxClock /\ day' \in Days
  BY <1>2, <1>3, SubmissionConstants DEF SubmissionTypeOK, Days
<1>5. SubmissionTypeOK'
  BY <1>1, <1>2, <1>4 DEF SubmissionTypeOK
<1>6. WindowsInv'
  BY <1>1, <1>2, <1>3, WindowsUntouched, WindowsTick DEF SubmissionInv
<1>7. ReservedInv'
  BY <1>1 DEF SubmissionInv, ReservedInv, Holding, Passing
<1>8. TodoInv'
  BY <1>1 DEF SubmissionInv, TodoInv
<1>9. DepthInv'
  BY <1>1 DEF SubmissionInv, DepthInv, Alone, Served, DepthBound, Retried, DepthChecked
<1> QED
  BY <1>5, <1>6, <1>7, <1>8, <1>9 DEF SubmissionInv

(* The invariant holds at the start.                                       *)
LEMMA SubmissionInvInit == SubmissionInit => SubmissionInv
<1> SUFFICES ASSUME SubmissionInit PROVE SubmissionInv
  OBVIOUS
<1>1. /\ redis \in BOOLEAN /\ clock = 0 /\ day = 0 /\ windows = [p \in Paths |-> {}]
      /\ requests = [r \in Requests |-> Unsent] /\ counters = [d \in Days |-> 0] /\ pending = 0
      /\ created = [r \in Requests |-> 0] /\ admitted = [p \in Paths |-> {}]
      /\ granted = [d \in Days |-> 0] /\ overlapped = FALSE
  BY DEF SubmissionInit
<1>2. Unsent \in Request /\ Unsent.stage = "unsent"
  BY SubmissionConstants DEF Unsent, Request, Stages, Kinds, Paths
<1>3. SubmissionTypeOK
  <2>1. clock \in 0 .. MaxClock /\ day \in Days /\ pending \in Nat
    BY <1>1, SubmissionConstants
  <2>2. windows \in [Paths -> SUBSET Entries] /\ admitted \in [Paths -> SUBSET Entries]
    BY <1>1
  <2>3. created \in [Requests -> 0 .. BatchSize] /\ requests \in [Requests -> Request]
    BY <1>1, <1>2, SubmissionConstants
  <2>4. counters \in [Days -> Nat] /\ granted \in [Days -> Nat]
    BY <1>1
  <2> QED
    BY <1>1, <2>1, <2>2, <2>3, <2>4 DEF SubmissionTypeOK
<1>4. WindowsInv
  <2>1. \A p \in Paths : admitted[p] = {}
    BY <1>1
  <2>2. \A p \in Paths : evict(admitted[p]) = {}
    BY <2>1 DEF evict
  <2>3. \A p \in Paths : \A s \in Nat : {e \in admitted[p] : e[2] \in s .. s + Window - 1} = {}
    BY <2>1
  <2>4. Cardinality({}) = 0 /\ 0 <= RateLimit
    BY SubmissionConstants, FS_EmptySet
  <2>5. \A p \in Paths : \A s \in Nat :
           Cardinality({e \in admitted[p] : e[2] \in s .. s + Window - 1}) <= RateLimit
    BY <2>3, <2>4, Zenon
  <2>6. \A p \in Paths : \A e \in admitted[p] : e[2] <= clock
    BY <2>1
  <2> QED
    BY <2>2, <2>5, <2>6 DEF WindowsInv
<1>5. ReservedInv
  <2>1. \A d \in Days : Holding(d) = {} /\ Passing(d) = {} /\ granted[d] = 0 /\ counters[d] = 0
    BY <1>1, <1>2 DEF Holding, Passing
  <2> QED
    BY <2>1, SubmissionConstants, FS_EmptySet DEF ReservedInv
<1>6. TodoInv
  BY <1>1, <1>2 DEF TodoInv
<1>7. DepthInv
  <2>1. Served = {} /\ Retried = {} /\ \A r \in Requests : ~DepthChecked(r)
    BY <1>1, <1>2 DEF Served, Retried, DepthChecked
  <2> QED
    BY <1>1, <2>1, SubmissionConstants, FS_EmptySet DEF DepthInv, Alone, DepthBound
<1> QED
  BY <1>3, <1>4, <1>5, <1>6, <1>7 DEF SubmissionInv

(* Every step keeps the invariant.                                         *)
LEMMA SubmissionInvHolds == SubmissionSpec => []SubmissionInv
<1>1. ASSUME SubmissionInv, [SubmissionNext]_submissionVars PROVE SubmissionInv'
  <2>1. CASE UNCHANGED submissionVars
    <3>1. SubmissionTypeOK'
      BY <1>1, <2>1 DEF SubmissionInv, SubmissionTypeOK, submissionVars, historyVars
    <3>2. WindowsInv'
      BY <1>1, <2>1, WindowsUntouched DEF SubmissionInv, submissionVars, historyVars
    <3>3. ReservedInv' /\ TodoInv'
      BY <1>1, <2>1 DEF SubmissionInv, ReservedInv, Holding, Passing, TodoInv, submissionVars, historyVars
    <3>4. DepthInv'
      BY <1>1, <2>1 DEF SubmissionInv, DepthInv, Alone, Served, DepthBound, Retried, DepthChecked,
                        submissionVars, historyVars
    <3> QED
      BY <3>1, <3>2, <3>3, <3>4 DEF SubmissionInv
  <2>2. ASSUME NEW r \in Requests, submit_task(r) \/ submit_tasks_batch(r) \/ retry_task(r)
        PROVE  SubmissionInv'
    <3>1. \E kind \in Kinds : dispatch(r, kind)
      BY <2>2 DEF submit_task, submit_tasks_batch, retry_task, Kinds, Paths
    <3> QED
      BY <1>1, <3>1, RequestDispatched
  <2>3. ASSUME NEW r \in Requests, serve(r) PROVE SubmissionInv'
    <3>1. CASE per_user_budget_check(r)
      <4>1. redis_compare(r) => SubmissionInv'
        BY <1>1, BudgetPasses, BudgetExceeded
      <4> QED
        BY <1>1, <3>1, <4>1, ChecksDatabase, BudgetIncremented, BudgetRollsBack
           DEF per_user_budget_check, redis_budget_check_and_reserve
    <3> QED
      BY <1>1, <2>3, <3>1, ChecksDepth, RefusesTask, TaskCreated, CreatesToken, RequestFails DEF serve
  <2>4. CASE task_ends \/ tick \/ midnight
    BY <1>1, <2>4, TaskEnds, SubmissionTimePasses
  <2> QED
    BY <1>1, <2>1, <2>2, <2>3, <2>4 DEF SubmissionNext
<1> QED
  BY SubmissionInvInit, <1>1, PTL DEF SubmissionSpec

(* The invariant implies the properties.                                   *)
LEMMA SubmissionInvImplies == SubmissionInv => SubmissionInvariant
<1> SUFFICES ASSUME SubmissionInv PROVE SubmissionInvariant
  OBVIOUS
<1>1. WindowHolds
  <2>1. ASSUME NEW p \in Paths, NEW a \in admitted[p]
        PROVE  Cardinality({b \in admitted[p] : b[2] \in a[2] .. a[2] + Window - 1}) <= RateLimit
    <3>1. a[2] \in Nat
      BY DEF SubmissionInv, SubmissionTypeOK, Entries
    <3> QED
      BY <3>1 DEF SubmissionInv, WindowsInv
  <2> QED
    BY <2>1 DEF WindowHolds
<1>2. BudgetHolds
  <2>1. ASSUME NEW d \in Days PROVE granted[d] <= DailyLimit /\ granted[d] <= counters[d]
    <3>1. /\ granted[d] + Cardinality(Holding(d)) <= counters[d]
          /\ granted[d] + Cardinality(Passing(d)) <= DailyLimit
      BY DEF SubmissionInv, ReservedInv
    <3> QED
      BY <3>1, ReservationMade, SubmissionConstants DEF SubmissionInv
  <2> QED
    BY <2>1 DEF BudgetHolds
<1>3. DepthHolds
  BY DEF SubmissionInv, DepthInv, DepthBound, DepthHolds, Retried
<1> QED
  BY <1>1, <1>2, <1>3 DEF SubmissionInvariant, SubmissionInv

(* Whatever submissions, batches and retries overlap on whatever           *)
(* gateways: no span of the window's length lets more requests through     *)
(* than the rate limit, what passed the check of a day never exceeds its   *)
(* limit nor the counter, and requests that do not overlap respect the     *)
(* depth of the queue (src/gateway/routes/tasks.py,                        *)
(* src/gateway/state.py).                                                  *)
THEOREM SubmissionCorrect == SubmissionSpec => []SubmissionInvariant
BY SubmissionInvHolds, SubmissionInvImplies, PTL

-----------------------------------------------------------------------------
(****************************************************************************)
(* The limiter of a provider, for every number of calls, tokens and days.   *)
(* The two properties are about the sum of the estimates of the calls in    *)
(* flight, and so is the invariant (Balanced): it says them of any          *)
(* function that gives each call its estimate, so that a step is a lemma    *)
(* on two such functions, of which one reserves, releases or counts one     *)
(* call. No call is ahead of the counter and the counter not of the         *)
(* calendar (Dated): so a new day begins with no call in flight. Every      *)
(* call adds to each counter once (Bounded), which bounds them.             *)
(****************************************************************************)

(* Calls, the tokens that some of them reserved, and how many these are,   *)
(* of any function that says what each call reserved.                      *)
LlmCalls == [stage : {"idle", "refused", "waiting", "calling", "left", "over"},
             estimate : 0 .. PerCall, reserved_on : 0 .. LastDate,
             used : 0 .. MostUsed, counted : BOOLEAN]
InFlight(cs, d) == {c \in Guarded : cs[c].stage \in {"waiting", "calling"}
                                    /\ cs[c].reserved_on = d}
Uncounted(cs, d) == {c \in InFlight(cs, d) : ~cs[c].counted}
Tokens(S, cs) == {x \in S \X (1 .. PerCall) : x[2] <= cs[x[1]].estimate}
TokenSum(S, cs) == Cardinality(Tokens(S, cs))

(* The two properties, of a day d with r tokens reserved and t counted,    *)
(* s of them stolen and u unreserved.                                      *)
Balanced(cs, d, r, t, s, u) ==
    /\ r <= TokenSum(InFlight(cs, d), cs) /\ TokenSum(InFlight(cs, d), cs) <= r + s
    /\ t + TokenSum(Uncounted(cs, d), cs) <= HardLimit + u + s

CountedCalls(cs) == {c \in Guarded : cs[c].counted}
WrittenCalls(cs) == {c \in Guarded : cs[c].counted /\ cs[c].used = 0}
GoneCalls(cs) == {c \in Guarded : cs[c].stage \in {"left", "over"}}

CountsTypeOK ==
    /\ date \in 0 .. LastDate
    /\ daily \in [date : 0 .. LastDate, total_tokens : Nat, reserved : Nat]
    /\ llm_calls \in [Guarded -> LlmCalls]
    /\ bucket \in 0 .. PerMinute /\ api_usage \in [0 .. LastDate -> Nat]
    /\ stolen \in Nat /\ unreserved \in Nat

(* The counter is never ahead of the calendar, nor a call of the counter.  *)
Dated ==
    /\ daily.date <= date
    /\ \A c \in Guarded :
          /\ llm_calls[c].reserved_on <= daily.date
          /\ llm_calls[c].counted => llm_calls[c].stage \in {"calling", "left", "over"}

(* Every call adds to a counter once.                                      *)
Bounded ==
    /\ daily.total_tokens <= MostUsed * Cardinality(CountedCalls(llm_calls))
    /\ unreserved <= MostUsed * Cardinality(CountedCalls(llm_calls))
    /\ \A d \in 0 .. LastDate : api_usage[d] <= MostUsed * Cardinality(WrittenCalls(llm_calls))
    /\ stolen <= PerCall * Cardinality(GoneCalls(llm_calls))

LimiterInv ==
    /\ CountsTypeOK /\ Dated /\ Bounded
    /\ Balanced(llm_calls, daily.date, daily.reserved, daily.total_tokens, stolen, unreserved)

(* The limits are numbers, and the calls finitely many.                    *)
LEMMA LimiterConstants ==
    /\ IsFiniteSet(Guarded) /\ Cardinality(Guarded) \in Nat
    /\ HardLimit \in Nat /\ PerCall \in Nat \ {0} /\ PerMinute \in Nat \ {0}
    /\ MostUsed \in Nat /\ LastDate \in Nat
BY RateLimiterAssumption, FS_CardinalityType DEF RateLimiterAssumption

(* The tokens of some calls are finitely many.                             *)
LEMMA TokensFinite ==
    ASSUME NEW S \in SUBSET Guarded, NEW cs
    PROVE  /\ IsFiniteSet(Tokens(S, cs)) /\ TokenSum(S, cs) \in Nat
           /\ TokenSum(S, cs) <= Cardinality(Guarded) * PerCall
<1>1. IsFiniteSet(1 .. PerCall) /\ Cardinality(1 .. PerCall) = PerCall
  <2>1. PerCall \in Int /\ 1 \in Int /\ PerCall >= 1
    BY LimiterConstants
  <2>2. /\ IsFiniteSet(1 .. PerCall)
        /\ Cardinality(1 .. PerCall) = IF 1 > PerCall THEN 0 ELSE PerCall - 1 + 1
    BY <2>1, FS_Interval
  <2> QED
    BY <2>1, <2>2
<1>2. /\ IsFiniteSet(Guarded \X (1 .. PerCall))
      /\ Cardinality(Guarded \X (1 .. PerCall)) = Cardinality(Guarded) * PerCall
  BY <1>1, LimiterConstants, FS_Product
<1>3. Tokens(S, cs) \in SUBSET (Guarded \X (1 .. PerCall))
  BY DEF Tokens
<1> QED
  BY <1>2, <1>3, FS_Subset, FS_CardinalityType DEF TokenSum

(* The sum is that of the estimates: none for no calls, and one call more  *)
(* adds its estimate.                                                      *)
LEMMA SumEmpty ==
    ASSUME NEW cs
    PROVE  TokenSum({}, cs) = 0
<1>1. Tokens({}, cs) = {}
  BY DEF Tokens
<1> QED
  BY <1>1, FS_EmptySet, Zenon DEF TokenSum

(* One more call adds its estimate: one pair for each of its tokens.       *)
LEMMA SumAdds ==
    ASSUME NEW S \in SUBSET Guarded, NEW cs, NEW c \in Guarded, c \notin S,
           cs[c].estimate \in 0 .. PerCall
    PROVE  TokenSum(S \cup {c}, cs) = TokenSum(S, cs) + cs[c].estimate
<1>1. PICK e \in 0 .. PerCall : e = cs[c].estimate
  OBVIOUS
<1>2. e \in Int /\ 1 \in Int /\ e >= 0 /\ e <= PerCall /\ PerCall \in Nat
  BY LimiterConstants
<1>3. PICK T : T = {c} \X (1 .. e)
  OBVIOUS
<1>4. IsFiniteSet(T) /\ Cardinality(T) = e
  <2>1. IsFiniteSet(1 .. e) /\ Cardinality(1 .. e) = IF 1 > e THEN 0 ELSE e - 1 + 1
    BY <1>2, FS_Interval
  <2>2. Cardinality(1 .. e) = e
    BY <1>2, <2>1
  <2>3. IsFiniteSet({c}) /\ Cardinality({c}) = 1
    BY FS_Singleton, Zenon
  <2>4. IsFiniteSet(T) /\ Cardinality(T) = Cardinality({c}) * Cardinality(1 .. e)
    BY <1>3, <2>1, <2>3, FS_Product
  <2> QED
    BY <1>2, <2>2, <2>3, <2>4
<1>5. Tokens(S \cup {c}, cs) = Tokens(S, cs) \cup T
  <2>1. ASSUME NEW x PROVE x \in Tokens(S \cup {c}, cs) <=> x \in Tokens(S, cs) \cup T
    <3>1. x \in Tokens(S \cup {c}, cs) => x \in Tokens(S, cs) \cup T
      BY <1>1, <1>2, <1>3 DEF Tokens
    <3>2. x \in T => x \in Tokens(S \cup {c}, cs)
      BY <1>1, <1>2, <1>3 DEF Tokens
    <3>3. x \in Tokens(S, cs) => x \in Tokens(S \cup {c}, cs)
      BY DEF Tokens
    <3> QED
      BY <3>1, <3>2, <3>3
  <2> QED
    BY <2>1
<1>6. Tokens(S, cs) \cap T = {}
  BY <1>3 DEF Tokens
<1>7. IsFiniteSet(Tokens(S, cs)) /\ Cardinality(Tokens(S, cs)) \in Nat
  BY TokensFinite DEF TokenSum
<1>8. Cardinality(Tokens(S, cs) \cup T)
        = Cardinality(Tokens(S, cs)) + Cardinality(T) - Cardinality(Tokens(S, cs) \cap T)
  BY <1>4, <1>7, FS_Union
<1>9. Cardinality(Tokens(S, cs) \cap T) = 0
  BY <1>6, FS_EmptySet, Zenon
<1>10. Cardinality(Tokens(S, cs) \cup T) = Cardinality(Tokens(S, cs)) + e
  BY <1>2, <1>4, <1>7, <1>8, <1>9
<1> QED
  BY <1>1, <1>5, <1>10, Zenon DEF TokenSum

(* Only the estimates of the calls matter.                                 *)
LEMMA SumSame ==
    ASSUME NEW S \in SUBSET Guarded, NEW cs, NEW ds,
           \A c \in S : ds[c].estimate = cs[c].estimate
    PROVE  TokenSum(S, ds) = TokenSum(S, cs)
<1>1. Tokens(S, ds) = Tokens(S, cs)
  BY DEF Tokens
<1> QED
  BY <1>1 DEF TokenSum

(* Fewer calls reserve no more.                                            *)
LEMMA SumShorter ==
    ASSUME NEW S \in SUBSET Guarded, NEW T \in SUBSET S, NEW cs
    PROVE  TokenSum(T, cs) <= TokenSum(S, cs)
<1>1. Tokens(T, cs) \in SUBSET Tokens(S, cs) /\ IsFiniteSet(Tokens(S, cs))
  BY TokensFinite DEF Tokens
<1> QED
  BY <1>1, FS_Subset DEF TokenSum

(* The sums of the calls in flight and of those of them that are not       *)
(* counted are numbers.                                                    *)
LEMMA InFlightFacts ==
    ASSUME NEW cs \in [Guarded -> LlmCalls], NEW d
    PROVE  /\ InFlight(cs, d) \in SUBSET Guarded /\ Uncounted(cs, d) \in SUBSET InFlight(cs, d)
           /\ Uncounted(cs, d) \in SUBSET Guarded
           /\ TokenSum(InFlight(cs, d), cs) \in Nat /\ TokenSum(Uncounted(cs, d), cs) \in Nat
           /\ TokenSum(Uncounted(cs, d), cs) <= TokenSum(InFlight(cs, d), cs)
<1>1. /\ InFlight(cs, d) \in SUBSET Guarded /\ Uncounted(cs, d) \in SUBSET InFlight(cs, d)
      /\ Uncounted(cs, d) \in SUBSET Guarded
  BY DEF InFlight, Uncounted
<1> QED
  BY <1>1, TokensFinite, SumShorter

(* A day on which no call reserved yet.                                    *)
LEMMA BalancedNew ==
    ASSUME NEW cs \in [Guarded -> LlmCalls], NEW d \in Nat,
           \A c \in Guarded : cs[c].reserved_on < d
    PROVE  Balanced(cs, d, 0, 0, 0, 0) /\ InFlight(cs, d) = {}
<1>1. InFlight(cs, d) = {} /\ Uncounted(cs, d) = {}
  <2>1. \A c \in Guarded : cs[c].reserved_on \in Nat
    BY LimiterConstants DEF LlmCalls
  <2> QED
    BY <2>1 DEF InFlight, Uncounted
<1> QED
  BY <1>1, SumEmpty, LimiterConstants DEF Balanced

(* What does not touch a call in flight.                                   *)
LEMMA BalancedSame ==
    ASSUME NEW cs \in [Guarded -> LlmCalls], NEW ds \in [Guarded -> LlmCalls], NEW d,
           NEW r \in Nat, NEW t \in Nat, NEW s \in Nat, NEW u \in Nat,
           InFlight(ds, d) = InFlight(cs, d),
           \A c \in InFlight(cs, d) : /\ ds[c].estimate = cs[c].estimate
                                      /\ ds[c].counted = cs[c].counted,
           Balanced(cs, d, r, t, s, u)
    PROVE  Balanced(ds, d, r, t, s, u)
<1>1. Uncounted(ds, d) = Uncounted(cs, d)
  BY DEF Uncounted
<1>2. /\ TokenSum(InFlight(ds, d), ds) = TokenSum(InFlight(cs, d), cs)
      /\ TokenSum(Uncounted(ds, d), ds) = TokenSum(Uncounted(cs, d), cs)
  <2>1. InFlight(cs, d) \in SUBSET Guarded /\ Uncounted(cs, d) \in SUBSET Guarded
    BY InFlightFacts
  <2>2. \A c \in Uncounted(cs, d) : ds[c].estimate = cs[c].estimate
    BY DEF Uncounted
  <2>3. /\ TokenSum(InFlight(cs, d), ds) = TokenSum(InFlight(cs, d), cs)
        /\ TokenSum(Uncounted(cs, d), ds) = TokenSum(Uncounted(cs, d), cs)
    BY <2>1, <2>2, SumSame
  <2> QED
    BY <1>1, <2>3
<1> QED
  BY <1>2 DEF Balanced

(* A call reserves what the limit has left.                                *)
LEMMA BalancedReserve ==
    ASSUME NEW cs \in [Guarded -> LlmCalls], NEW ds \in [Guarded -> LlmCalls], NEW d,
           NEW r \in Nat, NEW t \in Nat, NEW s \in Nat, NEW u \in Nat,
           NEW c \in Guarded, NEW n \in 1 .. PerCall,
           cs[c].stage = "idle", ds[c].stage = "waiting", ds[c].reserved_on = d,
           ds[c].estimate = n, ~ds[c].counted,
           \A b \in Guarded \ {c} : ds[b] = cs[b],
           t + r + n <= HardLimit, Balanced(cs, d, r, t, s, u)
    PROVE  Balanced(ds, d, r + n, t, s, u)
<1>1. InFlight(ds, d) = InFlight(cs, d) \cup {c} /\ c \notin InFlight(cs, d)
  BY DEF InFlight
<1>2. Uncounted(ds, d) = Uncounted(cs, d) \cup {c} /\ c \notin Uncounted(cs, d)
  BY <1>1 DEF Uncounted, InFlight
<1>3. n \in Nat /\ n \in 0 .. PerCall
  BY LimiterConstants
<1>4. /\ TokenSum(InFlight(cs, d), ds) = TokenSum(InFlight(cs, d), cs)
      /\ TokenSum(Uncounted(cs, d), ds) = TokenSum(Uncounted(cs, d), cs)
  <2>1. /\ InFlight(cs, d) \in SUBSET Guarded /\ Uncounted(cs, d) \in SUBSET Guarded
        /\ \A b \in InFlight(cs, d) : ds[b].estimate = cs[b].estimate
        /\ \A b \in Uncounted(cs, d) : ds[b].estimate = cs[b].estimate
    BY <1>1, <1>2 DEF InFlight, Uncounted
  <2> QED
    BY <2>1, SumSame
<1>5. /\ TokenSum(InFlight(ds, d), ds) = TokenSum(InFlight(cs, d), cs) + n
      /\ TokenSum(Uncounted(ds, d), ds) = TokenSum(Uncounted(cs, d), cs) + n
  <2>1. InFlight(cs, d) \in SUBSET Guarded /\ Uncounted(cs, d) \in SUBSET Guarded
    BY InFlightFacts
  <2>2. ds[c].estimate \in 0 .. PerCall
    BY <1>3
  <2>3. /\ TokenSum(InFlight(cs, d) \cup {c}, ds) = TokenSum(InFlight(cs, d), ds) + ds[c].estimate
        /\ TokenSum(Uncounted(cs, d) \cup {c}, ds) = TokenSum(Uncounted(cs, d), ds) + ds[c].estimate
    <3>1. \A S \in SUBSET Guarded : c \notin S => TokenSum(S \cup {c}, ds) = TokenSum(S, ds) + ds[c].estimate
      BY <2>2, SumAdds
    <3> QED
      BY <1>1, <1>2, <2>1, <3>1
  <2> QED
    BY <1>1, <1>2, <1>4, <2>3
<1>6. /\ TokenSum(InFlight(cs, d), cs) \in Nat /\ TokenSum(Uncounted(cs, d), cs) \in Nat
      /\ TokenSum(Uncounted(cs, d), cs) <= TokenSum(InFlight(cs, d), cs)
  BY InFlightFacts
<1> QED
  BY <1>3, <1>5, <1>6, LimiterConstants DEF Balanced

(* A call leaves: what it reserved goes with it, or it takes from others.  *)
LEMMA BalancedExit ==
    ASSUME NEW cs \in [Guarded -> LlmCalls], NEW ds \in [Guarded -> LlmCalls], NEW d,
           NEW r \in Nat, NEW t \in Nat, NEW s \in Nat, NEW u \in Nat,
           NEW c \in Guarded, NEW e \in Nat, e = cs[c].estimate,
           ds[c].stage \in {"left", "over"},
           \A b \in Guarded \ {c} : ds[b] = cs[b],
           Balanced(cs, d, r, t, s, u),
           NEW left \in Nat, left = IF r < e THEN 0 ELSE r - e,
           NEW taken \in Nat, taken = s + (IF r < e THEN r ELSE e)
    PROVE  IF c \in InFlight(cs, d) THEN Balanced(ds, d, left, t, s, u)
           ELSE Balanced(ds, d, left, t, taken, u)
<1>1. InFlight(ds, d) = InFlight(cs, d) \ {c} /\ Uncounted(ds, d) = Uncounted(cs, d) \ {c}
  BY DEF InFlight, Uncounted
<1>2. /\ TokenSum(InFlight(ds, d), ds) = TokenSum(InFlight(ds, d), cs)
      /\ TokenSum(Uncounted(ds, d), ds) = TokenSum(Uncounted(ds, d), cs)
  <2>1. /\ InFlight(ds, d) \in SUBSET Guarded /\ Uncounted(ds, d) \in SUBSET Guarded
        /\ \A b \in InFlight(ds, d) : ds[b].estimate = cs[b].estimate
        /\ \A b \in Uncounted(ds, d) : ds[b].estimate = cs[b].estimate
    BY <1>1 DEF InFlight, Uncounted
  <2> QED
    BY <2>1, SumSame
<1>3. /\ TokenSum(InFlight(cs, d), cs) \in Nat /\ TokenSum(Uncounted(cs, d), cs) \in Nat
      /\ TokenSum(InFlight(ds, d), cs) \in Nat /\ TokenSum(Uncounted(ds, d), cs) \in Nat
      /\ TokenSum(Uncounted(ds, d), cs) <= TokenSum(Uncounted(cs, d), cs)
  <2>1. /\ InFlight(ds, d) \in SUBSET Guarded
        /\ Uncounted(ds, d) \in SUBSET Uncounted(cs, d) /\ Uncounted(ds, d) \in SUBSET Guarded
        /\ Uncounted(cs, d) \in SUBSET Guarded /\ InFlight(cs, d) \in SUBSET Guarded
    BY <1>1 DEF InFlight, Uncounted
  <2> QED
    BY <2>1, TokensFinite, SumShorter
<1>4. CASE c \in InFlight(cs, d)
  <2>1. TokenSum(InFlight(cs, d), cs) = TokenSum(InFlight(ds, d), cs) + e
    <3>1. /\ InFlight(cs, d) = InFlight(ds, d) \cup {c} /\ c \notin InFlight(ds, d)
          /\ InFlight(ds, d) \in SUBSET Guarded /\ cs[c].estimate \in 0 .. PerCall
      BY <1>1, <1>4 DEF InFlight, LlmCalls
    <3>2. PICK S : S = InFlight(ds, d)
      OBVIOUS
    <3>3. TokenSum(S \cup {c}, cs) = TokenSum(S, cs) + cs[c].estimate
      BY <3>1, <3>2, SumAdds
    <3> QED
      BY <3>1, <3>2, <3>3
  <2> QED
    BY <1>2, <1>3, <1>4, <2>1, LimiterConstants DEF Balanced
<1>5. CASE c \notin InFlight(cs, d)
  <2>1. InFlight(ds, d) = InFlight(cs, d)
    BY <1>1, <1>5
  <2> QED
    BY <1>2, <1>3, <1>5, <2>1, LimiterConstants DEF Balanced
<1> QED
  BY <1>4, <1>5

(* What a call used is counted, beside what it reserved or beyond it.      *)
LEMMA BalancedCount ==
    ASSUME NEW cs \in [Guarded -> LlmCalls], NEW ds \in [Guarded -> LlmCalls], NEW d,
           NEW r \in Nat, NEW t \in Nat, NEW s \in Nat, NEW u \in Nat,
           NEW c \in Guarded, NEW e \in Nat, e = cs[c].estimate, NEW n \in Nat,
           ds[c].stage = cs[c].stage, ds[c].reserved_on = cs[c].reserved_on,
           ds[c].estimate = cs[c].estimate, ds[c].counted, ~cs[c].counted,
           \A b \in Guarded \ {c} : ds[b] = cs[b],
           Balanced(cs, d, r, t, s, u),
           NEW all \in Nat, all = t + n, NEW more \in Nat,
           more = IF c \in InFlight(cs, d) THEN u + (IF n < e THEN 0 ELSE n - e) ELSE u + n
    PROVE  Balanced(ds, d, r, all, s, more)
<1>1. InFlight(ds, d) = InFlight(cs, d) /\ Uncounted(ds, d) = Uncounted(cs, d) \ {c}
  BY DEF InFlight, Uncounted
<1>2. /\ TokenSum(InFlight(ds, d), ds) = TokenSum(InFlight(cs, d), cs)
      /\ TokenSum(Uncounted(ds, d), ds) = TokenSum(Uncounted(ds, d), cs)
  <2>1. /\ InFlight(cs, d) \in SUBSET Guarded /\ Uncounted(ds, d) \in SUBSET Guarded
        /\ \A b \in InFlight(cs, d) : ds[b].estimate = cs[b].estimate
        /\ \A b \in Uncounted(ds, d) : ds[b].estimate = cs[b].estimate
    BY <1>1 DEF InFlight, Uncounted
  <2> QED
    BY <1>1, <2>1, SumSame
<1>3. /\ TokenSum(InFlight(cs, d), cs) \in Nat /\ TokenSum(Uncounted(cs, d), cs) \in Nat
      /\ TokenSum(Uncounted(ds, d), cs) \in Nat
  BY <1>1, InFlightFacts, TokensFinite
<1>4. CASE c \in InFlight(cs, d)
  <2>1. TokenSum(Uncounted(cs, d), cs) = TokenSum(Uncounted(ds, d), cs) + e
    <3>1. /\ Uncounted(cs, d) = Uncounted(ds, d) \cup {c} /\ c \notin Uncounted(ds, d)
          /\ Uncounted(ds, d) \in SUBSET Guarded /\ cs[c].estimate \in 0 .. PerCall
      BY <1>1, <1>4 DEF InFlight, Uncounted, LlmCalls
    <3>2. PICK S : S = Uncounted(ds, d)
      OBVIOUS
    <3>3. TokenSum(S \cup {c}, cs) = TokenSum(S, cs) + cs[c].estimate
      BY <3>1, <3>2, SumAdds
    <3> QED
      BY <3>1, <3>2, <3>3
  <2> QED
    BY <1>2, <1>3, <1>4, <2>1, LimiterConstants DEF Balanced
<1>5. CASE c \notin InFlight(cs, d)
  <2>1. Uncounted(ds, d) = Uncounted(cs, d)
    BY <1>1, <1>5 DEF Uncounted
  <2> QED
    BY <1>2, <1>3, <1>5, <2>1, LimiterConstants DEF Balanced
<1> QED
  BY <1>4, <1>5

(* The larger and the smaller of two numbers.                              *)
LEMMA MaxMin ==
    ASSUME NEW a \in Int, NEW b \in Int
    PROVE  /\ Max({a, b}) = IF a < b THEN b ELSE a
           /\ Min({a, b}) = IF a < b THEN a ELSE b
<1>1. \E m \in {a, b} : \A y \in {a, b} : m >= y
  OBVIOUS
<1>2. \E m \in {a, b} : \A y \in {a, b} : m =< y
  OBVIOUS
<1>3. Max({a, b}) \in {a, b} /\ \A y \in {a, b} : Max({a, b}) >= y
  BY <1>1 DEF Max
<1>4. Min({a, b}) \in {a, b} /\ \A y \in {a, b} : Min({a, b}) =< y
  BY <1>2 DEF Min
<1> QED
  BY <1>3, <1>4

(* A bound for each call is one for all, and grows with every call.        *)
LEMMA BoundGrows ==
    ASSUME NEW S \in SUBSET Guarded, NEW c \in Guarded, c \notin S, NEW K \in Nat
    PROVE  /\ K * Cardinality(S \cup {c}) = K * Cardinality(S) + K
           /\ K * Cardinality(S) \in Nat
<1>1. IsFiniteSet(S) /\ Cardinality(S) \in Nat
  BY LimiterConstants, FS_Subset, FS_CardinalityType
<1>2. Cardinality(S \cup {c}) = Cardinality(S) + 1
  BY <1>1, FS_AddElement
<1>3. PICK n \in Nat : n = Cardinality(S)
  BY <1>1
<1>4. K * (n + 1) = K * n + K /\ K * n \in Nat
  OBVIOUS
<1> QED
  BY <1>2, <1>3, <1>4

(* A bound for each call, over some calls, is at most that over all of     *)
(* them.                                                                   *)
LEMMA BoundOfAll ==
    ASSUME NEW S \in SUBSET Guarded, NEW K \in Nat
    PROVE  K * Cardinality(S) <= Cardinality(Guarded) * K /\ K * Cardinality(S) \in Nat
<1>1. Cardinality(S) \in Nat /\ Cardinality(Guarded) \in Nat /\ Cardinality(S) <= Cardinality(Guarded)
  BY LimiterConstants, FS_Subset, FS_CardinalityType
<1>2. ASSUME NEW n \in Nat, NEW m \in Nat, n <= m PROVE K * n <= m * K /\ K * n \in Nat
  BY <1>2
<1> QED
  BY <1>1, <1>2

(* The counter, brought up to date.                                        *)
LEMMA AfterReset ==
    ASSUME LimiterInv
    PROVE  /\ reset_if_new_day \in [date : 0 .. LastDate, total_tokens : Nat, reserved : Nat]
           /\ reset_if_new_day.date = date /\ date \in Nat
           /\ reset_if_new_day.total_tokens <= daily.total_tokens
           /\ of_today(stolen) \in Nat /\ of_today(stolen) <= stolen
           /\ of_today(unreserved) \in Nat /\ of_today(unreserved) <= unreserved
           /\ Balanced(llm_calls, date, reset_if_new_day.reserved, reset_if_new_day.total_tokens,
                       of_today(stolen), of_today(unreserved))
           /\ NewDay => InFlight(llm_calls, date) = {}
           /\ ~NewDay => daily.date = date
           /\ \A c \in Guarded : llm_calls[c].reserved_on <= date
<1>1. /\ date \in 0 .. LastDate /\ date \in Nat /\ daily.date \in Nat /\ daily.date <= date
      /\ daily \in [date : 0 .. LastDate, total_tokens : Nat, reserved : Nat]
      /\ daily.total_tokens \in Nat /\ stolen \in Nat /\ unreserved \in Nat
      /\ llm_calls \in [Guarded -> LlmCalls]
      /\ \A c \in Guarded : llm_calls[c].reserved_on <= daily.date
  BY LimiterConstants DEF LimiterInv, CountsTypeOK, Dated
<1>2. \A c \in Guarded : llm_calls[c].reserved_on \in Nat
  BY <1>1, LimiterConstants DEF LlmCalls
<1>3. CASE NewDay
  <2>1. reset_if_new_day = [date |-> date, total_tokens |-> 0, reserved |-> 0]
    BY <1>3 DEF reset_if_new_day
  <2>2. /\ reset_if_new_day \in [date : 0 .. LastDate, total_tokens : Nat, reserved : Nat]
        /\ reset_if_new_day.date = date /\ reset_if_new_day.total_tokens = 0
        /\ reset_if_new_day.reserved = 0
    BY <1>1, <2>1
  <2>3. of_today(stolen) = 0 /\ of_today(unreserved) = 0
    BY <1>3 DEF of_today
  <2>4. \A c \in Guarded : llm_calls[c].reserved_on < date
    BY <1>1, <1>2, <1>3 DEF NewDay
  <2>5. Balanced(llm_calls, date, 0, 0, 0, 0) /\ InFlight(llm_calls, date) = {}
    BY <1>1, <2>4, BalancedNew
  <2>6. \A c \in Guarded : llm_calls[c].reserved_on <= date
    BY <1>1, <1>2, <2>4
  <2> QED
    BY <1>1, <1>3, <2>2, <2>3, <2>5, <2>6
<1>4. CASE ~NewDay
  <2>1. reset_if_new_day = daily /\ daily.date = date
    BY <1>4 DEF reset_if_new_day, NewDay
  <2>2. of_today(stolen) = stolen /\ of_today(unreserved) = unreserved
    BY <1>4 DEF of_today
  <2>3. Balanced(llm_calls, date, daily.reserved, daily.total_tokens, stolen, unreserved)
    BY <2>1 DEF LimiterInv
  <2> QED
    BY <1>1, <1>4, <2>1, <2>2, <2>3
<1> QED
  BY <1>3, <1>4

(* A call reserves, or is refused.                                         *)
LEMMA CallReserves ==
    ASSUME LimiterInv, NEW c \in Guarded, NEW n \in 1 .. PerCall, check_and_reserve(c, n)
    PROVE  LimiterInv'
<1>1. /\ llm_calls[c].stage = "idle"
      /\ daily' = IF exceeds(n) THEN reset_if_new_day
                  ELSE [reset_if_new_day EXCEPT !.reserved = @ + n]
      /\ llm_calls' = [llm_calls EXCEPT ![c] =
            IF exceeds(n) THEN [llm_calls[c] EXCEPT !.stage = "refused"]
            ELSE [llm_calls[c] EXCEPT !.stage = "waiting", !.estimate = n, !.reserved_on = date]]
      /\ stolen' = of_today(stolen) /\ unreserved' = of_today(unreserved)
      /\ date' = date /\ bucket' = bucket /\ api_usage' = api_usage
  BY DEF check_and_reserve, keeps_history
<1>2. /\ date \in 0 .. LastDate /\ llm_calls \in [Guarded -> LlmCalls]
      /\ bucket \in 0 .. PerMinute /\ api_usage \in [0 .. LastDate -> Nat]
      /\ ~llm_calls[c].counted /\ daily.total_tokens \in Nat
      /\ stolen \in Nat /\ unreserved \in Nat
  BY <1>1 DEF LimiterInv, CountsTypeOK, Dated
<1>3. n \in Nat /\ n \in 0 .. PerCall
  BY LimiterConstants
<1>4. PICK q \in LlmCalls :
          /\ llm_calls' = [llm_calls EXCEPT ![c] = q]
          /\ ~q.counted /\ q.used = llm_calls[c].used
          /\ q.stage = IF exceeds(n) THEN "refused" ELSE "waiting"
          /\ exceeds(n) => q.reserved_on = llm_calls[c].reserved_on
          /\ ~exceeds(n) => q.reserved_on = date /\ q.estimate = n
  <2>1. CASE exceeds(n)
    <3>1. PICK q : q = [llm_calls[c] EXCEPT !.stage = "refused"]
      OBVIOUS
    <3>2. /\ q \in LlmCalls /\ q.counted = llm_calls[c].counted /\ q.used = llm_calls[c].used
          /\ q.stage = "refused" /\ q.reserved_on = llm_calls[c].reserved_on
      BY <1>2, <3>1 DEF LlmCalls
    <3>3. llm_calls' = [llm_calls EXCEPT ![c] = q]
      BY <1>1, <2>1, <3>1, Zenon
    <3> QED
      BY <1>2, <2>1, <3>2, <3>3
  <2>2. CASE ~exceeds(n)
    <3>1. PICK q : q = [llm_calls[c] EXCEPT !.stage = "waiting", !.estimate = n, !.reserved_on = date]
      OBVIOUS
    <3>2. /\ q \in LlmCalls /\ q.counted = llm_calls[c].counted /\ q.used = llm_calls[c].used
          /\ q.stage = "waiting" /\ q.reserved_on = date /\ q.estimate = n
      BY <1>2, <1>3, <3>1 DEF LlmCalls
    <3>3. llm_calls' = [llm_calls EXCEPT ![c] = q]
      BY <1>1, <2>2, <3>1, Zenon
    <3> QED
      BY <1>2, <2>2, <3>2, <3>3
  <2> QED
    BY <2>1, <2>2
<1>5. PICK cs \in [Guarded -> LlmCalls], ds \in [Guarded -> LlmCalls] :
          /\ cs = llm_calls /\ ds = llm_calls'
          /\ ds[c] = q /\ \A b \in Guarded \ {c} : ds[b] = cs[b]
  BY <1>2, <1>4
<1>6. PICK D : D = reset_if_new_day
  OBVIOUS
<1>7. /\ D \in [date : 0 .. LastDate, total_tokens : Nat, reserved : Nat]
      /\ D.date = date /\ D.total_tokens <= daily.total_tokens
      /\ D.total_tokens \in Nat /\ D.reserved \in Nat
      /\ stolen' \in Nat /\ stolen' <= stolen /\ unreserved' \in Nat /\ unreserved' <= unreserved
      /\ Balanced(cs, date, D.reserved, D.total_tokens, stolen', unreserved')
      /\ \A b \in Guarded : cs[b].reserved_on <= date
  BY <1>1, <1>5, <1>6, AfterReset
<1>8. /\ daily'.date = date /\ daily'.total_tokens = D.total_tokens
      /\ daily'.reserved = IF exceeds(n) THEN D.reserved ELSE D.reserved + n
      /\ daily' \in [date : 0 .. LastDate, total_tokens : Nat, reserved : Nat]
  BY <1>1, <1>3, <1>6, <1>7
<1>9. Balanced(ds, date, daily'.reserved, daily'.total_tokens, stolen', unreserved')
  <2>1. CASE exceeds(n)
    <3>1. InFlight(ds, date) = InFlight(cs, date)
      BY <1>1, <1>4, <1>5, <2>1 DEF InFlight
    <3>2. \A b \in InFlight(cs, date) : ds[b].estimate = cs[b].estimate /\ ds[b].counted = cs[b].counted
      BY <1>1, <1>4, <1>5 DEF InFlight
    <3>3. Balanced(ds, date, D.reserved, D.total_tokens, stolen', unreserved')
      BY <1>7, <3>1, <3>2, BalancedSame
    <3> QED
      BY <1>8, <2>1, <3>3
  <2>2. CASE ~exceeds(n)
    <3>1. D.total_tokens + D.reserved + n <= HardLimit
      BY <1>3, <1>6, <1>7, <2>2, LimiterConstants DEF exceeds
    <3>2. /\ cs[c].stage = "idle" /\ ds[c].stage = "waiting" /\ ds[c].reserved_on = date
          /\ ds[c].estimate = n /\ ~ds[c].counted
      BY <1>1, <1>4, <1>5, <2>2
    <3>3. Balanced(ds, date, D.reserved + n, D.total_tokens, stolen', unreserved')
      BY <1>5, <1>7, <3>1, <3>2, BalancedReserve
    <3> QED
      BY <1>8, <2>2, <3>3
  <2> QED
    BY <2>1, <2>2
<1>10. CountsTypeOK'
  BY <1>1, <1>2, <1>5, <1>7, <1>8 DEF CountsTypeOK
<1>11. Dated'
  <2>1. \A b \in Guarded : ds[b].reserved_on <= date
    BY <1>2, <1>4, <1>5, <1>7, LimiterConstants
  <2>2. \A b \in Guarded : ds[b].counted => ds[b].stage \in {"calling", "left", "over"}
    BY <1>4, <1>5 DEF LimiterInv, Dated
  <2>3. date <= date
    BY <1>2, LimiterConstants
  <2> QED
    BY <1>1, <1>5, <1>8, <2>1, <2>2, <2>3 DEF Dated
<1>12. Bounded'
  <2>1. CountedCalls(ds) = CountedCalls(cs) /\ WrittenCalls(ds) = WrittenCalls(cs) /\ GoneCalls(ds) = GoneCalls(cs)
    BY <1>1, <1>2, <1>4, <1>5 DEF CountedCalls, WrittenCalls, GoneCalls
  <2>2. /\ MostUsed * Cardinality(CountedCalls(cs)) \in Nat /\ PerCall * Cardinality(GoneCalls(cs)) \in Nat
    <3>1. CountedCalls(cs) \in SUBSET Guarded /\ GoneCalls(cs) \in SUBSET Guarded
      BY DEF CountedCalls, GoneCalls
    <3> QED
      BY <3>1, BoundOfAll, LimiterConstants
  <2>3. /\ daily.total_tokens <= MostUsed * Cardinality(CountedCalls(cs))
        /\ unreserved <= MostUsed * Cardinality(CountedCalls(cs))
        /\ \A d \in 0 .. LastDate : api_usage[d] <= MostUsed * Cardinality(WrittenCalls(cs))
        /\ stolen <= PerCall * Cardinality(GoneCalls(cs))
    BY <1>5 DEF LimiterInv, Bounded
  <2>4. /\ daily'.total_tokens <= MostUsed * Cardinality(CountedCalls(cs))
        /\ unreserved' <= MostUsed * Cardinality(CountedCalls(cs))
        /\ stolen' <= PerCall * Cardinality(GoneCalls(cs))
    BY <1>2, <1>7, <1>8, <2>2, <2>3
  <2> QED
    BY <1>1, <1>5, <2>1, <2>3, <2>4 DEF Bounded
<1> QED
  BY <1>1, <1>5, <1>8, <1>9, <1>10, <1>11, <1>12 DEF LimiterInv

(* A call goes on when the bucket has room.                                *)
LEMMA CallEnters ==
    ASSUME LimiterInv, NEW c \in Guarded, guard_enters(c)
    PROVE  LimiterInv'
<1>1. /\ llm_calls[c].stage = "waiting" /\ bucket < PerMinute /\ bucket' = bucket + 1
      /\ llm_calls' = [llm_calls EXCEPT ![c].stage = "calling"]
      /\ UNCHANGED <<date, daily, api_usage, stolen, unreserved>>
  BY DEF guard_enters
<1>2. PICK cs \in [Guarded -> LlmCalls], ds \in [Guarded -> LlmCalls] :
          /\ cs = llm_calls /\ ds = llm_calls'
          /\ ds[c].stage = "calling" /\ ds[c].reserved_on = cs[c].reserved_on
          /\ ds[c].estimate = cs[c].estimate /\ ds[c].used = cs[c].used
          /\ ds[c].counted = cs[c].counted
          /\ \A b \in Guarded \ {c} : ds[b] = cs[b]
  <2>1. llm_calls \in [Guarded -> LlmCalls]
    BY DEF LimiterInv, CountsTypeOK
  <2>2. PICK q : q = [llm_calls[c] EXCEPT !.stage = "calling"]
    OBVIOUS
  <2>3. /\ q \in LlmCalls /\ q.stage = "calling" /\ q.reserved_on = llm_calls[c].reserved_on
        /\ q.estimate = llm_calls[c].estimate /\ q.used = llm_calls[c].used
        /\ q.counted = llm_calls[c].counted
    BY <2>1, <2>2 DEF LlmCalls
  <2>4. llm_calls' = [llm_calls EXCEPT ![c] = q]
    BY <1>1, <2>2
  <2> QED
    BY <2>1, <2>3, <2>4
<1>3. /\ date \in 0 .. LastDate /\ bucket' \in 0 .. PerMinute
      /\ daily \in [date : 0 .. LastDate, total_tokens : Nat, reserved : Nat]
      /\ daily.total_tokens \in Nat /\ daily.reserved \in Nat
      /\ stolen \in Nat /\ unreserved \in Nat
  BY <1>1, LimiterConstants DEF LimiterInv, CountsTypeOK
<1>4. Balanced(ds, daily.date, daily.reserved, daily.total_tokens, stolen, unreserved)
  <2>1. InFlight(ds, daily.date) = InFlight(cs, daily.date)
    BY <1>1, <1>2 DEF InFlight
  <2>2. \A b \in InFlight(cs, daily.date) :
           ds[b].estimate = cs[b].estimate /\ ds[b].counted = cs[b].counted
    BY <1>2 DEF InFlight
  <2>3. Balanced(cs, daily.date, daily.reserved, daily.total_tokens, stolen, unreserved)
    BY <1>2 DEF LimiterInv
  <2> QED
    BY <1>3, <2>1, <2>2, <2>3, BalancedSame
<1>5. CountedCalls(ds) = CountedCalls(cs) /\ WrittenCalls(ds) = WrittenCalls(cs) /\ GoneCalls(ds) = GoneCalls(cs)
  BY <1>1, <1>2 DEF CountedCalls, WrittenCalls, GoneCalls
<1>6. CountsTypeOK'
  BY <1>1, <1>2, <1>3 DEF LimiterInv, CountsTypeOK
<1>7. Dated'
  BY <1>1, <1>2 DEF LimiterInv, Dated
<1>8. Bounded'
  BY <1>1, <1>2, <1>5 DEF LimiterInv, Bounded
<1> QED
  BY <1>1, <1>2, <1>4, <1>6, <1>7, <1>8 DEF LimiterInv

(* A call leaves.                                                          *)
LEMMA CallExits ==
    ASSUME LimiterInv, NEW c \in Guarded, guard_exits(c)
    PROVE  LimiterInv'
<1>1. /\ llm_calls[c].stage \in {"waiting", "calling"}
      /\ daily' = [daily EXCEPT !.reserved = Max({0, daily.reserved - llm_calls[c].estimate})]
      /\ stolen' = IF c \in InFlightToday THEN stolen
                   ELSE stolen + Min({daily.reserved, llm_calls[c].estimate})
      /\ llm_calls' = [llm_calls EXCEPT ![c].stage =
            IF llm_calls[c].stage = "calling" /\ ~llm_calls[c].counted THEN "left" ELSE "over"]
      /\ UNCHANGED <<date, bucket, api_usage, unreserved>>
  BY DEF guard_exits, release_reservation
<1>2. PICK cs \in [Guarded -> LlmCalls], ds \in [Guarded -> LlmCalls] :
          /\ cs = llm_calls /\ ds = llm_calls'
          /\ ds[c].stage \in {"left", "over"} /\ ds[c].reserved_on = cs[c].reserved_on
          /\ ds[c].used = cs[c].used /\ ds[c].counted = cs[c].counted
          /\ \A b \in Guarded \ {c} : ds[b] = cs[b]
  <2>1. llm_calls \in [Guarded -> LlmCalls]
    BY DEF LimiterInv, CountsTypeOK
  <2>2. PICK st : st = IF llm_calls[c].stage = "calling" /\ ~llm_calls[c].counted THEN "left" ELSE "over"
    OBVIOUS
  <2>3. PICK q : q = [llm_calls[c] EXCEPT !.stage = st]
    OBVIOUS
  <2>4. /\ q \in LlmCalls /\ q.stage \in {"left", "over"}
        /\ q.reserved_on = llm_calls[c].reserved_on
        /\ q.used = llm_calls[c].used /\ q.counted = llm_calls[c].counted
    BY <2>1, <2>2, <2>3 DEF LlmCalls
  <2>5. llm_calls' = [llm_calls EXCEPT ![c] = q]
    BY <1>1, <2>2, <2>3, Zenon
  <2> QED
    BY <2>1, <2>4, <2>5
<1>3. /\ date \in 0 .. LastDate /\ bucket \in 0 .. PerMinute
      /\ daily \in [date : 0 .. LastDate, total_tokens : Nat, reserved : Nat]
      /\ daily.total_tokens \in Nat /\ daily.reserved \in Nat
      /\ stolen \in Nat /\ unreserved \in Nat
  BY DEF LimiterInv, CountsTypeOK
<1>4. PICK e \in Nat : e = cs[c].estimate /\ e <= PerCall
  BY <1>2, LimiterConstants DEF LlmCalls
<1>5. /\ Max({0, daily.reserved - e}) = IF daily.reserved < e THEN 0 ELSE daily.reserved - e
      /\ Min({daily.reserved, e}) = IF daily.reserved < e THEN daily.reserved ELSE e
  <2>1. /\ Max({0, daily.reserved - e})
             = IF 0 < daily.reserved - e THEN daily.reserved - e ELSE 0
        /\ Min({daily.reserved, e}) = IF daily.reserved < e THEN daily.reserved ELSE e
    <3>1. /\ daily.reserved - e \in Int /\ 0 \in Int /\ daily.reserved \in Int /\ e \in Int
      BY <1>3
    <3> QED
      BY <3>1, MaxMin
  <2> QED
    BY <1>3, <2>1
<1>6. /\ daily'.date = daily.date /\ daily'.total_tokens = daily.total_tokens
      /\ daily'.reserved = IF daily.reserved < e THEN 0 ELSE daily.reserved - e
      /\ daily' \in [date : 0 .. LastDate, total_tokens : Nat, reserved : Nat]
  <2>1. PICK m \in Nat : m = IF daily.reserved < e THEN 0 ELSE daily.reserved - e
    BY <1>3
  <2>2. daily' = [daily EXCEPT !.reserved = m]
    BY <1>1, <1>2, <1>4, <1>5, <2>1
  <2> QED
    BY <1>3, <2>1, <2>2
<1>7. /\ stolen' = IF c \in InFlight(cs, daily.date) THEN stolen
                   ELSE stolen + IF daily.reserved < e THEN daily.reserved ELSE e
      /\ stolen' \in Nat /\ stolen' <= stolen + PerCall
  <2>1. InFlightToday = InFlight(cs, daily.date)
    BY <1>2 DEF InFlightToday, InFlight
  <2>2. stolen' = IF c \in InFlight(cs, daily.date) THEN stolen
                  ELSE stolen + IF daily.reserved < e THEN daily.reserved ELSE e
    BY <1>1, <1>2, <1>4, <1>5, <2>1
  <2> QED
    BY <1>3, <1>4, <2>2, LimiterConstants
<1>8. Balanced(ds, daily.date, daily'.reserved, daily.total_tokens, stolen', unreserved)
  <2>1. Balanced(cs, daily.date, daily.reserved, daily.total_tokens, stolen, unreserved)
    BY <1>2 DEF LimiterInv
  <2>2. PICK left \in Nat, taken \in Nat :
            /\ left = IF daily.reserved < e THEN 0 ELSE daily.reserved - e
            /\ taken = stolen + (IF daily.reserved < e THEN daily.reserved ELSE e)
    BY <1>3
  <2>3. e = cs[c].estimate /\ ds[c].stage \in {"left", "over"} /\ \A b \in Guarded \ {c} : ds[b] = cs[b]
    BY <1>2, <1>4
  <2>4. IF c \in InFlight(cs, daily.date)
        THEN Balanced(ds, daily.date, left, daily.total_tokens, stolen, unreserved)
        ELSE Balanced(ds, daily.date, left, daily.total_tokens, taken, unreserved)
    BY <1>3, <2>1, <2>2, <2>3, BalancedExit
  <2> QED
    BY <1>6, <1>7, <2>2, <2>4
<1>9. CountsTypeOK'
  BY <1>1, <1>2, <1>3, <1>6, <1>7 DEF LimiterInv, CountsTypeOK
<1>10. Dated'
  BY <1>1, <1>2, <1>6 DEF LimiterInv, Dated
<1>11. Bounded'
  <2>1. CountedCalls(ds) = CountedCalls(cs) /\ WrittenCalls(ds) = WrittenCalls(cs)
    BY <1>2 DEF CountedCalls, WrittenCalls
  <2>2. GoneCalls(ds) = GoneCalls(cs) \cup {c} /\ c \notin GoneCalls(cs) /\ GoneCalls(cs) \in SUBSET Guarded
    BY <1>1, <1>2 DEF GoneCalls
  <2>3. stolen' <= PerCall * Cardinality(GoneCalls(ds))
    <3>1. stolen <= PerCall * Cardinality(GoneCalls(cs))
      BY <1>2 DEF LimiterInv, Bounded
    <3>2. /\ PerCall * Cardinality(GoneCalls(cs) \cup {c}) = PerCall * Cardinality(GoneCalls(cs)) + PerCall
          /\ PerCall * Cardinality(GoneCalls(cs)) \in Nat
      BY <2>2, BoundGrows, LimiterConstants
    <3> QED
      BY <1>3, <1>7, <2>2, <3>1, <3>2, LimiterConstants
  <2> QED
    BY <1>1, <1>2, <1>6, <2>1, <2>3 DEF LimiterInv, Bounded
<1> QED
  BY <1>1, <1>2, <1>6, <1>8, <1>9, <1>10, <1>11 DEF LimiterInv

(* What a call used is counted.                                            *)
LEMMA CallRecords ==
    ASSUME LimiterInv, NEW c \in Guarded, NEW n \in 0 .. MostUsed, record_actual_usage(c, n)
    PROVE  LimiterInv'
<1>1. /\ llm_calls[c].stage \in {"calling", "left"} /\ ~llm_calls[c].counted
      /\ daily' = [reset_if_new_day EXCEPT !.total_tokens = @ + n]
      /\ stolen' = of_today(stolen)
      /\ unreserved' = of_today(unreserved) + beyond(c, n)
      /\ llm_calls' = [llm_calls EXCEPT ![c].used = n, ![c].counted = TRUE]
      /\ UNCHANGED <<date, bucket, api_usage>>
  BY DEF record_actual_usage, add
<1>2. PICK cs \in [Guarded -> LlmCalls], ds \in [Guarded -> LlmCalls] :
          /\ cs = llm_calls /\ ds = llm_calls'
          /\ ds[c].stage = cs[c].stage /\ ds[c].reserved_on = cs[c].reserved_on
          /\ ds[c].estimate = cs[c].estimate /\ ds[c].used = n /\ ds[c].counted
          /\ \A b \in Guarded \ {c} : ds[b] = cs[b]
  <2>1. llm_calls \in [Guarded -> LlmCalls]
    BY DEF LimiterInv, CountsTypeOK
  <2>2. PICK p : p = [llm_calls[c] EXCEPT !.used = n]
    OBVIOUS
  <2>3. /\ p \in LlmCalls /\ p.stage = llm_calls[c].stage
        /\ p.reserved_on = llm_calls[c].reserved_on
        /\ p.estimate = llm_calls[c].estimate /\ p.used = n
    BY <2>1, <2>2 DEF LlmCalls
  <2>4. PICK q : q = [p EXCEPT !.counted = TRUE]
    OBVIOUS
  <2>5. /\ q \in LlmCalls /\ q.stage = p.stage /\ q.reserved_on = p.reserved_on
        /\ q.estimate = p.estimate /\ q.used = p.used /\ q.counted
    BY <2>3, <2>4 DEF LlmCalls
  <2>6. llm_calls' = [llm_calls EXCEPT ![c] = q]
    BY <1>1, <2>1, <2>2, <2>4
  <2> QED
    BY <2>1, <2>3, <2>5, <2>6
<1>3. /\ date \in 0 .. LastDate /\ bucket \in 0 .. PerMinute /\ n \in Nat /\ n <= MostUsed
      /\ api_usage \in [0 .. LastDate -> Nat]
      /\ daily.total_tokens \in Nat /\ daily.reserved \in Nat
      /\ stolen \in Nat /\ unreserved \in Nat
  BY LimiterConstants DEF LimiterInv, CountsTypeOK
<1>4. PICK e \in Nat : e = cs[c].estimate /\ e <= PerCall
  BY <1>2, LimiterConstants DEF LlmCalls
<1>5. PICK D : D = reset_if_new_day
  OBVIOUS
<1>6. PICK u : u = of_today(unreserved)
  OBVIOUS
<1>7. /\ D \in [date : 0 .. LastDate, total_tokens : Nat, reserved : Nat]
      /\ D.date = date /\ D.total_tokens <= daily.total_tokens
      /\ D.total_tokens \in Nat /\ D.reserved \in Nat
      /\ stolen' \in Nat /\ stolen' <= stolen /\ u \in Nat /\ u <= unreserved
      /\ Balanced(cs, date, D.reserved, D.total_tokens, stolen', u)
      /\ \A b \in Guarded : cs[b].reserved_on <= date
  BY <1>1, <1>2, <1>5, <1>6, AfterReset
<1>8. /\ daily'.date = date /\ daily'.total_tokens = D.total_tokens + n
      /\ daily'.reserved = D.reserved
      /\ daily' \in [date : 0 .. LastDate, total_tokens : Nat, reserved : Nat]
  BY <1>1, <1>3, <1>5, <1>7
<1>9. /\ unreserved' = IF c \in InFlight(cs, date) THEN u + (IF n < e THEN 0 ELSE n - e) ELSE u + n
      /\ unreserved' \in Nat /\ unreserved' <= u + MostUsed
  <2>1. c \in InFlight(cs, date) <=> c \in InFlightToday /\ ~NewDay
    <3>1. /\ NewDay => InFlight(cs, date) = {}
          /\ ~NewDay => daily.date = date
      BY <1>2, AfterReset
    <3> QED
      BY <1>2, <3>1 DEF InFlightToday, InFlight
  <2>2. Max({0, n - e}) = IF n < e THEN 0 ELSE n - e
    <3>1. Max({0, n - e}) = IF 0 < n - e THEN n - e ELSE 0
      BY <1>3, MaxMin
    <3> QED
      BY <1>3, <3>1
  <2>3. beyond(c, n) = IF c \in InFlight(cs, date) THEN (IF n < e THEN 0 ELSE n - e) ELSE n
    BY <1>2, <1>4, <2>1, <2>2 DEF beyond
  <2>4. unreserved' = u + beyond(c, n)
    BY <1>1, <1>6
  <2>5. /\ unreserved' = IF c \in InFlight(cs, date) THEN u + (IF n < e THEN 0 ELSE n - e) ELSE u + n
    BY <2>3, <2>4
  <2>6. CASE c \in InFlight(cs, date)
    <3>1. unreserved' = u + (IF n < e THEN 0 ELSE n - e)
      BY <2>5, <2>6
    <3>2. PICK v \in Nat : v = (IF n < e THEN 0 ELSE n - e) /\ v <= n
      <4>1. CASE n < e
        BY <1>3, <4>1
      <4>2. CASE ~(n < e)
        <5>1. n - e \in Nat /\ n - e <= n
          BY <1>3, <1>4, <4>2
        <5> QED
          BY <4>2, <5>1
      <4> QED
        BY <4>1, <4>2
    <3>3. unreserved' = u + v
      BY <3>1, <3>2
    <3>4. unreserved' \in Nat /\ unreserved' <= u + MostUsed
      BY <1>3, <1>7, <3>2, <3>3, LimiterConstants
    <3> QED
      BY <2>5, <3>4
  <2>7. CASE c \notin InFlight(cs, date)
    BY <1>3, <1>7, <2>5, <2>7, LimiterConstants
  <2> QED
    BY <2>6, <2>7
<1>10. Balanced(ds, date, daily'.reserved, daily'.total_tokens, stolen', unreserved')
  <2>1. PICK all \in Nat, more \in Nat, t \in Nat, r \in Nat, s \in Nat :
            /\ all = t + n /\ more = unreserved'
            /\ t = D.total_tokens /\ r = D.reserved /\ s = stolen'
    <3>1. D.total_tokens + n \in Nat
      BY <1>3, <1>7
    <3> QED
      BY <1>7, <1>9, <3>1
  <2>2. /\ ds[c].stage = cs[c].stage /\ ds[c].reserved_on = cs[c].reserved_on
        /\ ds[c].estimate = cs[c].estimate /\ ds[c].counted /\ ~cs[c].counted
        /\ e = cs[c].estimate /\ \A b \in Guarded \ {c} : ds[b] = cs[b]
    BY <1>1, <1>2, <1>4
  <2>3. more = IF c \in InFlight(cs, date) THEN u + (IF n < e THEN 0 ELSE n - e) ELSE u + n
    BY <1>9, <2>1
  <2>4. Balanced(cs, date, r, t, s, u) /\ u \in Nat /\ n \in Nat
    BY <1>3, <1>7, <2>1
  <2>5. Balanced(ds, date, r, all, s, more)
    BY <2>1, <2>2, <2>3, <2>4, BalancedCount
  <2> QED
    BY <1>8, <2>1, <2>5
<1>11. CountsTypeOK'
  BY <1>1, <1>2, <1>3, <1>7, <1>8, <1>9 DEF LimiterInv, CountsTypeOK
<1>12. Dated'
  <2>1. /\ \A b \in Guarded : ds[b].reserved_on <= date
        /\ \A b \in Guarded : ds[b].counted => ds[b].stage \in {"calling", "left", "over"}
    BY <1>1, <1>2, <1>7 DEF LimiterInv, Dated
  <2>2. date <= date
    BY <1>3, LimiterConstants
  <2> QED
    BY <1>1, <1>2, <1>8, <2>1, <2>2 DEF Dated
<1>13. Bounded'
  <2>1. CountedCalls(ds) = CountedCalls(cs) \cup {c} /\ c \notin CountedCalls(cs) /\ CountedCalls(cs) \in SUBSET Guarded
    BY <1>1, <1>2 DEF CountedCalls
  <2>2. GoneCalls(ds) = GoneCalls(cs) /\ GoneCalls(cs) \in SUBSET Guarded
    BY <1>2 DEF GoneCalls
  <2>3. WrittenCalls(ds) = WrittenCalls(cs) \/ WrittenCalls(ds) = WrittenCalls(cs) \cup {c}
    BY <1>1, <1>2 DEF WrittenCalls
  <2>4. WrittenCalls(cs) \in SUBSET Guarded /\ c \notin WrittenCalls(cs)
    BY <1>1, <1>2 DEF WrittenCalls
  <2>5. /\ MostUsed * Cardinality(CountedCalls(cs) \cup {c}) = MostUsed * Cardinality(CountedCalls(cs)) + MostUsed
        /\ MostUsed * Cardinality(CountedCalls(cs)) \in Nat
        /\ MostUsed * Cardinality(WrittenCalls(cs) \cup {c}) = MostUsed * Cardinality(WrittenCalls(cs)) + MostUsed
        /\ MostUsed * Cardinality(WrittenCalls(cs)) \in Nat
        /\ PerCall * Cardinality(GoneCalls(cs)) \in Nat
    BY <2>1, <2>2, <2>4, BoundGrows, BoundOfAll, LimiterConstants
  <2>6. /\ daily.total_tokens <= MostUsed * Cardinality(CountedCalls(cs))
        /\ unreserved <= MostUsed * Cardinality(CountedCalls(cs))
        /\ \A d \in 0 .. LastDate : api_usage[d] <= MostUsed * Cardinality(WrittenCalls(cs))
        /\ stolen <= PerCall * Cardinality(GoneCalls(cs))
    BY <1>2 DEF LimiterInv, Bounded
  <2>7. /\ daily'.total_tokens <= MostUsed * Cardinality(CountedCalls(ds))
        /\ unreserved' <= MostUsed * Cardinality(CountedCalls(ds))
    <3>1. PICK k \in Nat, m \in Nat : /\ k = MostUsed * Cardinality(CountedCalls(cs))
                                      /\ m = MostUsed * Cardinality(CountedCalls(ds)) /\ m = k + MostUsed
      BY <2>1, <2>5, LimiterConstants
    <3>2. daily.total_tokens <= k /\ unreserved <= k
      BY <2>6, <3>1
    <3>3. daily'.total_tokens <= k + MostUsed
      BY <1>3, <1>7, <1>8, <3>2, LimiterConstants
    <3>4. unreserved' <= k + MostUsed
      BY <1>3, <1>7, <1>9, <3>2, LimiterConstants
    <3> QED
      BY <3>1, <3>3, <3>4
  <2>8. stolen' <= PerCall * Cardinality(GoneCalls(ds))
    BY <1>3, <1>7, <2>2, <2>5, <2>6
  <2>9. \A d \in 0 .. LastDate : api_usage[d] <= MostUsed * Cardinality(WrittenCalls(ds))
    <3>1. MostUsed * Cardinality(WrittenCalls(cs)) <= MostUsed * Cardinality(WrittenCalls(ds))
          /\ MostUsed * Cardinality(WrittenCalls(ds)) \in Nat
      <4>1. CASE WrittenCalls(ds) = WrittenCalls(cs)
        BY <2>5, <4>1
      <4>2. CASE WrittenCalls(ds) = WrittenCalls(cs) \cup {c}
        <5>1. PICK k \in Nat : k = MostUsed * Cardinality(WrittenCalls(cs))
          BY <2>5
        <5>2. MostUsed * Cardinality(WrittenCalls(ds)) = k + MostUsed
          BY <2>5, <4>2, <5>1
        <5>3. k + MostUsed \in Nat /\ k <= k + MostUsed
          BY LimiterConstants
        <5> QED
          BY <5>1, <5>2, <5>3
      <4> QED
        BY <2>3, <4>1, <4>2
    <3> QED
      BY <1>3, <2>5, <2>6, <3>1
  <2> QED
    BY <1>1, <1>2, <2>7, <2>8, <2>9 DEF Bounded
<1> QED
  BY <1>1, <1>2, <1>8, <1>10, <1>11, <1>12, <1>13 DEF LimiterInv

(* What a call used is written, or that fails.                             *)
LEMMA UsageWritten ==
    ASSUME LimiterInv, NEW c \in Guarded, record_api_usage(c)
    PROVE  LimiterInv'
<1>1. /\ llm_calls[c].counted /\ llm_calls[c].used > 0
      /\ \/ api_usage' = [api_usage EXCEPT ![date] = @ + llm_calls[c].used]
         \/ UNCHANGED api_usage
      /\ llm_calls' = [llm_calls EXCEPT ![c].used = 0]
      /\ UNCHANGED <<date, daily, bucket, stolen, unreserved>>
  BY DEF record_api_usage
<1>2. PICK cs \in [Guarded -> LlmCalls], ds \in [Guarded -> LlmCalls] :
          /\ cs = llm_calls /\ ds = llm_calls'
          /\ ds[c].stage = cs[c].stage /\ ds[c].reserved_on = cs[c].reserved_on
          /\ ds[c].estimate = cs[c].estimate /\ ds[c].used = 0 /\ ds[c].counted = cs[c].counted
          /\ \A b \in Guarded \ {c} : ds[b] = cs[b]
  <2>1. llm_calls \in [Guarded -> LlmCalls]
    BY DEF LimiterInv, CountsTypeOK
  <2>2. PICK q : q = [llm_calls[c] EXCEPT !.used = 0]
    OBVIOUS
  <2>3. /\ q \in LlmCalls /\ q.stage = llm_calls[c].stage
        /\ q.reserved_on = llm_calls[c].reserved_on /\ q.counted = llm_calls[c].counted
        /\ q.estimate = llm_calls[c].estimate /\ q.used = 0
    BY <2>1, <2>2, LimiterConstants DEF LlmCalls
  <2>4. llm_calls' = [llm_calls EXCEPT ![c] = q]
    BY <1>1, <2>2
  <2> QED
    BY <2>1, <2>3, <2>4
<1>3. /\ date \in 0 .. LastDate /\ bucket \in 0 .. PerMinute
      /\ daily \in [date : 0 .. LastDate, total_tokens : Nat, reserved : Nat]
      /\ daily.total_tokens \in Nat /\ daily.reserved \in Nat
      /\ stolen \in Nat /\ unreserved \in Nat /\ api_usage \in [0 .. LastDate -> Nat]
  BY DEF LimiterInv, CountsTypeOK
<1>4. PICK n \in Nat : n = cs[c].used /\ n > 0 /\ n <= MostUsed
  BY <1>1, <1>2, LimiterConstants DEF LlmCalls
<1>5. /\ api_usage' \in [0 .. LastDate -> Nat]
      /\ \A d \in 0 .. LastDate : api_usage'[d] <= api_usage[d] + n
  <2>1. CASE UNCHANGED api_usage
    BY <1>3, <1>4, <2>1
  <2>2. CASE api_usage' = [api_usage EXCEPT ![date] = @ + llm_calls[c].used]
    <3>1. api_usage' = [api_usage EXCEPT ![date] = api_usage[date] + n]
      BY <1>2, <1>4, <2>2
    <3>2. api_usage[date] + n \in Nat
      BY <1>3
    <3>3. /\ api_usage' \in [0 .. LastDate -> Nat] /\ api_usage'[date] = api_usage[date] + n
          /\ \A d \in 0 .. LastDate : d # date => api_usage'[d] = api_usage[d]
      BY <1>3, <3>1, <3>2
    <3>4. ASSUME NEW d \in 0 .. LastDate PROVE api_usage'[d] <= api_usage[d] + n
      <4>1. api_usage[d] \in Nat
        BY <1>3
      <4>2. CASE d = date
        BY <3>2, <3>3, <4>2
      <4>3. CASE d # date
        BY <1>4, <3>3, <4>1, <4>3
      <4> QED
        BY <4>2, <4>3
    <3> QED
      BY <3>3, <3>4
  <2> QED
    BY <1>1, <2>1, <2>2
<1>6. Balanced(ds, daily.date, daily.reserved, daily.total_tokens, stolen, unreserved)
  <2>1. InFlight(ds, daily.date) = InFlight(cs, daily.date)
    BY <1>2 DEF InFlight
  <2>2. \A b \in InFlight(cs, daily.date) :
           ds[b].estimate = cs[b].estimate /\ ds[b].counted = cs[b].counted
    BY <1>2 DEF InFlight
  <2>3. Balanced(cs, daily.date, daily.reserved, daily.total_tokens, stolen, unreserved)
    BY <1>2 DEF LimiterInv
  <2> QED
    BY <1>3, <2>1, <2>2, <2>3, BalancedSame
<1>7. CountsTypeOK'
  BY <1>1, <1>2, <1>3, <1>5 DEF LimiterInv, CountsTypeOK
<1>8. Dated'
  BY <1>1, <1>2 DEF LimiterInv, Dated
<1>9. Bounded'
  <2>1. CountedCalls(ds) = CountedCalls(cs) /\ GoneCalls(ds) = GoneCalls(cs)
    BY <1>2 DEF CountedCalls, GoneCalls
  <2>2. /\ WrittenCalls(ds) = WrittenCalls(cs) \cup {c} /\ c \notin WrittenCalls(cs)
        /\ WrittenCalls(cs) \in SUBSET Guarded
    BY <1>1, <1>2, <1>4 DEF WrittenCalls
  <2>3. /\ MostUsed * Cardinality(WrittenCalls(cs) \cup {c}) = MostUsed * Cardinality(WrittenCalls(cs)) + MostUsed
        /\ MostUsed * Cardinality(WrittenCalls(cs)) \in Nat
    BY <2>2, BoundGrows, LimiterConstants
  <2>4. \A d \in 0 .. LastDate : api_usage[d] <= MostUsed * Cardinality(WrittenCalls(cs))
    BY <1>2 DEF LimiterInv, Bounded
  <2>5. \A d \in 0 .. LastDate : api_usage'[d] <= MostUsed * Cardinality(WrittenCalls(ds))
    <3>1. ASSUME NEW d \in 0 .. LastDate
          PROVE  api_usage'[d] <= MostUsed * Cardinality(WrittenCalls(ds))
      <4>1. api_usage[d] \in Nat /\ api_usage'[d] \in Nat
        BY <1>3, <1>5
      <4>2. /\ api_usage'[d] <= api_usage[d] + n
            /\ api_usage[d] <= MostUsed * Cardinality(WrittenCalls(cs))
        BY <1>5, <2>4
      <4> QED
        BY <1>4, <2>2, <2>3, <4>1, <4>2, LimiterConstants
    <3> QED
      BY <3>1
  <2> QED
    BY <1>1, <1>2, <2>1, <2>5 DEF LimiterInv, Bounded
<1> QED
  BY <1>1, <1>2, <1>6, <1>7, <1>8, <1>9 DEF LimiterInv

(* A snapshot brings the counter up to date.                               *)
LEMMA SnapshotTaken ==
    ASSUME LimiterInv, snapshot
    PROVE  LimiterInv'
<1>1. /\ daily' = reset_if_new_day
      /\ stolen' = of_today(stolen) /\ unreserved' = of_today(unreserved)
      /\ UNCHANGED <<date, llm_calls, bucket, api_usage>>
  BY DEF snapshot, preflight_budget_check, get_daily_status, keeps_history
<1>2. /\ daily' \in [date : 0 .. LastDate, total_tokens : Nat, reserved : Nat]
      /\ daily'.date = date /\ date \in Nat /\ daily'.total_tokens <= daily.total_tokens
      /\ stolen' \in Nat /\ stolen' <= stolen /\ unreserved' \in Nat /\ unreserved' <= unreserved
      /\ Balanced(llm_calls, date, daily'.reserved, daily'.total_tokens, stolen', unreserved')
      /\ \A c \in Guarded : llm_calls[c].reserved_on <= date
  BY <1>1, AfterReset
<1>3. CountsTypeOK'
  BY <1>1, <1>2 DEF LimiterInv, CountsTypeOK
<1>4. Dated'
  <2>1. date <= date
    BY <1>2
  <2> QED
    BY <1>1, <1>2, <2>1 DEF LimiterInv, Dated
<1>5. Bounded'
  <2>1. PICK k \in Nat, m \in Nat : /\ k = MostUsed * Cardinality(CountedCalls(llm_calls))
                                    /\ m = PerCall * Cardinality(GoneCalls(llm_calls))
    <3>1. CountedCalls(llm_calls) \in SUBSET Guarded /\ GoneCalls(llm_calls) \in SUBSET Guarded
      BY DEF CountedCalls, GoneCalls
    <3> QED
      BY <3>1, BoundOfAll, LimiterConstants
  <2>2. /\ daily.total_tokens <= k /\ unreserved <= k /\ stolen <= m
        /\ daily.total_tokens \in Nat /\ unreserved \in Nat /\ stolen \in Nat
    BY <2>1 DEF LimiterInv, Bounded, CountsTypeOK
  <2>3. daily'.total_tokens <= k /\ unreserved' <= k /\ stolen' <= m
    BY <1>2, <2>2
  <2> QED
    BY <1>1, <2>1, <2>3 DEF LimiterInv, Bounded
<1> QED
  BY <1>1, <1>2, <1>3, <1>4, <1>5 DEF LimiterInv

(* A place in the bucket becomes free, or midnight passes.                 *)
LEMMA LimiterTimePasses ==
    ASSUME LimiterInv, drained \/ date_changes \/ UNCHANGED limiterVars
    PROVE  LimiterInv'
<1>1. /\ UNCHANGED <<daily, llm_calls, api_usage, stolen, unreserved>>
      /\ bucket' \in 0 .. PerMinute /\ date' \in 0 .. LastDate /\ date <= date'
  <2>1. bucket \in 0 .. PerMinute /\ date \in 0 .. LastDate /\ date \in Nat /\ bucket \in Nat
    BY LimiterConstants DEF LimiterInv, CountsTypeOK
  <2>2. CASE drained
    BY <2>1, <2>2, LimiterConstants DEF drained
  <2>3. CASE date_changes
    BY <2>1, <2>3, LimiterConstants DEF date_changes
  <2>4. CASE UNCHANGED limiterVars
    BY <2>1, <2>4 DEF limiterVars
  <2> QED
    BY <2>2, <2>3, <2>4
<1>2. CountsTypeOK' /\ Bounded'
  BY <1>1 DEF LimiterInv, CountsTypeOK, Bounded
<1>3. Dated'
  <2>1. daily.date <= date'
    <3>1. daily.date \in Nat /\ date \in Nat /\ date' \in Nat /\ daily.date <= date
      BY <1>1, LimiterConstants DEF LimiterInv, CountsTypeOK, Dated
    <3> QED
      BY <1>1, <3>1
  <2> QED
    BY <1>1, <2>1 DEF LimiterInv, Dated
<1> QED
  BY <1>1, <1>2, <1>3 DEF LimiterInv

(* The invariant holds at the start.                                       *)
LEMMA LimiterStarts == RateLimiterInit => LimiterInv
<1> SUFFICES ASSUME RateLimiterInit PROVE LimiterInv
  OBVIOUS
<1>1. /\ date = 0 /\ daily = [date |-> 0, total_tokens |-> 0, reserved |-> 0]
      /\ llm_calls = [c \in Guarded |-> NoLlmCall] /\ bucket = 0
      /\ api_usage = [d \in 0 .. LastDate |-> 0] /\ stolen = 0 /\ unreserved = 0
  BY DEF RateLimiterInit
<1>2. /\ 0 \in 0 .. LastDate /\ 0 \in 0 .. PerCall /\ 0 \in 0 .. MostUsed /\ 0 \in 0 .. PerMinute
  BY LimiterConstants
<1>3. NoLlmCall \in LlmCalls
  BY <1>2 DEF NoLlmCall, LlmCalls
<1>4. CountsTypeOK
  BY <1>1, <1>2, <1>3 DEF CountsTypeOK
<1>5. Dated
  BY <1>1 DEF Dated, NoLlmCall
<1>6. Bounded
  <2>1. /\ CountedCalls(llm_calls) \in SUBSET Guarded /\ WrittenCalls(llm_calls) \in SUBSET Guarded
        /\ GoneCalls(llm_calls) \in SUBSET Guarded
    BY DEF CountedCalls, WrittenCalls, GoneCalls
  <2>2. /\ MostUsed * Cardinality(CountedCalls(llm_calls)) \in Nat
        /\ MostUsed * Cardinality(WrittenCalls(llm_calls)) \in Nat
        /\ PerCall * Cardinality(GoneCalls(llm_calls)) \in Nat
    BY <2>1, BoundOfAll, LimiterConstants
  <2> QED
    BY <1>1, <2>2 DEF Bounded
<1>7. Balanced(llm_calls, 0, 0, 0, 0, 0)
  <2>1. InFlight(llm_calls, 0) = {} /\ Uncounted(llm_calls, 0) = {}
    BY <1>1 DEF InFlight, Uncounted, NoLlmCall
  <2> QED
    BY <2>1, SumEmpty, LimiterConstants DEF Balanced
<1> QED
  BY <1>1, <1>4, <1>5, <1>6, <1>7 DEF LimiterInv

(* Every step keeps the invariant.                                         *)
LEMMA LimiterSteps == LimiterInv /\ [RateLimiterNext]_limiterVars => LimiterInv'
<1> SUFFICES ASSUME LimiterInv, [RateLimiterNext]_limiterVars PROVE LimiterInv'
  OBVIOUS
<1>1. ASSUME NEW c \in Guarded, NEW n \in 1 .. PerCall, check_and_reserve(c, n) PROVE LimiterInv'
  BY <1>1, CallReserves
<1>2. ASSUME NEW c \in Guarded, guard_enters(c) \/ guard_exits(c) \/ record_api_usage(c)
      PROVE  LimiterInv'
  BY <1>2, CallEnters, CallExits, UsageWritten
<1>3. ASSUME NEW c \in Guarded, NEW n \in 0 .. MostUsed, record_actual_usage(c, n) PROVE LimiterInv'
  BY <1>3, CallRecords
<1>4. CASE snapshot
  BY <1>4, SnapshotTaken
<1>5. CASE drained \/ date_changes \/ UNCHANGED limiterVars
  BY <1>5, LimiterTimePasses
<1> QED
  BY <1>1, <1>2, <1>3, <1>4, <1>5 DEF RateLimiterNext

(* The invariant gives the bounds and the two properties.                  *)
LEMMA LimiterSound == LimiterInv => LimiterInvariant
<1> SUFFICES ASSUME LimiterInv PROVE LimiterInvariant
  OBVIOUS
<1>1. PICK cs \in [Guarded -> LlmCalls] : cs = llm_calls
  BY DEF LimiterInv, CountsTypeOK
<1>2. PICK I, W : I = InFlight(cs, daily.date) /\ W = Uncounted(cs, daily.date)
  OBVIOUS
<1>3. I \in SUBSET Guarded /\ W \in SUBSET Guarded /\ TokenSum(I, cs) \in Nat /\ TokenSum(W, cs) \in Nat
      /\ TokenSum(I, cs) <= Cardinality(Guarded) * PerCall
  BY <1>2, InFlightFacts, TokensFinite
<1>4. /\ InFlightToday = I /\ {c \in InFlightToday : ~llm_calls[c].counted} = W
      /\ estimates(I) = TokenSum(I, cs) /\ estimates(W) = TokenSum(W, cs)
  BY <1>1, <1>2 DEF InFlightToday, InFlight, Uncounted, estimates, reserved_for, TokenSum, Tokens
<1>5. /\ daily.reserved <= TokenSum(I, cs) /\ TokenSum(I, cs) <= daily.reserved + stolen
      /\ daily.total_tokens + TokenSum(W, cs) <= HardLimit + unreserved + stolen
  BY <1>1, <1>2 DEF LimiterInv, Balanced
<1>6. ReservedForCalls /\ WithinHardLimit
  BY <1>4, <1>5 DEF ReservedForCalls, WithinHardLimit
<1>7. RateLimiterTypeOK
  <2>1. PICK k \in Nat, m \in Nat : /\ k = Cardinality(Guarded) * MostUsed
                                    /\ m = Cardinality(Guarded) * PerCall
    BY LimiterConstants
  <2>2. PICK a \in Nat : a = Cardinality(Guarded) * (PerCall + MostUsed) + HardLimit
    BY LimiterConstants
  <2>3. k <= a /\ m <= a
    <3>1. Cardinality(Guarded) * (PerCall + MostUsed) = m + k
      <4>1. PICK g \in Nat, p \in Nat, u \in Nat :
                g = Cardinality(Guarded) /\ p = PerCall /\ u = MostUsed
        BY LimiterConstants
      <4>2. g * (p + u) = g * p + g * u
        OBVIOUS
      <4> QED
        BY <2>1, <4>1, <4>2
    <3> QED
      BY <2>1, <2>2, <3>1, LimiterConstants
  <2>4. Amounts = 0 .. a
    BY <2>2 DEF Amounts
  <2>5. /\ CountedCalls(cs) \in SUBSET Guarded /\ WrittenCalls(cs) \in SUBSET Guarded
        /\ GoneCalls(cs) \in SUBSET Guarded
    BY DEF CountedCalls, WrittenCalls, GoneCalls
  <2>6. /\ MostUsed * Cardinality(CountedCalls(cs)) <= k /\ MostUsed * Cardinality(CountedCalls(cs)) \in Nat
        /\ MostUsed * Cardinality(WrittenCalls(cs)) <= k /\ MostUsed * Cardinality(WrittenCalls(cs)) \in Nat
        /\ PerCall * Cardinality(GoneCalls(cs)) <= m /\ PerCall * Cardinality(GoneCalls(cs)) \in Nat
    BY <2>1, <2>5, BoundOfAll, LimiterConstants
  <2>7. /\ daily \in [date : 0 .. LastDate, total_tokens : Nat, reserved : Nat]
        /\ daily.total_tokens \in Nat /\ daily.reserved \in Nat /\ daily.date \in 0 .. LastDate
        /\ stolen \in Nat /\ unreserved \in Nat /\ api_usage \in [0 .. LastDate -> Nat]
    BY DEF LimiterInv, CountsTypeOK
  <2>8. /\ daily.total_tokens <= MostUsed * Cardinality(CountedCalls(cs))
        /\ unreserved <= MostUsed * Cardinality(CountedCalls(cs))
        /\ \A d \in 0 .. LastDate : api_usage[d] <= MostUsed * Cardinality(WrittenCalls(cs))
        /\ stolen <= PerCall * Cardinality(GoneCalls(cs))
    BY <1>1 DEF LimiterInv, Bounded
  <2>9. daily.total_tokens \in 0 .. a /\ unreserved \in 0 .. a /\ stolen \in 0 .. a
    BY <2>3, <2>6, <2>7, <2>8
  <2>10. daily.reserved \in 0 .. a
    BY <1>3, <1>5, <2>1, <2>3, <2>7
  <2>11. \A d \in 0 .. LastDate : api_usage[d] \in 0 .. a
    <3>1. ASSUME NEW d \in 0 .. LastDate PROVE api_usage[d] \in 0 .. a
      <4>1. api_usage[d] \in Nat /\ api_usage[d] <= MostUsed * Cardinality(WrittenCalls(cs))
        BY <2>7, <2>8
      <4> QED
        BY <2>3, <2>6, <4>1
    <3> QED
      BY <3>1
  <2>12. daily \in [date : 0 .. LastDate, total_tokens : 0 .. a, reserved : 0 .. a]
    BY <2>7, <2>9, <2>10
  <2>13. api_usage \in [0 .. LastDate -> 0 .. a]
    BY <2>7, <2>11
  <2> QED
    BY <2>4, <2>9, <2>12, <2>13 DEF RateLimiterTypeOK, LimiterInv, CountsTypeOK, LlmCalls
<1> QED
  BY <1>6, <1>7 DEF LimiterInvariant

(* However calls of a provider overlap with one another and with           *)
(* midnight: what the counter holds reserved is what the calls in flight   *)
(* reserved, but for what a call of the day before took away, and the      *)
(* tokens counted and still reserved stay within the day's limit, but for  *)
(* those nothing was reserved for (src/rate_limiter.py 100-330).           *)
THEOREM LimiterCorrect == RateLimiterSpec => []LimiterInvariant
BY LimiterStarts, LimiterSteps, LimiterSound, PTL DEF RateLimiterSpec
=============================================================================
