---------------------------- MODULE AgentProofs -----------------------------
(****************************************************************************)
(* The agents: orchestrators and the sub-agents they start, and one         *)
(* agent's graph with its safeguards. The two modules share no state; each  *)
(* part below is about one of them.                                         *)
(****************************************************************************)
EXTENDS FanOut, FiniteSetTheorems, AgentLoop, TLAPS

(****************************************************************************)
(* Orchestrators and their sub-agents, for every number of runs, branches   *)
(* and clock readings. A token expires at a whole second (WholeTokens): so  *)
(* one that is derived less than a second after its parent was found valid  *)
(* still has some of its life left (Derived).                               *)
(****************************************************************************)

(* The constants are numbers, and a second has at least two of the units   *)
(* in which the clock is read.                                             *)
LEMMA FanOutConstants ==
    /\ Cap \in Nat /\ Cap >= 1 /\ TTL \in Nat /\ TTL >= 1 /\ Second \in Nat /\ Second >= 2
    /\ MaxBranches \in Nat /\ MaxTools \in Nat /\ MaxTime \in Nat /\ SubRun \notin Runs
BY FanOutAssumption DEF FanOutAssumption

(* The quotient, by the multiples that are around the number.              *)
LEMMA Division ==
    ASSUME NEW a \in Nat, NEW b \in Nat, b >= 1
    PROVE  /\ a \div b \in Nat /\ (a \div b) * b \in Nat
           /\ (a \div b) * b <= a /\ a < (a \div b) * b + b
<1>1. a \div b \in Nat
  OBVIOUS
<1>2. a = b * (a \div b) + (a % b) /\ a % b \in 0 .. b - 1
  OBVIOUS
<1>3. b * (a \div b) = (a \div b) * b /\ (a \div b) * b \in Nat
  BY <1>1
<1> QED
  BY <1>1, <1>2, <1>3

(* A multiple that is less than the next one is not above this one.        *)
LEMMA Multiples ==
    ASSUME NEW j \in Nat, NEW k \in Nat, NEW b \in Nat, j * b < k * b + b
    PROVE  j * b <= k * b
<1>1. CASE j <= k
  BY <1>1
<1>2. CASE j >= k + 1
  <2>1. PICK d \in Nat : j = k + 1 + d
    <3>1. j - (k + 1) \in Nat /\ j = k + 1 + (j - (k + 1))
      BY <1>2
    <3> QED
      BY <3>1
  <2>2. j * b = k * b + b + d * b /\ d * b \in Nat /\ k * b \in Nat
    BY <2>1
  <2> QED
    BY <2>2
<1> QED
  BY <1>1, <1>2

(* Tokens expire at whole seconds.                                         *)
WholeTimes == {k * Second : k \in Nat}
WholeTokens ==
    [run_id : Runs \cup {SubRun}, tools : SUBSET MasterTools, classes : SUBSET MasterClasses,
     expires_at : WholeTimes]

(* A time cut to its second is a whole second, and less than one before    *)
(* it.                                                                     *)
LEMMA WholeSeconds ==
    ASSUME NEW a \in Nat
    PROVE  /\ whole(a) \in WholeTimes /\ whole(a) \in Nat
           /\ whole(a) <= a /\ a < whole(a) + Second
BY FanOutConstants, Division DEF whole, WholeTimes

(* Whole seconds are times.                                                *)
LEMMA WholeTimesNat == WholeTimes \subseteq Nat
BY FanOutConstants DEF WholeTimes

(* Tokens that expire at whole seconds are tokens.                         *)
LEMMA WholeTokenTypes ==
    /\ WholeTokens \subseteq Tokens /\ NoToken \in WholeTokens /\ NoToken.run_id = SubRun
    /\ \A token \in WholeTokens :
          /\ token.expires_at \in WholeTimes /\ token.expires_at \in Nat
          /\ token.run_id \in Runs \cup {SubRun}
<1>1. 0 \in WholeTimes
  <2>1. 0 = 0 * Second
    BY FanOutConstants
  <2> QED
    BY <2>1 DEF WholeTimes
<1> QED
  BY <1>1, WholeTimesNat DEF WholeTokens, Tokens, NoToken

(* A token that is issued expires at a whole second, later than now.       *)
LEMMA Issued ==
    ASSUME NEW run \in Runs \cup {SubRun}, NEW tools \in SUBSET MasterTools,
           NEW classes \in SUBSET MasterClasses, NEW t \in Nat, NEW ttl \in Nat, ttl >= 1
    PROVE  /\ issue_task_token(run, tools, classes, t, ttl) \in WholeTokens
           /\ t < issue_task_token(run, tools, classes, t, ttl).expires_at
<1>1. PICK a \in Nat : a = t + ttl * Second
  BY FanOutConstants
<1>2. a >= t + Second
  <2>1. PICK d \in Nat : ttl = 1 + d
    <3>1. ttl - 1 \in Nat /\ ttl = 1 + (ttl - 1)
      OBVIOUS
    <3> QED
      BY <3>1
  <2>2. ttl * Second = Second + d * Second /\ d * Second \in Nat
    BY <2>1, FanOutConstants
  <2> QED
    BY <1>1, <2>2, FanOutConstants
<1>3. whole(a) \in WholeTimes /\ t < whole(a)
  BY <1>2, WholeSeconds, FanOutConstants
<1> QED
  BY <1>1, <1>3 DEF issue_task_token, WholeTokens

(* A derived token is within its parent and still valid: the second        *)
(* reading of the clock is less than a second later, and both expiries are *)
(* whole.                                                                  *)
LEMMA Derived ==
    ASSUME NEW parent \in WholeTokens, time \in Nat, NEW t \in {time, time + 1},
           NEW tools \in SUBSET MasterTools, NEW classes \in SUBSET MasterClasses,
           derive_task_token(parent, tools, classes, t) # NoToken
    PROVE  LET child == derive_task_token(parent, tools, classes, t)
           IN  /\ child \in WholeTokens /\ t < child.expires_at
               /\ child.tools \subseteq parent.tools /\ child.classes \subseteq parent.classes
               /\ child.expires_at <= parent.expires_at /\ child.run_id = parent.run_id
<1>1. /\ validate_task_token(parent) /\ child_ttl(parent) > 0
      /\ tools \subseteq parent.tools /\ classes \subseteq parent.classes
      /\ derive_task_token(parent, tools, classes, t)
            = issue_task_token(parent.run_id, tools, classes, t, child_ttl(parent))
  BY DEF derive_task_token
<1>2. /\ parent.expires_at \in Nat /\ parent.expires_at \in WholeTimes
      /\ parent.run_id \in Runs \cup {SubRun} /\ time < parent.expires_at
  BY <1>1, WholeTokenTypes DEF validate_task_token
<1>3. PICK expires : /\ expires = IF parent.expires_at < time + TTL * Second
                                  THEN parent.expires_at ELSE time + TTL * Second
                     /\ child_ttl(parent) = (expires - time) \div Second
  BY DEF child_ttl
<1>4. TTL * Second \in Nat /\ TTL * Second >= 0
  BY FanOutConstants
<1>5. expires \in Nat /\ expires <= parent.expires_at /\ expires - time \in Nat
  BY <1>2, <1>3, <1>4
<1>6. PICK ttl \in Nat : /\ ttl = child_ttl(parent) /\ ttl >= 1
                         /\ ttl * Second <= expires - time /\ ttl * Second \in Nat
  <2>1. /\ child_ttl(parent) \in Nat /\ child_ttl(parent) >= 1
        /\ child_ttl(parent) * Second <= expires - time /\ child_ttl(parent) * Second \in Nat
    BY <1>1, <1>3, <1>5, Division, FanOutConstants
  <2> QED
    BY <2>1
<1>7. t \in Nat /\ t <= time + 1
  OBVIOUS
<1>8. /\ issue_task_token(parent.run_id, tools, classes, t, ttl) \in WholeTokens
      /\ t < issue_task_token(parent.run_id, tools, classes, t, ttl).expires_at
  BY <1>2, <1>6, <1>7, Issued
<1>9. whole(t + ttl * Second) <= parent.expires_at
  <2>1. PICK a \in Nat : a = t + ttl * Second
    BY <1>6, <1>7
  <2>2. a <= parent.expires_at + 1
    BY <1>2, <1>5, <1>6, <1>7, <2>1
  <2>3. PICK k \in Nat : parent.expires_at = k * Second
    BY <1>2 DEF WholeTimes
  <2>4. PICK j \in Nat : whole(a) = j * Second
    BY WholeSeconds DEF WholeTimes
  <2>5. whole(a) <= a /\ whole(a) \in Nat
    BY WholeSeconds
  <2>6. j * Second < k * Second + Second
    BY <1>2, <2>2, <2>3, <2>4, <2>5, FanOutConstants
  <2>7. j * Second <= k * Second
    BY <2>6, Multiples, FanOutConstants
  <2> QED
    BY <2>1, <2>3, <2>4, <2>7
<1>10. PICK child : child = derive_task_token(parent, tools, classes, t)
  OBVIOUS
<1>11. /\ child = issue_task_token(parent.run_id, tools, classes, t, ttl)
       /\ child = [run_id |-> parent.run_id, tools |-> tools, classes |-> classes,
                   expires_at |-> whole(t + ttl * Second)]
  BY <1>1, <1>6, <1>10 DEF issue_task_token
<1>12. /\ child \in WholeTokens /\ t < child.expires_at
       /\ child.tools \subseteq parent.tools /\ child.classes \subseteq parent.classes
       /\ child.expires_at <= parent.expires_at /\ child.run_id = parent.run_id
  BY <1>1, <1>8, <1>9, <1>11
<1> QED
  BY <1>10, <1>12

-----------------------------------------------------------------------------

BranchRow == [state : BranchStates, token : WholeTokens, started : Nat]
Orchestrator ==
    [stage : {"new", "thinking", "spawned", "fan_out", "done"}, parent : WholeTokens,
     free : 0 .. Cap, tools : 0 .. MaxTools]

BranchValid(b) == b.state # "waiting" /\ secret => b.started < b.token.expires_at

RunningOf(r) == {i \in DOMAIN branches[r] : branches[r][i].state = "running"}

OneOpen == \A q, r \in Runs : open(q) /\ open(r) => q = r
OwnRuns(r) == {r, SubRun}
OwnTokens ==
    \A r \in Runs :
        /\ open(r) => _master_token_ref.run_id \in OwnRuns(r)
        /\ orchestrators[r].stage = "fan_out" => orchestrators[r].parent.run_id \in OwnRuns(r)
        /\ \A i \in DOMAIN branches[r] : branches[r][i].token.run_id \in OwnRuns(r)

FanOutInv ==
    /\ FanOutTypeOK
    /\ _master_token_ref \in WholeTokens
    /\ orchestrators \in [Runs -> Orchestrator]
    /\ branches \in [Runs -> Seq(BranchRow)]
    /\ ChildWithinParent
    /\ StartsValid
    /\ SlotsExact
    /\ ~crossed => OneOpen /\ OwnTokens

(* A sub-agent starts with the token it is given or one of its own.        *)
LEMMA BranchRunning ==
    ASSUME NEW given \in WholeTokens, NEW t \in Nat,
           given # NoToken => t < given.expires_at
    PROVE  /\ running(given, t) \in BranchRow /\ running(given, t).state = "running"
           /\ BranchValid(running(given, t))
           /\ running(given, t).token.run_id \in {given.run_id, SubRun}
<1>1. PICK token : token = run_researcher_token(given, t)
  OBVIOUS
<1>2. token \in WholeTokens /\ (secret => t < token.expires_at) /\ token.run_id \in {given.run_id, SubRun}
  <2>1. CASE given # NoToken \/ ~secret
    <3>1. token = given
      BY <1>1, <2>1 DEF run_researcher_token
    <3>2. secret => given # NoToken
      BY <2>1
    <3> QED
      BY <3>1, <3>2
  <2>2. CASE ~(given # NoToken \/ ~secret)
    <3>1. token = issue_task_token(SubRun, ResearcherTools, {"public"}, t, TTL)
      BY <1>1, <2>2 DEF run_researcher_token
    <3>2. ResearcherTools \in SUBSET MasterTools /\ {"public"} \in SUBSET MasterClasses
      BY DEF ResearcherTools, MasterTools, MasterClasses
    <3>3. token \in WholeTokens /\ t < token.expires_at
      BY <3>1, <3>2, Issued, FanOutConstants
    <3>4. token.run_id = SubRun
      BY <3>1 DEF issue_task_token
    <3> QED
      BY <3>3, <3>4
  <2> QED
    BY <2>1, <2>2
<1>3. PICK b : b = [state |-> "running", token |-> token, started |-> t]
  OBVIOUS
<1>4. b = running(given, t)
  BY <1>1, <1>3 DEF running
<1>5. b \in BranchRow /\ b.state = "running" /\ b.token = token /\ b.started = t
  BY <1>2, <1>3 DEF BranchRow, BranchStates
<1>6. BranchValid(b)
  BY <1>2, <1>5 DEF BranchValid
<1> QED
  BY <1>2, <1>4, <1>5, <1>6

(* What a sub-agent of a parent token gets, at the second reading.         *)
LEMMA SubAgent ==
    ASSUME NEW parent \in WholeTokens, time \in Nat, NEW t \in {time, time + 1}, NEW child,
           child = derive_task_token(parent, ResearcherTools, {"public"}, t)
    PROVE  /\ child \in WholeTokens
           /\ running(child, t) \in BranchRow /\ running(child, t).state = "running"
           /\ BranchValid(running(child, t))
           /\ running(child, t).token.run_id \in {parent.run_id, SubRun}
           /\ child # NoToken =>
                 /\ child.tools \subseteq parent.tools /\ child.classes \subseteq parent.classes
                 /\ child.expires_at <= parent.expires_at /\ child.run_id = parent.run_id
<1>1. ResearcherTools \in SUBSET MasterTools /\ {"public"} \in SUBSET MasterClasses
  BY DEF ResearcherTools, MasterTools, MasterClasses
<1>2. /\ child \in WholeTokens
      /\ child # NoToken =>
            /\ t < child.expires_at
            /\ child.tools \subseteq parent.tools /\ child.classes \subseteq parent.classes
            /\ child.expires_at <= parent.expires_at /\ child.run_id = parent.run_id
  <2>1. CASE child = NoToken
    BY <2>1, WholeTokenTypes
  <2>2. CASE child # NoToken
    BY <1>1, <2>2, Derived
  <2> QED
    BY <2>1, <2>2
<1>3. child.run_id \in {parent.run_id, SubRun}
  BY <1>2, WholeTokenTypes
<1>4. t \in Nat
  OBVIOUS
<1> QED
  BY <1>2, <1>3, <1>4, BranchRunning

(* The types in a form that the steps use.                                 *)
LEMMA FanOutTypes ==
    ASSUME FanOutInv
    PROVE  /\ time \in Nat /\ secret \in BOOLEAN /\ crossed \in BOOLEAN /\ time <= MaxTime
           /\ _master_token_ref \in WholeTokens /\ derivations \subseteq Tokens \X Tokens
           /\ \A r \in Runs :
                /\ orchestrators[r] \in Orchestrator
                /\ orchestrators[r].free \in 0 .. Cap /\ orchestrators[r].tools \in 0 .. MaxTools
                /\ orchestrators[r].parent \in WholeTokens
                /\ branches[r] \in Seq(BranchRow)
                /\ \A i \in DOMAIN branches[r] :
                     branches[r][i] \in BranchRow /\ BranchValid(branches[r][i])
                /\ IsFiniteSet(RunningOf(r)) /\ Cardinality(RunningOf(r)) \in Nat
<1>1. /\ time \in Nat /\ secret \in BOOLEAN /\ crossed \in BOOLEAN /\ time <= MaxTime
      /\ _master_token_ref \in WholeTokens /\ derivations \subseteq Tokens \X Tokens
  BY DEF FanOutInv, FanOutTypeOK
<1>2. ASSUME NEW r \in Runs
      PROVE  /\ orchestrators[r] \in Orchestrator
             /\ orchestrators[r].free \in 0 .. Cap /\ orchestrators[r].tools \in 0 .. MaxTools
             /\ orchestrators[r].parent \in WholeTokens
             /\ branches[r] \in Seq(BranchRow)
             /\ \A i \in DOMAIN branches[r] :
                  branches[r][i] \in BranchRow /\ BranchValid(branches[r][i])
             /\ IsFiniteSet(RunningOf(r)) /\ Cardinality(RunningOf(r)) \in Nat
  <2>1. orchestrators[r] \in Orchestrator /\ branches[r] \in Seq(BranchRow)
    BY DEF FanOutInv
  <2>2. \A i \in DOMAIN branches[r] : BranchValid(branches[r][i])
    BY DEF FanOutInv, StartsValid, BranchValid
  <2>3. RunningOf(r) \subseteq 1 .. Len(branches[r]) /\ Len(branches[r]) \in Nat
    BY <2>1 DEF RunningOf
  <2>4. IsFiniteSet(RunningOf(r)) /\ Cardinality(RunningOf(r)) \in Nat
    <3>1. IsFiniteSet(1 .. Len(branches[r]))
      BY <2>3, FS_Interval
    <3> QED
      BY <2>3, <3>1, FS_Subset, FS_CardinalityType
  <2> QED
    BY <2>1, <2>2, <2>4 DEF Orchestrator
<1> QED
  BY <1>1, <1>2

(* The types after a step of one run.                                      *)
LEMMA RunTypes ==
    ASSUME FanOutInv, NEW r \in Runs, NEW o \in Orchestrator, NEW bs \in Seq(BranchRow),
           secret' = secret, crossed' \in BOOLEAN, time' \in Nat, time' <= MaxTime,
           _master_token_ref' \in WholeTokens,
           orchestrators' = [orchestrators EXCEPT ![r] = o],
           branches' = [branches EXCEPT ![r] = bs],
           derivations' \subseteq Tokens \X Tokens
    PROVE  /\ FanOutTypeOK'
           /\ orchestrators' \in [Runs -> Orchestrator] /\ branches' \in [Runs -> Seq(BranchRow)]
           /\ orchestrators'[r] = o /\ branches'[r] = bs
           /\ \A q \in Runs : q # r => orchestrators'[q] = orchestrators[q] /\ branches'[q] = branches[q]
<1>1. orchestrators \in [Runs -> Orchestrator] /\ branches \in [Runs -> Seq(BranchRow)]
  BY DEF FanOutInv
<1>2. /\ orchestrators' \in [Runs -> Orchestrator] /\ branches' \in [Runs -> Seq(BranchRow)]
      /\ orchestrators'[r] = o /\ branches'[r] = bs
      /\ \A q \in Runs : q # r => orchestrators'[q] = orchestrators[q] /\ branches'[q] = branches[q]
  BY <1>1
<1>3. _master_token_ref' \in Tokens
  BY WholeTokenTypes
<1>4. \A q \in Runs : /\ orchestrators'[q].stage \in {"new", "thinking", "spawned", "fan_out", "done"}
                      /\ orchestrators'[q].free \in 0 .. Cap
                      /\ orchestrators'[q].tools \in 0 .. MaxTools
  BY <1>2 DEF Orchestrator
<1>5. ASSUME NEW q \in Runs, NEW i \in DOMAIN branches'[q]
      PROVE  branches'[q][i].state \in BranchStates /\ branches'[q][i].token \in Tokens
  <2>1. branches'[q][i] \in BranchRow
    BY <1>2
  <2> QED
    BY <2>1, WholeTokenTypes DEF BranchRow
<1>6. secret' \in BOOLEAN
  BY DEF FanOutInv, FanOutTypeOK
<1> QED
  BY <1>2, <1>3, <1>4, <1>5, <1>6 DEF FanOutTypeOK

WithinParent(d) ==
    /\ d[1].tools \subseteq d[2].tools /\ d[1].classes \subseteq d[2].classes
    /\ d[1].expires_at <= d[2].expires_at /\ d[1].run_id = d[2].run_id

(* A step of one run keeps the invariant, if its tokens are its own and    *)
(* its branches valid.                                                     *)
LEMMA RunSteps ==
    ASSUME FanOutInv, NEW r \in Runs, NEW o \in Orchestrator, NEW bs \in Seq(BranchRow),
           secret' = secret, crossed' \in BOOLEAN, time' \in Nat, time' <= MaxTime,
           _master_token_ref' \in WholeTokens,
           orchestrators' = [orchestrators EXCEPT ![r] = o],
           branches' = [branches EXCEPT ![r] = bs],
           derivations' \subseteq Tokens \X Tokens,
           \A d \in derivations' : d \in derivations \/ WithinParent(d),
           \A i \in DOMAIN bs : BranchValid(bs[i]),
           o.stage = "fan_out" =>
              o.free + Cardinality({i \in DOMAIN bs : bs[i].state = "running"}) = Cap,
           ~crossed' => OneOpen' /\ OwnTokens'
    PROVE  FanOutInv'
<1>1. /\ FanOutTypeOK'
      /\ orchestrators' \in [Runs -> Orchestrator] /\ branches' \in [Runs -> Seq(BranchRow)]
      /\ orchestrators'[r] = o /\ branches'[r] = bs
      /\ \A q \in Runs : q # r => orchestrators'[q] = orchestrators[q] /\ branches'[q] = branches[q]
  BY RunTypes
<1>2. ChildWithinParent'
  BY DEF FanOutInv, ChildWithinParent, WithinParent
<1>3. StartsValid'
  <2> SUFFICES ASSUME NEW q \in Runs, NEW i \in DOMAIN branches'[q] PROVE BranchValid(branches'[q][i])
    BY DEF StartsValid, BranchValid
  <2>1. CASE q = r
    BY <1>1, <2>1
  <2>2. CASE q # r
    BY <1>1, <2>2, FanOutTypes
  <2> QED
    BY <2>1, <2>2
<1>4. SlotsExact'
  <2> SUFFICES ASSUME NEW q \in Runs, orchestrators'[q].stage = "fan_out"
               PROVE  orchestrators'[q].free
                        + Cardinality({i \in DOMAIN branches'[q] : branches'[q][i].state = "running"}) = Cap
    BY DEF SlotsExact
  <2>1. CASE q = r
    <3>1. {i \in DOMAIN branches'[q] : branches'[q][i].state = "running"}
            = {i \in DOMAIN bs : bs[i].state = "running"}
      BY <1>1, <2>1
    <3> QED
      BY <1>1, <2>1, <3>1
  <2>2. CASE q # r
    <3>1. orchestrators'[q] = orchestrators[q] /\ branches'[q] = branches[q]
      BY <1>1, <2>2
    <3> QED
      BY <3>1 DEF FanOutInv, SlotsExact
  <2> QED
    BY <2>1, <2>2
<1> QED
  BY <1>1, <1>2, <1>3, <1>4 DEF FanOutInv

(* A step within an open run leaves the tokens its own.                    *)
LEMMA OwnKept ==
    ASSUME FanOutInv, NEW r \in Runs, ~crossed,
           _master_token_ref' = _master_token_ref,
           open(r)' => open(r),
           orchestrators'[r].stage = "fan_out" => orchestrators'[r].parent.run_id \in OwnRuns(r),
           \A i \in DOMAIN branches'[r] : branches'[r][i].token.run_id \in OwnRuns(r),
           \A q \in Runs : q # r => orchestrators'[q] = orchestrators[q] /\ branches'[q] = branches[q]
    PROVE  OneOpen' /\ OwnTokens'
<1>1. OneOpen /\ OwnTokens
  BY DEF FanOutInv
<1>2. \A q \in Runs : open(q)' => open(q)
  BY DEF open
<1>3. OneOpen'
  BY <1>1, <1>2 DEF OneOpen
<1>4. OwnTokens'
  BY <1>1, <1>2 DEF OwnTokens
<1> QED
  BY <1>3, <1>4

(* A run begins with a token of its own.                                   *)
LEMMA RunBegins == ASSUME FanOutInv, NEW r \in Runs, run_orchestrator(r) PROVE FanOutInv'
<1>1. /\ orchestrators[r].stage = "new" /\ _master_token_ref' = _issue_master_token(r)
      /\ orchestrators' = [orchestrators EXCEPT ![r] = [orchestrators[r] EXCEPT !.stage = "thinking"]]
      /\ crossed' = (crossed \/ \E q \in Runs : open(q))
      /\ secret' = secret /\ time' = time /\ branches' = branches /\ derivations' = derivations
  BY DEF run_orchestrator
<1>2. PICK o : o = [orchestrators[r] EXCEPT !.stage = "thinking"]
  OBVIOUS
<1>3. o \in Orchestrator /\ o.stage = "thinking" /\ branches[r] \in Seq(BranchRow)
  BY <1>2, FanOutTypes DEF Orchestrator
<1>4. branches' = [branches EXCEPT ![r] = branches[r]] /\ orchestrators' = [orchestrators EXCEPT ![r] = o]
  BY <1>1, <1>2 DEF FanOutInv
<1>5. _master_token_ref' \in WholeTokens /\ _master_token_ref'.run_id \in OwnRuns(r)
  <2>1. CASE secret
    <3>1. _master_token_ref' = issue_task_token(r, MasterTools, MasterClasses, time, TTL)
      BY <1>1, <2>1 DEF _issue_master_token
    <3>2. MasterTools \in SUBSET MasterTools /\ MasterClasses \in SUBSET MasterClasses /\ time \in Nat
      BY FanOutTypes
    <3>3. _master_token_ref' \in WholeTokens
      BY <3>1, <3>2, Issued, FanOutConstants
    <3>4. _master_token_ref'.run_id = r
      BY <3>1 DEF issue_task_token
    <3> QED
      BY <3>3, <3>4 DEF OwnRuns
  <2>2. CASE ~secret
    BY <1>1, <2>2, WholeTokenTypes DEF _issue_master_token, OwnRuns
  <2> QED
    BY <2>1, <2>2
<1>6. crossed' \in BOOLEAN
  BY <1>1, FanOutTypes
<1>7. /\ FanOutTypeOK'
      /\ orchestrators'[r] = o /\ branches'[r] = branches[r]
      /\ \A q \in Runs : q # r => orchestrators'[q] = orchestrators[q] /\ branches'[q] = branches[q]
  BY <1>1, <1>3, <1>4, <1>5, <1>6, RunTypes, FanOutTypes
<1>8. ASSUME ~crossed' PROVE OneOpen' /\ OwnTokens'
  <2>1. ~crossed /\ \A q \in Runs : ~open(q)
    BY <1>1, <1>8
  <2>2. OwnTokens
    BY <2>1 DEF FanOutInv
  <2>3. \A q \in Runs : open(q)' => q = r
    BY <1>7, <2>1 DEF open
  <2>4. OneOpen'
    BY <2>3 DEF OneOpen
  <2>5. OwnTokens'
    BY <1>1, <1>3, <1>5, <1>7, <2>2, <2>3 DEF OwnTokens
  <2> QED
    BY <2>4, <2>5
<1>9. \A i \in DOMAIN branches[r] : BranchValid(branches[r][i])
  BY FanOutTypes
<1> QED
  BY <1>1, <1>3, <1>4, <1>5, <1>6, <1>8, <1>9, RunSteps, FanOutTypes

(* A derived token is noted with its parent.                               *)
LEMMA Noted ==
    ASSUME FanOutInv, NEW parent \in WholeTokens, NEW child \in WholeTokens,
           child # NoToken => WithinParent(<<child, parent>>), record(child, parent)
    PROVE  /\ derivations' \subseteq Tokens \X Tokens
           /\ \A d \in derivations' : d \in derivations \/ WithinParent(d)
BY WholeTokenTypes, FanOutTypes DEF record

(* The orchestrator starts one sub-agent.                                  *)
LEMMA Spawns == ASSUME FanOutInv, NEW r \in Runs, spawn_researcher(r) PROVE FanOutInv'
<1>1. /\ orchestrators[r].stage = "thinking" /\ orchestrators[r].tools < MaxTools
      /\ secret' = secret /\ _master_token_ref' = _master_token_ref /\ crossed' = crossed
  BY DEF spawn_researcher, called
<1>2. PICK t, child :
         /\ t \in Readings /\ child = derive_task_token(_master_token_ref, ResearcherTools, {"public"}, t)
         /\ branches' = [branches EXCEPT ![r] = <<running(child, t)>>]
         /\ record(child, _master_token_ref) /\ time' = t
  BY DEF spawn_researcher, _derive_researcher_token
<1>3. PICK o : /\ o = [orchestrators[r] EXCEPT !.stage = "spawned", !.tools = orchestrators[r].tools + 1]
               /\ orchestrators' = [orchestrators EXCEPT ![r] = o]
  BY FanOutTypes DEF FanOutInv, spawn_researcher, Orchestrator
<1>4. /\ o \in Orchestrator /\ o.stage = "spawned"
  <2>1. orchestrators[r].tools + 1 \in 0 .. MaxTools
    BY <1>1, FanOutTypes, FanOutConstants
  <2> QED
    BY <1>3, <2>1, FanOutTypes DEF Orchestrator
<1>5. t \in {time, time + 1} /\ t \in Nat /\ t <= MaxTime /\ time \in Nat
  BY <1>2, FanOutTypes DEF Readings
<1>6. PICK b : b = running(child, t)
  OBVIOUS
<1>7. /\ child \in WholeTokens
      /\ b \in BranchRow /\ b.state = "running" /\ BranchValid(b)
      /\ b.token.run_id \in {_master_token_ref.run_id, SubRun}
      /\ child # NoToken => WithinParent(<<child, _master_token_ref>>)
  BY <1>2, <1>5, <1>6, SubAgent, FanOutTypes DEF WithinParent
<1>8. <<b>> \in Seq(BranchRow) /\ DOMAIN <<b>> = {1} /\ <<b>>[1] = b
  BY <1>7
<1>9. /\ derivations' \subseteq Tokens \X Tokens
      /\ \A d \in derivations' : d \in derivations \/ WithinParent(d)
  BY <1>2, <1>7, Noted, FanOutTypes
<1>10. branches' = [branches EXCEPT ![r] = <<b>>]
  BY <1>2, <1>6
<1>11. /\ FanOutTypeOK'
       /\ orchestrators'[r] = o /\ branches'[r] = <<b>>
       /\ \A q \in Runs : q # r => orchestrators'[q] = orchestrators[q] /\ branches'[q] = branches[q]
  BY <1>1, <1>2, <1>3, <1>4, <1>5, <1>8, <1>9, <1>10, RunTypes, FanOutTypes
<1>12. ASSUME ~crossed' PROVE OneOpen' /\ OwnTokens'
  <2>1. ~crossed /\ open(r) /\ orchestrators'[r].stage # "fan_out"
    BY <1>1, <1>4, <1>11, <1>12 DEF open
  <2>2. _master_token_ref.run_id \in OwnRuns(r)
    BY <2>1 DEF FanOutInv, OwnTokens
  <2>3. b.token.run_id \in OwnRuns(r)
    BY <1>7, <2>2 DEF OwnRuns
  <2>4. \A i \in DOMAIN branches'[r] : branches'[r][i].token.run_id \in OwnRuns(r)
    BY <1>8, <1>11, <2>3
  <2> QED
    BY <1>1, <1>11, <2>1, <2>4, OwnKept
<1>13. \A i \in DOMAIN <<b>> : BranchValid(<<b>>[i])
  BY <1>7, <1>8
<1>14. time' \in Nat /\ time' <= MaxTime /\ crossed' \in BOOLEAN /\ _master_token_ref' \in WholeTokens
  BY <1>1, <1>2, <1>5, FanOutTypes
<1> QED
  BY <1>1, <1>3, <1>4, <1>8, <1>9, <1>10, <1>12, <1>13, <1>14, RunSteps

(* The orchestrator starts several sub-agents, which wait for their turn.  *)
LEMMA FansOut == ASSUME FanOutInv, NEW r \in Runs, fan_out_researchers(r) PROVE FanOutInv'
<1>1. /\ orchestrators[r].stage = "thinking" /\ orchestrators[r].tools < MaxTools
      /\ secret' = secret /\ _master_token_ref' = _master_token_ref /\ crossed' = crossed
      /\ time' = time /\ derivations' = derivations
  BY DEF fan_out_researchers, called
<1>2. PICK n, bs :
         n \in 1 .. MaxBranches /\ bs = [i \in 1 .. n |-> Waiting] /\ branches' = [branches EXCEPT ![r] = bs]
  BY DEF fan_out_researchers
<1>3. PICK o : /\ o = [orchestrators[r] EXCEPT !.stage = "fan_out", !.tools = orchestrators[r].tools + 1,
                                               !.parent = _master_token_ref, !.free = Cap]
               /\ orchestrators' = [orchestrators EXCEPT ![r] = o]
  <2>1. orchestrators \in [Runs -> Orchestrator]
    BY DEF FanOutInv
  <2>2. orchestrators' = [orchestrators EXCEPT ![r].stage = "fan_out", ![r].tools = @ + 1,
                                               ![r].parent = _master_token_ref, ![r].free = Cap]
    BY DEF fan_out_researchers
  <2> QED
    BY <2>1, <2>2 DEF Orchestrator
<1>4. /\ o \in Orchestrator /\ o.stage = "fan_out" /\ o.free = Cap /\ o.parent = _master_token_ref
  <2>1. orchestrators[r].tools + 1 \in 0 .. MaxTools /\ Cap \in 0 .. Cap
    BY <1>1, FanOutTypes, FanOutConstants
  <2> QED
    BY <1>3, <2>1, FanOutTypes DEF Orchestrator
<1>5. Waiting \in BranchRow /\ Waiting.state = "waiting" /\ Waiting.token.run_id = SubRun
  BY WholeTokenTypes DEF Waiting, BranchRow, BranchStates
<1>6. /\ bs \in Seq(BranchRow) /\ \A i \in DOMAIN bs : bs[i] = Waiting
  BY <1>2, <1>5, FanOutConstants
<1>7. {i \in DOMAIN bs : bs[i].state = "running"} = {}
  BY <1>5, <1>6
<1>8. o.free + Cardinality({i \in DOMAIN bs : bs[i].state = "running"}) = Cap
  <2>1. Cardinality({i \in DOMAIN bs : bs[i].state = "running"}) = 0
    BY <1>7, FS_EmptySet, Zenon
  <2> QED
    BY <1>4, <2>1, FanOutConstants
<1>9. \A i \in DOMAIN bs : BranchValid(bs[i])
  BY <1>5, <1>6 DEF BranchValid
<1>10. /\ time' \in Nat /\ time' <= MaxTime /\ crossed' \in BOOLEAN /\ _master_token_ref' \in WholeTokens
       /\ derivations' \subseteq Tokens \X Tokens
  BY <1>1, FanOutTypes
<1>11. /\ orchestrators'[r] = o /\ branches'[r] = bs
       /\ \A q \in Runs : q # r => orchestrators'[q] = orchestrators[q] /\ branches'[q] = branches[q]
  BY <1>1, <1>2, <1>3, <1>4, <1>6, <1>10, RunTypes
<1>12. ASSUME ~crossed' PROVE OneOpen' /\ OwnTokens'
  <2>1. ~crossed /\ open(r)
    BY <1>1, <1>12 DEF open
  <2>2. _master_token_ref.run_id \in OwnRuns(r)
    BY <2>1 DEF FanOutInv, OwnTokens
  <2>3. \A i \in DOMAIN branches'[r] : branches'[r][i].token.run_id \in OwnRuns(r)
    BY <1>5, <1>6, <1>11 DEF OwnRuns
  <2> QED
    BY <1>1, <1>4, <1>11, <2>1, <2>2, <2>3, OwnKept
<1> QED
  BY <1>1, <1>2, <1>3, <1>4, <1>6, <1>8, <1>9, <1>10, <1>12, RunSteps

(* A branch that waits is started, at a later reading of the clock.        *)
LEMMA BranchRuns ==
    ASSUME FanOutInv, NEW r \in Runs, NEW i \in DOMAIN branches[r], _run_branch(r, i) PROVE FanOutInv'
<1>1. /\ orchestrators[r].stage = "fan_out" /\ orchestrators[r].free > 0
      /\ branches[r][i].state = "waiting"
      /\ secret' = secret /\ _master_token_ref' = _master_token_ref /\ crossed' = crossed
  BY DEF _run_branch
<1>2. PICK parent \in WholeTokens : parent = orchestrators[r].parent
  BY FanOutTypes
<1>3. PICK t, child :
         /\ t \in Readings /\ child = derive_task_token(parent, ResearcherTools, {"public"}, t)
         /\ branches' = [branches EXCEPT ![r] = [branches[r] EXCEPT ![i] = running(child, t)]]
         /\ record(child, parent) /\ time' = t
  BY <1>2 DEF _run_branch, _derive_branch_token
<1>4. PICK o : /\ o = [orchestrators[r] EXCEPT !.free = orchestrators[r].free - 1]
               /\ orchestrators' = [orchestrators EXCEPT ![r] = o]
  BY DEF _run_branch
<1>5. /\ o \in Orchestrator /\ o.stage = "fan_out" /\ o.free = orchestrators[r].free - 1
      /\ o.parent = parent
  <2>1. orchestrators[r].free - 1 \in 0 .. Cap
    BY <1>1, FanOutTypes, FanOutConstants
  <2> QED
    BY <1>1, <1>2, <1>4, <2>1, FanOutTypes DEF Orchestrator
<1>6. t \in {time, time + 1} /\ t \in Nat /\ t <= MaxTime /\ time \in Nat
  BY <1>3, FanOutTypes DEF Readings
<1>7. PICK b, bs : b = running(child, t) /\ bs = [branches[r] EXCEPT ![i] = b]
  OBVIOUS
<1>8. /\ child \in WholeTokens
      /\ b \in BranchRow /\ b.state = "running" /\ BranchValid(b)
      /\ b.token.run_id \in {parent.run_id, SubRun}
      /\ child # NoToken => WithinParent(<<child, parent>>)
  BY <1>3, <1>6, <1>7, SubAgent DEF WithinParent
<1>9. /\ bs \in Seq(BranchRow) /\ DOMAIN bs = DOMAIN branches[r] /\ bs[i] = b
      /\ \A j \in DOMAIN branches[r] : j # i => bs[j] = branches[r][j]
  BY <1>7, <1>8, FanOutTypes
<1>10. /\ derivations' \subseteq Tokens \X Tokens
       /\ \A d \in derivations' : d \in derivations \/ WithinParent(d)
  BY <1>3, <1>8, Noted
<1>11. branches' = [branches EXCEPT ![r] = bs]
  BY <1>3, <1>7
<1>12. \A j \in DOMAIN bs : BranchValid(bs[j])
  BY <1>8, <1>9, FanOutTypes
<1>13. o.free + Cardinality({j \in DOMAIN bs : bs[j].state = "running"}) = Cap
  <2>1. {j \in DOMAIN bs : bs[j].state = "running"} = RunningOf(r) \cup {i} /\ i \notin RunningOf(r)
    BY <1>1, <1>8, <1>9 DEF RunningOf
  <2>2. Cardinality(RunningOf(r) \cup {i}) = Cardinality(RunningOf(r)) + 1
    BY <2>1, FanOutTypes, FS_AddElement
  <2>3. orchestrators[r].free + Cardinality(RunningOf(r)) = Cap
    BY <1>1 DEF FanOutInv, SlotsExact, RunningOf
  <2>4. Cardinality({j \in DOMAIN bs : bs[j].state = "running"}) = Cardinality(RunningOf(r)) + 1
    BY <2>1, <2>2
  <2>5. PICK n \in Nat : n = Cardinality(RunningOf(r))
    BY FanOutTypes, FS_CardinalityType
  <2>6. PICK f \in Nat : f = orchestrators[r].free
    BY FanOutTypes
  <2>7. f + n = Cap /\ (f - 1) + (n + 1) = f + n
    BY <2>3, <2>5, <2>6
  <2> QED
    BY <1>5, <2>4, <2>5, <2>6, <2>7
<1>14. time' \in Nat /\ time' <= MaxTime /\ crossed' \in BOOLEAN /\ _master_token_ref' \in WholeTokens
  BY <1>1, <1>3, <1>6, FanOutTypes
<1>15. /\ orchestrators'[r] = o /\ branches'[r] = bs
       /\ \A q \in Runs : q # r => orchestrators'[q] = orchestrators[q] /\ branches'[q] = branches[q]
  BY <1>1, <1>4, <1>5, <1>9, <1>10, <1>11, <1>14, RunTypes
<1>16. ASSUME ~crossed' PROVE OneOpen' /\ OwnTokens'
  <2>1. ~crossed /\ open(r) /\ OwnTokens
    BY <1>1, <1>16 DEF open, FanOutInv
  <2>2. parent.run_id \in OwnRuns(r) /\ \A j \in DOMAIN branches[r] : branches[r][j].token.run_id \in OwnRuns(r)
    BY <1>1, <1>2, <2>1 DEF OwnTokens
  <2>3. \A j \in DOMAIN branches'[r] : branches'[r][j].token.run_id \in OwnRuns(r)
    BY <1>8, <1>9, <1>15, <2>2 DEF OwnRuns
  <2>4. orchestrators'[r].parent.run_id \in OwnRuns(r)
    BY <1>5, <1>15, <2>2
  <2> QED
    BY <1>1, <1>15, <2>1, <2>3, <2>4, OwnKept
<1> QED
  BY <1>1, <1>4, <1>5, <1>9, <1>10, <1>11, <1>12, <1>13, <1>14, <1>16, RunSteps

(* A branch ends, or is given up.                                          *)
LEMMA BranchEnds ==
    ASSUME FanOutInv, NEW r \in Runs, NEW i \in DOMAIN branches[r], NEW state \in {"success", "error"},
           branch_ends(r, i, state)
    PROVE  FanOutInv'
<1>1. /\ orchestrators[r].stage = "fan_out" /\ branches[r][i].state = "running"
      /\ secret' = secret /\ _master_token_ref' = _master_token_ref /\ crossed' = crossed
      /\ time' = time /\ derivations' = derivations
  BY DEF branch_ends
<1>2. PICK b, bs : /\ b = [branches[r][i] EXCEPT !.state = state]
                   /\ bs = [branches[r] EXCEPT ![i] = b]
                   /\ branches' = [branches EXCEPT ![r] = bs]
  BY DEF branch_ends
<1>3. PICK o : /\ o = [orchestrators[r] EXCEPT !.free = orchestrators[r].free + 1]
               /\ orchestrators' = [orchestrators EXCEPT ![r] = o]
  BY DEF branch_ends
<1>4. /\ b \in BranchRow /\ b.state = state /\ b.token = branches[r][i].token
      /\ b.started = branches[r][i].started
  BY <1>2, FanOutTypes DEF BranchRow, BranchStates
<1>5. /\ bs \in Seq(BranchRow) /\ DOMAIN bs = DOMAIN branches[r] /\ bs[i] = b
      /\ \A j \in DOMAIN branches[r] : j # i => bs[j] = branches[r][j]
  BY <1>2, <1>4, FanOutTypes
<1>6. /\ {j \in DOMAIN bs : bs[j].state = "running"} = RunningOf(r) \ {i} /\ i \in RunningOf(r)
  BY <1>1, <1>4, <1>5 DEF RunningOf
<1>7. /\ Cardinality(RunningOf(r) \ {i}) = Cardinality(RunningOf(r)) - 1
      /\ Cardinality(RunningOf(r) \ {i}) \in Nat /\ Cardinality(RunningOf(r)) \in Nat
  BY <1>6, FanOutTypes, FS_RemoveElement, FS_CardinalityType
<1>8. orchestrators[r].free + Cardinality(RunningOf(r)) = Cap
  BY <1>1 DEF FanOutInv, SlotsExact, RunningOf
<1>9. orchestrators[r].free + 1 \in 0 .. Cap
  BY <1>7, <1>8, FanOutTypes, FanOutConstants
<1>10. /\ o \in Orchestrator /\ o.stage = "fan_out" /\ o.free = orchestrators[r].free + 1
       /\ o.parent = orchestrators[r].parent
  BY <1>1, <1>3, <1>9, FanOutTypes DEF Orchestrator
<1>11. o.free + Cardinality({j \in DOMAIN bs : bs[j].state = "running"}) = Cap
  <2>1. Cardinality({j \in DOMAIN bs : bs[j].state = "running"}) = Cardinality(RunningOf(r)) - 1
    BY <1>6, <1>7
  <2>2. PICK n \in Nat : n = Cardinality(RunningOf(r))
    BY <1>7
  <2>3. PICK f \in Nat : f = orchestrators[r].free
    BY FanOutTypes
  <2>4. f + n = Cap /\ (f + 1) + (n - 1) = f + n
    BY <1>8, <2>2, <2>3
  <2> QED
    BY <1>10, <2>1, <2>2, <2>3, <2>4
<1>12. \A j \in DOMAIN bs : BranchValid(bs[j])
  <2>1. BranchValid(b)
    BY <1>1, <1>4, FanOutTypes DEF BranchValid
  <2> QED
    BY <1>5, <2>1, FanOutTypes
<1>13. /\ time' \in Nat /\ time' <= MaxTime /\ crossed' \in BOOLEAN /\ _master_token_ref' \in WholeTokens
       /\ derivations' \subseteq Tokens \X Tokens
  BY <1>1, FanOutTypes
<1>14. /\ orchestrators'[r] = o /\ branches'[r] = bs
       /\ \A q \in Runs : q # r => orchestrators'[q] = orchestrators[q] /\ branches'[q] = branches[q]
  BY <1>1, <1>2, <1>3, <1>5, <1>10, <1>13, RunTypes
<1>15. ASSUME ~crossed' PROVE OneOpen' /\ OwnTokens'
  <2>1. ~crossed /\ open(r) /\ OwnTokens
    BY <1>1, <1>15 DEF open, FanOutInv
  <2>2. /\ orchestrators[r].parent.run_id \in OwnRuns(r)
        /\ \A j \in DOMAIN branches[r] : branches[r][j].token.run_id \in OwnRuns(r)
    BY <1>1, <2>1 DEF OwnTokens
  <2>3. \A j \in DOMAIN branches'[r] : branches'[r][j].token.run_id \in OwnRuns(r)
    BY <1>4, <1>5, <1>14, <2>2
  <2>4. orchestrators'[r].parent.run_id \in OwnRuns(r)
    BY <1>10, <1>14, <2>2
  <2> QED
    BY <1>1, <1>14, <2>1, <2>3, <2>4, OwnKept
<1> QED
  BY <1>1, <1>2, <1>3, <1>5, <1>10, <1>11, <1>12, <1>13, <1>15, RunSteps

(* The run goes on without its sub-agents, or ends.                        *)
LEMMA RunGoesOn ==
    ASSUME FanOutInv, NEW r \in Runs,
           fan_out(r) \/ _spawn_researcher_sub_agent(r) \/ orchestrator_ends(r)
    PROVE  FanOutInv'
<1>1. /\ orchestrators[r].stage \in {"fan_out", "spawned", "thinking"}
      /\ secret' = secret /\ _master_token_ref' = _master_token_ref /\ crossed' = crossed
      /\ time' = time /\ derivations' = derivations
  BY DEF fan_out, _spawn_researcher_sub_agent, orchestrator_ends
<1>2. PICK stage, o :
         /\ stage \in {"thinking", "done"} /\ o = [orchestrators[r] EXCEPT !.stage = stage]
         /\ orchestrators' = [orchestrators EXCEPT ![r] = o]
  BY DEF fan_out, _spawn_researcher_sub_agent, orchestrator_ends
<1>3. PICK bs : bs \in {<<>>, branches[r]} /\ branches' = [branches EXCEPT ![r] = bs]
  <2>1. branches = [branches EXCEPT ![r] = branches[r]]
    BY DEF FanOutInv
  <2> QED
    BY <2>1 DEF fan_out, _spawn_researcher_sub_agent, orchestrator_ends
<1>4. o \in Orchestrator /\ o.stage # "fan_out"
  BY <1>2, FanOutTypes DEF Orchestrator
<1>5. bs \in Seq(BranchRow) /\ \A i \in DOMAIN bs : i \in DOMAIN branches[r] /\ bs[i] = branches[r][i]
  <2>1. CASE bs = <<>>
    <3>1. DOMAIN bs = {} /\ bs \in Seq(BranchRow)
      BY <2>1
    <3> QED
      BY <3>1
  <2>2. CASE bs = branches[r]
    BY <2>2, FanOutTypes
  <2> QED
    BY <1>3, <2>1, <2>2
<1>6. \A i \in DOMAIN bs : BranchValid(bs[i])
  BY <1>5, FanOutTypes
<1>7. /\ time' \in Nat /\ time' <= MaxTime /\ crossed' \in BOOLEAN /\ _master_token_ref' \in WholeTokens
      /\ derivations' \subseteq Tokens \X Tokens
  BY <1>1, FanOutTypes
<1>8. /\ orchestrators'[r] = o /\ branches'[r] = bs
      /\ \A q \in Runs : q # r => orchestrators'[q] = orchestrators[q] /\ branches'[q] = branches[q]
  BY <1>1, <1>2, <1>3, <1>4, <1>5, <1>7, RunTypes
<1>9. ASSUME ~crossed' PROVE OneOpen' /\ OwnTokens'
  <2>1. ~crossed /\ open(r) /\ OwnTokens
    BY <1>1, <1>9 DEF open, FanOutInv
  <2>2. \A i \in DOMAIN branches'[r] : branches'[r][i].token.run_id \in OwnRuns(r)
    BY <1>5, <1>8, <2>1 DEF OwnTokens
  <2> QED
    BY <1>1, <1>4, <1>8, <2>1, <2>2, OwnKept
<1> QED
  BY <1>1, <1>2, <1>3, <1>4, <1>5, <1>6, <1>7, <1>9, RunSteps

(* The clock goes on.                                                      *)
LEMMA ClockTicks == ASSUME FanOutInv, clock_ticks PROVE FanOutInv'
<1>1. /\ time < MaxTime /\ time' = time + 1
      /\ secret' = secret /\ _master_token_ref' = _master_token_ref /\ crossed' = crossed
      /\ orchestrators' = orchestrators /\ branches' = branches /\ derivations' = derivations
  BY DEF clock_ticks
<1>2. time' \in Nat /\ time' <= MaxTime
  BY <1>1, FanOutTypes, FanOutConstants
<1>3. FanOutTypeOK'
  BY <1>1, <1>2 DEF FanOutInv, FanOutTypeOK
<1>4. (OneOpen => OneOpen') /\ (OwnTokens => OwnTokens')
  BY <1>1 DEF OneOpen, OwnTokens, open
<1>5. ChildWithinParent' /\ StartsValid' /\ SlotsExact'
  BY <1>1 DEF FanOutInv, ChildWithinParent, StartsValid, SlotsExact
<1> QED
  BY <1>1, <1>3, <1>4, <1>5 DEF FanOutInv

(* The invariant holds at the start.                                       *)
LEMMA FanOutInvInit == FanOutInit => FanOutInv
<1> SUFFICES ASSUME FanOutInit PROVE FanOutInv
  OBVIOUS
<1>1. PICK o : /\ o = [stage |-> "new", parent |-> NoToken, free |-> Cap, tools |-> 0]
               /\ orchestrators = [r \in Runs |-> o]
  BY DEF FanOutInit
<1>2. o \in Orchestrator /\ o.stage = "new"
  BY <1>1, WholeTokenTypes, FanOutConstants DEF Orchestrator
<1>3. /\ secret \in BOOLEAN /\ time = 0 /\ _master_token_ref = NoToken
      /\ branches = [r \in Runs |-> <<>>] /\ derivations = {} /\ crossed = FALSE
  BY DEF FanOutInit
<1>4. orchestrators \in [Runs -> Orchestrator] /\ branches \in [Runs -> Seq(BranchRow)]
  BY <1>1, <1>2, <1>3
<1>5. \A r \in Runs : orchestrators[r].stage = "new" /\ DOMAIN branches[r] = {} /\ ~open(r)
  BY <1>1, <1>2, <1>3 DEF open
<1>6. FanOutTypeOK
  <2>1. \A r \in Runs : orchestrators[r].free \in 0 .. Cap /\ orchestrators[r].tools \in 0 .. MaxTools
    BY <1>4 DEF Orchestrator
  <2>2. time \in Nat /\ time <= MaxTime /\ _master_token_ref \in Tokens
    BY <1>3, WholeTokenTypes, FanOutConstants
  <2> QED
    BY <1>3, <1>5, <2>1, <2>2 DEF FanOutTypeOK
<1> QED
  BY <1>3, <1>4, <1>5, <1>6, WholeTokenTypes
     DEF FanOutInv, ChildWithinParent, StartsValid, SlotsExact, OneOpen, OwnTokens

(* Every step keeps the invariant.                                         *)
LEMMA FanOutInvHolds == FanOutSpec => []FanOutInv
<1>1. ASSUME FanOutInv, [FanOutNext]_fanOutVars PROVE FanOutInv'
  <2>1. CASE UNCHANGED fanOutVars
    BY <1>1, <2>1 DEF fanOutVars, FanOutInv, FanOutTypeOK, ChildWithinParent, StartsValid,
                      SlotsExact, OneOpen, OwnTokens, open
  <2>2. ASSUME NEW r \in Runs, 
               \/ run_orchestrator(r) \/ spawn_researcher(r) \/ fan_out_researchers(r)
               \/ BranchStep(r) \/ fan_out(r) \/ _spawn_researcher_sub_agent(r) \/ orchestrator_ends(r)
        PROVE  FanOutInv'
    <3>1. CASE BranchStep(r)
      BY <1>1, <3>1, BranchRuns, BranchEnds DEF BranchStep
    <3> QED
      BY <1>1, <2>2, <3>1, RunBegins, Spawns, FansOut, RunGoesOn
  <2>3. CASE clock_ticks
    BY <1>1, <2>3, ClockTicks
  <2> QED
    BY <1>1, <2>1, <2>2, <2>3 DEF FanOutNext
<1> QED
  BY FanOutInvInit, <1>1, PTL DEF FanOutSpec

(* However runs and branches interleave with the clock: a token is within  *)
(* the one it was derived from, a sub-agent starts with one that is still  *)
(* valid, of its own run if runs do not cross, and no slot of a fan-out    *)
(* is lost (derive_task_token, src/agents/fan_out.py).                     *)
THEOREM FanOutCorrect == FanOutSpec => []FanOutInvariant
<1>1. FanOutInv => FanOutInvariant
  <2> SUFFICES ASSUME FanOutInv PROVE FanOutInvariant
    OBVIOUS
  <2>1. TokenOfOwnRun
    BY DEF FanOutInv, OwnTokens, TokenOfOwnRun, OwnRuns
  <2> QED
    BY <2>1 DEF FanOutInv, FanOutInvariant
<1> QED
  BY <1>1, FanOutInvHolds, PTL

-----------------------------------------------------------------------------
(****************************************************************************)
(* One agent's graph with its safeguards, for every number of steps,        *)
(* errors, tokens and rounds, every set of tool calls and every window. A   *)
(* node that goes on has steps, errors and tokens left, and one that is     *)
(* forced to end is on its way there (NodePlaces, Affordable). In           *)
(* SecureToolNode, what was checked is approved or skipped, and what is     *)
(* noted is the last call that was approved, less often than the threshold  *)
(* in the window (ToolRounds). The rounds in a row are at the end of the    *)
(* history (RepeatRow), so that the window counts them all. And a           *)
(* researcher that may answer without a warning has run a tool (Grounded).  *)
(****************************************************************************)

ToolRuns == [at : Nat, approved : SUBSET Nat, skipped : SUBSET Nat, noted : Seq(Calls)]

AgentTypes ==
    /\ AgentTypeOK
    /\ tool_run \in ToolRuns /\ left_open \in BOOLEAN /\ requested \in BOOLEAN
    /\ repeats \in Nat /\ turn \in Nat

(* Between the node that halts a run and the answer there is at most the   *)
(* agent's, which does nothing then; and tools are only run for an answer  *)
(* that asks for them.                                                     *)
WorkingNodes == {"agent", "tools", "verify"}
NodePlaces ==
    /\ force_end => node \in {"agent", "finalize", "end", "raised"}
    /\ loop_detected => force_end
    /\ node \in WorkingNodes => step_count < MaxSteps /\ error_count < MaxErrors
    /\ node \in {"tools", "verify"} => step_count > 0
    /\ node = "tools" => tool_calls # <<>> /\ last_message = "ai"
    /\ node = "verify" => graph = "orchestrator"
    /\ node = "agent" /\ force_end /\ graph # "orchestrator" => last_message # "human"
    /\ last_message = "human" => unanswered = {}

(* A run that goes on has tokens left; only the orchestrator may have      *)
(* spent them, on a first answer that was followed by an error.            *)
Affordable ==
    /\ node \in WorkingNodes /\ ~force_end =>
          token_count < TokenBudget \/ (graph = "orchestrator" /\ token_count <= MaxTokens)
    /\ node = "agent" /\ step_count = 0 => token_count = 0

(* The calls before the one that is checked are approved or skipped, and   *)
(* what is noted is the last that was approved.                            *)
NotedBy(c) ==
    /\ tool_run.noted = Newest(Append(action_history, c), 2 * LoopWindow)
    /\ Count(Newest(tool_run.noted, LoopWindow), c) < LoopThreshold
ToolRounds ==
    node = "tools" =>
        /\ tool_run.at \in 1 .. Len(tool_calls) + 1
        /\ tool_run.approved \cup tool_run.skipped = 1 .. tool_run.at - 1
        /\ IF tool_run.approved = {} THEN tool_run.noted = action_history
           ELSE \E c \in Calls : NotedBy(c)

(* The rounds in a row are at the end of the history.                      *)
RowIn(h, n) == n <= Len(h) /\ \A i \in 1 .. Len(h) : i > Len(h) - n => h[i] = h[Len(h)]
RepeatRow ==
    LoopThreshold <= LoopWindow =>
        /\ repeats < LoopThreshold
        /\ node \in WorkingNodes /\ ~force_end => RowIn(action_history, repeats)

(* A researcher that may answer without a warning has run a tool.          *)
Answering ==
    \/ node = "agent" /\ step_count > 0
    \/ node = "finalize" /\ step_count < MaxSteps
Grounded ==
    (/\ graph = "researcher" /\ Answering /\ ~force_end
     /\ error_count = 0 /\ ~requested /\ "skipped" \notin tool_results)
        => repeats > 0

AgentInv ==
    AgentTypes /\ NodePlaces /\ Affordable /\ ToolRounds /\ RepeatRow /\ Grounded
    /\ NoDanglingPrompt /\ NoEcho /\ UngroundedFlagged

(* The limits are numbers, and the history is at least as long as the      *)
(* window.                                                                 *)
LEMMA AgentConstants ==
    /\ Granted \subseteq Calls /\ MaxSteps \in Nat \ {0} /\ RecursionLimit \in Nat
    /\ MaxErrors \in Nat \ {0} /\ TokenBudget \in Nat \ {0}
    /\ LoopWindow \in Nat \ {0} /\ LoopThreshold \in Nat \ {0, 1}
    /\ MaxVerifyRounds \in Nat /\ MaxTokens \in Nat /\ MaxTurns \in Nat
    /\ 2 * LoopWindow \in Nat \ {0} /\ LoopWindow <= 2 * LoopWindow
BY AgentAssumption DEF AgentAssumption

(* The newest entries of a history.                                        *)
LEMMA NewestFacts ==
    ASSUME NEW s \in Seq(Calls), NEW n \in Nat
    PROVE  /\ Newest(s, n) \in Seq(Calls) /\ Len(s) \in Nat
           /\ Len(Newest(s, n)) = IF Len(s) > n THEN n ELSE Len(s)
           /\ \A i \in 1 .. Len(Newest(s, n)) :
                 Newest(s, n)[i] = s[Len(s) - Len(Newest(s, n)) + i]
<1>1. Len(s) \in Nat
  OBVIOUS
<1>2. CASE Len(s) > n
  <2>0. PICK m \in Nat : m = Len(s) - n + 1 /\ m >= 1
    <3>1. Len(s) - n + 1 \in Nat /\ Len(s) - n + 1 >= 1
      BY <1>1, <1>2
    <3> QED
      BY <3>1
  <2>1. m \in Nat /\ m = Len(s) - n + 1 /\ m >= 1 /\ Newest(s, n) = SubSeq(s, m, Len(s))
    BY <1>2, <2>0 DEF Newest
  <2>2. PICK t : t = SubSeq(s, m, Len(s))
    OBVIOUS
  <2>3. t \in Seq(Calls) /\ Len(t) = n /\ \A i \in 1 .. n : t[i] = s[(m + i) - 1]
    BY <1>1, <1>2, <2>1, <2>2
  <2>4. \A i \in 1 .. n : (m + i) - 1 = Len(s) - n + i
    BY <1>1, <2>1
  <2> QED
    BY <1>1, <1>2, <2>1, <2>2, <2>3, <2>4
<1>3. CASE ~(Len(s) > n)
  <2>1. Newest(s, n) = SubSeq(s, 1, Len(s))
    BY <1>3 DEF Newest
  <2>2. PICK t : t = SubSeq(s, 1, Len(s))
    OBVIOUS
  <2>3. t \in Seq(Calls) /\ Len(t) = Len(s) /\ \A i \in 1 .. Len(s) : t[i] = s[i]
    BY <1>1, <2>2
  <2>4. \A i \in 1 .. Len(t) : t[i] = s[Len(s) - Len(t) + i]
    <3>1. \A i \in 1 .. Len(t) : Len(s) - Len(t) + i = i
      BY <1>1, <2>3
    <3> QED
      BY <2>3, <3>1
  <2> QED
    BY <1>1, <1>3, <2>1, <2>2, <2>3, <2>4
<1> QED
  BY <1>2, <1>3

(* A call is noted: it is the last of the history, which keeps its length. *)
NotedAfter(h, c, m, new) ==
    /\ new \in Seq(Calls) /\ Len(new) \in 1 .. m /\ new[Len(new)] = c
    /\ Len(new) <= Len(h) + 1 /\ (Len(new) = Len(h) + 1 \/ Len(new) = m)
    /\ \A i \in 1 .. Len(new) : i < Len(new) =>
          /\ (Len(h) + 1) - Len(new) + i \in 1 .. Len(h)
          /\ new[i] = h[(Len(h) + 1) - Len(new) + i]

(* The history with one more call is of that form.                         *)
LEMMA NotedFacts ==
    ASSUME NEW h \in Seq(Calls), NEW c \in Calls, NEW m \in Nat \ {0}
    PROVE  NotedAfter(h, c, m, Newest(Append(h, c), m))
<1>0. PICK new : new = Newest(Append(h, c), m)
  OBVIOUS
<1>1. PICK s \in Seq(Calls) : s = Append(h, c)
  <2>1. Append(h, c) \in Seq(Calls)
    OBVIOUS
  <2> QED
    BY <2>1
<1>2. Len(s) = Len(h) + 1 /\ Len(h) \in Nat /\ s[Len(h) + 1] = c
      /\ \A i \in 1 .. Len(h) : s[i] = h[i]
  BY <1>1
<1>3. /\ new \in Seq(Calls) /\ Len(s) \in Nat
      /\ Len(new) = IF Len(s) > m THEN m ELSE Len(s)
      /\ \A i \in 1 .. Len(new) : new[i] = s[Len(s) - Len(new) + i]
  BY <1>0, <1>1, NewestFacts
<1>4. Len(new) \in 1 .. m /\ Len(new) <= Len(h) + 1 /\ (Len(new) = Len(h) + 1 \/ Len(new) = m)
  BY <1>2, <1>3
<1>5. new[Len(new)] = c
  <2>1. Len(s) - Len(new) + Len(new) = Len(h) + 1 /\ Len(new) \in 1 .. Len(new)
    BY <1>2, <1>3, <1>4
  <2> QED
    BY <1>2, <1>3, <2>1
<1>6. ASSUME NEW i \in 1 .. Len(new), i < Len(new)
      PROVE  /\ (Len(h) + 1) - Len(new) + i \in 1 .. Len(h)
             /\ new[i] = h[(Len(h) + 1) - Len(new) + i]
  <2>1. (Len(h) + 1) - Len(new) + i \in 1 .. Len(h)
    BY <1>2, <1>4, <1>6
  <2>2. new[i] = s[(Len(h) + 1) - Len(new) + i]
    BY <1>2, <1>3
  <2> QED
    BY <1>2, <2>1, <2>2
<1> QED
  BY <1>0, <1>3, <1>4, <1>5, <1>6 DEF NotedAfter

(* A call like those at the end makes the row longer by one.               *)
LEMMA RowGrows ==
    ASSUME NEW h \in Seq(Calls), NEW c \in Calls, NEW m \in Nat \ {0}, NEW n \in Nat,
           RowIn(h, n), n + 1 <= m, n = 0 \/ (h # <<>> /\ h[Len(h)] = c),
           NEW new, new = Newest(Append(h, c), m)
    PROVE  RowIn(new, n + 1)
<1>1. /\ new \in Seq(Calls) /\ Len(new) \in 1 .. m /\ new[Len(new)] = c
      /\ Len(new) <= Len(h) + 1 /\ (Len(new) = Len(h) + 1 \/ Len(new) = m)
      /\ \A i \in 1 .. Len(new) : i < Len(new) =>
            /\ (Len(h) + 1) - Len(new) + i \in 1 .. Len(h)
            /\ new[i] = h[(Len(h) + 1) - Len(new) + i]
  <2>1. NotedAfter(h, c, m, new)
    BY NotedFacts, Zenon
  <2> QED
    BY <2>1 DEF NotedAfter
<1>2. Len(h) \in Nat /\ n <= Len(h)
  BY DEF RowIn
<1>3. n + 1 <= Len(new)
  BY <1>1, <1>2
<1>4. ASSUME NEW i \in 1 .. Len(new), i > Len(new) - (n + 1) PROVE new[i] = c
  <2>1. CASE i = Len(new)
    BY <1>1, <2>1
  <2>2. CASE i < Len(new)
    <3>1. PICK j : j = (Len(h) + 1) - Len(new) + i
      OBVIOUS
    <3>2. j \in 1 .. Len(h) /\ new[i] = h[j]
      BY <1>1, <2>2, <3>1
    <3>3. j > Len(h) - n /\ n # 0
      BY <1>1, <1>2, <1>4, <2>2, <3>1
    <3>4. h[j] = h[Len(h)]
      BY <3>2, <3>3 DEF RowIn
    <3> QED
      BY <3>2, <3>3, <3>4
  <2> QED
    BY <1>1, <2>1, <2>2
<1> QED
  BY <1>1, <1>3, <1>4 DEF RowIn

(* A row has every shorter one at its end.                                 *)
LEMMA RowShorter ==
    ASSUME NEW h \in Seq(Calls), NEW n \in Nat, NEW k \in Nat, RowIn(h, n), k <= n
    PROVE  RowIn(h, k)
BY DEF RowIn

(* The row is within what detect_action_loop counts.                       *)
LEMMA RowCounted ==
    ASSUME NEW h \in Seq(Calls), NEW n \in Nat \ {0}, RowIn(h, n), n <= LoopWindow
    PROVE  Count(Newest(h, LoopWindow), h[Len(h)]) >= n
<1> DEFINE s == Newest(h, LoopWindow)
           T == {i \in DOMAIN s : s[i] = h[Len(h)]}
<1>1. /\ s \in Seq(Calls) /\ Len(h) \in Nat
      /\ Len(s) = IF Len(h) > LoopWindow THEN LoopWindow ELSE Len(h)
      /\ \A i \in 1 .. Len(s) : s[i] = h[Len(h) - Len(s) + i]
  BY NewestFacts, AgentConstants
<1>2. n <= Len(h) /\ \A i \in 1 .. Len(h) : i > Len(h) - n => h[i] = h[Len(h)]
  BY DEF RowIn
<1> HIDE DEF s
<1>3. Len(s) \in Nat /\ n <= Len(s) /\ Len(s) <= Len(h)
  BY <1>1, <1>2, AgentConstants
<1>4. PICK a \in Int : a = Len(s) - n + 1
  BY <1>3
<1>5. a .. Len(s) \subseteq T
  <2>1. ASSUME NEW i \in a .. Len(s) PROVE i \in T
    <3>1. i \in 1 .. Len(s) /\ DOMAIN s = 1 .. Len(s)
      BY <1>1, <1>3, <1>4
    <3>2. PICK j \in Int : j = Len(h) - Len(s) + i
      BY <1>1, <1>3
    <3>3. j \in 1 .. Len(h) /\ j > Len(h) - n
      BY <1>1, <1>3, <1>4, <3>1, <3>2
    <3>4. s[i] = h[Len(h)]
      BY <1>1, <1>2, <3>1, <3>2, <3>3
    <3> QED
      BY <3>1, <3>4
  <2> QED
    BY <2>1
<1>6. IsFiniteSet(1 .. Len(s))
  BY <1>3, FS_Interval
<1>7. IsFiniteSet(T) /\ T \subseteq 1 .. Len(s)
  BY <1>1, <1>6, FS_Subset
<1>8. Cardinality(a .. Len(s)) = n
  <2>1. a \in Int /\ Len(s) \in Int
    BY <1>3, <1>4
  <2>2. Cardinality(a .. Len(s)) = IF a > Len(s) THEN 0 ELSE Len(s) - a + 1
    BY <2>1, FS_Interval
  <2> QED
    BY <1>3, <1>4, <2>2
<1>9. Cardinality(a .. Len(s)) <= Cardinality(T)
  BY <1>5, <1>7, FS_Subset
<1>10. Count(s, h[Len(h)]) = Cardinality(T)
  BY DEF Count
<1>11. Cardinality(T) \in Nat
  BY <1>7, FS_CardinalityType
<1> QED
  BY <1>8, <1>9, <1>10, <1>11 DEF s

(* What the answers of the model are, for the node that runs their calls.  *)
LEMMA MessageFacts ==
    ASSUME NEW t \in Messages \cup {<<>>}
    PROVE  t \in Seq(Calls) /\ DOMAIN t = 1 .. Len(t) /\ Len(t) \in Nat
<1>1. CASE t = <<>>
  BY <1>1
<1>2. CASE \E c \in Calls : t = <<c>>
  BY <1>2
<1>3. CASE t \in Calls \X Calls
  <2>1. PICK c \in Calls, d \in Calls : t = <<c, d>>
    BY <1>3
  <2> QED
    BY <2>1
<1> QED
  BY <1>1, <1>2, <1>3 DEF Messages

(* Where the routers lead.                                                 *)
LEMMA EdgeFacts ==
    ASSUME graph \in Graphs, add_edges, step_count' \in Nat, error_count' \in Nat
    PROVE  /\ node' \in Nodes
           /\ (force_end' \/ loop_detected' \/ step_count' >= MaxSteps \/ error_count' >= MaxErrors)
                => node' = "finalize"
           /\ node' \in {"agent", "hitl_gate"} => graph = "base_agent"
           /\ node' = "tools" => last_message' = "ai" /\ tool_calls' # <<>> /\ graph # "base_agent"
           /\ node' = "verify" => graph = "orchestrator"
           /\ graph = "researcher" /\ node' # "tools" /\ last_message' = "ai" /\ tool_calls' # <<>>
                => \/ force_end' \/ loop_detected' \/ step_count' >= MaxSteps
                   \/ error_count' >= MaxErrors
<1>1. /\ (force_end' \/ loop_detected' \/ step_count' >= MaxSteps \/ error_count' >= MaxErrors)
            => check_safeguards = "end"
      /\ ~(force_end' \/ loop_detected' \/ step_count' >= MaxSteps \/ error_count' >= MaxErrors)
            => check_safeguards \in {"hitl", "continue"}
  BY DEF check_safeguards, check_step_limit
<1>2. CASE graph = "base_agent"
  <2>1. PICK done \in BOOLEAN : node' = route_after_agent(done)
    BY <1>2 DEF add_edges
  <2> QED
    BY <1>1, <1>2, <2>1 DEF route_after_agent, Nodes
<1>3. CASE graph = "researcher"
  BY <1>1, <1>3 DEF add_edges, route_after_researcher, Nodes
<1>4. CASE graph = "orchestrator"
  BY <1>1, <1>4 DEF add_edges, route_after_orchestrator, Nodes
<1> QED
  BY <1>2, <1>3, <1>4 DEF Graphs

(* The invariant holds at the start.                                       *)
LEMMA AgentStarts == AgentInit => AgentInv
<1> SUFFICES ASSUME AgentInit PROVE AgentInv
  OBVIOUS
<1> USE DEF AgentInit
<1>0. /\ 0 \in 0 .. MaxSteps /\ 0 \in 0 .. MaxErrors /\ 0 \in 0 .. TokenBudget + 2 * MaxTokens
      /\ 0 \in 0 .. MaxVerifyRounds /\ 0 \in 0 .. RecursionLimit
      /\ <<>> \in Seq(Calls) /\ Len(<<>>) <= 2 * LoopWindow
  BY AgentConstants
<1>1. AgentTypes
  <2>1. AgentTypeOK
    BY <1>0 DEF AgentTypeOK, Graphs, Nodes, Speakers, NoToolRun
  <2>2. tool_run \in ToolRuns
    BY <1>0 DEF ToolRuns, NoToolRun
  <2> QED
    BY <2>1, <2>2 DEF AgentTypes
<1>2. NodePlaces /\ Affordable /\ ToolRounds /\ Grounded
  BY AgentConstants DEF NodePlaces, Affordable, ToolRounds, Grounded, Answering, WorkingNodes
<1>3. RepeatRow
  BY AgentConstants DEF RepeatRow, WorkingNodes
<1>4. NoDanglingPrompt /\ NoEcho /\ UngroundedFlagged
  BY DEF NoDanglingPrompt, NoEcho, UngroundedFlagged
<1> QED
  BY <1>1, <1>2, <1>3, <1>4 DEF AgentInv

(* What the invariant says of the state before a step.                     *)
LEMMA AgentBefore ==
    ASSUME AgentInv
    PROVE  /\ graph \in Graphs /\ node \in Nodes \cup {"idle", "end", "raised"}
           /\ step_count \in Nat /\ step_count <= MaxSteps
           /\ error_count \in Nat /\ error_count <= MaxErrors
           /\ token_count \in Nat /\ token_count <= TokenBudget + 2 * MaxTokens
           /\ supersteps \in Nat /\ supersteps <= RecursionLimit
           /\ tool_calls \in Messages \cup {<<>>} /\ unanswered \subseteq DOMAIN tool_calls
           /\ action_history \in Seq(Calls) /\ Len(action_history) <= 2 * LoopWindow
           /\ tool_run \in ToolRuns /\ repeats \in Nat
           /\ tool_results \subseteq {"skipped", "real"}
BY AgentConstants DEF AgentInv, AgentTypes, AgentTypeOK

(* A run begins: all safeguards are set anew.                              *)
LEMMA StartsRun ==
    ASSUME AgentInv, NEW g \in Graphs, NEW session \in BOOLEAN,
           NEW token \in {"none", "valid"}, initial(g, session, token)
    PROVE  AgentInv'
<1>1. /\ graph' = g /\ node' = "agent" /\ supersteps' = 0 /\ step_count' = 0 /\ error_count' = 0
      /\ token_count' = 0 /\ verify_rounds' = 0 /\ force_end' = FALSE /\ loop_detected' = FALSE
      /\ hitl_pending' = FALSE /\ action_history' = <<>> /\ last_message' = "human" /\ repeats' = 0
      /\ tool_calls' = <<>> /\ unanswered' = {} /\ tool_results' \subseteq {"skipped", "real"}
      /\ task_token' = token /\ result' = "none"
      /\ request' \in {"none", "pending", "approved", "rejected"} /\ tool_run' = tool_run
      /\ turn' \in Nat
  BY DEF initial, AgentInv, AgentTypes, AgentTypeOK
<1>2. left_open' \in BOOLEAN /\ requested' \in BOOLEAN
  BY DEF initial, AgentInv, AgentTypes
<1>0. /\ 0 \in 0 .. MaxSteps /\ 0 \in 0 .. MaxErrors /\ 0 \in 0 .. TokenBudget + 2 * MaxTokens
      /\ 0 \in 0 .. MaxVerifyRounds /\ 0 \in 0 .. RecursionLimit
      /\ <<>> \in Seq(Calls) /\ Len(<<>>) <= 2 * LoopWindow
  BY AgentConstants
<1>3. AgentTypes'
  <2>1. AgentTypeOK'
    BY <1>0, <1>1 DEF AgentInv, AgentTypes, AgentTypeOK, Nodes, Speakers
  <2> QED
    BY <1>1, <1>2, <2>1 DEF AgentInv, AgentTypes
<1>4. NodePlaces' /\ Affordable' /\ ToolRounds' /\ Grounded'
  BY <1>1, AgentConstants DEF NodePlaces, Affordable, ToolRounds, Grounded, Answering, WorkingNodes
<1>5. RepeatRow'
  <2>1. RowIn(action_history', 0)
    BY <1>1 DEF RowIn
  <2> QED
    BY <1>1, <2>1, AgentConstants DEF RepeatRow
<1>6. NoDanglingPrompt' /\ NoEcho' /\ UngroundedFlagged'
  BY <1>1 DEF NoDanglingPrompt, NoEcho, UngroundedFlagged
<1> QED
  BY <1>3, <1>4, <1>5, <1>6 DEF AgentInv

(* LangGraph raises at the recursion limit.                                *)
LEMMA Recurses ==
    ASSUME AgentInv, recursion_error
    PROVE  AgentInv'
<1>1. /\ node' = "raised"
      /\ UNCHANGED <<graph, safeguards, verify_rounds, last_message, tool_calls,
                     unanswered, left_open, tool_run, supersteps, rest>>
  BY DEF recursion_error
<1>2. UNCHANGED <<graph, step_count, error_count, token_count, force_end, loop_detected,
                  hitl_pending, action_history, verify_rounds, last_message, tool_calls,
                  unanswered, left_open, tool_run, supersteps, task_token, tool_results,
                  result, request, turn, requested, repeats>>
  BY <1>1 DEF safeguards, rest
<1>3. AgentTypes'
  BY <1>1, <1>2 DEF AgentInv, AgentTypes, AgentTypeOK
<1>4. NodePlaces' /\ Affordable' /\ ToolRounds' /\ Grounded'
  BY <1>1, <1>2 DEF AgentInv, NodePlaces, Affordable, ToolRounds, Grounded, Answering, WorkingNodes
<1>5. RepeatRow'
  BY <1>1, <1>2 DEF AgentInv, RepeatRow, WorkingNodes
<1>6. NoDanglingPrompt' /\ NoEcho' /\ UngroundedFlagged'
  BY <1>1, <1>2 DEF AgentInv, NoDanglingPrompt, NoEcho, UngroundedFlagged
<1> QED
  BY <1>3, <1>4, <1>5, <1>6 DEF AgentInv

(* The finalizer gives the answer.                                         *)
LEMMA Finishes ==
    ASSUME AgentInv, finalizer_node
    PROVE  AgentInv'
<1>1. /\ node = "finalize" /\ node' = "end" /\ superstep
      /\ base_finalizer_node \/ researcher_finalizer_node \/ orchestrator_finalizer_node
      /\ UNCHANGED <<graph, safeguards, verify_rounds, last_message, tool_calls,
                     unanswered, left_open, tool_run, task_token, tool_results,
                     request, turn, requested, repeats>>
  BY DEF finalizer_node
<1>2. UNCHANGED <<graph, step_count, error_count, token_count, force_end, loop_detected,
                  hitl_pending, action_history, verify_rounds, last_message, tool_calls,
                  unanswered, left_open, tool_run, task_token, tool_results,
                  request, turn, requested, repeats>>
  BY <1>1 DEF safeguards
<1>3. /\ result' \in {"none", "plain", "flagged", "halted"}
      /\ graph = "researcher" /\ result' = "plain" => ~force_end /\ "skipped" \notin tool_results
  BY <1>1 DEF base_finalizer_node, researcher_finalizer_node, orchestrator_finalizer_node
<1>4. supersteps' \in 0 .. RecursionLimit
  BY <1>1, AgentBefore, AgentConstants DEF superstep
<1>5. AgentTypes'
  BY <1>1, <1>2, <1>3, <1>4 DEF AgentInv, AgentTypes, AgentTypeOK
<1>6. NodePlaces' /\ Affordable' /\ ToolRounds' /\ Grounded'
  BY <1>1, <1>2 DEF AgentInv, NodePlaces, Affordable, ToolRounds, Grounded, Answering, WorkingNodes
<1>7. RepeatRow'
  BY <1>1, <1>2 DEF AgentInv, RepeatRow, WorkingNodes
<1>8. NoDanglingPrompt' /\ NoEcho'
  BY <1>1, <1>2 DEF NoDanglingPrompt, NoEcho
<1>9. UngroundedFlagged'
  BY <1>1, <1>2, <1>3 DEF AgentInv, Grounded, Answering, UngroundedFlagged
<1> QED
  BY <1>5, <1>6, <1>7, <1>8, <1>9 DEF AgentInv

(* A superstep of the agent: the counters and where it leads.              *)
LEMMA AgentStep ==
    ASSUME AgentInv, node = "agent", superstep, step_count' = step_count + 1
    PROVE  /\ supersteps' \in 0 .. RecursionLimit
           /\ step_count' \in 0 .. MaxSteps /\ step_count' \in Nat /\ step_count' > 0
           /\ step_count \in Nat /\ graph \in Graphs
           /\ error_count < MaxErrors /\ error_count \in Nat
BY AgentConstants DEF AgentInv, AgentTypes, AgentTypeOK, NodePlaces, WorkingNodes, superstep

(* The agent does nothing after a halt.                                    *)
LEMMA AgentSkips ==
    ASSUME AgentInv, agent_skips
    PROVE  AgentInv'
<1>1. /\ node = "agent" /\ force_end /\ superstep /\ step_count' = step_count + 1 /\ add_edges
      /\ UNCHANGED <<error_count, token_count, force_end, loop_detected, hitl_pending,
                     action_history, last_message, tool_calls, unanswered, left_open,
                     graph, verify_rounds, tool_run, task_token, tool_results, result,
                     request, turn, requested, repeats>>
  BY DEF agent_skips, rest
<1>2. /\ supersteps' \in 0 .. RecursionLimit
      /\ step_count' \in 0 .. MaxSteps /\ step_count' \in Nat /\ step_count' > 0
      /\ graph \in Graphs /\ error_count' \in Nat
  BY <1>1, AgentStep
<1>3. node' = "finalize"
  BY <1>1, <1>2, EdgeFacts
<1>4. AgentTypes'
  BY <1>1, <1>2, <1>3 DEF AgentInv, AgentTypes, AgentTypeOK, Nodes
<1>5. NodePlaces' /\ Affordable' /\ ToolRounds' /\ Grounded'
  BY <1>1, <1>3 DEF AgentInv, NodePlaces, Affordable, ToolRounds, Grounded, Answering, WorkingNodes
<1>6. RepeatRow'
  BY <1>1, <1>3 DEF AgentInv, RepeatRow, WorkingNodes
<1>7. NoDanglingPrompt' /\ NoEcho' /\ UngroundedFlagged'
  BY <1>1, <1>3 DEF AgentInv, NodePlaces, NoDanglingPrompt, NoEcho, UngroundedFlagged
<1> QED
  BY <1>4, <1>5, <1>6, <1>7 DEF AgentInv

(* The model answers: within the budget, and for the researcher's first    *)
(* step with a call.                                                       *)
LEMMA AgentAnswers ==
    ASSUME AgentInv, agent_node
    PROVE  AgentInv'
<1>1. PICK used \in 0 .. MaxTokens : check_token_budget(used)
  BY DEF agent_node
<1>2. /\ node = "agent" /\ ~force_end /\ superstep /\ step_count' = step_count + 1 /\ add_edges
      /\ base_agent_node \/ researcher_agent_node \/ orchestrator_agent_node
      /\ UNCHANGED <<error_count, loop_detected, hitl_pending, action_history,
                     graph, verify_rounds, task_token, tool_results, result,
                     request, turn, requested, repeats>>
  BY DEF agent_node, rest
<1>3. /\ supersteps' \in 0 .. RecursionLimit
      /\ step_count' \in 0 .. MaxSteps /\ step_count' \in Nat /\ step_count' > 0
      /\ graph \in Graphs /\ error_count' \in Nat /\ step_count \in Nat
  BY <1>2, AgentStep
<1>4. PICK calls \in Messages \cup {<<>>} :
          /\ append_answer(calls)
          /\ graph = "base_agent" => calls = <<>>
          /\ graph = "researcher" /\ step_count = 0 => calls # <<>>
  BY <1>2 DEF base_agent_node, researcher_agent_node, orchestrator_agent_node
<1>5. /\ last_message' = "ai" /\ tool_calls' = calls /\ unanswered' = DOMAIN calls
      /\ left_open' \in BOOLEAN
  BY <1>4 DEF append_answer, AgentInv, AgentTypes
<1>6. tool_run' = [at |-> 1, approved |-> {}, skipped |-> {}, noted |-> action_history]
  BY DEF agent_node, NoToolRun
<1>7. /\ token_count' = token_count + used /\ force_end' = (token_count' >= TokenBudget)
      /\ token_count' \in 0 .. TokenBudget + 2 * MaxTokens /\ token_count' \in Nat
  <2>1. token_count' = token_count + used /\ force_end' = (token_count' >= TokenBudget)
    BY <1>1 DEF check_token_budget
  <2>2. token_count < TokenBudget \/ token_count <= MaxTokens
    BY <1>2 DEF AgentInv, Affordable, WorkingNodes
  <2>3. token_count \in Nat /\ used \in Nat /\ used <= MaxTokens
    BY AgentBefore, AgentConstants
  <2>4. token_count + used \in 0 .. TokenBudget + 2 * MaxTokens
    BY <2>2, <2>3, AgentConstants
  <2> QED
    BY <2>1, <2>3, <2>4
<1>8. /\ node' \in Nodes
      /\ (force_end' \/ loop_detected' \/ step_count' >= MaxSteps \/ error_count' >= MaxErrors)
           => node' = "finalize"
      /\ node' \in {"agent", "hitl_gate"} => graph = "base_agent"
      /\ node' = "tools" => tool_calls' # <<>> /\ graph # "base_agent"
      /\ node' = "verify" => graph = "orchestrator"
      /\ graph = "researcher" /\ node' # "tools" /\ tool_calls' # <<>>
           => \/ force_end' \/ loop_detected' \/ step_count' >= MaxSteps
              \/ error_count' >= MaxErrors
  BY <1>2, <1>3, <1>5, EdgeFacts
<1>9. AgentTypes'
  <2>1. force_end' \in BOOLEAN
    BY <1>7
  <2>2. AgentTypeOK'
    BY <1>2, <1>3, <1>4, <1>5, <1>6, <1>7, <1>8, <2>1
    DEF AgentInv, AgentTypes, AgentTypeOK, Speakers
  <2>3. tool_run' \in ToolRuns
    BY <1>6, AgentBefore DEF ToolRuns
  <2> QED
    BY <1>2, <1>5, <2>2, <2>3 DEF AgentInv, AgentTypes
<1>10. NodePlaces'
  <2>1. loop_detected' = FALSE
    BY <1>2 DEF AgentInv, AgentTypes, AgentTypeOK, NodePlaces
  <2>2. step_count' \in Nat /\ error_count' \in Nat /\ MaxSteps \in Nat /\ MaxErrors \in Nat
    BY <1>3, AgentConstants
  <2> QED
    BY <1>2, <1>3, <1>5, <1>8, <2>1, <2>2 DEF NodePlaces, WorkingNodes, Nodes
<1>11. Affordable'
  <2>1. ~force_end' => ~(token_count' >= TokenBudget)
    BY <1>7, Zenon
  <2>2. ~(token_count' >= TokenBudget) => token_count' < TokenBudget
    BY <1>7, AgentConstants
  <2>3. ~(step_count' = 0)
    BY <1>3
  <2> QED
    BY <2>1, <2>2, <2>3, Zenon DEF Affordable
<1>12. ToolRounds'
  <2>1. PICK h \in Seq(Calls), n \in Nat : h = action_history /\ n = Len(tool_calls')
    BY <1>4, <1>5, MessageFacts, AgentBefore
  <2>2. 1 \in 1 .. n + 1 /\ 1 .. 1 - 1 = {}
    BY <2>1
  <2> QED
    BY <1>2, <1>6, <2>1, <2>2 DEF ToolRounds
<1>13. RepeatRow'
  BY <1>2 DEF AgentInv, RepeatRow, WorkingNodes
<1>14. Grounded'
  <2>1. loop_detected' = FALSE
    BY <1>2 DEF AgentInv, AgentTypes, AgentTypeOK, NodePlaces
  <2>2. SUFFICES ASSUME graph' = "researcher", Answering', ~force_end', error_count' = 0,
                        ~requested', "skipped" \notin tool_results'
                 PROVE  repeats' > 0
    BY DEF Grounded
  <2>3. node' = "finalize" /\ ~(step_count' >= MaxSteps)
    BY <1>2, <1>3, <1>8, <2>2, AgentConstants DEF Answering
  <2>4. tool_calls' = <<>>
    BY <1>2, <1>8, <2>1, <2>2, <2>3, AgentConstants
  <2>5. step_count > 0
    BY <1>2, <1>3, <1>4, <1>5, <2>2, <2>4
  <2> QED
    BY <1>2, <2>2, <2>5 DEF AgentInv, Grounded, Answering
<1>15. NoDanglingPrompt' /\ NoEcho' /\ UngroundedFlagged'
  <2>1. node' = "agent" => unanswered' = {}
    BY <1>2, <1>4, <1>5, <1>8
  <2> QED
    BY <1>5, <1>8, <2>1 DEF NoDanglingPrompt, NoEcho, UngroundedFlagged, Nodes
<1> QED
  BY <1>9, <1>10, <1>11, <1>12, <1>13, <1>14, <1>15 DEF AgentInv

(* The model or what follows raises: the error is counted.                 *)
LEMMA AgentRaises ==
    ASSUME AgentInv, agent_raises
    PROVE  AgentInv'
<1>1. PICK used \in 0 .. (IF step_count = 0 /\ graph # "base_agent" THEN MaxTokens ELSE 0) :
          token_count' = token_count + used
  BY DEF agent_raises
<1>2. /\ node = "agent" /\ ~force_end /\ superstep /\ step_count' = step_count + 1 /\ add_edges
      /\ error_message
      /\ error_count' = error_count + 1 /\ force_end' = (error_count' >= MaxErrors)
      /\ UNCHANGED <<loop_detected, hitl_pending, action_history,
                     graph, verify_rounds, task_token, tool_results, result,
                     request, turn, requested, repeats>>
  BY DEF agent_raises, record_error, rest
<1>3. /\ supersteps' \in 0 .. RecursionLimit
      /\ step_count' \in 0 .. MaxSteps /\ step_count' \in Nat /\ step_count' > 0
      /\ graph \in Graphs /\ step_count \in Nat
      /\ error_count' \in 0 .. MaxErrors /\ error_count' \in Nat /\ error_count' > 0
  BY <1>2, AgentStep, AgentConstants
<1>4. /\ graph # "orchestrator" => /\ last_message' = "ai" /\ tool_calls' = <<>>
                                   /\ unanswered' = {}
      /\ graph = "orchestrator" => UNCHANGED <<last_message, tool_calls, unanswered>>
      /\ left_open' \in BOOLEAN
  <2>1. left_open \in BOOLEAN /\ DOMAIN <<>> = {}
    BY DEF AgentInv, AgentTypes
  <2>2. CASE graph = "orchestrator"
    BY <1>2, <2>1, <2>2 DEF error_message
  <2>3. CASE graph # "orchestrator"
    <3>1. append_answer(<<>>)
      BY <1>2, <2>3 DEF error_message
    <3> QED
      BY <2>1, <2>3, <3>1 DEF append_answer
  <2> QED
    BY <2>2, <2>3
<1>5. /\ last_message' \in Speakers /\ tool_calls' \in Messages \cup {<<>>}
      /\ unanswered' \subseteq DOMAIN tool_calls'
      /\ last_message' = "human" => unanswered' = {}
  BY <1>4 DEF AgentInv, AgentTypes, AgentTypeOK, Speakers, NodePlaces
<1>6. tool_run' = [at |-> 1, approved |-> {}, skipped |-> {}, noted |-> action_history]
  BY DEF agent_raises, NoToolRun
<1>7. /\ token_count' \in 0 .. TokenBudget + 2 * MaxTokens /\ token_count' \in Nat
      /\ token_count' < TokenBudget \/ (graph # "base_agent" /\ token_count' <= MaxTokens)
         \/ (graph = "orchestrator" /\ token_count' <= MaxTokens)
  <2>1. token_count < TokenBudget \/ (graph = "orchestrator" /\ token_count <= MaxTokens)
    BY <1>2 DEF AgentInv, Affordable, WorkingNodes
  <2>2. step_count = 0 => token_count = 0
    BY <1>2 DEF AgentInv, Affordable
  <2>3. token_count \in Nat
    BY AgentBefore
  <2>4. CASE step_count = 0 /\ graph # "base_agent"
    BY <1>1, <2>2, <2>4, AgentConstants
  <2>5. CASE ~(step_count = 0 /\ graph # "base_agent")
    BY <1>1, <2>1, <2>3, <2>5, AgentConstants
  <2> QED
    BY <2>4, <2>5
<1>8. /\ node' \in Nodes
      /\ (force_end' \/ loop_detected' \/ step_count' >= MaxSteps \/ error_count' >= MaxErrors)
           => node' = "finalize"
      /\ node' \in {"agent", "hitl_gate"} => graph = "base_agent"
      /\ node' = "tools" => last_message' = "ai" /\ tool_calls' # <<>> /\ graph # "base_agent"
      /\ node' = "verify" => graph = "orchestrator"
  BY <1>2, <1>3, EdgeFacts
<1>9. AgentTypes'
  <2>1. force_end' \in BOOLEAN
    BY <1>2
  <2>2. AgentTypeOK'
    BY <1>2, <1>3, <1>5, <1>6, <1>7, <1>8, <2>1 DEF AgentInv, AgentTypes, AgentTypeOK
  <2>3. tool_run' \in ToolRuns
    BY <1>6, AgentBefore DEF ToolRuns
  <2> QED
    BY <1>2, <1>4, <2>2, <2>3 DEF AgentInv, AgentTypes
<1>10. NodePlaces'
  <2>1. loop_detected' = FALSE
    BY <1>2 DEF AgentInv, AgentTypes, AgentTypeOK, NodePlaces
  <2>2. step_count' \in Nat /\ error_count' \in Nat /\ MaxSteps \in Nat /\ MaxErrors \in Nat
    BY <1>3, AgentConstants
  <2> QED
    BY <1>2, <1>3, <1>4, <1>5, <1>8, <2>1, <2>2 DEF NodePlaces, WorkingNodes, Nodes
<1>11. Affordable'
  <2>1. graph = "researcher" => node' \notin WorkingNodes
    BY <1>4, <1>8 DEF WorkingNodes
  <2> QED
    BY <1>2, <1>3, <1>7, <2>1, AgentConstants DEF Affordable, Graphs
<1>12. ToolRounds'
  <2>1. PICK h \in Seq(Calls), n \in Nat : h = action_history /\ n = Len(tool_calls')
    BY <1>5, MessageFacts, AgentBefore
  <2>2. 1 \in 1 .. n + 1 /\ 1 .. 1 - 1 = {}
    BY <2>1
  <2> QED
    BY <1>2, <1>6, <2>1, <2>2 DEF ToolRounds
<1>13. RepeatRow'
  BY <1>2 DEF AgentInv, RepeatRow, WorkingNodes
<1>14. Grounded'
  BY <1>3 DEF Grounded
<1>15. NoDanglingPrompt' /\ NoEcho' /\ UngroundedFlagged'
  BY <1>2, <1>4, <1>8 DEF NoDanglingPrompt, NoEcho, UngroundedFlagged, Nodes
<1> QED
  BY <1>9, <1>10, <1>11, <1>12, <1>13, <1>14, <1>15 DEF AgentInv

(* The orchestrator's reviewer accepts, or asks for one more round.        *)
LEMMA Verifies ==
    ASSUME AgentInv, verify_node
    PROVE  AgentInv'
<1>1. /\ node = "verify" /\ superstep /\ node' = route_after_verify
      /\ UNCHANGED <<graph, step_count, error_count, token_count, force_end, loop_detected,
                     hitl_pending, action_history, tool_run, task_token, tool_results,
                     result, request, turn, requested, repeats>>
  BY DEF verify_node, safeguards, rest
<1>2. /\ verify_rounds' \in 0 .. MaxVerifyRounds
      /\ last_message' \in Speakers /\ tool_calls' \in Messages \cup {<<>>}
      /\ unanswered' \subseteq DOMAIN tool_calls' /\ left_open' \in BOOLEAN
      /\ last_message' = "human" => unanswered' = {}
  <2>1. CASE UNCHANGED <<verify_rounds, last_message, tool_calls, unanswered, left_open>>
    BY <2>1 DEF AgentInv, AgentTypes, AgentTypeOK, NodePlaces
  <2>2. CASE /\ verify_rounds < MaxVerifyRounds /\ verify_rounds' = verify_rounds + 1
             /\ last_message' = "human" /\ tool_calls' = <<>> /\ unanswered' = {}
             /\ left_open' = (left_open \/ unanswered # {})
    BY <2>2, AgentConstants DEF AgentInv, AgentTypes, AgentTypeOK, Speakers
  <2> QED
    BY <2>1, <2>2 DEF verify_node
<1>3. node' \in {"agent", "finalize"} /\ (node' = "agent" => last_message' = "human")
  BY <1>1 DEF route_after_verify
<1>4. /\ supersteps' \in 0 .. RecursionLimit /\ graph = "orchestrator" /\ ~force_end
      /\ step_count > 0 /\ step_count < MaxSteps
  BY <1>1, AgentBefore, AgentConstants DEF superstep, AgentInv, NodePlaces, WorkingNodes
<1>5. AgentTypes'
  BY <1>1, <1>2, <1>3, <1>4 DEF AgentInv, AgentTypes, AgentTypeOK, Nodes
<1>6. NodePlaces'
  BY <1>1, <1>2, <1>3, <1>4 DEF AgentInv, NodePlaces, WorkingNodes
<1>7. Affordable' /\ ToolRounds' /\ Grounded'
  BY <1>1, <1>3, <1>4, AgentBefore DEF AgentInv, Affordable, ToolRounds, Grounded, WorkingNodes
<1>8. RepeatRow'
  BY <1>1, <1>3 DEF AgentInv, RepeatRow, WorkingNodes
<1>9. NoDanglingPrompt' /\ NoEcho' /\ UngroundedFlagged'
  BY <1>1, <1>2, <1>3, <1>4 DEF NoDanglingPrompt, NoEcho, UngroundedFlagged
<1> QED
  BY <1>5, <1>6, <1>7, <1>8, <1>9 DEF AgentInv

(* Whatever ends a round of tools: the agent is next.                      *)
LEMMA ToolsReturn ==
    ASSUME AgentInv, node = "tools", NEW answers, NEW skipped, tools_return(answers, skipped),
           force_end' \in BOOLEAN, loop_detected' \in BOOLEAN, loop_detected' => force_end',
           hitl_pending' \in BOOLEAN, requested' \in BOOLEAN, repeats' \in Nat,
           action_history' \in Seq(Calls), Len(action_history') <= 2 * LoopWindow,
           request' \in {"none", "pending", "approved", "rejected"},
           force_end' \/ requested' \/ unanswered' = {},
           RepeatRow', force_end' \/ requested' \/ repeats' > 0 \/ "skipped" \in tool_results'
    PROVE  AgentInv'
<1>1. /\ node' = "agent" /\ superstep /\ unanswered' = unanswered \ answers
      /\ last_message' \in {last_message, "tool"}
      /\ tool_run' = [at |-> 1, approved |-> {}, skipped |-> {}, noted |-> <<>>]
      /\ UNCHANGED <<task_token, result, graph, step_count, error_count, token_count,
                     verify_rounds, tool_calls, left_open, turn>>
  BY DEF tools_return, NoToolRun
<1>2. tool_results' \subseteq {"skipped", "real"}
  BY AgentBefore DEF tools_return
<1>3. /\ ~force_end /\ step_count < MaxSteps /\ error_count < MaxErrors /\ step_count > 0
      /\ last_message = "ai" /\ step_count \in Nat
      /\ token_count < TokenBudget \/ (graph = "orchestrator" /\ token_count <= MaxTokens)
  BY AgentBefore DEF AgentInv, NodePlaces, Affordable, WorkingNodes
<1>4. supersteps' \in 0 .. RecursionLimit
  BY <1>1, AgentBefore, AgentConstants DEF superstep
<1>5. AgentTypes'
  <2>1. AgentTypeOK'
    BY <1>1, <1>2, <1>3, <1>4 DEF AgentInv, AgentTypes, AgentTypeOK, Nodes, Speakers
  <2>2. tool_run' \in ToolRuns
    BY <1>1 DEF ToolRuns
  <2> QED
    BY <1>1, <2>1, <2>2 DEF AgentInv, AgentTypes
<1>6. NodePlaces'
  BY <1>1, <1>3 DEF NodePlaces, WorkingNodes
<1>7. Affordable' /\ ToolRounds'
  BY <1>1, <1>3 DEF Affordable, ToolRounds, WorkingNodes
<1>8. Grounded'
  BY Zenon DEF Grounded
<1>9. NoDanglingPrompt' /\ NoEcho' /\ UngroundedFlagged'
  BY <1>1 DEF NoDanglingPrompt, NoEcho, UngroundedFlagged
<1> QED
  BY <1>5, <1>6, <1>7, <1>8, <1>9 DEF AgentInv

(* What is known while a call is checked, and of the history that notes it. *)
LEMMA ToolCall ==
    ASSUME AgentInv, checking
    PROVE  /\ node = "tools" /\ ~force_end
           /\ tool_run.at \in 1 .. Len(tool_calls) /\ Len(tool_calls) \in Nat
           /\ this_call \in Calls
           /\ detect_action_loop(this_call).history
                = Newest(Append(action_history, this_call), 2 * LoopWindow)
           /\ detect_action_loop(this_call).history \in Seq(Calls)
           /\ Len(detect_action_loop(this_call).history) <= 2 * LoopWindow
           /\ detect_action_loop(this_call).loop_detected
                = (Count(Newest(detect_action_loop(this_call).history, LoopWindow), this_call)
                     >= LoopThreshold)
<1>1. node = "tools" /\ tool_run.at <= Len(tool_calls)
  BY DEF checking
<1>2. tool_calls \in Seq(Calls) /\ Len(tool_calls) \in Nat
  BY AgentBefore, MessageFacts
<1>3. tool_run.at \in 1 .. Len(tool_calls) + 1
  BY <1>1 DEF AgentInv, ToolRounds
<1>4. tool_run.at \in 1 .. Len(tool_calls)
  BY <1>1, <1>2, <1>3
<1>5. this_call \in Calls
  BY <1>2, <1>4 DEF this_call
<1>6. ~force_end
  BY <1>1 DEF AgentInv, NodePlaces
<1>7. PICK new : new = Newest(Append(action_history, this_call), 2 * LoopWindow)
  OBVIOUS
<1>8. NotedAfter(action_history, this_call, 2 * LoopWindow, new)
  <2>1. action_history \in Seq(Calls) /\ 2 * LoopWindow \in Nat \ {0}
    BY AgentBefore, AgentConstants
  <2> QED
    BY <1>5, <1>7, <2>1, NotedFacts
<1>9. new \in Seq(Calls) /\ Len(new) <= 2 * LoopWindow
  BY <1>8, AgentConstants DEF NotedAfter
<1>10. PICK b : b = (Count(Newest(new, LoopWindow), this_call) >= LoopThreshold)
  OBVIOUS
<1>11. /\ detect_action_loop(this_call).history = new
       /\ detect_action_loop(this_call).loop_detected
            = (Count(Newest(new, LoopWindow), this_call) >= LoopThreshold)
  <2>1. detect_action_loop(this_call) = [history |-> new, loop_detected |-> b]
    BY <1>7, <1>10, Zenon DEF detect_action_loop
  <2>2. /\ [history |-> new, loop_detected |-> b].history = new
        /\ [history |-> new, loop_detected |-> b].loop_detected = b
    OBVIOUS
  <2> QED
    BY <1>10, <2>1, <2>2, Zenon
<1> QED
  BY <1>1, <1>2, <1>4, <1>5, <1>6, <1>7, <1>9, <1>11, Zenon

(* What a call that ends the run has noted, or a node that ran to its end. *)
LEMMA NotedTypes ==
    ASSUME AgentInv, node = "tools"
    PROVE  /\ tool_run.noted \in Seq(Calls) /\ Len(tool_run.noted) <= 2 * LoopWindow
           /\ hitl_pending \in BOOLEAN /\ requested \in BOOLEAN /\ repeats \in Nat
           /\ request \in {"none", "pending", "approved", "rejected"}
           /\ action_history \in Seq(Calls) /\ Len(action_history) <= 2 * LoopWindow
<1>1. /\ hitl_pending \in BOOLEAN /\ requested \in BOOLEAN /\ repeats \in Nat
      /\ request \in {"none", "pending", "approved", "rejected"}
      /\ action_history \in Seq(Calls) /\ Len(action_history) <= 2 * LoopWindow
      /\ tool_run.noted \in Seq(Calls)
  BY DEF AgentInv, AgentTypes, AgentTypeOK, ToolRuns
<1>2. tool_run.noted = action_history \/ \E c \in Calls : NotedBy(c)
  BY DEF AgentInv, ToolRounds
<1>3. ASSUME NEW c \in Calls, NotedBy(c) PROVE Len(tool_run.noted) <= 2 * LoopWindow
  <2>1. NotedAfter(action_history, c, 2 * LoopWindow, tool_run.noted)
    <3>1. 2 * LoopWindow \in Nat \ {0} /\ tool_run.noted = Newest(Append(action_history, c), 2 * LoopWindow)
      BY <1>3, AgentConstants DEF NotedBy
    <3> QED
      BY <1>1, <3>1, NotedFacts
  <2> QED
    BY <2>1, AgentConstants DEF NotedAfter
<1> QED
  BY <1>1, <1>2, <1>3

(* The checks that end the run by force.                                   *)
LEMMA RunHalted ==
    ASSUME AgentInv, registry_fails \/ acl_denies \/ guardian_halts \/ loop_halts
                     \/ arguments_halt \/ hitl_forces_end
    PROVE  AgentInv'
<1>1. /\ node = "tools" /\ force_end' = TRUE /\ loop_detected' \in BOOLEAN
      /\ UNCHANGED <<hitl_pending, request, requested, repeats>>
      /\ \E answers, skipped : tools_return(answers, skipped)
  BY DEF registry_fails, acl_denies, guardian_halts, loop_halts, arguments_halt, hitl_forces_end,
         no_loop, granted, checking
<1>2. action_history' \in Seq(Calls) /\ Len(action_history') <= 2 * LoopWindow
  <2>1. CASE loop_halts \/ hitl_forces_end
    <3>1. checking /\ action_history' = detect_action_loop(this_call).history
      BY <2>1 DEF loop_halts, hitl_forces_end, no_loop, granted
    <3> QED
      BY <3>1, ToolCall
  <2>2. CASE registry_fails
    BY <1>1, <2>2, NotedTypes DEF registry_fails
  <2>3. CASE acl_denies \/ guardian_halts \/ arguments_halt
    BY <1>1, <2>3, NotedTypes DEF acl_denies, guardian_halts, arguments_halt
  <2> QED
    BY <2>1, <2>2, <2>3
<1>3. RepeatRow'
  BY <1>1 DEF AgentInv, RepeatRow
<1> QED
  BY <1>1, <1>2, <1>3, NotedTypes, ToolsReturn

(* A review that is asked for ends the round, not the run.                 *)
LEMMA ReviewAsked ==
    ASSUME AgentInv, hitl_requests
    PROVE  AgentInv'
<1>1. /\ checking /\ tools_return({}, {}) /\ request' = "pending" /\ requested' = TRUE
      /\ hitl_pending' = TRUE /\ force_end' = FALSE /\ loop_detected' = FALSE
      /\ action_history' = detect_action_loop(this_call).history
      /\ repeats' = IF ends_with(this_call) THEN repeats ELSE 0
  BY DEF hitl_requests, no_loop, granted
<1>2. /\ node = "tools" /\ ~force_end /\ this_call \in Calls
      /\ action_history' = Newest(Append(action_history, this_call), 2 * LoopWindow)
      /\ action_history' \in Seq(Calls) /\ Len(action_history') <= 2 * LoopWindow
  BY <1>1, ToolCall
<1>3. repeats' \in Nat
  BY <1>1, <1>2, NotedTypes
<1>4. RepeatRow'
  <2>1. SUFFICES ASSUME LoopThreshold <= LoopWindow
                 PROVE  repeats' < LoopThreshold /\ RowIn(action_history', repeats')
    BY DEF RepeatRow
  <2>2. repeats < LoopThreshold /\ RowIn(action_history, repeats)
    BY <1>2, <2>1 DEF AgentInv, RepeatRow, WorkingNodes
  <2>3. repeats \in Nat /\ repeats + 1 <= 2 * LoopWindow /\ action_history \in Seq(Calls)
    BY <1>2, <2>1, <2>2, NotedTypes, AgentConstants
  <2>4. CASE ends_with(this_call)
    <3>1. action_history # <<>> /\ action_history[Len(action_history)] = this_call
      BY <2>4 DEF ends_with
    <3>2. RowIn(action_history', repeats + 1)
      BY <1>2, <2>2, <2>3, <3>1, RowGrows, AgentConstants
    <3>3. RowIn(action_history', repeats)
      BY <1>2, <2>3, <3>2, RowShorter
    <3> QED
      BY <1>1, <2>2, <2>4, <3>3
  <2>5. CASE ~ends_with(this_call)
    <3>1. repeats' = 0
      BY <1>1, <2>5
    <3>2. RowIn(action_history', 0)
      BY <1>2 DEF RowIn
    <3> QED
      BY <3>1, <3>2, AgentConstants
  <2> QED
    BY <2>4, <2>5
<1> QED
  BY <1>1, <1>2, <1>3, <1>4, ToolsReturn

(* What is counted is a number.                                            *)
LEMMA CountType ==
    ASSUME NEW s \in Seq(Calls), NEW n \in Nat, NEW c
    PROVE  Count(Newest(s, n), c) \in Int
<1>1. PICK t \in Seq(Calls) : t = Newest(s, n)
  BY NewestFacts
<1>2. IsFiniteSet({i \in DOMAIN t : t[i] = c})
  <2>1. IsFiniteSet(1 .. Len(t)) /\ DOMAIN t = 1 .. Len(t)
    BY FS_Interval
  <2> QED
    BY <2>1, FS_Subset
<1> QED
  BY <1>1, <1>2, FS_CardinalityType DEF Count

(* A call that waits for its turn: it is skipped, or noted and approved.   *)
LEMMA CallPasses ==
    ASSUME AgentInv, guardian_sandboxes \/ approve_call
    PROVE  AgentInv'
<1>1. /\ checking
      /\ UNCHANGED <<graph, node, step_count, error_count, token_count, force_end, loop_detected,
                     hitl_pending, action_history, verify_rounds, last_message, tool_calls,
                     unanswered, left_open, supersteps, task_token, tool_results, result,
                     request, turn, requested, repeats>>
  BY DEF guardian_sandboxes, approve_call, no_loop, granted, safeguards, rest
<1>2. /\ node = "tools" /\ tool_run.at \in 1 .. Len(tool_calls) /\ Len(tool_calls) \in Nat
      /\ this_call \in Calls /\ tool_run.at \in Nat /\ tool_run \in ToolRuns
  BY <1>1, ToolCall, AgentBefore
<1>3. /\ tool_run.approved \subseteq Nat /\ tool_run.skipped \subseteq Nat
      /\ tool_run.noted \in Seq(Calls)
      /\ tool_run.approved \cap tool_run.skipped = {}
      /\ tool_run.approved \cup tool_run.skipped = 1 .. tool_run.at - 1
  BY <1>2 DEF ToolRuns, AgentInv, AgentTypes, AgentTypeOK, ToolRounds
<1>4. /\ tool_run.at + 1 \in 1 .. Len(tool_calls) + 1 /\ tool_run.at + 1 \in Nat
      /\ 1 .. (tool_run.at + 1) - 1 = (1 .. tool_run.at - 1) \cup {tool_run.at}
      /\ tool_run.at \notin 1 .. tool_run.at - 1
  BY <1>2
<1>5. PICK ap, sk, no :
          /\ tool_run' = [at |-> tool_run.at + 1, approved |-> ap, skipped |-> sk, noted |-> no]
          /\ ap \in SUBSET Nat /\ sk \in SUBSET Nat /\ no \in Seq(Calls)
          /\ ap \cap sk = {} /\ ap \cup sk = 1 .. (tool_run.at + 1) - 1
          /\ \/ ap = tool_run.approved /\ no = tool_run.noted
             \/ /\ no = Newest(Append(action_history, this_call), 2 * LoopWindow)
                /\ ap # {} /\ Count(Newest(no, LoopWindow), this_call) < LoopThreshold
  <2>1. CASE guardian_sandboxes
    <3>1. tool_run' = [at |-> tool_run.at + 1, approved |-> tool_run.approved,
                       skipped |-> tool_run.skipped \cup {tool_run.at}, noted |-> tool_run.noted]
      BY <1>2, <2>1 DEF guardian_sandboxes, ToolRuns
    <3>2. PICK ap, sk, no : /\ ap = tool_run.approved /\ sk = tool_run.skipped \cup {tool_run.at}
                            /\ no = tool_run.noted
      OBVIOUS
    <3>3. ap \in SUBSET Nat /\ sk \in SUBSET Nat /\ no \in Seq(Calls)
      BY <1>2, <1>3, <3>2
    <3>4. ap \cap sk = {} /\ ap \cup sk = 1 .. (tool_run.at + 1) - 1
      <4>1. tool_run.at \notin ap
        BY <1>3, <1>4, <3>2
      <4> QED
        BY <1>3, <1>4, <3>2, <4>1
    <3> QED
      BY <3>1, <3>2, <3>3, <3>4
  <2>2. CASE approve_call
    <3>1. tool_run' = [at |-> tool_run.at + 1, approved |-> tool_run.approved \cup {tool_run.at},
                       skipped |-> tool_run.skipped,
                       noted |-> detect_action_loop(this_call).history]
      BY <2>2 DEF approve_call
    <3>2. PICK no : no = detect_action_loop(this_call).history
      OBVIOUS
    <3>3. /\ no = Newest(Append(action_history, this_call), 2 * LoopWindow) /\ no \in Seq(Calls)
          /\ ~detect_action_loop(this_call).loop_detected
      BY <1>1, <2>2, <3>2, ToolCall DEF approve_call, no_loop
    <3>4. ~(Count(Newest(no, LoopWindow), this_call) >= LoopThreshold)
      BY <1>1, <3>2, <3>3, ToolCall, Zenon
    <3>5. Count(Newest(no, LoopWindow), this_call) \in Int
      BY <3>3, CountType, AgentConstants
    <3>6. Count(Newest(no, LoopWindow), this_call) < LoopThreshold
      BY <3>4, <3>5, AgentConstants
    <3>7. PICK ap, sk : ap = tool_run.approved \cup {tool_run.at} /\ sk = tool_run.skipped
      OBVIOUS
    <3>8. ap \in SUBSET Nat /\ sk \in SUBSET Nat /\ ap # {}
      BY <1>2, <1>3, <3>7
    <3>9. ap \cap sk = {} /\ ap \cup sk = 1 .. (tool_run.at + 1) - 1
      <4>1. tool_run.at \notin sk
        BY <1>3, <1>4, <3>7
      <4> QED
        BY <1>3, <1>4, <3>7, <4>1
    <3> QED
      BY <3>1, <3>2, <3>3, <3>6, <3>7, <3>8, <3>9
  <2> QED
    BY <2>1, <2>2
<1>6. AgentTypes'
  <2>1. AgentTypeOK'
    BY <1>1, <1>5 DEF AgentInv, AgentTypes, AgentTypeOK
  <2>2. tool_run' \in ToolRuns
    BY <1>4, <1>5 DEF ToolRuns
  <2> QED
    BY <1>1, <2>1, <2>2 DEF AgentInv, AgentTypes
<1>7. NodePlaces' /\ Affordable' /\ Grounded'
  BY <1>1 DEF AgentInv, NodePlaces, Affordable, Grounded, Answering, WorkingNodes
<1>8. RepeatRow'
  BY <1>1 DEF AgentInv, RepeatRow, WorkingNodes
<1>9. ToolRounds'
  <2>1. CASE ap = tool_run.approved /\ no = tool_run.noted
    <3>1. IF tool_run.approved = {} THEN tool_run.noted = action_history
          ELSE \E c \in Calls : NotedBy(c)
      BY <1>2 DEF AgentInv, ToolRounds
    <3> QED
      BY <1>1, <1>4, <1>5, <2>1, <3>1 DEF ToolRounds, NotedBy
  <2>2. CASE /\ no = Newest(Append(action_history, this_call), 2 * LoopWindow)
             /\ ap # {} /\ Count(Newest(no, LoopWindow), this_call) < LoopThreshold
    BY <1>1, <1>2, <1>4, <1>5, <2>2 DEF ToolRounds, NotedBy
  <2> QED
    BY <1>5, <2>1, <2>2
<1>10. NoDanglingPrompt' /\ NoEcho' /\ UngroundedFlagged'
  BY <1>1 DEF AgentInv, NoDanglingPrompt, NoEcho, UngroundedFlagged
<1> QED
  BY <1>6, <1>7, <1>8, <1>9, <1>10 DEF AgentInv

(* The approved calls run: the row of equal rounds grows by one or begins  *)
(* again, and stays below the threshold, for the window holds it.          *)
LEMMA ToolsRan ==
    ASSUME AgentInv, run_tools
    PROVE  AgentInv'
<1>1. PICK injected \in BOOLEAN :
          /\ injected => tool_run.approved # {}
          /\ tools_return(DOMAIN tool_calls, IF injected THEN {} ELSE tool_run.skipped)
          /\ force_end' = injected
          /\ loop_detected' = FALSE
          /\ action_history' = IF injected THEN action_history ELSE tool_run.noted
  BY DEF run_tools
<1>2. /\ node = "tools" /\ tool_run.at > Len(tool_calls)
      /\ repeats' = IF tool_run.approved = {} THEN repeats
                    ELSE IF ends_with(tool_run.noted[Len(tool_run.noted)]) THEN repeats + 1 ELSE 1
      /\ UNCHANGED <<hitl_pending, request, requested>>
  BY DEF run_tools
<1>3. action_history' \in Seq(Calls) /\ Len(action_history') <= 2 * LoopWindow
  BY <1>1, <1>2, NotedTypes
<1>4. unanswered' = {}
  <2>1. unanswered' = unanswered \ DOMAIN tool_calls
    BY <1>1 DEF tools_return
  <2> QED
    BY <2>1, AgentBefore
<1>5. repeats' \in Nat
  BY <1>2, NotedTypes
<1>6. force_end' \/ requested' \/ repeats' > 0 \/ "skipped" \in tool_results'
  <2>1. SUFFICES ASSUME ~injected, tool_run.approved = {}
                 PROVE  "skipped" \in tool_results'
    <3>1. tool_run.approved # {} => repeats' > 0
      BY <1>2, NotedTypes
    <3> QED
      BY <1>1, <3>1
  <2>2. /\ tool_run.approved \cup tool_run.skipped = 1 .. tool_run.at - 1
        /\ tool_run.at \in 1 .. Len(tool_calls) + 1 /\ tool_calls # <<>>
    BY <1>2 DEF AgentInv, ToolRounds, NodePlaces
  <2>3. tool_calls \in Seq(Calls) /\ Len(tool_calls) \in Nat
    BY AgentBefore, MessageFacts
  <2>4. 1 \in 1 .. tool_run.at - 1
    BY <1>2, <2>2, <2>3
  <2>5. tool_run.skipped # {}
    BY <2>1, <2>2, <2>4
  <2> QED
    BY <1>1, <2>1, <2>5 DEF tools_return
<1>7. RepeatRow'
  <2>1. SUFFICES ASSUME LoopThreshold <= LoopWindow
                 PROVE  repeats' < LoopThreshold /\ (~force_end' => RowIn(action_history', repeats'))
    BY DEF RepeatRow
  <2>2. ~force_end /\ repeats < LoopThreshold /\ RowIn(action_history, repeats)
    <3>1. ~force_end
      BY <1>2 DEF AgentInv, NodePlaces
    <3> QED
      BY <1>2, <2>1, <3>1 DEF AgentInv, RepeatRow, WorkingNodes
  <2>3. repeats \in Nat /\ repeats + 1 <= LoopWindow /\ repeats + 1 <= 2 * LoopWindow
        /\ action_history \in Seq(Calls) /\ tool_run.noted \in Seq(Calls)
    BY <1>2, <2>1, <2>2, NotedTypes, AgentConstants
  <2>4. CASE tool_run.approved = {}
    <3>1. tool_run.noted = action_history /\ repeats' = repeats
      BY <1>2, <2>4 DEF AgentInv, ToolRounds
    <3> QED
      BY <1>1, <2>2, <3>1
  <2>5. CASE tool_run.approved # {}
    <3>1. PICK c \in Calls : NotedBy(c)
      BY <1>2, <2>5 DEF AgentInv, ToolRounds
    <3>2. /\ tool_run.noted = Newest(Append(action_history, c), 2 * LoopWindow)
          /\ Count(Newest(tool_run.noted, LoopWindow), c) < LoopThreshold
      BY <3>1 DEF NotedBy
    <3>3. tool_run.noted[Len(tool_run.noted)] = c
      <4>1. NotedAfter(action_history, c, 2 * LoopWindow, tool_run.noted)
        BY <2>3, <3>2, NotedFacts, AgentConstants
      <4> QED
        BY <4>1 DEF NotedAfter
    <3>4. RowIn(tool_run.noted, repeats') /\ repeats' \in Nat \ {0} /\ repeats' <= LoopWindow
      <4>1. CASE ends_with(c)
        <5>1. action_history # <<>> /\ action_history[Len(action_history)] = c
          BY <4>1 DEF ends_with
        <5>2. repeats' = repeats + 1
          BY <1>2, <2>5, <3>3, <4>1
        <5>3. RowIn(tool_run.noted, repeats + 1)
          BY <2>2, <2>3, <3>2, <5>1, RowGrows, AgentConstants
        <5> QED
          BY <2>3, <5>2, <5>3
      <4>2. CASE ~ends_with(c)
        <5>1. repeats' = 1 /\ 0 + 1 = 1 /\ 1 <= 2 * LoopWindow /\ 1 <= LoopWindow
          BY <1>2, <2>5, <3>3, <4>2, AgentConstants
        <5>2. RowIn(action_history, 0)
          BY <2>3 DEF RowIn
        <5>3. RowIn(tool_run.noted, 0 + 1)
          BY <2>3, <3>2, <5>1, <5>2, RowGrows, AgentConstants
        <5> QED
          BY <5>1, <5>3
      <4> QED
        BY <4>1, <4>2
    <3>5. Count(Newest(tool_run.noted, LoopWindow), c) >= repeats'
      BY <2>3, <3>3, <3>4, RowCounted
    <3>6. Count(Newest(tool_run.noted, LoopWindow), c) \in Int
      BY <2>3, CountType, AgentConstants
    <3>7. repeats' < LoopThreshold
      BY <3>2, <3>4, <3>5, <3>6, AgentConstants
    <3> QED
      BY <1>1, <3>4, <3>7
  <2> QED
    BY <2>4, <2>5
<1>8. hitl_pending' \in BOOLEAN /\ requested' \in BOOLEAN
      /\ request' \in {"none", "pending", "approved", "rejected"}
  BY <1>2, NotedTypes
<1>9. PICK sk : tools_return(DOMAIN tool_calls, sk)
  BY <1>1
<1> QED
  BY <1>1, <1>2, <1>3, <1>4, <1>5, <1>6, <1>7, <1>8, <1>9, ToolsReturn

(* What others do to the token and to the review.                          *)
LEMMA OthersAct ==
    ASSUME AgentInv, token_expires \/ operator_decides
    PROVE  AgentInv'
<1>1. UNCHANGED <<graph, node, step_count, error_count, token_count, force_end, loop_detected,
                  hitl_pending, action_history, verify_rounds, last_message, tool_calls,
                  unanswered, left_open, tool_run, supersteps, tool_results, result,
                  turn, requested, repeats>>
  BY DEF token_expires, operator_decides, safeguards
<1>2. /\ request' \in {"none", "pending", "approved", "rejected"}
      /\ task_token' \in {"none", "valid", "invalid"}
  BY DEF token_expires, operator_decides, AgentInv, AgentTypes, AgentTypeOK
<1>3. AgentTypes'
  BY <1>1, <1>2 DEF AgentInv, AgentTypes, AgentTypeOK
<1>4. NodePlaces' /\ Affordable' /\ Grounded'
  BY <1>1 DEF AgentInv, NodePlaces, Affordable, Grounded, Answering, WorkingNodes
<1>5. RepeatRow' /\ ToolRounds'
  BY <1>1 DEF AgentInv, RepeatRow, ToolRounds, WorkingNodes, NotedBy
<1>6. NoDanglingPrompt' /\ NoEcho' /\ UngroundedFlagged'
  BY <1>1 DEF AgentInv, NoDanglingPrompt, NoEcho, UngroundedFlagged
<1> QED
  BY <1>3, <1>4, <1>5, <1>6 DEF AgentInv

(* A step that leaves the state keeps the invariant.                       *)
LEMMA AgentUnchanged ==
    ASSUME AgentInv, UNCHANGED agentVars
    PROVE  AgentInv'
<1>1. UNCHANGED <<graph, node, step_count, error_count, token_count, force_end, loop_detected,
                  hitl_pending, action_history, verify_rounds, last_message, tool_calls,
                  unanswered, left_open, tool_run, supersteps, tool_results, result,
                  turn, requested, repeats, task_token, request>>
  BY DEF agentVars
<1>2. AgentTypes' /\ NodePlaces' /\ Affordable' /\ Grounded'
  BY <1>1 DEF AgentInv, AgentTypes, AgentTypeOK, NodePlaces, Affordable, Grounded, Answering, WorkingNodes
<1>3. RepeatRow' /\ ToolRounds'
  BY <1>1 DEF AgentInv, RepeatRow, ToolRounds, WorkingNodes, NotedBy
<1>4. NoDanglingPrompt' /\ NoEcho' /\ UngroundedFlagged'
  BY <1>1 DEF AgentInv, NoDanglingPrompt, NoEcho, UngroundedFlagged
<1> QED
  BY <1>2, <1>3, <1>4 DEF AgentInv

(* Every step keeps the invariant.                                         *)
LEMMA AgentSteps == AgentInv /\ [AgentNext]_agentVars => AgentInv'
<1> SUFFICES ASSUME AgentInv, [AgentNext]_agentVars PROVE AgentInv'
  OBVIOUS
<1>1. CASE run_agent \/ run_researcher \/ orchestrator_run
  <2>1. \E g \in Graphs, session \in BOOLEAN, token \in {"none", "valid"} :
           initial(g, session, token)
    BY <1>1 DEF run_agent, run_researcher, orchestrator_run, Graphs
  <2> QED
    BY <2>1, StartsRun
<1>2. CASE recursion_error \/ finalizer_node \/ verify_node
  BY <1>2, Recurses, Finishes, Verifies
<1>3. CASE agent_skips \/ agent_node \/ agent_raises
  BY <1>3, AgentSkips, AgentAnswers, AgentRaises
<1>4. CASE SecureToolNode
  BY <1>4, RunHalted, ReviewAsked, CallPasses, ToolsRan DEF SecureToolNode
<1>5. CASE token_expires \/ operator_decides
  BY <1>5, OthersAct
<1>6. CASE UNCHANGED agentVars
  BY <1>6, AgentUnchanged
<1> QED
  BY <1>1, <1>2, <1>3, <1>4, <1>5, <1>6 DEF AgentNext

(* Whatever the model answers, whichever check ends a round and wherever   *)
(* an error strikes: no open tool call reaches the model before a review   *)
(* was asked for, no call is repeated past the threshold, and the answer   *)
(* is neither the question nor made up without a warning                   *)
(* (src/base_graph.py, src/safeguards.py).                                 *)
THEOREM AgentCorrect == AgentSpec => []AgentInvariant
<1>1. AgentInv => AgentInvariant
  <2>1. RepeatRow => RepeatBound
    BY DEF RepeatRow, RepeatBound
  <2> QED
    BY <2>1 DEF AgentInv, AgentTypes, AgentInvariant
<1> QED
  BY <1>1, AgentStarts, AgentSteps, PTL DEF AgentSpec

(* Every step of a run keeps to the two rules.                             *)
LEMMA RunStops ==
    ASSUME AgentInv, [AgentNext]_agentVars, turn' = turn
    PROVE  /\ force_end => /\ force_end' /\ node' \in {"agent", "finalize", "end", "raised"}
                           /\ tool_calls' = tool_calls
           /\ graph # "orchestrator" /\ step_count' = step_count + 1 /\ ~force_end
                => token_count < TokenBudget
<1>0. /\ force_end => node \in {"agent", "finalize", "end", "raised"}
      /\ step_count \in Nat /\ turn \in Nat
  BY AgentBefore DEF AgentInv, NodePlaces, AgentTypes
<1>1. CASE run_agent \/ run_researcher \/ orchestrator_run
  BY <1>0, <1>1 DEF run_agent, run_researcher, orchestrator_run, initial
<1>2. CASE recursion_error \/ finalizer_node
  BY <1>0, <1>2 DEF recursion_error, finalizer_node, safeguards
<1>3. CASE agent_skips
  <2>1. /\ node = "agent" /\ force_end /\ superstep /\ step_count' = step_count + 1 /\ add_edges
        /\ force_end' = force_end /\ tool_calls' = tool_calls /\ error_count' = error_count
    BY <1>3 DEF agent_skips
  <2>2. node' = "finalize"
    BY <2>1, AgentStep, AgentBefore, EdgeFacts
  <2> QED
    BY <2>1, <2>2
<1>4. CASE agent_node \/ agent_raises
  BY <1>4 DEF agent_node, agent_raises, AgentInv, Affordable, WorkingNodes
<1>5. CASE verify_node
  BY <1>0, <1>5 DEF verify_node, safeguards
<1>6. CASE SecureToolNode
  <2>1. node = "tools" /\ step_count' = step_count
    BY <1>6 DEF SecureToolNode, registry_fails, acl_denies, guardian_halts, guardian_sandboxes,
                loop_halts, arguments_halt, hitl_requests, hitl_forces_end, approve_call, run_tools,
                no_loop, granted, checking, tools_return, safeguards
  <2> QED
    BY <1>0, <2>1
<1>7. CASE token_expires \/ operator_decides
  BY <1>0, <1>7 DEF token_expires, operator_decides, safeguards
<1>8. CASE UNCHANGED agentVars
  BY <1>0, <1>8 DEF agentVars
<1> QED
  BY <1>1, <1>2, <1>3, <1>4, <1>5, <1>6, <1>7, <1>8 DEF AgentNext

(* Once a safeguard has set force_end, no model is called and no tool      *)
(* runs in that run, and the base agent and the researcher call the model  *)
(* only while the token budget lasts (check_safeguards,                    *)
(* src/safeguards.py).                                                     *)
THEOREM AgentStops == AgentSpec => SafeguardsStop
<1>1. AgentInv /\ [AgentNext]_agentVars =>
        [turn' = turn /\ force_end => /\ force_end'
                                      /\ node' \in {"agent", "finalize", "end", "raised"}
                                      /\ tool_calls' = tool_calls]_agentVars
  BY RunStops
<1>2. AgentInv /\ [AgentNext]_agentVars =>
        [(graph # "orchestrator" /\ turn' = turn /\ step_count' = step_count + 1 /\ ~force_end)
           => token_count < TokenBudget]_agentVars
  BY RunStops
<1> QED
  BY <1>1, <1>2, AgentStarts, AgentSteps, PTL
  DEF AgentSpec, SafeguardsStop, ForceEndFinal, BudgetStops
=============================================================================
