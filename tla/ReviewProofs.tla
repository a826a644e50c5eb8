---------------------------- MODULE ReviewProofs ----------------------------
(****************************************************************************)
(* What waits for an operator: the approvals of a paused run, the           *)
(* registration of tools, and the review of packages and threat rules. The  *)
(* three modules share no state; each part below is about one of them.      *)
(****************************************************************************)
EXTENDS HitlApproval, FiniteSetTheorems, ToolRegistry, ReviewWorkflow,
        TLAPS

(***************************************************************************)
(* One resumption per approval, for every number of rows and of operators. *)
(* What makes it inductive is that a row is decided only while it is       *)
(* pending: before that nobody has resumed it or is about to (Untouched),  *)
(* after it the one operator whose UPDATE met the pending row may          *)
(* (OneResumes).                                                           *)
(***************************************************************************)

Resumes(o, r) == call[o] # NoCall /\ call[o].stage = "resume" /\ call[o].review = r

Untouched ==
  \A r \in Reviews : hitl_rows[r] # "approved" =>
     resumed[r] = 0 /\ \A o \in Operators : ~Resumes(o, r)

OneResumes ==
  \A r \in Reviews :
     /\ resumed[r] \in {0, 1}
     /\ \A o \in Operators : Resumes(o, r) => resumed[r] = 0
     /\ \A o, p \in Operators : Resumes(o, r) /\ Resumes(p, r) => o = p

HitlInductive == HitlTypeOK /\ Untouched /\ OneResumes /\ ToldAgrees

(* The invariant holds at the start.                                       *)
LEMMA HitlInductiveInit == HitlInit => HitlInductive
<1> SUFFICES ASSUME HitlInit PROVE HitlInductive
  OBVIOUS
<1> USE DEF HitlInit
<1>1. HitlTypeOK
  BY HitlAssumption DEF HitlTypeOK, RowStatus, HitlAssumption
<1>2. Untouched /\ OneResumes
  BY DEF Untouched, OneResumes, Resumes
<1>3. ToldAgrees
  BY DEF ToldAgrees
<1> QED
  BY <1>1, <1>2, <1>3 DEF HitlInductive

(* A step that neither decides nor resumes.                                *)
LEMMA NothingDecided ==
  ASSUME HitlInductive, HitlTypeOK', UNCHANGED <<resumed, told>>,
         \A r \in Reviews : hitl_rows'[r] = hitl_rows[r]
                            \/ (hitl_rows[r] = "absent" /\ hitl_rows'[r] = "pending"),
         \A o \in Operators, r \in Reviews : Resumes(o, r)' => Resumes(o, r)
  PROVE  HitlInductive'
<1>1. Untouched'
  BY DEF HitlInductive, Untouched
<1>2. OneResumes'
  BY DEF HitlInductive, OneResumes
<1>3. ToldAgrees'
  BY DEF HitlInductive, HitlTypeOK, ToldAgrees, Decisions
<1> QED
  BY <1>1, <1>2, <1>3 DEF HitlInductive

(* A decision is made while the row is pending.                            *)
LEMMA Decided ==
  ASSUME HitlInductive, NEW o \in Operators, resolve_hitl_request(o)
  PROVE  HitlInductive'
<1> DEFINE r == call[o].review  d == call[o].decision
<1>1. call[o] \in CallsOf /\ r \in Reviews /\ d \in Decisions
  BY DEF resolve_hitl_request, HitlInductive, HitlTypeOK, CallsOf
<1>2. CASE hitl_rows[r] # "pending"
  <2>1. call' = [call EXCEPT ![o] = NoCall] /\ UNCHANGED <<hitl_rows, told, calls_made, resumed>>
    BY <1>2 DEF resolve_hitl_request
  <2>2. HitlTypeOK'
    BY <2>1 DEF HitlInductive, HitlTypeOK
  <2>3. \A p \in Operators, q \in Reviews : Resumes(p, q)' => Resumes(p, q)
    BY <2>1 DEF Resumes, HitlInductive, HitlTypeOK
  <2> QED
    BY <2>1, <2>2, <2>3, NothingDecided
<1>3. CASE hitl_rows[r] = "pending"
  <2>1. /\ hitl_rows' = [hitl_rows EXCEPT ![r] = d]
        /\ call' = [call EXCEPT ![o] = IF d = "approved" THEN [call[o] EXCEPT !.stage = "resume"]
                                                         ELSE NoCall]
        /\ told' = told \cup {<<r, d>>}
        /\ UNCHANGED <<calls_made, resumed>>
    BY <1>3 DEF resolve_hitl_request
  <2>2. [call[o] EXCEPT !.stage = "resume"] \in CallsOf
    BY <1>1 DEF CallsOf
  <2>3. HitlTypeOK'
    BY <1>1, <2>1, <2>2 DEF HitlInductive, HitlTypeOK, RowStatus
  <2>4. resumed[r] = 0 /\ \A p \in Operators : ~Resumes(p, r)
    BY <1>1, <1>3 DEF HitlInductive, Untouched
  <2>5. /\ \A p \in Operators \ {o}, q \in Reviews : Resumes(p, q)' = Resumes(p, q)
        /\ \A q \in Reviews : Resumes(o, q)' => q = r /\ d = "approved"
    BY <1>1, <2>1 DEF Resumes, HitlInductive, HitlTypeOK, CallsOf
  <2>6. Untouched'
    BY <1>1, <2>1, <2>4, <2>5 DEF HitlInductive, Untouched, HitlTypeOK
  <2>7. OneResumes'
    BY <1>1, <2>1, <2>4, <2>5 DEF HitlInductive, OneResumes
  <2>8. ToldAgrees'
    <3>1. \A p \in told : p[1] # r
      BY <1>3 DEF HitlInductive, ToldAgrees, HitlTypeOK, Decisions
    <3>2. \A p \in told : p[1] \in Reviews
      BY DEF HitlInductive, HitlTypeOK
    <3> QED
      BY <1>1, <2>1, <3>1, <3>2 DEF HitlInductive, ToldAgrees, HitlTypeOK
  <2> QED
    BY <2>3, <2>6, <2>7, <2>8 DEF HitlInductive
<1> QED
  BY <1>2, <1>3

(* The one whose decision it was resumes the run.                          *)
LEMMA Resumed ==
  ASSUME HitlInductive, NEW o \in Operators, resume_graph(o)
  PROVE  HitlInductive'
<1> DEFINE r == call[o].review
<1>1. r \in Reviews /\ Resumes(o, r)
  BY DEF resume_graph, Resumes, HitlInductive, HitlTypeOK, CallsOf
<1>2. resumed[r] = 0 /\ hitl_rows[r] = "approved"
  BY <1>1 DEF HitlInductive, Untouched, OneResumes
<1>3. HitlTypeOK'
  BY <1>1 DEF resume_graph, HitlInductive, HitlTypeOK
<1>4. \A p \in Operators, q \in Reviews : Resumes(p, q)' <=> Resumes(p, q) /\ p # o
  BY DEF resume_graph, Resumes, HitlInductive, HitlTypeOK
<1>5. resumed'[r] = 1 /\ \A q \in Reviews \ {r} : resumed'[q] = resumed[q]
  BY <1>1, <1>2 DEF resume_graph, HitlInductive, HitlTypeOK
<1>6. UNCHANGED <<hitl_rows, told>>
  BY DEF resume_graph
<1>7. Untouched'
  BY <1>1, <1>2, <1>4, <1>5, <1>6 DEF HitlInductive, Untouched
<1>8. OneResumes'
  BY <1>1, <1>2, <1>4, <1>5 DEF HitlInductive, OneResumes
<1>9. ToldAgrees'
  BY <1>6 DEF HitlInductive, ToldAgrees
<1> QED
  BY <1>3, <1>7, <1>8, <1>9 DEF HitlInductive

(* Every step keeps the invariant.                                         *)
LEMMA HitlInductiveStep == HitlInductive /\ [HitlNext]_hitlVars => HitlInductive'
<1> SUFFICES ASSUME HitlInductive, [HitlNext]_hitlVars PROVE HitlInductive'
  OBVIOUS
<1>1. ASSUME NEW r \in Reviews, create_hitl_request(r) PROVE HitlInductive'
  <2>1. HitlTypeOK'
    BY <1>1 DEF create_hitl_request, HitlInductive, HitlTypeOK, RowStatus
  <2>2. /\ \A q \in Reviews : hitl_rows'[q] = hitl_rows[q]
                              \/ (hitl_rows[q] = "absent" /\ hitl_rows'[q] = "pending")
        /\ \A o \in Operators, q \in Reviews : Resumes(o, q)' => Resumes(o, q)
    BY <1>1 DEF create_hitl_request, HitlInductive, HitlTypeOK, Resumes
  <2> QED
    BY <1>1, <2>1, <2>2, NothingDecided DEF create_hitl_request
<1>2. ASSUME NEW o \in Operators, NEW r \in Reviews, NEW d \in Decisions, begin_request(o, r, d)
      PROVE  HitlInductive'
  <2>1. [stage |-> "get", review |-> r, decision |-> d] \in CallsOf /\ calls_made[o] + 1 \in 0 .. MaxDecisions
    BY <1>2, HitlAssumption DEF begin_request, CallsOf, HitlInductive, HitlTypeOK, HitlAssumption
  <2>2. HitlTypeOK'
    BY <1>2, <2>1 DEF begin_request, HitlInductive, HitlTypeOK
  <2>3. \A p \in Operators, q \in Reviews : Resumes(p, q)' => Resumes(p, q)
    BY <1>2 DEF begin_request, HitlInductive, HitlTypeOK, Resumes
  <2> QED
    BY <1>2, <2>2, <2>3, NothingDecided DEF begin_request
<1>3. ASSUME NEW o \in Operators, get_hitl_request(o) PROVE HitlInductive'
  <2>1. call[o] \in CallsOf /\ [call[o] EXCEPT !.stage = "resolve"] \in CallsOf
    BY <1>3 DEF get_hitl_request, CallsOf, HitlInductive, HitlTypeOK
  <2>2. HitlTypeOK'
    BY <1>3, <2>1 DEF get_hitl_request, HitlInductive, HitlTypeOK
  <2>3. \A p \in Operators, q \in Reviews : Resumes(p, q)' => Resumes(p, q)
    BY <1>3, <2>1 DEF get_hitl_request, HitlInductive, HitlTypeOK, Resumes, CallsOf
  <2> QED
    BY <1>3, <2>2, <2>3, NothingDecided DEF get_hitl_request
<1>4. ASSUME NEW o \in Operators, request_breaks_off(o) PROVE HitlInductive'
  <2>1. HitlTypeOK'
    BY <1>4 DEF request_breaks_off, HitlInductive, HitlTypeOK
  <2>2. \A p \in Operators, q \in Reviews : Resumes(p, q)' => Resumes(p, q)
    BY <1>4 DEF request_breaks_off, HitlInductive, HitlTypeOK, Resumes
  <2> QED
    BY <1>4, <2>1, <2>2, NothingDecided DEF request_breaks_off
<1>5. CASE UNCHANGED hitlVars
  BY <1>5 DEF hitlVars, HitlInductive, HitlTypeOK, Untouched, OneResumes, ToldAgrees, Resumes
<1>6. "approved" \in Decisions /\ "rejected" \in Decisions
  BY DEF Decisions
<1> QED
  BY <1>1, <1>2, <1>3, <1>4, <1>5, <1>6, Decided, Resumed
  DEF HitlNext, approve_hitl_request, reject_hitl_request

(* What was to be shown follows: nobody or one operator is about to resume. *)
LEMMA HitlInductiveImplies == HitlInductive => HitlInvariant
<1> SUFFICES ASSUME HitlInductive, NEW r \in Reviews
             PROVE  /\ resumed[r] + Cardinality(ToResume(r)) <= 1
                    /\ resumed[r] + Cardinality(ToResume(r)) > 0 => hitl_rows[r] = "approved"
  BY DEF HitlInvariant, HitlInductive, ResumedOnce
<1>1. \A o : o \in ToResume(r) <=> o \in Operators /\ Resumes(o, r)
  BY DEF ToResume, Resumes
<1>2. CASE ToResume(r) = {}
  <2>1. Cardinality(ToResume(r)) = 0
    BY <1>2, FS_EmptySet
  <2> QED
    BY <2>1 DEF HitlInductive, Untouched, OneResumes
<1>3. CASE ToResume(r) # {}
  <2>1. PICK o \in Operators : ToResume(r) = {o} /\ Resumes(o, r)
    BY <1>1, <1>3 DEF HitlInductive, OneResumes
  <2>2. Cardinality(ToResume(r)) = 1
    BY <2>1, FS_Singleton
  <2> QED
    BY <2>1, <2>2 DEF HitlInductive, Untouched, OneResumes
<1> QED
  BY <1>2, <1>3

(* However many operators decide at the same time, one resumption follows  *)
(* an approval, none a rejection, and whoever is told a decision is told   *)
(* the one of the row (src/gateway/routes/hitl.py).                        *)
THEOREM HitlCorrect == HitlSpec => []HitlInvariant
<1>1. HitlSpec => []HitlInductive
  BY HitlInductiveInit, HitlInductiveStep, PTL DEF HitlSpec
<1> QED
  BY <1>1, HitlInductiveImplies, PTL

-----------------------------------------------------------------------------
(***************************************************************************)
(* The signature in the row and the hashes in memory, for every number of  *)
(* processes, versions and starts.  A registration leaves the row with a   *)
(* manifest that is not signed yet; as long as registrations do not meet   *)
(* and none fails, the process that is to sign is the one whose manifest   *)
(* is in the row (SignsItsOwn), and nobody signs otherwise (SignedBetween). *)
(* Hashes are taken of what is stored beside them (HashesOfManifest).      *)
(***************************************************************************)

HashesOfManifest ==
  /\ tool_registry.hashes = tool_registry.manifest
  /\ \A p \in Processes : _TOOL_HASHES[p] = _TOOL_REGISTRY[p]

OneRegisters == ~upset => \A p, q \in Registering : p = q

SignsItsOwn ==
  \A p \in Processes :
     /\ processes[p].stage = "persist" => _TOOL_REGISTRY[p] = manifest(processes[p].version)
     /\ ~upset /\ processes[p].stage = "sign" =>
           /\ tool_registry.status = "APPROVED"
           /\ tool_registry.manifest = manifest(processes[p].version)

SignedBetween ==
  ~upset /\ (\A p \in Processes : processes[p].stage # "sign") => verify_tool_signature

RegistryInductive ==
  /\ RegistryTypeOK /\ HashesOfManifest /\ NeverBlocked
  /\ OneRegisters /\ SignsItsOwn /\ SignedBetween

(* A manifest is of its type.                                              *)
LEMMA ManifestType == \A v \in Version : manifest(v) \in Manifest
  BY DEF manifest, Manifest

(* The hashes are taken of the manifest.                                   *)
LEMMA HashIsManifest == \A m \in Manifest : _compute_fast_hash(m) = m
  BY DEF _compute_fast_hash, Manifest

(* The invariant holds at the start.                                       *)
LEMMA RegistryInductiveInit == RegistryInit => RegistryInductive
<1> SUFFICES ASSUME RegistryInit PROVE RegistryInductive
  OBVIOUS
<1> USE RegistryAssumption DEF RegistryInit, RegistryAssumption
<1>1. 0 \in Version /\ 1 \in Version /\ None \in Manifest
  BY ManifestType DEF Version, None
<1>2. RegistryTypeOK
  <2>1. /\ tool_registry \in [status : {"none", "APPROVED", "REVOKED"}, manifest : Manifest,
                              hashes : Manifest, signature : Version]
        /\ _TOOL_REGISTRY \in [Processes -> Manifest] /\ _TOOL_HASHES \in [Processes -> Manifest]
    BY <1>1
  <2>2. deployed \in Version /\ starts \in 0 .. MaxStarts
    BY <1>1
  <2>3. [stage |-> "down", version |-> 0] \in [stage : {"down", "persist", "sign", "up"}, version : Version]
    BY <1>1
  <2>4. processes \in [Processes -> [stage : {"down", "persist", "sign", "up"}, version : Version]]
    BY <2>3
  <2>5. blocked \in BOOLEAN /\ upset \in BOOLEAN
    OBVIOUS
  <2> QED
    BY <2>1, <2>2, <2>4, <2>5 DEF RegistryTypeOK
<1>3. HashesOfManifest /\ NeverBlocked
  BY DEF HashesOfManifest, NeverBlocked
<1>4. OneRegisters /\ SignsItsOwn
  BY DEF OneRegisters, SignsItsOwn, Registering
<1>5. SignedBetween
  BY DEF SignedBetween, verify_tool_signature, None
<1> QED
  BY <1>2, <1>3, <1>4, <1>5 DEF RegistryInductive

(* Every step keeps the types.                                             *)
LEMMA RegistryTypeStep == RegistryTypeOK /\ [RegistryNext]_registryVars => RegistryTypeOK'
<1> SUFFICES ASSUME RegistryTypeOK, [RegistryNext]_registryVars PROVE RegistryTypeOK'
  OBVIOUS
<1> USE RegistryAssumption, ManifestType DEF RegistryTypeOK, RegistryAssumption
<1>0. 0 \in Version /\ None \in Manifest /\ deployed \in Version
  BY DEF Version, None
<1>1. CASE deploy
  BY <1>1 DEF deploy, Version
<1>2. CASE revoke_tool
  BY <1>2 DEF revoke_tool
<1>3. ASSUME NEW p \in Processes, register_tool(p) PROVE RegistryTypeOK'
  BY <1>0, <1>3, HashIsManifest DEF register_tool
<1>4. ASSUME NEW p \in Processes, process_starts(p) PROVE RegistryTypeOK'
  BY <1>0, <1>4 DEF process_starts
<1>5. ASSUME NEW p \in Processes, persist(p) PROVE RegistryTypeOK'
  BY <1>5, HashIsManifest DEF persist
<1>6. ASSUME NEW p \in Processes, persist_fails(p) PROVE RegistryTypeOK'
  BY <1>6 DEF persist_fails
<1>7. ASSUME NEW p \in Processes, store_tool_signature(p) PROVE RegistryTypeOK'
  BY <1>7 DEF store_tool_signature, sign_tool_manifest
<1>8. ASSUME NEW p \in Processes, signing_fails(p) PROVE RegistryTypeOK'
  BY <1>8 DEF signing_fails
<1>9. ASSUME NEW p \in Processes, process_ends(p) PROVE RegistryTypeOK'
  BY <1>0, <1>9 DEF process_ends
<1>10. ASSUME NEW p \in Processes, lazy_load(p) PROVE RegistryTypeOK'
  BY <1>10 DEF lazy_load, get_tool_registry_entry
<1>11. ASSUME NEW p \in Processes, verify_tool_before_invocation(p) PROVE RegistryTypeOK'
  BY <1>11 DEF verify_tool_before_invocation
<1>12. CASE UNCHANGED registryVars
  BY <1>12 DEF registryVars
<1> QED
  BY <1>1, <1>2, <1>3, <1>4, <1>5, <1>6, <1>7, <1>8, <1>9, <1>10, <1>11, <1>12 DEF RegistryNext

(* Registrations: what is in the row is what its process will sign.        *)
LEMMA RegistrationStep ==
  ASSUME RegistryInductive, RegistryTypeOK', NEW p \in Processes,
         \/ register_tool(p) \/ persist(p) \/ persist_fails(p)
         \/ store_tool_signature(p) \/ signing_fails(p)
  PROVE  RegistryInductive'
<1> USE DEF RegistryInductive
<1> DEFINE others == \A q \in Processes \ {p} : /\ processes'[q] = processes[q]
                                                /\ _TOOL_REGISTRY'[q] = _TOOL_REGISTRY[q]
                                                /\ _TOOL_HASHES'[q] = _TOOL_HASHES[q]
<1>1. CASE register_tool(p)
  <2>1. /\ others /\ deployed \in Version /\ UNCHANGED <<tool_registry, blocked>>
        /\ processes'[p] = [stage |-> "persist", version |-> deployed]
        /\ _TOOL_REGISTRY'[p] = manifest(deployed) /\ _TOOL_HASHES'[p] = manifest(deployed)
        /\ processes[p].stage = "down" /\ (~upset' => ~upset /\ Registering = {})
    BY <1>1, ManifestType, HashIsManifest DEF register_tool, RegistryTypeOK
  <2>2. HashesOfManifest' /\ NeverBlocked'
    BY <2>1 DEF HashesOfManifest, NeverBlocked
  <2>3. OneRegisters'
    BY <2>1 DEF OneRegisters, Registering
  <2>4. SignsItsOwn'
    <3> SUFFICES ASSUME NEW q \in Processes
                 PROVE  /\ processes'[q].stage = "persist" =>
                              _TOOL_REGISTRY'[q] = manifest(processes'[q].version)
                        /\ ~upset' /\ processes'[q].stage = "sign" =>
                              /\ tool_registry.status = "APPROVED"
                              /\ tool_registry.manifest = manifest(processes'[q].version)
      BY <2>1 DEF SignsItsOwn
    <3>1. CASE q = p
      BY <2>1, <3>1
    <3>2. CASE q # p
      BY <2>1, <3>2 DEF SignsItsOwn
    <3> QED
      BY <3>1, <3>2
  <2>5. SignedBetween'
    BY <2>1 DEF SignedBetween, verify_tool_signature, Registering
  <2> QED
    BY <2>2, <2>3, <2>4, <2>5
<1>2. CASE persist(p)
  <2>1. /\ others /\ UNCHANGED <<_TOOL_REGISTRY, _TOOL_HASHES, blocked, upset>>
        /\ processes[p].stage = "persist" /\ processes'[p].stage = "sign"
        /\ processes'[p].version = processes[p].version
        /\ tool_registry'.status = "APPROVED" /\ tool_registry'.manifest = _TOOL_REGISTRY[p]
        /\ tool_registry'.hashes = _TOOL_REGISTRY[p]
    BY <1>2, HashIsManifest DEF persist, RegistryTypeOK
  <2>2. HashesOfManifest' /\ NeverBlocked'
    BY <2>1 DEF HashesOfManifest, NeverBlocked
  <2>3. OneRegisters'
    BY <2>1 DEF OneRegisters, Registering
  <2>4. SignsItsOwn'
    BY <2>1 DEF SignsItsOwn, OneRegisters, Registering
  <2>5. SignedBetween'
    BY <2>1 DEF SignedBetween
  <2> QED
    BY <2>2, <2>3, <2>4, <2>5
<1>3. CASE persist_fails(p) \/ signing_fails(p)
  <2>1. /\ others /\ UNCHANGED <<tool_registry, _TOOL_REGISTRY, _TOOL_HASHES, blocked>> /\ upset'
        /\ processes'[p].stage \in {"sign", "up"}
    BY <1>3 DEF persist_fails, signing_fails, RegistryTypeOK
  <2>2. HashesOfManifest' /\ NeverBlocked'
    BY <2>1 DEF HashesOfManifest, NeverBlocked
  <2>3. OneRegisters' /\ SignsItsOwn' /\ SignedBetween'
    BY <2>1 DEF OneRegisters, SignsItsOwn, SignedBetween
  <2> QED
    BY <2>2, <2>3
<1>4. CASE store_tool_signature(p)
  <2>1. /\ others /\ UNCHANGED <<_TOOL_REGISTRY, _TOOL_HASHES, blocked, upset>>
        /\ processes[p].stage = "sign" /\ processes'[p].stage = "up"
        /\ tool_registry'.status = tool_registry.status
        /\ tool_registry'.manifest = tool_registry.manifest
        /\ tool_registry'.hashes = tool_registry.hashes
        /\ tool_registry.status = "APPROVED" => tool_registry'.signature = processes[p].version
    BY <1>4 DEF store_tool_signature, sign_tool_manifest, RegistryTypeOK
  <2>2. HashesOfManifest' /\ NeverBlocked'
    BY <2>1 DEF HashesOfManifest, NeverBlocked
  <2>3. OneRegisters'
    BY <2>1 DEF OneRegisters, Registering
  <2>4. SignsItsOwn'
    BY <2>1 DEF SignsItsOwn
  <2>5. SignedBetween'
    BY <2>1 DEF SignedBetween, SignsItsOwn, verify_tool_signature
  <2> QED
    BY <2>2, <2>3, <2>4, <2>5
<1> QED
  BY <1>1, <1>2, <1>3, <1>4

(* Starts, ends, loads and calls.                                          *)
LEMMA ProcessStep ==
  ASSUME RegistryInductive, RegistryTypeOK', NEW p \in Processes,
         process_starts(p) \/ process_ends(p) \/ lazy_load(p) \/ verify_tool_before_invocation(p)
  PROVE  RegistryInductive'
<1> USE DEF RegistryInductive
<1>1. CASE process_starts(p) \/ process_ends(p)
  <2>1. /\ \A q \in Processes \ {p} : /\ processes'[q] = processes[q]
                                      /\ _TOOL_REGISTRY'[q] = _TOOL_REGISTRY[q]
                                      /\ _TOOL_HASHES'[q] = _TOOL_HASHES[q]
        /\ _TOOL_REGISTRY'[p] = _TOOL_HASHES'[p] /\ UNCHANGED <<tool_registry, blocked>>
        /\ processes'[p].stage \notin {"persist", "sign"}
        /\ ~upset' => ~upset /\ processes[p].stage # "sign"
    BY <1>1 DEF process_starts, process_ends, RegistryTypeOK, HashesOfManifest
  <2>2. HashesOfManifest' /\ NeverBlocked'
    BY <2>1 DEF HashesOfManifest, NeverBlocked
  <2>3. OneRegisters'
    BY <2>1 DEF OneRegisters, Registering
  <2>4. SignsItsOwn'
    BY <2>1 DEF SignsItsOwn
  <2>5. SignedBetween'
    BY <2>1 DEF SignedBetween, verify_tool_signature
  <2> QED
    BY <2>2, <2>3, <2>4, <2>5
<1>2. CASE lazy_load(p)
  <2>1. /\ processes[p].stage = "up"
        /\ \A q \in Processes \ {p} : /\ _TOOL_REGISTRY'[q] = _TOOL_REGISTRY[q]
                                      /\ _TOOL_HASHES'[q] = _TOOL_HASHES[q]
        /\ _TOOL_REGISTRY'[p] = _TOOL_HASHES'[p]
        /\ UNCHANGED <<tool_registry, processes, blocked, upset>>
    BY <1>2 DEF lazy_load, get_tool_registry_entry, RegistryTypeOK, HashesOfManifest
  <2>2. HashesOfManifest' /\ NeverBlocked'
    BY <2>1 DEF HashesOfManifest, NeverBlocked
  <2>3. OneRegisters' /\ SignedBetween'
    BY <2>1 DEF OneRegisters, Registering, SignedBetween, verify_tool_signature
  <2>4. SignsItsOwn'
    BY <2>1 DEF SignsItsOwn
  <2> QED
    BY <2>2, <2>3, <2>4
<1>3. CASE verify_tool_before_invocation(p)
  <2>1. ~blocked' /\ UNCHANGED <<tool_registry, processes, _TOOL_REGISTRY, _TOOL_HASHES, upset>>
    BY <1>3, HashIsManifest
    DEF verify_tool_before_invocation, RegistryTypeOK, HashesOfManifest, NeverBlocked
  <2> QED
    BY <2>1 DEF HashesOfManifest, NeverBlocked, OneRegisters, Registering, SignsItsOwn,
                SignedBetween, verify_tool_signature
<1> QED
  BY <1>1, <1>2, <1>3

(* Every step keeps the invariant.                                         *)
LEMMA RegistryInductiveStep ==
  RegistryInductive /\ [RegistryNext]_registryVars => RegistryInductive'
<1> SUFFICES ASSUME RegistryInductive, [RegistryNext]_registryVars PROVE RegistryInductive'
  OBVIOUS
<1>1. RegistryTypeOK'
  BY RegistryTypeStep DEF RegistryInductive
<1>2. CASE deploy \/ UNCHANGED registryVars
  BY <1>1, <1>2 DEF deploy, registryVars, RegistryInductive, HashesOfManifest, NeverBlocked,
     OneRegisters, Registering, SignsItsOwn, SignedBetween, verify_tool_signature
<1>3. CASE revoke_tool
  <2>1. /\ tool_registry'.manifest = tool_registry.manifest
        /\ tool_registry'.hashes = tool_registry.hashes
        /\ tool_registry'.signature = tool_registry.signature
        /\ UNCHANGED <<processes, _TOOL_REGISTRY, _TOOL_HASHES, blocked>>
        /\ ~upset' => ~upset /\ Registering = {}
    BY <1>3 DEF revoke_tool, RegistryInductive, RegistryTypeOK
  <2> QED
    BY <1>1, <2>1 DEF RegistryInductive, HashesOfManifest, NeverBlocked,
       OneRegisters, Registering, SignsItsOwn, SignedBetween, verify_tool_signature
<1> QED
  BY <1>1, <1>2, <1>3, RegistrationStep, ProcessStep DEF RegistryNext

(* The signature of a tool is that of the manifest in its row, and no call *)
(* of it is blocked, for every number of processes, restarts and versions  *)
(* (src/security/core.py).                                                 *)
THEOREM RegistryCorrect == RegistrySpec => []RegistryInvariant
<1>1. RegistrySpec => []RegistryInductive
  BY RegistryInductiveInit, RegistryInductiveStep, PTL DEF RegistrySpec
<1>2. RegistryInductive => RegistryInvariant
  BY DEF RegistryInductive, RegistryInvariant, SignatureOfRow, SignedBetween, Registering
<1> QED
  BY <1>1, <1>2, PTL

-----------------------------------------------------------------------------
(****************************************************************************)
(* Packages, nominations and threat rules, for every number of agents and   *)
(* operators. The status of a package is tied to how far its submission     *)
(* has come (PackageByStep).                                                *)
(****************************************************************************)

(* A package's status by how far its submission has come: until the report *)
(* is stored nobody but a rejection touches it, and the submission is over *)
(* once it can be reviewed.                                                *)
PackageByStep ==
    \A p \in Packages :
        /\ submission[p] = "none" =>
              packages[p] = "absent" /\ p \notin approving \cup signed
        /\ submission[p] \in {"inserted", "analyze", "persist", "stored"} =>
              packages[p] \in {"PENDING_ANALYSIS", "REJECTED"}
        /\ submission[p] \in {"persist", "stored"} => reports[p] # NoReport
        /\ submission[p] = "stored" => p \in analyses
        /\ packages[p] \in {"READY_FOR_REVIEW", "APPROVED"} =>
              p \in analyses /\ reports[p].status = "READY_FOR_REVIEW"

ReviewInv ==
    /\ ReviewTypeOK
    /\ PackageByStep
    /\ RegisteredStaysApproved
    /\ RuleDecidedOnce

(* The invariant holds at the start.                                       *)
LEMMA ReviewInvInit == ReviewInit => ReviewInv
<1> SUFFICES ASSUME ReviewInit PROVE ReviewInv
  OBVIOUS
<1>1. ReviewTypeOK
  BY ReviewAssumption DEF ReviewAssumption, ReviewInit, ReviewTypeOK, PackageStatus, NoReport
<1>2. PackageByStep
  BY DEF ReviewInit, PackageByStep
<1>3. RegisteredStaysApproved /\ RuleDecidedOnce
  BY DEF ReviewInit, RegisteredStaysApproved, RuleDecidedOnce
<1> QED
  BY <1>1, <1>2, <1>3 DEF ReviewInv

(* What the agents do.                                                     *)
LEMMA ReviewNominate ==
    ASSUME ReviewInv, NEW c \in Candidates, nominate_candidate(c) PROVE ReviewInv'
BY DEF ReviewInv, nominate_candidate, upsert_candidate, operatorVars, ruleVars,
       ReviewTypeOK, PackageByStep, RegisteredStaysApproved, RuleDecidedOnce

(* The steps of a submission.                                              *)
LEMMA ReviewSubmission ==
    ASSUME ReviewInv, NEW p \in Packages, submit_crystallization_package(p) PROVE ReviewInv'
<1> USE DEF ReviewInv, operatorVars, ruleVars
<1>1. CASE insert_package(p)
  BY <1>1 DEF insert_package, ReviewTypeOK, PackageByStep, RegisteredStaysApproved,
              RuleDecidedOnce, PackageStatus
<1>2. ASSUME NEW c \in Candidates, mark_candidate(p, c) PROVE ReviewInv'
  BY <1>2 DEF mark_candidate, ReviewTypeOK, PackageByStep, RegisteredStaysApproved,
              RuleDecidedOnce
<1>3. CASE analyze_package(p)
  <2>1. PICK report \in [status : {"REJECTED_BY_ANALYSIS", "READY_FOR_REVIEW"},
                         recommendation : {"REJECT", "APPROVE", "NEEDS_REVISION"}] :
          reports' = [reports EXCEPT ![p] = report]
    BY <1>3 DEF analyze_package, decide_package
  <2>2. report # NoReport
    BY DEF NoReport
  <2>3. ReviewTypeOK'
    BY <1>3, <2>1 DEF analyze_package, ReviewTypeOK
  <2>4. PackageByStep'
    BY <1>3, <2>1, <2>2 DEF analyze_package, ReviewTypeOK, PackageByStep
  <2>5. RegisteredStaysApproved' /\ RuleDecidedOnce'
    BY <1>3 DEF analyze_package, RegisteredStaysApproved, RuleDecidedOnce
  <2> QED
    BY <2>3, <2>4, <2>5
<1>4. CASE insert_analysis(p)
  BY <1>4 DEF insert_analysis, ReviewTypeOK, PackageByStep, RegisteredStaysApproved,
              RuleDecidedOnce
<1>5. CASE update_package_status(p)
  <2>1. /\ submission[p] = "stored" /\ p \in analyses /\ reports[p] # NoReport
        /\ packages[p] \in {"PENDING_ANALYSIS", "REJECTED"}
        /\ packages' = [packages EXCEPT ![p] = reports[p].status]
        /\ submission' = [submission EXCEPT ![p] = "over"]
        /\ UNCHANGED <<candidates, reports, analyses, operatorVars, ruleVars>>
    BY <1>5 DEF update_package_status, PackageByStep
  <2>2. reports[p].status \in {"REJECTED_BY_ANALYSIS", "READY_FOR_REVIEW"}
    BY <2>1 DEF ReviewTypeOK
  <2>3. p \notin approving \cup signed
    BY <2>1 DEF RegisteredStaysApproved
  <2>4. ReviewTypeOK'
    BY <2>1, <2>2 DEF ReviewTypeOK, PackageStatus
  <2>5. PackageByStep'
    BY <2>1, <2>2 DEF ReviewTypeOK, PackageByStep
  <2>6. RegisteredStaysApproved' /\ RuleDecidedOnce'
    BY <2>1, <2>3 DEF RegisteredStaysApproved, RuleDecidedOnce, ReviewTypeOK
  <2> QED
    BY <2>4, <2>5, <2>6
<1>6. CASE submission_breaks_off(p)
  BY <1>6 DEF submission_breaks_off, ReviewTypeOK, PackageByStep, RegisteredStaysApproved,
              RuleDecidedOnce
<1> QED
  BY <1>1, <1>2, <1>3, <1>4, <1>5, <1>6
     DEF submit_crystallization_package, create_package, create_analysis

(* What the operators decide about packages.                               *)
LEMMA ReviewPackages ==
    ASSUME ReviewInv, NEW p \in Packages,
           \/ crystallization_approve(p) \/ _sign_and_register(p) \/ signing_skipped(p)
           \/ crystallization_reject(p) \/ crystallization_revise(p)
    PROVE  ReviewInv'
<1> USE DEF ReviewInv, ruleVars, ReviewTypeOK, PackageByStep, RegisteredStaysApproved,
            RuleDecidedOnce
<1>1. CASE crystallization_approve(p)
  BY <1>1 DEF crystallization_approve, approve_package, PackageStatus
<1>2. CASE _sign_and_register(p)
  BY <1>2 DEF _sign_and_register, register_crystallized
<1>3. CASE signing_skipped(p)
  BY <1>3 DEF signing_skipped
<1>4. CASE crystallization_reject(p)
  BY <1>4 DEF crystallization_reject, reject_package, PackageStatus
<1>5. CASE crystallization_revise(p)
  BY <1>5, ReviewAssumption
     DEF crystallization_revise, revise_package, PackageStatus, ReviewAssumption
<1> QED
  BY <1>1, <1>2, <1>3, <1>4, <1>5

(* What is done about nominations and threat rules.                        *)
LEMMA ReviewOthers ==
    ASSUME ReviewInv,
           revoke_tool_endpoint \/ \E r \in Rules : propose_rule(r) \/ approve_rule(r) \/ reject_rule(r)
    PROVE  ReviewInv'
<1> USE DEF ReviewInv, ruleVars, operatorVars, ReviewTypeOK, PackageByStep,
            RegisteredStaysApproved, RuleDecidedOnce
<1>1. CASE revoke_tool_endpoint
  BY <1>1 DEF revoke_tool_endpoint, revoke_crystallized
<1>2. ASSUME NEW r \in Rules, propose_rule(r) PROVE ReviewInv'
  BY <1>2 DEF propose_rule, propose_threat_rule, RuleVerdicts
<1>3. ASSUME NEW r \in Rules, NEW verdict \in RuleVerdicts, decide_rule(r, verdict),
             UNCHANGED <<candidates, packages, submission, reports, analyses, operatorVars>>
      PROVE  ReviewInv'
  BY <1>3 DEF decide_rule, RuleVerdicts
<1> QED
  BY <1>1, <1>2, <1>3 DEF approve_rule, reject_rule, RuleVerdicts

(* ReviewInvariant, for any number of candidates, packages, rules and      *)
(* requests of operators: a package under review has its report, a         *)
(* registered one stays approved, and a rule keeps the verdict that was    *)
(* answered (src/database.py 3419-4147).                                   *)
THEOREM ReviewCorrect == ReviewSpec => []ReviewInvariant
<1>1. ReviewInv => ReviewInvariant
  BY DEF ReviewInv, ReviewInvariant, PackageByStep, ReviewedWithReport
<1>2. ReviewInv /\ [ReviewNext]_reviewVars => ReviewInv'
  <2> SUFFICES ASSUME ReviewInv, [ReviewNext]_reviewVars PROVE ReviewInv'
    OBVIOUS
  <2>1. CASE UNCHANGED reviewVars
    BY <2>1 DEF reviewVars, ReviewInv, ReviewTypeOK, PackageByStep, RegisteredStaysApproved,
                RuleDecidedOnce
  <2> QED
    BY <2>1, ReviewNominate, ReviewSubmission, ReviewPackages, ReviewOthers DEF ReviewNext
<1> QED
  BY <1>1, <1>2, ReviewInvInit, PTL DEF ReviewSpec
=============================================================================
