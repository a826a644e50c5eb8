---------------------------- MODULE ToolRegistry ----------------------------
(***************************************************************************)
(* One tool in the registry (src/security/core.py, the table               *)
(* tool_registry): a process registers its manifest in memory, then in the *)
(* table, then stores a signature; a process that did not register it      *)
(* loads it from the table when it is first called; the operator revokes   *)
(* it (src/database.py).  Processes may run different versions of it.      *)
(***************************************************************************)
EXTENDS Integers, FiniteSets

CONSTANTS
    Processes,          \* that call or register the tool
    MaxVersion,         \* bound: versions of its manifest
    MaxStarts           \* bound: process starts

ASSUME RegistryAssumption == MaxVersion \in Nat \ {0} /\ MaxStarts \in Nat

VARIABLES
    deployed,           \* the version a process that starts will have
    tool_registry,      \* the row: status, and the version of each part
    processes,          \* stage of each process, and the version it runs
    _TOOL_REGISTRY,     \* its memory: description and schema of the manifest
    _TOOL_HASHES,       \* and what their hashes were taken of
    starts,
    blocked,            \* history: a call was blocked by a hash mismatch
    upset               \* history: a registration failed or met another one

registryVars == <<deployed, tool_registry, processes, _TOOL_REGISTRY, _TOOL_HASHES, starts, blocked, upset>>

Version == 0 .. MaxVersion
Manifest == [description : Version, schema : Version]
manifest(v) == [description |-> v, schema |-> v]
None == manifest(0)

RegistryTypeOK ==
    /\ deployed \in Version /\ starts \in 0 .. MaxStarts
    /\ tool_registry \in [status : {"none", "APPROVED", "REVOKED"}, manifest : Manifest,
                          hashes : Manifest, signature : Version]
    /\ processes \in [Processes -> [stage : {"down", "persist", "sign", "up"}, version : Version]]
    /\ _TOOL_REGISTRY \in [Processes -> Manifest]
    /\ _TOOL_HASHES \in [Processes -> Manifest]
    /\ blocked \in BOOLEAN /\ upset \in BOOLEAN

RegistryInit ==
    /\ deployed = 1
    /\ tool_registry = [status |-> "none", manifest |-> None, hashes |-> None, signature |-> 0]
    /\ processes = [p \in Processes |-> [stage |-> "down", version |-> 0]]
    /\ _TOOL_REGISTRY = [p \in Processes |-> None]
    /\ _TOOL_HASHES = [p \in Processes |-> None]
    /\ starts = 0 /\ blocked = FALSE /\ upset = FALSE

(* A new version of the code.                                              *)
deploy ==
    /\ deployed < MaxVersion
    /\ deployed' = deployed + 1
    /\ UNCHANGED <<tool_registry, processes, _TOOL_REGISTRY, _TOOL_HASHES, starts, blocked, upset>>

_compute_fast_hash(m) == [description |-> m.description, schema |-> m.schema]

-----------------------------------------------------------------------------
(* Registration: memory first                                              *)

Registering == {p \in Processes : processes[p].stage \in {"persist", "sign"}}

register_tool(p) ==
    /\ processes[p].stage = "down" /\ starts < MaxStarts
    /\ starts' = starts + 1
    /\ processes' = [processes EXCEPT ![p] = [stage |-> "persist", version |-> deployed]]
    /\ _TOOL_REGISTRY' = [_TOOL_REGISTRY EXCEPT ![p] = manifest(deployed)]
    /\ _TOOL_HASHES' = [_TOOL_HASHES EXCEPT ![p] = _compute_fast_hash(manifest(deployed))]
    /\ upset' = (upset \/ Registering # {})
    /\ UNCHANGED <<deployed, tool_registry, blocked>>

(* A process that does not register the tool.                              *)
process_starts(p) ==
    /\ processes[p].stage = "down" /\ starts < MaxStarts
    /\ starts' = starts + 1
    /\ processes' = [processes EXCEPT ![p] = [stage |-> "up", version |-> deployed]]
    /\ UNCHANGED <<deployed, tool_registry, _TOOL_REGISTRY, _TOOL_HASHES, blocked, upset>>

(* The row is approved again, whatever it was; its signature stays.        *)
persist(p) ==
    /\ processes[p].stage = "persist"
    /\ LET m == _TOOL_REGISTRY[p]
       IN  tool_registry' = [tool_registry EXCEPT !.status = "APPROVED", !.manifest = m,
                                                  !.hashes = _compute_fast_hash(m)]
    /\ processes' = [processes EXCEPT ![p].stage = "sign"]
    /\ UNCHANGED <<deployed, _TOOL_REGISTRY, _TOOL_HASHES, starts, blocked, upset>>

(* The tool stays registered in memory, and the signature is still made.   *)
persist_fails(p) ==
    /\ processes[p].stage = "persist"
    /\ processes' = [processes EXCEPT ![p].stage = "sign"]
    /\ upset' = TRUE
    /\ UNCHANGED <<deployed, tool_registry, _TOOL_REGISTRY, _TOOL_HASHES, starts, blocked>>

sign_tool_manifest(p) == processes[p].version

(* The signature in the row is valid for the manifest in the row.          *)
verify_tool_signature == manifest(tool_registry.signature) = tool_registry.manifest

store_tool_signature(p) ==
    /\ processes[p].stage = "sign"
    /\ tool_registry' = IF tool_registry.status = "APPROVED"
                        THEN [tool_registry EXCEPT !.signature = sign_tool_manifest(p)] ELSE tool_registry
    /\ processes' = [processes EXCEPT ![p].stage = "up"]
    /\ UNCHANGED <<deployed, _TOOL_REGISTRY, _TOOL_HASHES, starts, blocked, upset>>

(* No signing key, or the statement fails.                                 *)
signing_fails(p) ==
    /\ processes[p].stage = "sign"
    /\ processes' = [processes EXCEPT ![p].stage = "up"]
    /\ upset' = TRUE
    /\ UNCHANGED <<deployed, tool_registry, _TOOL_REGISTRY, _TOOL_HASHES, starts, blocked>>

process_ends(p) ==
    /\ processes[p].stage # "down"
    /\ processes' = [processes EXCEPT ![p] = [stage |-> "down", version |-> 0]]
    /\ _TOOL_REGISTRY' = [_TOOL_REGISTRY EXCEPT ![p] = None]
    /\ _TOOL_HASHES' = [_TOOL_HASHES EXCEPT ![p] = None]
    /\ upset' = (upset \/ processes[p].stage = "sign")
    /\ UNCHANGED <<deployed, tool_registry, starts, blocked>>

-----------------------------------------------------------------------------
(* Revocation and calls                                                    *)

(* The event of the audit log may fail to be appended.                     *)
revoke_tool ==
    /\ tool_registry.status = "APPROVED"
    /\ tool_registry' = [tool_registry EXCEPT !.status = "REVOKED"]
    /\ upset' = (upset \/ Registering # {})
    /\ UNCHANGED <<deployed, processes, _TOOL_REGISTRY, _TOOL_HASHES, starts, blocked>>

get_tool_registry_entry == IF tool_registry.status = "APPROVED" THEN {tool_registry} ELSE {}

(* A variant: the row has no schema to load.                               *)
load_without_schema(p) ==
    /\ processes[p].stage = "up" /\ _TOOL_REGISTRY[p] = None
    /\ \E row \in get_tool_registry_entry :
         /\ _TOOL_REGISTRY' = [_TOOL_REGISTRY EXCEPT ![p] = [row.manifest EXCEPT !.schema = 0]]
         /\ _TOOL_HASHES' = [_TOOL_HASHES EXCEPT ![p] = row.hashes]
    /\ UNCHANGED <<deployed, tool_registry, processes, starts, blocked, upset>>

(* The first call in a process that did not register the tool.             *)
lazy_load(p) ==
    /\ processes[p].stage = "up" /\ _TOOL_REGISTRY[p] = None
    /\ \E row \in get_tool_registry_entry :
         /\ _TOOL_REGISTRY' = [_TOOL_REGISTRY EXCEPT ![p] = row.manifest]
         /\ _TOOL_HASHES' = [_TOOL_HASHES EXCEPT ![p] = row.hashes]
    /\ UNCHANGED <<deployed, tool_registry, processes, starts, blocked, upset>>

(* Without an entry the call is blocked as not registered.                 *)
verify_tool_before_invocation(p) ==
    /\ processes[p].stage # "down" /\ _TOOL_REGISTRY[p] # None
    /\ blocked' = (blocked \/ _compute_fast_hash(_TOOL_REGISTRY[p]) # _TOOL_HASHES[p])
    /\ UNCHANGED <<deployed, tool_registry, processes, _TOOL_REGISTRY, _TOOL_HASHES, starts, upset>>

-----------------------------------------------------------------------------

RegistryNext ==
    \/ deploy \/ revoke_tool
    \/ \E p \in Processes :
         \/ register_tool(p) \/ process_starts(p) \/ persist(p) \/ persist_fails(p)
         \/ store_tool_signature(p) \/ signing_fails(p) \/ process_ends(p)
         \/ lazy_load(p) \/ verify_tool_before_invocation(p)

RegistrySpec == RegistryInit /\ [][RegistryNext]_registryVars

-----------------------------------------------------------------------------
(* Properties                                                              *)

(* When no registration is under way, and none failed or met another, the  *)
(* signature in the row is that of the manifest in the row, through        *)
(* restarts and new versions (register_tool, store_tool_signature).        *)
SignatureOfRow ==
    ~upset /\ Registering = {} => verify_tool_signature

(* Nothing that registers, restarts, upgrades, revokes or loads a tool     *)
(* makes its own calls fail the integrity check                            *)
(* (verify_tool_before_invocation; src/gateway/app.py:139).                *)
NeverBlocked == ~blocked

(* The signature of a tool is that of its row and its own calls pass the   *)
(* integrity check, through restarts and new versions                      *)
(* (src/security/core.py).                                                 *)
RegistryInvariant ==
    /\ RegistryTypeOK
    /\ SignatureOfRow
    /\ NeverBlocked

=============================================================================
