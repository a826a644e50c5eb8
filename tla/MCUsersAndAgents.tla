--------------------------- MODULE MCUsersAndAgents ---------------------------
(***************************************************************************)
(* Instance for TLC of what users, operators and agents do: accounts, data *)
(* of users, sessions, the agent loop, fan-outs, approvals, the review     *)
(* workflow and the tool registry.  These components share no state, so    *)
(* `part` picks at the start the one that moves; the states are the sum of *)
(* theirs.                                                                 *)
(***************************************************************************)
EXTENDS Accounts, UserData, Sessions, AgentLoop, FanOut, HitlApproval,
        ReviewWorkflow, ToolRegistry, TLC

CONSTANTS k1, k2, v1, v2, v3, w1, w2

VARIABLE part       \* the component that moves

usersAndAgentsVars ==
    <<part, accountsVars, userDataVars, sessionsVars, agentVars, fanOutVars,
      hitlVars, reviewVars, registryVars>>

MCOwnerOf == k1 :> w1 @@ k2 :> w2

UsersAndAgentsInit ==
    /\ part \in {"keys", "administration", "user_data", "sessions", "agent",
                "fan_out", "hitl", "review", "registry"}
    /\ AccountsInit /\ (part # "keys" => provider = "api_key")
    /\ FanOutInit /\ (part # "fan_out" => secret)
    /\ UserDataInit /\ SessionsInit /\ AgentInit /\ HitlInit /\ ReviewInit /\ RegistryInit

(* Requests about keys and tokens, and requests of administrators, are     *)
(* explored one beside the other; the command line takes part in both.     *)
accounts_move ==
    /\ part \in {"keys", "administration"}
    /\ AccountsNext
    /\ \A q \in Asking :
          asked'[q] = NotAsking \/ (asked'[q].op \in AdminOps) = (part = "administration")
    /\ UNCHANGED <<part, userDataVars, sessionsVars, agentVars, fanOutVars,
                   hitlVars, reviewVars, registryVars>>
user_data_moves ==
    /\ part = "user_data" /\ UserDataNext
    /\ UNCHANGED <<part, accountsVars, sessionsVars, agentVars, fanOutVars,
                   hitlVars, reviewVars, registryVars>>
sessions_move ==
    /\ part = "sessions" /\ SessionsNext
    /\ UNCHANGED <<part, accountsVars, userDataVars, agentVars, fanOutVars,
                   hitlVars, reviewVars, registryVars>>
agent_moves ==
    /\ part = "agent" /\ AgentNext
    /\ UNCHANGED <<part, accountsVars, userDataVars, sessionsVars,
                   fanOutVars, hitlVars, reviewVars, registryVars>>
fan_outs_move ==
    /\ part = "fan_out" /\ FanOutNext
    /\ UNCHANGED <<part, accountsVars, userDataVars, sessionsVars, agentVars,
                   hitlVars, reviewVars, registryVars>>
hitl_moves ==
    /\ part = "hitl" /\ HitlNext
    /\ UNCHANGED <<part, accountsVars, userDataVars, sessionsVars, agentVars,
                   fanOutVars, reviewVars, registryVars>>
review_moves ==
    /\ part = "review" /\ ReviewNext
    /\ UNCHANGED <<part, accountsVars, userDataVars, sessionsVars, agentVars,
                   fanOutVars, hitlVars, registryVars>>
registry_moves ==
    /\ part = "registry" /\ RegistryNext
    /\ UNCHANGED <<part, accountsVars, userDataVars, sessionsVars, agentVars,
                   fanOutVars, hitlVars, reviewVars>>

UsersAndAgentsNext ==
    \/ accounts_move \/ user_data_moves \/ sessions_move \/ agent_moves
    \/ fan_outs_move \/ hitl_moves \/ review_moves \/ registry_moves

UsersAndAgentsSpec == UsersAndAgentsInit /\ [][UsersAndAgentsNext]_usersAndAgentsVars

(* Requests, processes, packages, ... are alike.                           *)
Symmetry == Permutations({v1, v2})
===============================================================================
