---------------------------- MODULE OllamaCluster ----------------------------
(***************************************************************************)
(* The pool of Ollama nodes (src/ollama_cluster.py): a daemon thread polls *)
(* their health, the operator adds, removes and checks nodes               *)
(* (src/testlab/app.py), and the LLM factory asks for the URL of a healthy *)
(* one (src/llm_factory.py).  Each method holds the lock for its statement *)
(* on the cache, never while a node is asked.                              *)
(***************************************************************************)
EXTENDS Integers, FiniteSets

CONSTANTS
    Labels, Urls,       \* of nodes
    Fallback,           \* the URL when there is no healthy node
    PrimaryFirst,       \* the routing strategy is primary_first
    MaxChanges          \* bound: nodes added, removed, going down or up

ASSUME ClusterAssumption == Fallback \notin Urls /\ PrimaryFirst \in BOOLEAN /\ MaxChanges \in Nat

VARIABLES
    _nodes,             \* label -> URL of each node of the pool, Fallback for none
    configured,         \* the settings name a node
    _health,            \* the cache: label -> what is known of it
    up,                 \* the URLs that answer
    poll,               \* the polling thread: what it asks, and what it heard
    checks,             \* manual checks under way
    routed,             \* the last URL handed out
    changes             \* operations so far

clusterVars == <<_nodes, configured, _health, up, poll, checks, routed, changes>>

Unknown == [known |-> FALSE, url |-> Fallback, healthy |-> FALSE]
Entry == [known : BOOLEAN, url : Urls \cup {Fallback}, healthy : BOOLEAN]
unchecked(url) == [known |-> TRUE, url |-> url, healthy |-> FALSE]
Members == {l \in Labels : _nodes[l] # Fallback}

ClusterTypeOK ==
    /\ _nodes \in [Labels -> Urls \cup {Fallback}]
    /\ configured \in BOOLEAN
    /\ _health \in [Labels -> Entry]
    /\ up \subseteq Urls
    /\ poll.stage \in {"off", "asleep", "asking"}
    /\ poll.targets \in [Labels -> Urls \cup {Fallback}]
    /\ poll.heard \in [Labels -> Entry]
    /\ checks \subseteq Labels \X Urls
    /\ routed \in Urls \cup {Fallback}
    /\ changes \in 0 .. MaxChanges

Nothing == [l \in Labels |-> Unknown]
NoTargets == [l \in Labels |-> Fallback]

(* get_cluster_manager: the nodes of the settings, and the thread if there *)
(* is one; the nodes have URLs of their own.                               *)
ClusterInit ==
    /\ _nodes \in [Labels -> Urls \cup {Fallback}]
    /\ \A l, k \in Members : l # k => _nodes[l] # _nodes[k]
    /\ configured = (Members # {})
    /\ _health = [l \in Labels |-> IF l \in Members THEN unchecked(_nodes[l]) ELSE Unknown]
    /\ up = Urls
    /\ poll = [stage |-> IF Members = {} THEN "off" ELSE "asleep", targets |-> NoTargets, heard |-> Nothing]
    /\ checks = {}
    /\ routed = Fallback /\ changes = 0

changed == changes < MaxChanges /\ changes' = changes + 1

-----------------------------------------------------------------------------
(* The polling thread                                                      *)

start_background_polling(p) == IF p.stage = "off" THEN [p EXCEPT !.stage = "asleep"] ELSE p

(* The answer of a node now.                                               *)
check_node(url) == [known |-> TRUE, url |-> url, healthy |-> url \in up]

(* check_all asks the nodes there are when it begins.                      *)
check_all ==
    /\ poll.stage = "asleep"
    /\ poll' = [stage |-> "asking", targets |-> _nodes, heard |-> Nothing]
    /\ UNCHANGED <<_nodes, configured, _health, up, checks, routed, changes>>

node_answers(l) ==
    /\ poll.stage = "asking" /\ poll.targets[l] # Fallback /\ ~poll.heard[l].known
    /\ poll' = [poll EXCEPT !.heard[l] = check_node(poll.targets[l])]
    /\ UNCHANGED <<_nodes, configured, _health, up, checks, routed, changes>>

all_heard ==
    /\ poll.stage = "asking"
    /\ \A l \in Labels : poll.targets[l] # Fallback => poll.heard[l].known

(* A variant: only a node that answers is written.                         *)
poll_writes_healthy ==
    /\ all_heard
    /\ _health' = [l \in Labels |-> IF poll.heard[l].healthy THEN poll.heard[l] ELSE _health[l]]
    /\ poll' = [poll EXCEPT !.stage = "asleep", !.targets = NoTargets, !.heard = Nothing]
    /\ UNCHANGED <<_nodes, configured, up, checks, routed, changes>>

(* A variant: the cache is replaced by what was heard.                     *)
poll_replaces ==
    /\ all_heard
    /\ _health' = poll.heard
    /\ poll' = [poll EXCEPT !.stage = "asleep", !.targets = NoTargets, !.heard = Nothing]
    /\ UNCHANGED <<_nodes, configured, up, checks, routed, changes>>

(* Everything heard goes into the cache, also what a node said that is     *)
(* gone by now.                                                            *)
_poll_loop ==
    /\ all_heard
    /\ _health' = [l \in Labels |-> IF poll.heard[l].known THEN poll.heard[l] ELSE _health[l]]
    /\ poll' = [poll EXCEPT !.stage = "asleep", !.targets = NoTargets, !.heard = Nothing]
    /\ UNCHANGED <<_nodes, configured, up, checks, routed, changes>>

-----------------------------------------------------------------------------
(* The operator                                                            *)

add_node(l, url) ==
    /\ changed /\ l \notin Members
    /\ _nodes' = [_nodes EXCEPT ![l] = url]
    /\ _health' = [_health EXCEPT ![l] = unchecked(url)]
    /\ poll' = start_background_polling(poll)
    /\ UNCHANGED <<configured, up, checks, routed>>

remove_node(l) ==
    /\ changed /\ l \in Members
    /\ _nodes' = [_nodes EXCEPT ![l] = Fallback]
    /\ _health' = [_health EXCEPT ![l] = Unknown]
    /\ UNCHANGED <<configured, up, poll, checks, routed>>

(* The URL comes from the cache, and the answer goes there.                *)
check_cluster_node(l) ==
    /\ changed /\ _health[l].known
    /\ checks' = checks \cup {<<l, _health[l].url>>}
    /\ UNCHANGED <<_nodes, configured, _health, up, poll, routed>>

update_health(l, url) ==
    /\ <<l, url>> \in checks
    /\ checks' = checks \ {<<l, url>>}
    /\ _health' = [_health EXCEPT ![l] = check_node(url)]
    /\ UNCHANGED <<_nodes, configured, up, poll, routed, changes>>

-----------------------------------------------------------------------------
(* The factory asks for a URL                                              *)

healthy_among(S) == {_health[l].url : l \in {k \in S : _health[k].healthy}}

(* round_robin and least_busy pick one of the healthy entries of the cache,*)
(* primary_first one of those of the nodes, and there may be none.         *)
get_healthy_url ==
    LET urls == healthy_among(IF PrimaryFirst THEN Members ELSE Labels)
    IN  IF Members = {} \/ urls = {} THEN {Fallback} ELSE urls

(* Nodes are only looked at when the settings name one.                    *)
_get_ollama_url ==
    /\ \E url \in IF configured THEN get_healthy_url ELSE {Fallback} :
         /\ routed' = url
    /\ poll' = IF configured /\ Members # {} THEN start_background_polling(poll) ELSE poll
    /\ UNCHANGED <<_nodes, configured, _health, up, checks, changes>>

(* The environment: a node goes down or comes back.                        *)
node_flips(url) ==
    /\ changed
    /\ up' = IF url \in up THEN up \ {url} ELSE up \cup {url}
    /\ UNCHANGED <<_nodes, configured, _health, poll, checks, routed>>

-----------------------------------------------------------------------------

ClusterPoll == check_all \/ (\E l \in Labels : node_answers(l)) \/ _poll_loop

ClusterNext ==
    \/ ClusterPoll
    \/ \E l \in Labels :
         \/ remove_node(l) \/ check_cluster_node(l)
         \/ \E url \in Urls : add_node(l, url) \/ update_health(l, url)
    \/ _get_ollama_url
    \/ \E url \in Urls : node_flips(url)

(* The thread sleeps and polls for ever; a check has a timeout.            *)
ClusterFairness ==
    /\ WF_clusterVars(ClusterPoll)
    /\ \A l \in Labels, url \in Urls : WF_clusterVars(update_health(l, url))

ClusterSpec == ClusterInit /\ [][ClusterNext]_clusterVars
ClusterFairSpec == ClusterSpec /\ ClusterFairness

-----------------------------------------------------------------------------
(* Properties                                                              *)

(* A node of the pool always has an entry in the cache, whatever poll or   *)
(* check was under way when it was added (_poll_loop, add_node).           *)
MembersKnown == \A l \in Members : _health[l].known

(* When nothing changes any more, the cache comes to say of every node of  *)
(* the pool whether its URL answers, and keeps saying so: a node added to  *)
(* an empty pool is polled too, and late answers are overtaken.            *)
Truthful == \A l \in Members : _health[l] = check_node(_nodes[l])
CacheSettles == <>[]Truthful

(* Every node of the pool has its entry in the health cache, whatever poll *)
(* or check was under way when it was added (src/ollama_cluster.py).       *)
ClusterInvariant ==
    /\ ClusterTypeOK
    /\ MembersKnown

=============================================================================
