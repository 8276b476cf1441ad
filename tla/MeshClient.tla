----------------------------- MODULE MeshClient -----------------------------
(* src/libs/broadcast/src/mesh_client.rs: how a gateway or a command-line   *)
(* tool finds nodes, watches their health and fails a request over from one *)
(* node to the next. Timestamps are ages: Tick lets one health_interval     *)
(* pass, and an age stops where no comparison tells it apart any more.      *)
EXTENDS Integers, FiniteSets

CONSTANTS
    MeshPeers,      \* the nodes
    HealthTtl,      \* health_ttl, in ticks
    Cooldown,       \* cooldown, in ticks
    MaxProbes,      \* bound: health requests under way to one node
    Meshes          \* configurations to choose from: peer_ttl in ticks, the nodes
                    \* there are, restarts of the client, requests it makes,
                    \* connections and nodes lost, answers to health requests

ASSUME MeshAssumption ==
    /\ {HealthTtl, Cooldown, MaxProbes} \subseteq Nat
    /\ \A b \in Meshes : b.nodes \subseteq MeshPeers /\ {b.ttl, b.restarts, b.calls, b.losses} \subseteq Nat

VARIABLES
    node_up,        \* nodes whose process runs
    linked,         \* nodes the client is connected to
    peers,          \* peers: [known peers -> PeerRecord]
    greet,          \* [MeshPeers -> a members answer is to come]
    pending_health, \* [MeshPeers -> health requests under way]
    call,           \* request_best_with_node, or idle
    cache,          \* the cache file: records as last flushed
    mesh_left       \* the budget that is left

meshVars == <<node_up, linked, peers, greet, pending_health, call, cache, mesh_left>>

NoCall == [at |-> "idle"]
PeerTtl == mesh_left.ttl
StaleAfter == 3 * PeerTtl
Older(age, top) == IF age < top THEN age + 1 ELSE top

(* PeerRecord: what an entry holds when it is first made.                   *)
NewRecord == [node |-> FALSE, seen |-> 0, health |-> "none", age |-> 0, cool |-> 0]

InitMesh ==
    /\ mesh_left \in Meshes
    /\ node_up = mesh_left.nodes
    /\ linked = {}
    /\ peers = <<>>
    /\ greet = [p \in MeshPeers |-> FALSE]
    /\ pending_health = [p \in MeshPeers |-> 0]
    /\ call = NoCall
    /\ cache = <<>>

Known == DOMAIN peers

(* or_insert_with, then what the event brings.                              *)
Discover(S, node) ==
    [p \in Known \cup S |->
        IF p \notin S THEN peers[p]
        ELSE LET r == IF p \in Known THEN peers[p] ELSE NewRecord
             IN  [r EXCEPT !.node = @ \/ node, !.seen = 0]]

Edit(p, r) == IF p \in Known THEN [peers EXCEPT ![p] = r] ELSE peers

-----------------------------------------------------------------------------
(* Candidates                                                               *)

(* collect_nodes: known as a node, not cooling down and, at first, heard of *)
(* within peer_ttl.                                                         *)
collect_nodes(fresh_only) ==
    {p \in Known : /\ peers[p].node
                   /\ peers[p].cool = 0
                   /\ fresh_only => peers[p].seen <= PeerTtl}

all_nodes == IF collect_nodes(TRUE) # {} THEN collect_nodes(TRUE) ELSE collect_nodes(FALSE)

(* preferred_health; among the nodes it does not tell apart the order is by *)
(* round trip, load and failures, which are left open.                      *)
preferred_health(p) == peers[p].health = "ready" /\ peers[p].age <= HealthTtl

(* The gateway tells the outside it is ready while some candidate was last  *)
(* seen ready, and lately (HEALTH_OBSERVATION_MAX_AGE_MS is health_ttl).    *)
node_is_healthy(p) == peers[p].health = "ready" /\ peers[p].age <= HealthTtl
build_gateway_health == [ready |-> \E p \in all_nodes : node_is_healthy(p)]

mark_failure(p) == Edit(p, [peers[p] EXCEPT !.cool = Cooldown])
mark_success(p) == Edit(p, [peers[p] EXCEPT !.cool = 0])

-----------------------------------------------------------------------------
(* Requests                                                                 *)

(* request_best_with_node: the candidates are fixed when the request comes; *)
(* with none it fails at once.                                              *)
request_best ==
    /\ call = NoCall /\ all_nodes # {}
    /\ mesh_left.calls > 0
    /\ call' = [at |-> "choose", left |-> all_nodes, best |-> {p \in all_nodes : preferred_health(p)}]
    /\ mesh_left' = [mesh_left EXCEPT !.calls = @ - 1]
    /\ UNCHANGED <<node_up, linked, peers, greet, pending_health, cache>>

(* The candidates that may come first: the preferred ones if there are any. *)
compare_for_selection(S, best) == IF S \cap best # {} THEN S \cap best ELSE S

request_to(p) ==
    /\ call.at = "choose"
    /\ p \in compare_for_selection(call.left, call.best)
    /\ call' = [call EXCEPT !.at = p, !.left = @ \ {p}]
    /\ UNCHANGED <<node_up, linked, peers, greet, pending_health, cache, mesh_left>>

NextCandidate == IF call.left = {} THEN NoCall ELSE [call EXCEPT !.at = "choose"]

(* A result, or an error that no other node would answer differently.       *)
RpcAnswer(p) ==
    /\ call.at = p /\ p \in linked
    /\ peers' = mark_success(p)
    /\ call' = NoCall
    /\ UNCHANGED <<node_up, linked, greet, pending_health, cache, mesh_left>>

(* retryable_rpc_error (ServiceUnavailable, Internal), a closed connection, *)
(* a failed dial or the request timeout.                                    *)
RpcFailure(p) ==
    /\ call.at = p
    /\ peers' = mark_failure(p)
    /\ call' = NextCandidate
    /\ UNCHANGED <<node_up, linked, greet, pending_health, cache, mesh_left>>

-----------------------------------------------------------------------------
(* The event loop                                                           *)

(* The first connection to a peer asks for its members and its health.      *)
Established(p) ==
    /\ p \in node_up \ linked
    /\ pending_health[p] < MaxProbes
    /\ linked' = linked \cup {p}
    /\ greet' = [greet EXCEPT ![p] = TRUE]
    /\ pending_health' = [pending_health EXCEPT ![p] = @ + 1]
    /\ UNCHANGED <<node_up, peers, call, cache, mesh_left>>

(* Identify: at every connection, and again now and then.                   *)
Identify(p) ==
    /\ p \in linked
    /\ peers' = Discover({p}, TRUE)
    /\ UNCHANGED <<node_up, linked, greet, pending_health, call, cache, mesh_left>>

(* Kademlia learns of a peer from its neighbours.                           *)
RoutingUpdated(p) ==
    /\ p \in node_up /\ linked # {}
    /\ peers' = Discover({p}, FALSE)
    /\ UNCHANGED <<node_up, linked, greet, pending_health, call, cache, mesh_left>>

Ping(p) ==
    /\ p \in linked
    /\ peers' = Edit(p, [peers[p] EXCEPT !.seen = 0])
    /\ UNCHANGED <<node_up, linked, greet, pending_health, call, cache, mesh_left>>

(* The members a node lists: itself and the peers it is connected to.       *)
MembersResponse(p, S) ==
    /\ p \in linked /\ greet[p]
    /\ p \in S /\ S \subseteq node_up
    /\ peers' = Discover(S, TRUE)
    /\ greet' = [greet EXCEPT ![p] = FALSE]
    /\ UNCHANGED <<node_up, linked, pending_health, call, cache, mesh_left>>

(* prune_stale, then a probe to every fresh node that is not cooling down   *)
(* and whose health was last seen a health_interval ago.                    *)
Probed(kept) ==
    {p \in DOMAIN kept : /\ kept[p].node /\ kept[p].cool = 0 /\ kept[p].seen <= PeerTtl
                         /\ kept[p].health = "none" \/ kept[p].age > 0}

(* prune_stale: three times the peer's time to live.                        *)
Pruned == [p \in {x \in Known : peers[x].seen <= StaleAfter} |-> peers[p]]

HealthTick ==
    LET probe == {p \in Probed(Pruned) : pending_health[p] < MaxProbes}
    IN  /\ peers' = Pruned
        /\ pending_health' = [p \in MeshPeers |-> pending_health[p] + (IF p \in probe THEN 1 ELSE 0)]
        /\ UNCHANGED <<node_up, linked, greet, call, cache, mesh_left>>

(* A health answer clears a cooldown; an error that is retryable starts     *)
(* one, any other error clears it too.                                      *)
HealthAnswer(p, answer) ==
    /\ p \in linked /\ pending_health[p] > 0
    /\ pending_health' = [pending_health EXCEPT ![p] = @ - 1]
    /\ peers' = CASE answer \in {"ready", "unready"} ->
                        Edit(p, [peers[p] EXCEPT !.health = answer, !.age = 0, !.cool = 0])
                  [] answer = "retryable" -> mark_failure(p)
                  [] answer = "error" -> mark_success(p)
    /\ UNCHANGED <<node_up, linked, greet, call, cache, mesh_left>>

(* mark_transport_failure                                                   *)
HealthFailure(p) ==
    /\ pending_health[p] > 0
    /\ pending_health' = [pending_health EXCEPT ![p] = @ - 1]
    /\ peers' = mark_failure(p)
    /\ UNCHANGED <<node_up, linked, greet, call, cache, mesh_left>>

Closed(p) ==
    /\ p \in linked
    /\ mesh_left.losses > 0
    /\ mesh_left' = [mesh_left EXCEPT !.losses = @ - 1]
    /\ linked' = linked \ {p}
    /\ greet' = [greet EXCEPT ![p] = FALSE]
    /\ UNCHANGED <<node_up, peers, pending_health, call, cache>>

(* A node's process ends or starts.                                         *)
NodeStops(p) ==
    /\ p \in node_up \ linked
    /\ mesh_left.losses > 0
    /\ mesh_left' = [mesh_left EXCEPT !.losses = @ - 1]
    /\ node_up' = node_up \ {p}
    /\ UNCHANGED <<linked, peers, greet, pending_health, call, cache>>

NodeStarts(p) ==
    /\ p \in mesh_left.nodes \ node_up
    /\ node_up' = node_up \cup {p}
    /\ UNCHANGED <<linked, peers, greet, pending_health, call, cache, mesh_left>>

-----------------------------------------------------------------------------
(* Time, and the cache file                                                 *)

(* Faulty variant: only an answer ends a cooldown.                          *)
AgedCooling(records) ==
    [p \in DOMAIN records |->
        [records[p] EXCEPT !.seen = Older(@, StaleAfter + 1),
                           !.age = IF records[p].health = "none" THEN 0 ELSE Older(@, HealthTtl + 1)]]

Aged(records) ==
    [p \in DOMAIN records |->
        [records[p] EXCEPT !.seen = Older(@, StaleAfter + 1),
                           !.age = IF records[p].health = "none" THEN 0 ELSE Older(@, HealthTtl + 1),
                           !.cool = IF @ > 0 THEN @ - 1 ELSE 0]]

Tick ==
    /\ peers' = Aged(peers)
    /\ cache' = Aged(cache)
    /\ UNCHANGED <<node_up, linked, greet, pending_health, call, mesh_left>>

(* write_cache; a file nobody will read again is left out.                  *)
write_cache ==
    /\ mesh_left.restarts > 0
    /\ cache' = peers
    /\ UNCHANGED <<node_up, linked, peers, greet, pending_health, call, mesh_left>>

(* The event loop starts: nothing connected, no request under way. Whom it  *)
(* dials is left to Established.                                            *)
mesh_event_loop ==
    /\ linked' = {}
    /\ greet' = [p \in MeshPeers |-> FALSE]
    /\ pending_health' = [p \in MeshPeers |-> 0]

(* The client process starts again from the file (load_cache).              *)
Restart ==
    /\ mesh_left.restarts > 0
    /\ mesh_left' = [mesh_left EXCEPT !.restarts = @ - 1]
    /\ peers' = cache
    /\ cache' = <<>>
    /\ mesh_event_loop
    /\ call' = NoCall
    /\ UNCHANGED node_up

MeshNext ==
    \/ request_best
    \/ HealthTick \/ Tick \/ write_cache \/ Restart
    \/ \E p \in MeshPeers :
          \/ request_to(p) \/ RpcAnswer(p) \/ RpcFailure(p)
          \/ Established(p) \/ Closed(p) \/ NodeStops(p) \/ NodeStarts(p)
          \/ Identify(p) \/ RoutingUpdated(p) \/ Ping(p)
          \/ \E S \in SUBSET MeshPeers : MembersResponse(p, S)
          \/ \E answer \in mesh_left.answers : HealthAnswer(p, answer)
          \/ HealthFailure(p)

(* Time passes, the event loop and its ticks run, identify repeats itself   *)
(* on an open connection (every five minutes by the library's default), and *)
(* a request ends at the latest with its timeout. Nothing is assumed of the *)
(* pace of pings, of nodes, of dialling or of Kademlia.                     *)
MeshFairness ==
    /\ WF_meshVars(Tick)
    /\ WF_meshVars(HealthTick)
    /\ \A p \in MeshPeers :
          /\ WF_meshVars(request_to(p))
          /\ WF_meshVars(RpcAnswer(p) \/ RpcFailure(p))
          /\ WF_meshVars(Identify(p))
          /\ WF_meshVars(\/ \E a \in mesh_left.answers : HealthAnswer(p, a)
                         \/ HealthFailure(p))

MeshSpec == InitMesh /\ [][MeshNext]_meshVars /\ MeshFairness

-----------------------------------------------------------------------------

(* The candidates follow the mesh, whatever answers, failures and cooldowns *)
(* come in whatever order: a node whose connection stays up is a candidate  *)
(* again and again (failed probes and requests never hide it for good), a   *)
(* node that is gone leaves the table, and a gateway cut off from all nodes *)
(* stops calling itself ready, whatever it or its cache file last heard     *)
(* (mesh_client.rs, the event loop; main.rs, build_gateway_health).         *)
CandidatesFollow ==
    /\ \A p \in MeshPeers :
          /\ <>[](p \in linked) => []<>(p \in all_nodes)
          /\ <>[](p \notin node_up) => <>[](p \notin Known)
    /\ <>[](linked = {}) => <>[](~build_gateway_health.ready)
=============================================================================
