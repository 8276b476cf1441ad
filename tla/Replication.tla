---------------------------- MODULE Replication ----------------------------
(* The nodes of a cluster as they replicate one data bucket and the meta    *)
(* log: client writes with an ack quorum, gossip, catch-up by contiguous    *)
(* heads, bucket deletion, restarts and lost connections.                   *)
(* src/apps/node/src/server.rs wires the tasks, service.rs serves the       *)
(* requests, src/libs/broadcast/src/libp2p.rs runs the ack groups. What one *)
(* node does inside insert_event is NodeLog; here it is one step.           *)
EXTENDS Integers, FiniteSets

CONSTANTS
    Nodes,          \* the nodes
    Writers,        \* nodes whose clients write
    MaxEpoch,       \* bound: epochs per node and bucket
    MaxSeq,         \* bound: sequence numbers per epoch
    RangeLimit,     \* events asked for in one range request (5000)
    Budgets         \* bounds to choose from: the nodes in the mesh, the min_acks
                    \* clients send, and how many events, bucket deletions,
                    \* crashes and lost connections there are

ASSUME ReplicationAssumption ==
    /\ IsFiniteSet(Nodes) /\ Writers \subseteq Nodes
    /\ {MaxEpoch, MaxSeq} \subseteq Nat
    /\ RangeLimit \in Nat \ {0}
    /\ Budgets \subseteq [nodes : SUBSET Nodes, min_acks : SUBSET Nat, events : Nat,
                          deletes : Nat, crashes : Nat, cuts : Nat]

VARIABLES
    phase,      \* [Nodes -> absent | down | warming | ready]: NodePhase, or no process
    mem,        \* [Nodes -> events the process has (buffer, heads, pending)]
    queue,      \* [Nodes -> events on their way to the batch writer]
    dur,        \* [Nodes -> events in the node's database]
    deleted,    \* [Nodes -> deleted_buckets has the data bucket]
    line,       \* [Nodes -> [bucket -> allocator: epoch and next seq]]
    created,    \* history: events any node ever created
    writes,     \* history: how many events were created
    published,  \* events handed to gossipsub
    link,       \* connected pairs
    rpc,        \* [Nodes -> the client request the RPC task is serving]
    groups,     \* [Nodes -> pending_groups]
    next_group_id, \* [Nodes -> Nat]
    reqs,       \* ack requests under way (req_to_group and the wire)
    acks,       \* [Nodes -> the AckInfo of its last answered write]
    catchup,    \* [Nodes -> the catch-up task: peer and ranges left to fetch]
    got,        \* history: <<node, event>> where the process had the event
    left        \* the budget that is left

logVars == <<mem, queue, dur, deleted, got>>
ackVars == <<groups, next_group_id, reqs, acks>>
repVars == <<phase, mem, queue, dur, deleted, line, created, writes, published, link, rpc, groups,
             next_group_id, reqs, acks, catchup, got, left>>

Buckets == {"data", "meta"}
Event == [bucket : Buckets, origin : Nodes, epoch : 1..MaxEpoch, seq : 1..MaxSeq]
Line(e) == <<e.bucket, e.origin, e.epoch>>
Lines == Buckets \X Nodes \X (1..MaxEpoch)

NoWrite == [st |-> "idle"]
NoAcks == [received |-> 0, requested |-> 0, timeout |-> FALSE, events |-> {}]
NoRound == [st |-> "idle"]

Up(n) == phase[n] \in {"warming", "ready"}
Peers(n) == {p \in Nodes \ {n} : {n, p} \in link /\ Up(p)}

InitReplication ==
    /\ left \in Budgets
    /\ phase = [n \in Nodes |-> IF n \in left.nodes THEN "ready" ELSE "absent"]
    /\ mem = [n \in Nodes |-> {}]
    /\ queue = [n \in Nodes |-> {}]
    /\ dur = [n \in Nodes |-> {}]
    /\ deleted = [n \in Nodes |-> FALSE]
    /\ line = [n \in Nodes |-> [b \in Buckets |-> [epoch |-> 0, next |-> 1]]]
    /\ created = {}
    /\ writes = 0
    /\ published = {}
    /\ link = {{n, p} : n \in left.nodes, p \in left.nodes} \ {{n} : n \in Nodes}
    /\ rpc = [n \in Nodes |-> NoWrite]
    /\ groups = [n \in Nodes |-> {}]
    /\ next_group_id = [n \in Nodes |-> 0]
    /\ reqs = {}
    /\ acks = [n \in Nodes |-> NoAcks]
    /\ catchup = [n \in Nodes |-> NoRound]
    /\ got = {}

-----------------------------------------------------------------------------
(* The log of one node                                                      *)

Seqs(S, l) == {e.seq : e \in {x \in S : Line(x) = l}}

(* get_heads: the contiguous head of every line the process knows.          *)
LogHead(n, l) ==
    LET seqs == Seqs(mem[n], l)
    IN  CHOOSE h \in 0..MaxSeq :
            /\ \A s \in 1..h : s \in seqs
            /\ h + 1 \notin seqs

Refuses(n, e) == deleted[n] /\ e.bucket = "data"

WithoutBucket(S) == {e \in S : e.bucket # "data"}

(* insert_event on a set of events, one after the other. A BucketDelete     *)
(* marks the bucket, then apply_bucket_delete_cascade drops its rows and    *)
(* maps; what is already on its way to the batch writer stays there.        *)
insert_events(n, S) ==
    LET fresh == {e \in S : e \notin mem[n] /\ ~Refuses(n, e)}
        purge == \E e \in fresh : e.bucket = "meta"
    IN  /\ mem' = [mem EXCEPT ![n] = IF purge THEN WithoutBucket(@ \cup fresh) ELSE @ \cup fresh]
        /\ queue' = [queue EXCEPT ![n] = @ \cup fresh]
        /\ dur' = [dur EXCEPT ![n] = IF purge THEN WithoutBucket(@) ELSE @]
        /\ deleted' = [deleted EXCEPT ![n] = @ \/ purge]
        /\ line' = [line EXCEPT ![n]["data"] =
                       IF purge THEN [epoch |-> 0, next |-> 1] ELSE @]
        /\ got' = got \cup ({n} \X fresh)

(* Faulty variant: the allocator forgets the epoch across a restart.        *)
NextLineSameEpoch(l) == [l EXCEPT !.next = 1]

(* mark_bucket_allocators_pending, then bump_bucket_epoch at the first      *)
(* write: a row that exists gets a new epoch and starts at 1 again.         *)
NextLine(l) == IF l.epoch = 0 THEN l ELSE [epoch |-> l.epoch + 1, next |-> 1]

(* allocate: the key of the next event of this node in bucket b.            *)
NextKey(n, b) ==
    LET l == line[n][b]
    IN  [bucket |-> b, origin |-> n, epoch |-> IF l.epoch = 0 THEN 1 ELSE l.epoch, seq |-> l.next]

Allocated(n, b) == [line EXCEPT ![n][b] = [epoch |-> NextKey(n, b).epoch, next |-> @.next + 1]]

CanAllocate(n, b) == NextKey(n, b) \in Event

-----------------------------------------------------------------------------
(* Client requests: one at a time per node                                  *)

(* create_event: refused unless the node is ready and the bucket is alive;  *)
(* create_local_events allocates, applies and queues the event.             *)
create_event(n, m) ==
    LET e == NextKey(n, "data")
    IN  /\ phase[n] = "ready" /\ rpc[n] = NoWrite
        /\ ~deleted[n]
        /\ CanAllocate(n, "data") /\ left.events > 0
        /\ left' = [left EXCEPT !.events = @ - 1]
        /\ mem' = [mem EXCEPT ![n] = @ \cup {e}]
        /\ queue' = [queue EXCEPT ![n] = @ \cup {e}]
        /\ got' = got \cup {<<n, e>>}
        /\ line' = Allocated(n, "data")
        /\ created' = created \cup {e}
        /\ writes' = writes + 1
        /\ rpc' = [rpc EXCEPT ![n] = [st |-> IF m > 0 THEN "ask" ELSE "publish",
                                      event |-> e, min |-> m]]
        /\ UNCHANGED <<phase, dur, deleted, published, link, ackVars, catchup>>

(* delete_bucket: create_meta_bucket_delete marks, cascades, then records   *)
(* the meta event; it is broadcast without acks.                            *)
delete_bucket(n) ==
    LET e == NextKey(n, "meta")
    IN  /\ Up(n) /\ rpc[n] = NoWrite
        /\ ~deleted[n]
        /\ CanAllocate(n, "meta") /\ left.deletes > 0
        /\ left' = [left EXCEPT !.deletes = @ - 1]
        /\ deleted' = [deleted EXCEPT ![n] = TRUE]
        /\ mem' = [mem EXCEPT ![n] = WithoutBucket(@) \cup {e}]
        /\ dur' = [dur EXCEPT ![n] = WithoutBucket(@)]
        /\ queue' = [queue EXCEPT ![n] = @ \cup {e}]
        /\ got' = got \cup {<<n, e>>}
        /\ line' = [Allocated(n, "meta") EXCEPT ![n]["data"] = [epoch |-> 0, next |-> 1]]
        /\ created' = created \cup {e}
        /\ writes' = writes + 1
        /\ rpc' = [rpc EXCEPT ![n] = [st |-> "publish", event |-> e, min |-> 0]]
        /\ UNCHANGED <<phase, published, link, ackVars, catchup>>

Answer(received, min, e) ==
    [received |-> received, requested |-> min, timeout |-> received < min, events |-> {e}]

(* RequestAcks: with no connected peer the answer is a timeout at once;     *)
(* otherwise a group waits for all connected peers.                         *)
RequestAcks(n) ==
    LET e == rpc[n].event
        g == next_group_id[n]
    IN  /\ rpc[n].st = "ask"
        /\ IF Peers(n) = {}
           THEN /\ acks' = [acks EXCEPT ![n] = Answer(0, rpc[n].min, e)]
                /\ rpc' = [rpc EXCEPT ![n].st = "publish"]
                /\ UNCHANGED <<groups, next_group_id, reqs>>
           ELSE /\ groups' = [groups EXCEPT ![n] = @ \cup
                       {[id |-> g, event |-> e, min |-> rpc[n].min, received |-> 0,
                         outstanding |-> Cardinality(Peers(n))]}]
                /\ next_group_id' = [next_group_id EXCEPT ![n] = g + 1]
                /\ reqs' = reqs \cup [from : {n}, to : Peers(n), grp : {g}, event : {e}, st : {"sent"}]
                /\ rpc' = [rpc EXCEPT ![n].st = "publish_and_wait"]
                /\ UNCHANGED acks
        /\ UNCHANGED <<phase, logVars, line, created, writes, published, link, catchup, left>>

(* GossipPublish; the request is answered if no group holds its answer.     *)
GossipPublish(n) ==
    /\ rpc[n].st \in {"publish", "publish_and_wait"}
    /\ published' = published \cup {rpc[n].event}
    /\ rpc' = [rpc EXCEPT ![n] =
                  IF @.st = "publish" \/ groups[n] = {} THEN NoWrite ELSE [@ EXCEPT !.st = "wait"]]
    /\ UNCHANGED <<phase, logVars, line, created, writes, link, ackVars, catchup, left>>

(* The oneshot of a group fires: the RPC task goes on to its next request.  *)
Resume(n) == [rpc EXCEPT ![n] = IF @.st = "wait" THEN NoWrite ELSE @]

(* A response leaves when the handler has answered its oneshot.             *)
SendResponse(r, present) == [r EXCEPT !.st = IF present THEN "yes" ELSE "no"]

(* The ack task of the peer: insert_event, or event_is_present.             *)
AckRequest(r) ==
    /\ r \in reqs /\ r.st = "sent"
    /\ Up(r.to)
    /\ insert_events(r.to, {r.event})
    /\ reqs' = (reqs \ {r}) \cup {SendResponse(r, r.event \in mem'[r.to])}
    /\ UNCHANGED <<phase, created, writes, published, link, rpc, groups, next_group_id, acks,
                   catchup, left>>

(* Faulty variant: every response counts, whatever it says.                 *)
CountsAny(r) == 1

(* Only a peer that has the event counts.                                   *)
Counts(r) == IF r.st = "yes" THEN 1 ELSE 0

(* req_to_group, then pending_groups: late responses find no group.         *)
GroupOf(r) == {g \in groups[r.from] : g.id = r.grp}

(* Progress of a group: it is answered and removed when the quorum is there *)
(* or nobody is left to answer.                                             *)
Advance(n, g, h, done) ==
    /\ groups' = [groups EXCEPT ![n] = (@ \ {g}) \cup (IF done THEN {} ELSE {h})]
    /\ IF done
       THEN /\ acks' = [acks EXCEPT ![n] = Answer(h.received, h.min, h.event)]
            /\ rpc' = Resume(n)
       ELSE UNCHANGED <<acks, rpc>>

AckResponse(r) ==
    /\ r \in reqs /\ r.st # "sent"
    /\ reqs' = reqs \ {r}
    /\ \/ /\ GroupOf(r) = {}
          /\ UNCHANGED <<groups, acks, rpc>>
       \/ \E g \in GroupOf(r) :
             LET h == [g EXCEPT !.received = @ + Counts(r), !.outstanding = @ - 1]
             IN  Advance(r.from, g, h, h.received >= h.min \/ h.outstanding = 0)
    /\ UNCHANGED <<phase, logVars, line, created, writes, published, link, next_group_id, catchup, left>>

(* Faulty variant: a failed request leaves its group to the timeout sweep.  *)
LeftToSweep(h) == FALSE

(* Nobody is left who could answer.                                         *)
Exhausted(h) == h.outstanding = 0

(* OutboundFailure: the request timed out or its connection closed.         *)
AckFailure(r) ==
    /\ r \in reqs
    /\ reqs' = reqs \ {r}
    /\ \/ /\ GroupOf(r) = {}
          /\ UNCHANGED <<groups, acks, rpc>>
       \/ \E g \in GroupOf(r) :
             LET h == [g EXCEPT !.outstanding = @ - 1]
             IN  Advance(r.from, g, h, Exhausted(h))
    /\ UNCHANGED <<phase, logVars, line, created, writes, published, link, next_group_id, catchup, left>>

(* The timeout sweep answers a group whose deadline has passed.             *)
SweepGroups(n) ==
    \E g \in groups[n] :
        /\ Advance(n, g, g, TRUE)
        /\ UNCHANGED <<phase, logVars, line, created, writes, published, link, next_group_id, reqs,
                       catchup, left>>

-----------------------------------------------------------------------------
(* Gossip, catch-up and the batch writer                                    *)

(* A published event reaches a node late, twice or never.                   *)
GossipMessage(n, e) ==
    /\ Up(n)
    /\ e \in published \ mem[n]
    /\ insert_events(n, {e})
    /\ UNCHANGED <<phase, created, writes, published, link, rpc, ackVars, catchup, left>>

(* Faulty variant: the window ends one event short of the peer's head.      *)
WindowShort(mine, theirs) == (mine + 1)..(IF mine + RangeLimit < theirs THEN mine + RangeLimit
                                         ELSE theirs - 1)

(* from_seq..to_seq: at most RangeLimit events above our head.              *)
Window(mine, theirs) == (mine + 1)..(IF mine + RangeLimit < theirs THEN mine + RangeLimit
                                    ELSE theirs)

HeadsResponse(p) == [l \in Lines |-> LogHead(p, l)]

(* query_heads: the peer's heads against ours, both as they are now; the    *)
(* ranges are fetched later, one by one.                                    *)
QueryHeads(n, p) ==
    LET theirs == HeadsResponse(p)
        behind == {l \in Lines : theirs[l] > LogHead(n, l)}
    IN  /\ Up(n) /\ catchup[n] = NoRound
        /\ p \in Peers(n)
        /\ behind # {}
        /\ catchup' = [catchup EXCEPT ![n] =
               [st |-> "fetch", peer |-> p,
                want |-> {<<l, Window(LogHead(n, l), theirs[l])>> : l \in behind}]]
        /\ UNCHANGED <<phase, logVars, line, created, writes, published, link, rpc, ackVars, left>>

NextRange(n, w) ==
    [catchup EXCEPT ![n] = IF @.want = {w} THEN NoRound ELSE [@ EXCEPT !.want = @ \ {w}]]

(* A peer serves a range from its buffer and its database.                  *)
RangeResponse(p, l, seqs) == {e \in mem[p] \cup dur[p] : Line(e) = l /\ e.seq \in seqs}

(* query_range: what the peer has of the range is inserted as a batch.      *)
QueryRange(n) ==
    /\ catchup[n] # NoRound
    /\ catchup[n].peer \in Peers(n)
    /\ \E w \in catchup[n].want :
          /\ insert_events(n, RangeResponse(catchup[n].peer, w[1], w[2]))
          /\ catchup' = NextRange(n, w)
    /\ UNCHANGED <<phase, created, writes, published, link, rpc, ackVars, left>>

(* The query fails: the next range, or the next peer, is tried.             *)
QueryRangeFails(n) ==
    /\ catchup[n] # NoRound
    /\ catchup[n].peer \notin Peers(n)
    /\ \E w \in catchup[n].want : catchup' = NextRange(n, w)
    /\ UNCHANGED <<phase, logVars, line, created, writes, published, link, rpc, ackVars, left>>

(* The batch writer stores what was queued.                                 *)
Flush(n) ==
    /\ Up(n) /\ queue[n] # {}
    /\ dur' = [dur EXCEPT ![n] = @ \cup queue[n]]
    /\ queue' = [queue EXCEPT ![n] = {}]
    /\ UNCHANGED <<phase, mem, deleted, got, line, created, writes, published, link, rpc, ackVars,
                   catchup, left>>

-----------------------------------------------------------------------------
(* Connections and restarts                                                 *)

LinkDown(n, p) ==
    /\ {n, p} \in link
    /\ left.cuts > 0
    /\ link' = link \ {{n, p}}
    /\ left' = [left EXCEPT !.cuts = @ - 1]
    /\ UNCHANGED <<phase, logVars, line, created, writes, published, rpc, ackVars, catchup>>

LinkUp(n, p) ==
    /\ {n, p} \subseteq left.nodes /\ n # p /\ {n, p} \notin link
    /\ link' = link \cup {{n, p}}
    /\ UNCHANGED <<phase, logVars, line, created, writes, published, rpc, ackVars, catchup, left>>

(* The swarm a process starts with: no group, and no request of its own     *)
(* under way.                                                               *)
FreshSwarm(n) ==
    /\ groups' = [groups EXCEPT ![n] = {}]
    /\ next_group_id' = [next_group_id EXCEPT ![n] = 0]
    /\ reqs' = {r \in reqs : r.from # n}

(* The process dies with everything it had in memory.                       *)
Crash(n) ==
    /\ Up(n)
    /\ left.crashes > 0
    /\ left' = [left EXCEPT !.crashes = @ - 1]
    /\ phase' = [phase EXCEPT ![n] = "down"]
    /\ mem' = [mem EXCEPT ![n] = {}]
    /\ queue' = [queue EXCEPT ![n] = {}]
    /\ deleted' = [deleted EXCEPT ![n] = FALSE]
    /\ rpc' = [rpc EXCEPT ![n] = NoWrite]
    /\ FreshSwarm(n)
    /\ acks' = [acks EXCEPT ![n] = NoAcks]
    /\ catchup' = [catchup EXCEPT ![n] = NoRound]
    /\ UNCHANGED <<dur, line, created, writes, published, link, got>>

(* start_node: SharedState::new rebuilds from the database and replays the  *)
(* meta log; the allocator rows wait for a new epoch.                       *)
start_node(n) ==
    /\ phase[n] = "down"
    /\ phase' = [phase EXCEPT ![n] = "warming"]
    /\ mem' = [mem EXCEPT ![n] = dur[n]]
    /\ deleted' = [deleted EXCEPT ![n] = \E e \in dur[n] : e.bucket = "meta"]
    /\ line' = [line EXCEPT ![n] = [b \in Buckets |-> NextLine(@[b])]]
    /\ got' = got \cup ({n} \X dur[n])
    /\ UNCHANGED <<queue, dur, created, writes, published, link, rpc, ackVars, catchup, left>>

Ready(n) ==
    /\ phase[n] = "warming"
    /\ phase' = [phase EXCEPT ![n] = "ready"]
    /\ UNCHANGED <<logVars, line, created, writes, published, link, rpc, ackVars, catchup, left>>

-----------------------------------------------------------------------------

ReplicationNext ==
    \/ \E n \in Writers, m \in left.min_acks : create_event(n, m)
    \/ \E n \in Writers : delete_bucket(n)
    \/ \E n \in Nodes :
          \/ RequestAcks(n) \/ GossipPublish(n) \/ SweepGroups(n)
          \/ \E e \in published : GossipMessage(n, e)
          \/ \E p \in Nodes : QueryHeads(n, p)
          \/ QueryRange(n) \/ QueryRangeFails(n) \/ Flush(n)
          \/ \E p \in Nodes : LinkDown(n, p) \/ LinkUp(n, p)
          \/ Crash(n) \/ start_node(n) \/ Ready(n)
    \/ \E r \in reqs : AckRequest(r) \/ AckResponse(r) \/ AckFailure(r)

(* The tasks of a node are scheduled by the runtime, a request ends with a  *)
(* response or with its timeout, lost connections are dialled again and a   *)
(* node that died is started again. Gossip, the timeout sweep and the batch *)
(* writer are not relied on.                                                *)
Fairness ==
    /\ \A n \in Writers :
          /\ WF_repVars(RequestAcks(n))
          /\ WF_repVars(GossipPublish(n))
          /\ \A p \in Nodes \ {n} : WF_repVars(\E r \in reqs : r.from = n /\ r.to = p
                                                /\ (AckResponse(r) \/ AckFailure(r)))
    /\ \A n \in Nodes :
          /\ WF_repVars(QueryRange(n) \/ QueryRangeFails(n))
          /\ WF_repVars(start_node(n) \/ Ready(n))
          /\ \A p \in Nodes \ {n} : WF_repVars(QueryHeads(n, p))
    /\ \A pair \in {{n, p} : n \in Nodes, p \in Nodes} :
          WF_repVars(\E n, p \in pair : LinkUp(n, p))

ReplicationSpec == InitReplication /\ [][ReplicationNext]_repVars
LiveReplication == ReplicationSpec /\ Fairness

-----------------------------------------------------------------------------

(* An answered write counts a peer only if that peer's process really had   *)
(* the event: late, refused and failed ack requests never add up to a       *)
(* quorum (libp2p.rs, the ack groups).                                      *)
QuorumMeansHeld ==
    \A n \in Nodes : \A e \in acks[n].events :
        acks[n].received <= Cardinality({p \in Nodes \ {n} : <<p, e>> \in got})

(* A client that waits for acks is answered although peers die, connections *)
(* close and the timeout sweep may starve under traffic.                    *)
WritesAnswered == \A n \in Nodes : (rpc[n] # NoWrite) ~> (rpc[n] = NoWrite)

(* When crashes and partitions end, catch-up brings the contiguous heads of *)
(* all nodes together: every bucket that nobody deleted, and the meta log,  *)
(* hence the tombstones, of every bucket.                                   *)
HeadsConverge ==
    <>[](\A l \in Lines : \A n, p \in left.nodes :
            (l[1] = "meta" \/ \A e \in created : e.bucket # "meta") => LogHead(n, l) = LogHead(p, l))

BucketOfEvent(e) == e.bucket
DeletesBucket(e, b) == e.bucket = "meta" /\ b = "data"

Promise == INSTANCE LogPromise WITH Keys <- Event, BucketOf <- BucketOfEvent,
                Deletes <- DeletesBucket, issued <- created, stored <- dur

(* The databases keep the promise of LogPromise: restarts issue no key      *)
(* twice, catch-up and gossip store only issued events, and rows go away    *)
(* only when a bucket was deleted.                                          *)
KeepsPromise == Promise!Spec
=============================================================================
