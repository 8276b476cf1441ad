--------------------------- MODULE ClusterProofs ---------------------------
(***************************************************************************)
(* What the cluster promises, for every number of nodes, events, restarts, *)
(* lost connections and late or repeated messages: the databases implement *)
(* LogPromise, an ack quorum counts only peers that had the event, the     *)
(* registry of peers follows the swarm, and the two storage backends       *)
(* answer alike.                                                           *)
(*                                                                         *)
(* The refinement needs to know where events come from (SourceInv: nothing *)
(* is in memory, in a queue or on the wire that no node created) and that  *)
(* the allocator lines stay ahead of every key (LineInv).  The quorum      *)
(* needs that a request is answered once (ReqInv) and that every count of  *)
(* a group stands for a peer of its own (CountInv).  The registry lags     *)
(* behind the swarm by the events on their way to the bridge: FollowOK     *)
(* says that the last of them, or else the entry, is true.  The backends   *)
(* agree because the maps of the one mirror the table of the other         *)
(* (Mirror); for a bulk insert that takes what the fold over the batch     *)
(* computes (Loaded: every key, and the first event of each new key) and   *)
(* that a stable sort keeps the first of every key first.                  *)
(***************************************************************************)
EXTENDS Replication, Stores, Sums, SequenceTheorems

Bounds == [nodes : SUBSET Nodes, min_acks : SUBSET Nat, events : Nat, deletes : Nat,
           crashes : Nat, cuts : Nat]
Request == [from : Nodes, to : Nodes, grp : Nat, event : Event, st : {"sent", "yes", "no"}]
Group == [id : Nat, event : Event, min : Nat, received : Nat, outstanding : Int]
AckInfo == [received : Nat, requested : Nat, timeout : BOOLEAN, events : SUBSET Event]
Write == [st : {"ask", "publish", "publish_and_wait", "wait"}, event : Event, min : Nat]

LogOK ==
    /\ mem \in [Nodes -> SUBSET Event] /\ queue \in [Nodes -> SUBSET Event]
    /\ dur \in [Nodes -> SUBSET Event] /\ deleted \in [Nodes -> BOOLEAN]
    /\ line \in [Nodes -> [Buckets -> [epoch : Nat, next : Nat]]]
    /\ created \subseteq Event /\ writes \in Nat /\ published \subseteq Event
    /\ left \in Bounds

AckOK ==
    /\ rpc \in [Nodes -> {NoWrite} \cup Write]
    /\ groups \in [Nodes -> SUBSET Group] /\ next_group_id \in [Nodes -> Nat]
    /\ reqs \subseteq Request /\ acks \in [Nodes -> AckInfo]

(* Whatever a node holds, queues, stores or gossips was created.            *)
SourceInv ==
    /\ \A n \in Nodes : mem[n] \cup queue[n] \cup dur[n] \subseteq created
    /\ published \subseteq created

(* So was whatever a client waits for or a node asks its peers about.       *)
WireInv ==
    /\ \A n \in Nodes : rpc[n] # NoWrite => rpc[n].event \in created
    /\ \A r \in reqs : r.event \in created

(* Key e lies behind allocator line l.                                      *)
Behind(e, l) == e.epoch < l.epoch \/ (e.epoch = l.epoch /\ e.seq < l.next)

SomeDelete == \E e \in created : e.bucket = "meta"

(* Every key of a line is behind its allocator, except in a deleted bucket, *)
(* whose line starts again.                                                 *)
LineInv ==
    \A e \in created : e.bucket = "meta" \/ ~SomeDelete => Behind(e, line[e.origin][e.bucket])

LogInv == LogOK /\ SourceInv /\ LineInv
PromiseInv == LogInv /\ AckOK /\ WireInv

(* One request per group and peer; a "yes" is from a peer that had the      *)
(* event.                                                                   *)
ReqInv ==
    /\ \A n \in Nodes : \A e \in mem[n] : <<n, e>> \in got
    /\ \A r \in reqs : r.grp < next_group_id[r.from] /\ r.to # r.from
    /\ \A r, q \in reqs : r.from = q.from /\ r.to = q.to /\ r.grp = q.grp => r = q
    /\ \A r \in reqs : r.st = "yes" => <<r.to, r.event>> \in got
    /\ \A n \in Nodes : \A g \in groups[n] : g.id < next_group_id[n]
    /\ \A n \in Nodes : \A g, h \in groups[n] : g.id = h.id => g = h
    /\ \A r \in reqs : \A g \in groups[r.from] : g.id = r.grp => g.event = r.event

Asked(n, id, p) == \E r \in reqs : r.from = n /\ r.grp = id /\ r.to = p
Holders(n, e) == {p \in Nodes \ {n} : <<p, e>> \in got}

(* The peers that had the event and are no longer asked.                    *)
CountedPeers(n, id, e) == {p \in Holders(n, e) : ~Asked(n, id, p)}

CountInv ==
    \A n \in Nodes : \A g \in groups[n] : g.received <= Cardinality(CountedPeers(n, g.id, g.event))

-----------------------------------------------------------------------------

(* An abstract step, or nothing the databases show.                         *)
Kept == [Promise!Next]_(Promise!promiseVars)

LEMMA StartsEmpty == InitReplication => PromiseInv
<1> SUFFICES ASSUME InitReplication PROVE PromiseInv OBVIOUS
<1> USE DEF InitReplication
<1>1. left \in Bounds
  BY ReplicationAssumption DEF Bounds
<1>2. line \in [Nodes -> [Buckets -> [epoch : Nat, next : Nat]]]
  OBVIOUS
<1>3. LogOK
  BY <1>1, <1>2 DEF LogOK
<1>4. AckOK
  BY DEF AckOK, NoAcks, AckInfo
<1> QED BY <1>3, <1>4 DEF PromiseInv, LogInv, SourceInv, LineInv, WireInv, SomeDelete

(* Events a node hears of: nothing new is created, and rows go away only    *)
(* when one of the events deletes the bucket.                               *)
LEMMA InsertKeeps ==
  ASSUME LogInv, NEW n \in Nodes, NEW S, S \subseteq created, insert_events(n, S),
         UNCHANGED <<created, writes, published, left>>
  PROVE  LogInv' /\ Kept
<1> DEFINE fresh == {e \in S : e \notin mem[n] /\ ~Refuses(n, e)}
           purge == \E e \in fresh : e.bucket = "meta"
<1> USE DEF LogInv
<1>1. /\ mem' = [mem EXCEPT ![n] = IF purge THEN WithoutBucket(@ \cup fresh) ELSE @ \cup fresh]
      /\ queue' = [queue EXCEPT ![n] = @ \cup fresh]
      /\ dur' = [dur EXCEPT ![n] = IF purge THEN WithoutBucket(@) ELSE @]
      /\ deleted' = [deleted EXCEPT ![n] = @ \/ purge]
      /\ line' = [line EXCEPT ![n]["data"] = IF purge THEN [epoch |-> 0, next |-> 1] ELSE @]
  BY DEF insert_events
<1>2. fresh \subseteq created /\ created \subseteq Event /\ purge \in BOOLEAN
  BY DEF LogOK
<1> HIDE DEF fresh, purge
<1>3. line' \in [Nodes -> [Buckets -> [epoch : Nat, next : Nat]]]
  BY <1>1 DEF LogOK, Buckets
<1>4. LogOK'
  <2>1. mem' \in [Nodes -> SUBSET Event] /\ queue' \in [Nodes -> SUBSET Event]
    BY <1>1, <1>2 DEF LogOK, WithoutBucket
  <2>2. dur' \in [Nodes -> SUBSET Event]
    BY <1>1, <1>2 DEF LogOK, WithoutBucket
  <2>3. deleted' \in [Nodes -> BOOLEAN]
    BY <1>1, <1>2, Zenon DEF LogOK
  <2> QED BY <2>1, <2>2, <2>3, <1>3 DEF LogOK
<1>5. SourceInv'
  BY <1>1, <1>2 DEF LogOK, SourceInv, WithoutBucket
<1>6. LineInv'
  <2>1. purge => SomeDelete
    BY <1>2 DEF SomeDelete, purge
  <2>2. \A m \in Nodes : /\ line'[m]["meta"] = line[m]["meta"]
                         /\ ~purge => line'[m]["data"] = line[m]["data"]
    BY <1>1 DEF LogOK, Buckets
  <2> SUFFICES ASSUME NEW e \in created, e.bucket = "meta" \/ ~SomeDelete
               PROVE  Behind(e, line'[e.origin][e.bucket])
    BY DEF LineInv, SomeDelete
  <2>3. e.origin \in Nodes /\ e.bucket \in {"data", "meta"}
    BY <1>2 DEF Event, Buckets
  <2>4. line'[e.origin][e.bucket] = line[e.origin][e.bucket]
    BY <2>1, <2>2, <2>3
  <2> QED BY <2>4 DEF LineInv
<1>7. Kept
  <2>1. CASE purge
    <3>1. Promise!Erase(n, "data")
      <4>1. dur' = [dur EXCEPT ![n] = {k \in @ : BucketOfEvent(k) # "data"}]
        BY <1>1, <2>1 DEF WithoutBucket, BucketOfEvent
      <4>2. (\E k \in created : DeletesBucket(k, "data"))'
        BY <1>2, <2>1 DEF purge, DeletesBucket
      <4> QED BY <4>1, <4>2 DEF Promise!Erase, Promise!Deleted
    <3> QED BY <3>1 DEF Kept, Promise!Next, Buckets
  <2>2. CASE ~purge
    <3>1. dur' = dur
      BY <1>1, <2>2 DEF LogOK
    <3> QED BY <3>1 DEF Kept, Promise!promiseVars
  <2> QED BY <2>1, <2>2
<1> QED BY <1>4, <1>5, <1>6, <1>7

(* The key of the next event was not given out before, unless its bucket    *)
(* was deleted meanwhile; once given it lies behind the line.               *)
LEMMA NextKeyIsNew ==
  ASSUME LogInv, NEW n \in Nodes, NEW b \in Buckets, NextKey(n, b) \in Event
  PROVE  /\ b = "meta" \/ ~SomeDelete => NextKey(n, b) \notin created
         /\ NextKey(n, b).bucket = b /\ NextKey(n, b).origin = n
         /\ Allocated(n, b) \in [Nodes -> [Buckets -> [epoch : Nat, next : Nat]]]
         /\ Behind(NextKey(n, b), Allocated(n, b)[n][b])
         /\ \A e \in created : /\ Behind(e, line[e.origin][e.bucket])
                               => Behind(e, Allocated(n, b)[e.origin][e.bucket])
<1> DEFINE l == line[n][b]
           e0 == NextKey(n, b)
           new == [epoch |-> e0.epoch, next |-> l.next + 1]
<1>1. l \in [epoch : Nat, next : Nat]
  BY DEF LogInv, LogOK
<1>2. e0 = [bucket |-> b, origin |-> n, epoch |-> IF l.epoch = 0 THEN 1 ELSE l.epoch, seq |-> l.next]
  BY DEF NextKey
<1>3. /\ e0.bucket = b /\ e0.origin = n /\ e0.seq = l.next
      /\ e0.epoch = (IF l.epoch = 0 THEN 1 ELSE l.epoch)
  BY <1>2
<1>4. new \in [epoch : Nat, next : Nat]
  BY <1>1, <1>3
<1>5. Allocated(n, b) = [line EXCEPT ![n][b] = new]
  BY DEF Allocated
<1>6. line \in [Nodes -> [Buckets -> [epoch : Nat, next : Nat]]]
  BY DEF LogInv, LogOK
<1>7. /\ Allocated(n, b) \in [Nodes -> [Buckets -> [epoch : Nat, next : Nat]]]
      /\ Allocated(n, b)[n][b] = new
      /\ \A m \in Nodes, c \in Buckets : (m # n \/ c # b) => Allocated(n, b)[m][c] = line[m][c]
  <2> HIDE DEF new
  <2> QED BY <1>4, <1>5, <1>6
<1>8. Behind(e0, new)
  BY <1>1, <1>3 DEF Behind
<1>9. ~Behind(e0, l)
  BY <1>1, <1>3 DEF Behind
<1>10. b = "meta" \/ ~SomeDelete => e0 \notin created
  BY <1>9, <1>3 DEF LogInv, LineInv
<1>11. \A e \in created : Behind(e, line[e.origin][e.bucket])
                             => Behind(e, Allocated(n, b)[e.origin][e.bucket])
  <2> SUFFICES ASSUME NEW e \in created, Behind(e, line[e.origin][e.bucket])
               PROVE  Behind(e, Allocated(n, b)[e.origin][e.bucket])
    OBVIOUS
  <2>1. e \in Event
    BY DEF LogInv, LogOK
  <2>2. e.origin \in Nodes /\ e.bucket \in Buckets /\ e.epoch \in Nat \ {0} /\ e.seq \in Nat
    BY <2>1, ReplicationAssumption DEF Event
  <2>3. CASE e.origin = n /\ e.bucket = b
    <3>1. Behind(e, l) => Behind(e, new)
      BY <1>1, <1>3, <2>2 DEF Behind
    <3> QED BY <3>1, <1>7, <2>3
  <2> QED BY <2>2, <2>3, <1>7
<1> QED BY <1>3, <1>7, <1>8, <1>10, <1>11

(* A budget that is spent stays a budget.                                   *)
LEMMA SpendBounds ==
  ASSUME NEW b \in Bounds
  PROVE  /\ b.events > 0 => [b EXCEPT !.events = @ - 1] \in Bounds
         /\ b.deletes > 0 => [b EXCEPT !.deletes = @ - 1] \in Bounds
         /\ b.crashes > 0 => [b EXCEPT !.crashes = @ - 1] \in Bounds
         /\ b.cuts > 0 => [b EXCEPT !.cuts = @ - 1] \in Bounds
<1>1. \A k \in Nat : k > 0 => k - 1 \in Nat
  OBVIOUS
<1>2. b.events \in Nat /\ b.deletes \in Nat /\ b.crashes \in Nat /\ b.cuts \in Nat
  BY DEF Bounds
<1> QED BY <1>1, <1>2 DEF Bounds

LEMMA CreateKeeps ==
  ASSUME LogInv, NEW n \in Nodes, NEW m, create_event(n, m)
  PROVE  LogInv' /\ Kept /\ NextKey(n, "data") \in Event
<1> DEFINE e0 == NextKey(n, "data")
<1>1. /\ e0 \in Event /\ left' = [left EXCEPT !.events = @ - 1] /\ left.events > 0
      /\ mem' = [mem EXCEPT ![n] = @ \cup {e0}]
      /\ queue' = [queue EXCEPT ![n] = @ \cup {e0}]
      /\ line' = Allocated(n, "data")
      /\ created' = created \cup {e0}
      /\ writes' = writes + 1
      /\ UNCHANGED <<dur, deleted, published>>
  BY DEF create_event, CanAllocate
<1> HIDE DEF e0
<1>2. /\ ~SomeDelete => e0 \notin created
      /\ e0.bucket = "data" /\ e0.origin = n
      /\ line' \in [Nodes -> [Buckets -> [epoch : Nat, next : Nat]]]
      /\ Behind(e0, line'[n]["data"])
      /\ \A e \in created : Behind(e, line[e.origin][e.bucket])
                               => Behind(e, line'[e.origin][e.bucket])
  BY <1>1, NextKeyIsNew DEF e0, Buckets
<1>3. left' \in Bounds
  BY <1>1, SpendBounds DEF LogInv, LogOK
<1>4. LogOK'
  BY <1>1, <1>2, <1>3 DEF LogInv, LogOK
<1>5. SourceInv'
  BY <1>1 DEF LogInv, LogOK, SourceInv
<1>6. LineInv'
  BY <1>1, <1>2 DEF LogInv, LineInv, SomeDelete
<1>7. Promise!Issue(e0)
  <2>1. ~SomeDelete \/ \E k \in created : DeletesBucket(k, BucketOfEvent(e0))
    BY <1>2 DEF SomeDelete, DeletesBucket, BucketOfEvent
  <2> QED BY <2>1, <1>1, <1>2 DEF Promise!Issue, Promise!Deleted
<1>8. Kept
  BY <1>1, <1>7 DEF Kept, Promise!Next
<1> QED BY <1>1, <1>4, <1>5, <1>6, <1>8 DEF LogInv, e0

LEMMA DeleteKeeps ==
  ASSUME LogInv, NEW n \in Nodes, delete_bucket(n)
  PROVE  LogInv' /\ Kept /\ NextKey(n, "meta") \in Event
<1> DEFINE e0 == NextKey(n, "meta")
<1>1. /\ e0 \in Event /\ left' = [left EXCEPT !.deletes = @ - 1] /\ left.deletes > 0
      /\ mem' = [mem EXCEPT ![n] = WithoutBucket(@) \cup {e0}]
      /\ queue' = [queue EXCEPT ![n] = @ \cup {e0}]
      /\ dur' = [dur EXCEPT ![n] = WithoutBucket(@)]
      /\ deleted' = [deleted EXCEPT ![n] = TRUE]
      /\ line' = [Allocated(n, "meta") EXCEPT ![n]["data"] = [epoch |-> 0, next |-> 1]]
      /\ created' = created \cup {e0}
      /\ writes' = writes + 1
      /\ UNCHANGED <<published>>
  BY DEF delete_bucket, CanAllocate
<1> DEFINE up == Allocated(n, "meta")
<1> HIDE DEF e0
<1>2. /\ e0 \notin created
      /\ e0.bucket = "meta" /\ e0.origin = n
      /\ up \in [Nodes -> [Buckets -> [epoch : Nat, next : Nat]]]
      /\ Behind(e0, up[n]["meta"])
      /\ \A e \in created : Behind(e, line[e.origin][e.bucket])
                               => Behind(e, up[e.origin][e.bucket])
  BY <1>1, NextKeyIsNew DEF e0, Buckets
<1> HIDE DEF up
<1>3. left' \in Bounds
  BY <1>1, SpendBounds DEF LogInv, LogOK
<1>4. /\ line' \in [Nodes -> [Buckets -> [epoch : Nat, next : Nat]]]
      /\ \A m \in Nodes : line'[m]["meta"] = up[m]["meta"]
  BY <1>1, <1>2 DEF up, Buckets
<1>5. LogOK'
  BY <1>1, <1>3, <1>4 DEF LogInv, LogOK, WithoutBucket
<1>6. SourceInv'
  BY <1>1 DEF LogInv, LogOK, SourceInv, WithoutBucket
<1>7. LineInv'
  <2> SUFFICES ASSUME NEW e \in created \cup {e0}, e.bucket = "meta"
               PROVE  Behind(e, line'[e.origin][e.bucket])
    BY <1>1, <1>2 DEF LineInv, SomeDelete
  <2>1. e.origin \in Nodes
    BY <1>1 DEF LogInv, LogOK, Event
  <2> QED BY <2>1, <1>2, <1>4 DEF LogInv, LineInv
<1>8. Promise!Erase(n, "data")
  <2>1. dur' = [dur EXCEPT ![n] = {k \in @ : BucketOfEvent(k) # "data"}]
    BY <1>1 DEF WithoutBucket, BucketOfEvent
  <2>2. DeletesBucket(e0, "data") /\ (\E k \in created : DeletesBucket(k, "data"))'
    BY <1>1, <1>2 DEF DeletesBucket
  <2> QED BY <1>1, <1>2, <2>1, <2>2 DEF Promise!Erase, Promise!Deleted
<1>9. Kept
  BY <1>8 DEF Kept, Promise!Next, Buckets
<1> QED BY <1>1, <1>5, <1>6, <1>7, <1>9 DEF LogInv, e0

LEMMA FlushKeeps ==
  ASSUME LogInv, NEW n \in Nodes, Flush(n)
  PROVE  LogInv' /\ Kept
<1> USE DEF LogInv
<1>1. LogOK' /\ SourceInv' /\ LineInv'
  BY DEF Flush, LogOK, SourceInv, LineInv, SomeDelete
<1>2. Promise!Store(n, queue[n])
  BY DEF Flush, Promise!Store, SourceInv
<1> QED BY <1>1, <1>2 DEF Kept, Promise!Next, SourceInv

LEMMA CrashKeeps ==
  ASSUME LogInv, NEW n \in Nodes, Crash(n)
  PROVE  LogInv' /\ Kept
<1> USE DEF LogInv
<1>1. left' \in Bounds
  BY SpendBounds DEF Crash, LogOK
<1>2. LogOK' /\ SourceInv' /\ LineInv'
  BY <1>1 DEF Crash, LogOK, SourceInv, LineInv, SomeDelete
<1> QED BY <1>2 DEF Kept, Crash, Promise!promiseVars

(* A restart moves every line on: no key it gave out comes again.           *)
LEMMA StartKeeps ==
  ASSUME LogInv, NEW n \in Nodes, start_node(n)
  PROVE  LogInv' /\ Kept
<1> USE DEF LogInv
<1> DEFINE moved == [b \in Buckets |-> NextLine(line[n][b])]
<1>1. moved \in [Buckets -> [epoch : Nat, next : Nat]]
  <2> SUFFICES ASSUME NEW b \in Buckets PROVE NextLine(line[n][b]) \in [epoch : Nat, next : Nat]
    OBVIOUS
  <2>1. line[n][b] \in [epoch : Nat, next : Nat]
    BY DEF LogOK
  <2> QED BY <2>1 DEF NextLine
<1>2. line' = [line EXCEPT ![n] = moved]
  BY DEF start_node
<1>3. \A b \in Buckets : moved[b] = NextLine(line[n][b])
  OBVIOUS
<1> HIDE DEF moved
<1>4. line' \in [Nodes -> [Buckets -> [epoch : Nat, next : Nat]]]
  BY <1>1, <1>2 DEF LogOK
<1>5. LogOK' /\ SourceInv'
  <2>1. (\E e \in dur[n] : e.bucket = "meta") \in BOOLEAN
    OBVIOUS
  <2>2. deleted' \in [Nodes -> BOOLEAN]
    BY <2>1, Zenon DEF start_node, LogOK
  <2> QED BY <1>4, <2>2 DEF start_node, LogOK, SourceInv
<1>6. LineInv'
  <2> SUFFICES ASSUME NEW e \in created, Behind(e, line[e.origin][e.bucket])
               PROVE  Behind(e, line'[e.origin][e.bucket])
    BY DEF LineInv, SomeDelete, start_node
  <2>1. e \in Event
    BY DEF LogOK
  <2>2. e.origin \in Nodes /\ e.bucket \in Buckets /\ e.epoch \in Nat \ {0} /\ e.seq \in Nat
    BY <2>1, ReplicationAssumption DEF Event
  <2>3. CASE e.origin = n
    <3>1. line[n][e.bucket] \in [epoch : Nat, next : Nat]
      BY <2>2 DEF LogOK
    <3>2. Behind(e, NextLine(line[n][e.bucket]))
      BY <2>2, <2>3, <3>1 DEF Behind, NextLine
    <3> QED BY <1>2, <1>3, <2>2, <2>3, <3>2 DEF LogOK
  <2>4. CASE e.origin # n
    BY <2>4, <2>2, <1>2 DEF LogOK
  <2> QED BY <2>3, <2>4
<1> QED BY <1>5, <1>6 DEF Kept, start_node, Promise!promiseVars

(* Steps that leave the logs and the databases alone.                       *)
LEMMA LogFrame ==
  ASSUME LogInv, UNCHANGED <<logVars, line, created, writes>>, left' \in Bounds,
         published' \subseteq created
  PROVE  LogInv' /\ Kept
<1> USE DEF LogInv, logVars
<1>1. LogOK' /\ SourceInv' /\ LineInv'
  BY DEF LogOK, SourceInv, LineInv, SomeDelete
<1> QED BY <1>1 DEF Kept, Promise!promiseVars

-----------------------------------------------------------------------------
(* The ack groups                                                           *)

WireOK == AckOK /\ WireInv

LEMMA WireFrame ==
  ASSUME WireOK, UNCHANGED <<rpc, ackVars>>, created \subseteq created'
  PROVE  WireOK'
BY DEF WireOK, AckOK, WireInv, ackVars

(* A request that enters the RPC task.                                      *)
LEMMA WireWrite ==
  ASSUME WireOK, NEW n \in Nodes, NEW w \in Write, rpc' = [rpc EXCEPT ![n] = w],
         w.event \in created', created \subseteq created', UNCHANGED ackVars
  PROVE  WireOK'
BY DEF WireOK, AckOK, WireInv, ackVars

LEMMA AnswerOK ==
  ASSUME NEW k \in Nat, NEW m \in Nat, NEW e \in Event
  PROVE  /\ Answer(k, m, e) \in AckInfo
         /\ Answer(k, m, e).events = {e} /\ Answer(k, m, e).received = k
<1>1. (k < m) \in BOOLEAN
  OBVIOUS
<1> QED BY <1>1 DEF Answer, AckInfo

LEMMA WireAdvance ==
  ASSUME WireOK, NEW n \in Nodes, NEW g \in groups[n], NEW h \in Group, NEW done \in BOOLEAN,
         Advance(n, g, h, done), reqs' \subseteq reqs, UNCHANGED <<created, next_group_id>>
  PROVE  WireOK'
<1> USE DEF WireOK
<1>1. groups' \in [Nodes -> SUBSET Group]
  BY DEF Advance, AckOK
<1>2. /\ rpc' \in [Nodes -> {NoWrite} \cup Write]
      /\ \A m \in Nodes : rpc'[m] = rpc[m] \/ rpc'[m] = NoWrite
  BY DEF Advance, AckOK, Resume
<1>3. acks' \in [Nodes -> AckInfo]
  <2>1. Answer(h.received, h.min, h.event) \in AckInfo
    BY AnswerOK DEF Group
  <2> QED BY <2>1 DEF Advance, AckOK
<1> QED BY <1>1, <1>2, <1>3 DEF AckOK, WireInv

LEMMA WireRequest ==
  ASSUME LogInv, WireOK, NEW n \in Nodes, RequestAcks(n)
  PROVE  WireOK'
<1> USE DEF WireOK
<1> DEFINE e0 == rpc[n].event
           k == next_group_id[n]
           g == [id |-> k, event |-> e0, min |-> rpc[n].min, received |-> 0,
                 outstanding |-> Cardinality(Peers(n))]
<1>1. rpc[n] \in Write /\ e0 \in created /\ e0 \in Event
  <2>1. rpc[n] # NoWrite
    BY DEF RequestAcks, NoWrite
  <2> QED BY <2>1 DEF AckOK, WireInv, LogInv, LogOK
<1>2. rpc[n].min \in Nat /\ k \in Nat
  BY <1>1 DEF Write, AckOK
<1>3. CASE Peers(n) = {}
  <2>1. rpc' = [rpc EXCEPT ![n].st = "publish"]
    BY <1>3 DEF RequestAcks
  <2>2. [rpc[n] EXCEPT !.st = "publish"] \in Write /\ [rpc[n] EXCEPT !.st = "publish"].event = e0
    BY <1>1 DEF Write
  <2>3. rpc' \in [Nodes -> {NoWrite} \cup Write] /\ rpc'[n].event = e0
    BY <2>1, <2>2 DEF AckOK
  <2>4. Answer(0, rpc[n].min, e0) \in AckInfo
    BY <1>1, <1>2, AnswerOK
  <2>5. acks' \in [Nodes -> AckInfo]
    BY <1>3, <2>4 DEF RequestAcks, AckOK
  <2> QED BY <1>1, <1>3, <2>1, <2>3, <2>5 DEF RequestAcks, AckOK, WireInv
<1>4. CASE Peers(n) # {}
  <2>1. rpc' = [rpc EXCEPT ![n].st = "publish_and_wait"]
    BY <1>4 DEF RequestAcks
  <2>2. /\ [rpc[n] EXCEPT !.st = "publish_and_wait"] \in Write
        /\ [rpc[n] EXCEPT !.st = "publish_and_wait"].event = e0
    BY <1>1 DEF Write
  <2>3. rpc' \in [Nodes -> {NoWrite} \cup Write] /\ rpc'[n].event = e0
    BY <2>1, <2>2 DEF AckOK
  <2>4. IsFiniteSet(Peers(n)) /\ Peers(n) \subseteq Nodes
    BY ReplicationAssumption, FS_Subset DEF Peers
  <2>5. Cardinality(Peers(n)) \in Nat
    BY <2>4, FS_CardinalityType
  <2>6. g \in Group
    BY <1>1, <1>2, <2>5 DEF Group
  <2>7. groups' = [groups EXCEPT ![n] = @ \cup {g}]
    BY <1>4 DEF RequestAcks
  <2>8. groups' \in [Nodes -> SUBSET Group]
    <3> HIDE DEF g
    <3> QED BY <2>6, <2>7 DEF AckOK
  <2>9. reqs' = reqs \cup [from : {n}, to : Peers(n), grp : {k}, event : {e0}, st : {"sent"}]
    BY <1>4 DEF RequestAcks
  <2>10. reqs' \subseteq Request /\ \A r \in reqs' : r.event \in created
    BY <1>1, <1>2, <2>4, <2>9 DEF AckOK, WireInv, Request
  <2>11. next_group_id' \in [Nodes -> Nat]
    BY <1>2, <1>4 DEF RequestAcks, AckOK
  <2>12. UNCHANGED <<acks, created>>
    BY <1>4 DEF RequestAcks
  <2>13. AckOK'
    BY <2>3, <2>8, <2>10, <2>11, <2>12 DEF AckOK
  <2>14. WireInv'
    BY <1>1, <2>1, <2>3, <2>10, <2>12 DEF AckOK, WireInv
  <2> QED BY <2>13, <2>14
<1> QED BY <1>3, <1>4

LEMMA WirePublish ==
  ASSUME LogInv, WireOK, NEW n \in Nodes, GossipPublish(n)
  PROVE  WireOK' /\ published' \subseteq created
<1> USE DEF WireOK
<1>1. rpc[n] \in Write /\ rpc[n].event \in created
  <2>1. rpc[n] # NoWrite
    BY DEF GossipPublish, NoWrite
  <2> QED BY <2>1 DEF AckOK, WireInv
<1>2. [rpc[n] EXCEPT !.st = "wait"] \in Write /\ [rpc[n] EXCEPT !.st = "wait"].event = rpc[n].event
  BY <1>1 DEF Write
<1>3. \/ rpc' = [rpc EXCEPT ![n] = NoWrite]
      \/ rpc' = [rpc EXCEPT ![n] = [rpc[n] EXCEPT !.st = "wait"]]
  BY DEF GossipPublish
<1>4. rpc' \in [Nodes -> {NoWrite} \cup Write]
  BY <1>2, <1>3 DEF AckOK
<1>5. \A m \in Nodes : rpc'[m] # NoWrite => rpc'[m].event \in created
  BY <1>1, <1>2, <1>3 DEF AckOK, WireInv
<1> QED BY <1>1, <1>4, <1>5 DEF GossipPublish, AckOK, WireInv, ackVars, LogInv, SourceInv

(* A request with its response is about the same event.                     *)
LEMMA ResponseOK ==
  ASSUME NEW r \in Request, NEW b \in BOOLEAN
  PROVE  /\ SendResponse(r, b) \in Request
         /\ SendResponse(r, b).event = r.event /\ SendResponse(r, b).grp = r.grp
         /\ SendResponse(r, b).from = r.from /\ SendResponse(r, b).to = r.to
         /\ SendResponse(r, b).st = (IF b THEN "yes" ELSE "no")
BY DEF SendResponse, Request

LEMMA WireAck ==
  ASSUME WireOK, NEW r, AckRequest(r)
  PROVE  /\ WireOK'
         /\ r \in Request /\ r.event \in created
         /\ \E b \in BOOLEAN : reqs' = (reqs \ {r}) \cup {SendResponse(r, b)}
<1> USE DEF WireOK
<1>1. r \in Request /\ r.event \in created
  BY DEF AckRequest, AckOK, WireInv
<1>2. PICK b \in BOOLEAN : reqs' = (reqs \ {r}) \cup {SendResponse(r, b)}
  <2>1. (r.event \in mem'[r.to]) \in BOOLEAN
    OBVIOUS
  <2> QED BY <2>1 DEF AckRequest
<1>3. SendResponse(r, b) \in Request /\ SendResponse(r, b).event = r.event
  BY <1>1, ResponseOK
<1>4. reqs' \subseteq Request /\ \A q \in reqs' : q.event \in created
  BY <1>1, <1>2, <1>3 DEF AckOK, WireInv
<1> QED BY <1>1, <1>2, <1>4 DEF AckRequest, AckOK, WireInv

LEMMA GroupOK ==
  ASSUME NEW g \in Group, NEW k \in Nat
  PROVE  /\ [g EXCEPT !.received = @ + k, !.outstanding = @ - 1] \in Group
         /\ [g EXCEPT !.outstanding = @ - 1] \in Group
<1>1. g.received + k \in Nat /\ g.outstanding - 1 \in Int
  BY DEF Group
<1> QED BY <1>1 DEF Group

(* What the end of a request does to its group.                             *)
LEMMA WireEnd ==
  ASSUME WireOK, NEW r, AckResponse(r) \/ AckFailure(r)
  PROVE  /\ WireOK' /\ r \in reqs /\ reqs' = reqs \ {r}
         /\ UNCHANGED <<logVars, line, created, writes, published, next_group_id, left>>
<1> USE DEF WireOK
<1>1. /\ r \in reqs /\ reqs' = reqs \ {r}
      /\ UNCHANGED <<logVars, line, created, writes, published, next_group_id, left>>
  BY DEF AckResponse, AckFailure
<1>2. r \in Request /\ r.from \in Nodes
  BY <1>1 DEF AckOK, Request
<1>3. CASE UNCHANGED <<groups, acks, rpc>>
  BY <1>1, <1>3 DEF AckOK, WireInv
<1>4. ASSUME NEW g \in GroupOf(r), NEW h \in Group, NEW done \in BOOLEAN,
             Advance(r.from, g, h, done)
      PROVE  WireOK'
  BY <1>1, <1>2, <1>4, WireAdvance DEF GroupOf
<1>5. CASE AckResponse(r) /\ ~UNCHANGED <<groups, acks, rpc>>
  <2>1. PICK g \in GroupOf(r) :
           LET h == [g EXCEPT !.received = @ + Counts(r), !.outstanding = @ - 1]
           IN  Advance(r.from, g, h, h.received >= h.min \/ h.outstanding = 0)
    BY <1>5 DEF AckResponse
  <2> DEFINE h == [g EXCEPT !.received = @ + Counts(r), !.outstanding = @ - 1]
  <2>2. g \in Group /\ Counts(r) \in Nat
    BY <1>2 DEF GroupOf, AckOK, Counts
  <2>3. h \in Group
    BY <2>2, GroupOK
  <2>4. (h.received >= h.min \/ h.outstanding = 0) \in BOOLEAN
    OBVIOUS
  <2> QED BY <2>1, <2>3, <2>4, <1>4, <1>1
<1>6. CASE AckFailure(r) /\ ~UNCHANGED <<groups, acks, rpc>>
  <2>1. PICK g \in GroupOf(r) :
           LET h == [g EXCEPT !.outstanding = @ - 1]
           IN  Advance(r.from, g, h, Exhausted(h))
    BY <1>6 DEF AckFailure
  <2> DEFINE h == [g EXCEPT !.outstanding = @ - 1]
  <2>2. g \in Group
    BY <1>2 DEF GroupOf, AckOK
  <2>3. h \in Group
    BY <2>2, GroupOK
  <2>4. Exhausted(h) \in BOOLEAN
    BY DEF Exhausted
  <2> QED BY <2>1, <2>3, <2>4, <1>4, <1>1
<1> QED BY <1>1, <1>3, <1>5, <1>6

LEMMA WireSweep ==
  ASSUME WireOK, NEW n \in Nodes, SweepGroups(n)
  PROVE  WireOK'
<1>1. PICK g \in groups[n] : Advance(n, g, g, TRUE) /\ UNCHANGED <<reqs, next_group_id, created>>
  BY DEF SweepGroups
<1>2. g \in Group
  BY DEF WireOK, AckOK
<1> QED BY <1>1, <1>2, WireAdvance

LEMMA WireCrash ==
  ASSUME WireOK, NEW n \in Nodes, Crash(n)
  PROVE  WireOK'
<1>1. NoAcks \in AckInfo
  BY DEF NoAcks, AckInfo
<1> QED BY <1>1 DEF WireOK, AckOK, WireInv, Crash, FreshSwarm

-----------------------------------------------------------------------------

(* Every step keeps the invariant and is one of the promise.                *)
LEMMA PromiseStep == PromiseInv /\ [ReplicationNext]_repVars => PromiseInv' /\ Kept
<1> SUFFICES ASSUME PromiseInv, [ReplicationNext]_repVars
             PROVE  LogInv' /\ WireOK' /\ Kept
  BY DEF PromiseInv, WireOK
<1>0. LogInv /\ WireOK /\ left \in Bounds /\ published \subseteq created
  BY DEF PromiseInv, WireOK, LogInv, LogOK, SourceInv
<1>1. ASSUME NEW n \in Writers, NEW m \in left.min_acks, create_event(n, m)
      PROVE  LogInv' /\ WireOK' /\ Kept
  <2>1. n \in Nodes /\ m \in Nat
    BY <1>0, ReplicationAssumption DEF Bounds
  <2>2. LogInv' /\ Kept /\ NextKey(n, "data") \in Event
    BY <1>0, <1>1, <2>1, CreateKeeps
  <2> DEFINE w == [st |-> IF m > 0 THEN "ask" ELSE "publish", event |-> NextKey(n, "data"), min |-> m]
  <2>3. w \in Write /\ w.event = NextKey(n, "data")
    BY <2>1, <2>2 DEF Write
  <2>4. /\ rpc' = [rpc EXCEPT ![n] = w]
        /\ created' = created \cup {NextKey(n, "data")} /\ UNCHANGED ackVars
    BY <1>1 DEF create_event
  <2> QED BY <1>0, <2>1, <2>2, <2>3, <2>4, WireWrite
<1>2. ASSUME NEW n \in Writers, delete_bucket(n)
      PROVE  LogInv' /\ WireOK' /\ Kept
  <2>1. n \in Nodes
    BY ReplicationAssumption
  <2>2. LogInv' /\ Kept /\ NextKey(n, "meta") \in Event
    BY <1>0, <1>2, <2>1, DeleteKeeps
  <2> DEFINE w == [st |-> "publish", event |-> NextKey(n, "meta"), min |-> 0]
  <2>3. w \in Write /\ w.event = NextKey(n, "meta")
    BY <2>2 DEF Write
  <2>4. /\ rpc' = [rpc EXCEPT ![n] = w]
        /\ created' = created \cup {NextKey(n, "meta")} /\ UNCHANGED ackVars
    BY <1>2 DEF delete_bucket
  <2> QED BY <1>0, <2>1, <2>2, <2>3, <2>4, WireWrite
<1>3. ASSUME NEW n \in Nodes, RequestAcks(n)
      PROVE  LogInv' /\ WireOK' /\ Kept
  BY <1>0, <1>3, WireRequest, LogFrame DEF RequestAcks
<1>4. ASSUME NEW n \in Nodes, GossipPublish(n)
      PROVE  LogInv' /\ WireOK' /\ Kept
  <2>1. WireOK' /\ published' \subseteq created
    BY <1>0, <1>4, WirePublish
  <2> QED BY <1>0, <1>4, <2>1, LogFrame DEF GossipPublish
<1>5. ASSUME NEW n \in Nodes, SweepGroups(n)
      PROVE  LogInv' /\ WireOK' /\ Kept
  BY <1>0, <1>5, WireSweep, LogFrame DEF SweepGroups
<1>6. ASSUME NEW n \in Nodes, NEW e \in published, GossipMessage(n, e)
      PROVE  LogInv' /\ WireOK' /\ Kept
  <2>1. {e} \subseteq created /\ insert_events(n, {e})
    BY <1>0, <1>6 DEF GossipMessage
  <2>2. UNCHANGED <<created, writes, published, left, rpc, ackVars>>
    BY <1>6 DEF GossipMessage
  <2> QED BY <1>0, <2>1, <2>2, InsertKeeps, WireFrame
<1>7. ASSUME NEW n \in Nodes, NEW p \in Nodes, QueryHeads(n, p)
      PROVE  LogInv' /\ WireOK' /\ Kept
  BY <1>0, <1>7, WireFrame, LogFrame DEF QueryHeads
<1>8. ASSUME NEW n \in Nodes, QueryRange(n)
      PROVE  LogInv' /\ WireOK' /\ Kept
  <2>1. PICK w \in catchup[n].want :
           insert_events(n, RangeResponse(catchup[n].peer, w[1], w[2]))
    BY <1>8 DEF QueryRange
  <2>2. catchup[n].peer \in Nodes
    BY <1>8 DEF QueryRange, Peers
  <2>3. RangeResponse(catchup[n].peer, w[1], w[2]) \subseteq created
    BY <1>0, <2>2 DEF RangeResponse, LogInv, SourceInv
  <2>4. UNCHANGED <<created, writes, published, left, rpc, ackVars>>
    BY <1>8 DEF QueryRange
  <2> QED BY <1>0, <2>1, <2>3, <2>4, InsertKeeps, WireFrame
<1>9. ASSUME NEW n \in Nodes, QueryRangeFails(n)
      PROVE  LogInv' /\ WireOK' /\ Kept
  BY <1>0, <1>9, WireFrame, LogFrame DEF QueryRangeFails
<1>10. ASSUME NEW n \in Nodes, Flush(n)
       PROVE  LogInv' /\ WireOK' /\ Kept
  BY <1>0, <1>10, WireFrame, FlushKeeps DEF Flush
<1>11. ASSUME NEW n \in Nodes, NEW p \in Nodes, LinkDown(n, p) \/ LinkUp(n, p)
       PROVE  LogInv' /\ WireOK' /\ Kept
  <2>1. left' \in Bounds
    BY <1>0, <1>11, SpendBounds DEF LinkDown, LinkUp
  <2>2. UNCHANGED <<logVars, line, created, writes, published, rpc, ackVars>>
    BY <1>11 DEF LinkDown, LinkUp
  <2> QED BY <1>0, <2>1, <2>2, WireFrame, LogFrame
<1>12. ASSUME NEW n \in Nodes, Crash(n)
       PROVE  LogInv' /\ WireOK' /\ Kept
  BY <1>0, <1>12, WireCrash, CrashKeeps
<1>13. ASSUME NEW n \in Nodes, start_node(n)
       PROVE  LogInv' /\ WireOK' /\ Kept
  BY <1>0, <1>13, WireFrame, StartKeeps DEF start_node
<1>14. ASSUME NEW n \in Nodes, Ready(n)
       PROVE  LogInv' /\ WireOK' /\ Kept
  BY <1>0, <1>14, WireFrame, LogFrame DEF Ready
<1>15. ASSUME NEW r \in reqs, AckRequest(r)
       PROVE  LogInv' /\ WireOK' /\ Kept
  <2>1. WireOK' /\ r \in Request /\ r.event \in created
    BY <1>0, <1>15, WireAck
  <2>2. r.to \in Nodes /\ {r.event} \subseteq created
    BY <2>1 DEF Request
  <2> QED BY <1>0, <1>15, <2>1, <2>2, InsertKeeps DEF AckRequest
<1>16. ASSUME NEW r \in reqs, AckResponse(r) \/ AckFailure(r)
       PROVE  LogInv' /\ WireOK' /\ Kept
  BY <1>0, <1>16, WireEnd, LogFrame
<1>17. CASE UNCHANGED repVars
  BY <1>0, <1>17, WireFrame, LogFrame DEF repVars, logVars, ackVars
<1> QED
  BY <1>1, <1>2, <1>3, <1>4, <1>5, <1>6, <1>7, <1>8, <1>9, <1>10, <1>11, <1>12, <1>13, <1>14,
     <1>15, <1>16, <1>17 DEF ReplicationNext

(* The databases of any cluster keep the promise: gossip, acks, catch-up,   *)
(* the batch writer and restarts only ever issue a key once, store what was *)
(* issued and erase what a deletion took (state.rs, p2p.rs, sync of         *)
(* server.rs).                                                              *)
THEOREM ClusterKeepsPromise == ReplicationSpec => KeepsPromise
<1>1. InitReplication => Promise!Init
  BY DEF InitReplication, Promise!Init
<1>2. PromiseInv /\ [ReplicationNext]_repVars
        => PromiseInv' /\ [Promise!Next]_(Promise!promiseVars)
  BY PromiseStep DEF Kept
<1> QED BY <1>1, <1>2, StartsEmpty, PTL DEF ReplicationSpec, KeepsPromise, Promise!Spec

-----------------------------------------------------------------------------
(* The quorum                                                               *)

LEMMA HoldersFinite ==
  ASSUME NEW n, NEW id, NEW e
  PROVE  /\ IsFiniteSet(Holders(n, e)) /\ CountedPeers(n, id, e) \subseteq Holders(n, e)
         /\ IsFiniteSet(CountedPeers(n, id, e))
         /\ Cardinality(CountedPeers(n, id, e)) \in Nat /\ Cardinality(Holders(n, e)) \in Nat
         /\ Cardinality(CountedPeers(n, id, e)) <= Cardinality(Holders(n, e))
<1>1. Holders(n, e) \subseteq Nodes /\ CountedPeers(n, id, e) \subseteq Holders(n, e)
  BY DEF Holders, CountedPeers
<1>2. IsFiniteSet(Holders(n, e))
  BY <1>1, FS_Subset, ReplicationAssumption
<1> QED BY <1>1, <1>2, FS_Subset, FS_CardinalityType

(* Nobody who had an event ceases to have had it, and nobody who is no      *)
(* longer asked is asked again.                                             *)
LEMMA CountGrows ==
  ASSUME got \subseteq got', NEW n, NEW id, NEW e,
         \A p \in Nodes : Asked(n, id, p)' => Asked(n, id, p)
  PROVE  Cardinality(CountedPeers(n, id, e)) <= Cardinality(CountedPeers(n, id, e)')
<1>1. CountedPeers(n, id, e) \subseteq CountedPeers(n, id, e)'
  BY DEF CountedPeers, Holders
<1>2. CountedPeers(n, id, e)' \subseteq Nodes
  BY DEF CountedPeers, Holders
<1>3. IsFiniteSet(CountedPeers(n, id, e)')
  BY <1>2, FS_Subset, ReplicationAssumption
<1> QED BY <1>1, <1>3, FS_Subset

LEMMA CountedNat ==
  ASSUME NEW n, NEW id, NEW e
  PROVE  /\ IsFiniteSet(CountedPeers(n, id, e)') /\ IsFiniteSet(Holders(n, e)')
         /\ Cardinality(CountedPeers(n, id, e)') \in Nat /\ Cardinality(Holders(n, e)') \in Nat
         /\ Cardinality(CountedPeers(n, id, e)') <= Cardinality(Holders(n, e)')
<1>1. Holders(n, e)' \subseteq Nodes /\ CountedPeers(n, id, e)' \subseteq Holders(n, e)'
  BY DEF Holders, CountedPeers
<1>2. IsFiniteSet(Holders(n, e)')
  BY <1>1, FS_Subset, ReplicationAssumption
<1> QED BY <1>1, <1>2, FS_Subset, FS_CardinalityType

LEMMA HeldGrows ==
  ASSUME AckOK, QuorumMeansHeld, got \subseteq got', NEW n \in Nodes, acks'[n] = acks[n]
  PROVE  \A e \in acks'[n].events : acks'[n].received <= Cardinality(Holders(n, e)')
<1> SUFFICES ASSUME NEW e \in acks[n].events
             PROVE  acks[n].received <= Cardinality(Holders(n, e)')
  OBVIOUS
<1>1. acks[n].received <= Cardinality(Holders(n, e))
  BY DEF QuorumMeansHeld, Holders
<1>2. Holders(n, e) \subseteq Holders(n, e)' /\ Holders(n, e)' \subseteq Nodes
  BY DEF Holders
<1>3. IsFiniteSet(Holders(n, e)')
  BY <1>2, FS_Subset, ReplicationAssumption
<1>4. Cardinality(Holders(n, e)) <= Cardinality(Holders(n, e)')
  BY <1>2, <1>3, FS_Subset
<1>5. Cardinality(Holders(n, e)) \in Nat /\ Cardinality(Holders(n, e)') \in Nat
  BY HoldersFinite, CountedNat
<1>6. acks[n].received \in Nat
  BY DEF AckOK, AckInfo
<1> QED BY <1>1, <1>4, <1>5, <1>6

AckInv == ReqInv /\ CountInv /\ QuorumMeansHeld

(* What a node has now it has had.                                          *)
MemGot == \A n \in Nodes : \A e \in mem[n] : <<n, e>> \in got

(* Steps that leave the ack groups alone.                                   *)
LEMMA AckFrame ==
  ASSUME WireOK, AckInv, got \subseteq got', MemGot', UNCHANGED ackVars
  PROVE  AckInv'
<1>1. ReqInv'
  BY DEF AckInv, ReqInv, MemGot, ackVars
<1>2. CountInv'
  <2> SUFFICES ASSUME NEW n \in Nodes, NEW g \in groups[n]
               PROVE  g.received <= Cardinality(CountedPeers(n, g.id, g.event)')
    BY DEF CountInv, ackVars
  <2>1. \A p \in Nodes : Asked(n, g.id, p)' => Asked(n, g.id, p)
    BY DEF Asked, ackVars
  <2>2. Cardinality(CountedPeers(n, g.id, g.event)) <= Cardinality(CountedPeers(n, g.id, g.event)')
    BY <2>1, CountGrows
  <2>3. g.received <= Cardinality(CountedPeers(n, g.id, g.event)) /\ g.received \in Nat
    BY DEF AckInv, CountInv, WireOK, AckOK, Group
  <2> QED BY <2>2, <2>3, HoldersFinite, CountedNat
<1>3. QuorumMeansHeld'
  BY HeldGrows DEF QuorumMeansHeld, Holders, ackVars, AckInv, WireOK
<1> QED BY <1>1, <1>2, <1>3 DEF AckInv

(* What a node hears of, it has had.                                        *)
LEMMA InsertGot ==
  ASSUME LogInv, MemGot, NEW n \in Nodes, NEW S, insert_events(n, S)
  PROVE  MemGot' /\ got \subseteq got'
<1> DEFINE fresh == {e \in S : e \notin mem[n] /\ ~Refuses(n, e)}
<1>1. /\ mem'[n] \subseteq mem[n] \cup fresh
      /\ \A m \in Nodes \ {n} : mem'[m] = mem[m]
      /\ got' = got \cup ({n} \X fresh)
  BY DEF insert_events, LogInv, LogOK, WithoutBucket
<1> HIDE DEF fresh
<1> QED BY <1>1 DEF MemGot

LEMMA AckAsks ==
  ASSUME LogInv, WireOK, AckInv, NEW n \in Nodes, RequestAcks(n)
  PROVE  AckInv'
<1> DEFINE e0 == rpc[n].event
           k == next_group_id[n]
           g0 == [id |-> k, event |-> e0, min |-> rpc[n].min, received |-> 0,
                  outstanding |-> Cardinality(Peers(n))]
           asks == [from : {n}, to : Peers(n), grp : {k}, event : {e0}, st : {"sent"}]
<1>0. UNCHANGED <<mem, got>>
  BY DEF RequestAcks, logVars
<1>1. CASE Peers(n) = {}
  <2>1. /\ UNCHANGED <<groups, next_group_id, reqs>>
        /\ acks' = [acks EXCEPT ![n] = Answer(0, rpc[n].min, e0)]
    BY <1>1 DEF RequestAcks
  <2>2. ReqInv' /\ CountInv'
    BY <1>0, <2>1 DEF AckInv, ReqInv, CountInv, CountedPeers, Holders, Asked
  <2>3. QuorumMeansHeld'
    <3> SUFFICES ASSUME NEW m \in Nodes, NEW e \in acks'[m].events
                 PROVE  acks'[m].received <= Cardinality(Holders(m, e)')
      BY DEF QuorumMeansHeld, Holders
    <3>1. CASE m = n
      <4>1. acks'[m].received = 0
        BY <2>1, <3>1 DEF WireOK, AckOK, Answer
      <4> QED BY <4>1, CountedNat
    <3>2. CASE m # n
      BY <1>0, <2>1, <3>2, HeldGrows DEF AckInv, WireOK, AckOK
    <3> QED BY <3>1, <3>2
  <2> QED BY <2>2, <2>3 DEF AckInv
<1>2. CASE Peers(n) # {}
  <2>1. /\ groups' = [groups EXCEPT ![n] = @ \cup {g0}]
        /\ next_group_id' = [next_group_id EXCEPT ![n] = k + 1]
        /\ reqs' = reqs \cup asks /\ UNCHANGED acks
    BY <1>2 DEF RequestAcks
  <2>2. /\ \A r \in asks : r.from = n /\ r.to \in Nodes \ {n} /\ r.grp = k /\ r.event = e0
                           /\ r.st = "sent"
        /\ \A r, q \in asks : r.to = q.to => r = q
    BY DEF Peers
  <2>3. g0.id = k /\ g0.event = e0 /\ g0.received = 0
    OBVIOUS
  <2> HIDE DEF asks, g0
  <2>4. /\ groups'[n] = groups[n] \cup {g0} /\ next_group_id'[n] = k + 1
        /\ \A m \in Nodes \ {n} : groups'[m] = groups[m] /\ next_group_id'[m] = next_group_id[m]
        /\ k \in Nat /\ next_group_id \in [Nodes -> Nat]
    BY <2>1 DEF WireOK, AckOK
  <2>5. /\ \A r \in reqs : r.from \in Nodes /\ r.grp \in Nat /\ r.grp < next_group_id[r.from]
        /\ \A m \in Nodes : \A g \in groups[m] : g.id \in Nat /\ g.id < next_group_id[m]
    BY DEF WireOK, AckOK, Request, Group, AckInv, ReqInv
  <2>6. \A r \in reqs : r.from = n => r.grp # k
    BY <2>4, <2>5
  <2>7. ReqInv'
    <3>1. \A r \in reqs' : r.grp < next_group_id'[r.from] /\ r.to # r.from
      BY <2>1, <2>2, <2>4, <2>5 DEF AckInv, ReqInv
    <3>2. \A r, q \in reqs' : r.from = q.from /\ r.to = q.to /\ r.grp = q.grp => r = q
      BY <2>1, <2>2, <2>6 DEF AckInv, ReqInv
    <3>3. \A r \in reqs' : r.st = "yes" => <<r.to, r.event>> \in got'
      BY <1>0, <2>1, <2>2 DEF AckInv, ReqInv
    <3>4. \A m \in Nodes : \A g \in groups'[m] : g.id < next_group_id'[m]
      <4> SUFFICES ASSUME NEW m \in Nodes, NEW g \in groups'[m] PROVE g.id < next_group_id'[m]
        OBVIOUS
      <4>1. CASE m = n
        BY <4>1, <2>3, <2>4, <2>5
      <4>2. CASE m # n
        BY <4>2, <2>4, <2>5
      <4> QED BY <4>1, <4>2
    <3>5. \A m \in Nodes : \A g, h \in groups'[m] : g.id = h.id => g = h
      <4> SUFFICES ASSUME NEW m \in Nodes, NEW g \in groups'[m], NEW h \in groups'[m], g.id = h.id
                   PROVE g = h
        OBVIOUS
      <4>0. \A x \in groups[n] : x.id # k
        BY <2>4, <2>5
      <4>1. CASE m = n
        BY <4>0, <4>1, <2>3, <2>4 DEF AckInv, ReqInv
      <4>2. CASE m # n
        BY <4>2, <2>4 DEF AckInv, ReqInv
      <4> QED BY <4>1, <4>2
    <3>6. \A r \in reqs' : \A g \in groups'[r.from] : g.id = r.grp => g.event = r.event
      <4> SUFFICES ASSUME NEW r \in reqs', NEW g \in groups'[r.from], g.id = r.grp
                   PROVE  g.event = r.event
        OBVIOUS
      <4>0. \A x \in groups[n] : x.id # k
        BY <2>4, <2>5
      <4>1. CASE r \in asks
        BY <4>0, <4>1, <2>2, <2>3, <2>4
      <4>2. CASE r \in reqs
        BY <4>2, <2>3, <2>4, <2>5, <2>6 DEF AckInv, ReqInv
      <4> QED BY <4>1, <4>2, <2>1
    <3> QED BY <1>0, <3>1, <3>2, <3>3, <3>4, <3>5, <3>6 DEF AckInv, ReqInv
  <2>8. CountInv'
    <3> SUFFICES ASSUME NEW m \in Nodes, NEW g \in groups'[m]
                 PROVE  g.received <= Cardinality(CountedPeers(m, g.id, g.event)')
      BY DEF CountInv
    <3>1. CASE m = n /\ g = g0
      BY <3>1, <2>3, CountedNat
    <3>2. CASE g \in groups[m]
      <4>1. m # n \/ g.id # k
        BY <3>2, <2>4, <2>5
      <4>2. \A p \in Nodes : Asked(m, g.id, p)' => Asked(m, g.id, p)
        BY <4>1, <2>1, <2>2 DEF Asked
      <4>3. Cardinality(CountedPeers(m, g.id, g.event))
              <= Cardinality(CountedPeers(m, g.id, g.event)')
        BY <1>0, <4>2, CountGrows
      <4>4. g.received <= Cardinality(CountedPeers(m, g.id, g.event)) /\ g.received \in Nat
        BY <3>2 DEF AckInv, CountInv, WireOK, AckOK, Group
      <4> QED BY <4>3, <4>4, HoldersFinite, CountedNat
    <3> QED BY <3>1, <3>2, <2>4
  <2>9. QuorumMeansHeld'
    BY <1>0, <2>1, HeldGrows DEF QuorumMeansHeld, Holders, AckInv, WireOK
  <2> QED BY <2>7, <2>8, <2>9 DEF AckInv
<1> QED BY <1>1, <1>2

(* The peer answers what is true when it answers.                           *)
LEMMA AckAnswers ==
  ASSUME LogInv, WireOK, AckInv, NEW r, AckRequest(r)
  PROVE  AckInv'
<1> DEFINE b == r.event \in mem'[r.to]
           q0 == SendResponse(r, b)
<1>1. /\ r \in reqs /\ r \in Request /\ insert_events(r.to, {r.event})
      /\ reqs' = (reqs \ {r}) \cup {q0}
      /\ UNCHANGED <<groups, next_group_id, acks>>
  BY DEF AckRequest, WireOK, AckOK
<1>2. b \in BOOLEAN /\ r.to \in Nodes /\ r.from \in Nodes
  BY <1>1 DEF Request
<1>3. /\ q0.event = r.event /\ q0.grp = r.grp /\ q0.from = r.from /\ q0.to = r.to
      /\ q0.st = "yes" => b
  BY <1>1, <1>2, ResponseOK
<1>4. MemGot' /\ got \subseteq got'
  BY <1>1, <1>2, InsertGot DEF AckInv, ReqInv, MemGot
<1>5. q0.st = "yes" => <<q0.to, q0.event>> \in got'
  BY <1>2, <1>3, <1>4 DEF MemGot
<1> HIDE DEF b, q0
<1>6. \A n, id, p : Asked(n, id, p)' => Asked(n, id, p)
  BY <1>1, <1>3 DEF Asked
<1>7. ReqInv'
  <2>1. \A x \in reqs' : x.grp < next_group_id[x.from] /\ x.to # x.from
    BY <1>1, <1>3 DEF AckInv, ReqInv
  <2>2. \A x, q \in reqs' : x.from = q.from /\ x.to = q.to /\ x.grp = q.grp => x = q
    BY <1>1, <1>3 DEF AckInv, ReqInv
  <2>3. \A x \in reqs' : x.st = "yes" => <<x.to, x.event>> \in got'
    BY <1>1, <1>4, <1>5 DEF AckInv, ReqInv
  <2>4. \A x \in reqs' : \A g \in groups[x.from] : g.id = x.grp => g.event = x.event
    BY <1>1, <1>3 DEF AckInv, ReqInv
  <2> QED BY <1>1, <1>4, <2>1, <2>2, <2>3, <2>4 DEF AckInv, ReqInv, MemGot
<1>8. CountInv'
  <2> SUFFICES ASSUME NEW n \in Nodes, NEW g \in groups[n]
               PROVE  g.received <= Cardinality(CountedPeers(n, g.id, g.event)')
    BY <1>1 DEF CountInv
  <2>1. Cardinality(CountedPeers(n, g.id, g.event)) <= Cardinality(CountedPeers(n, g.id, g.event)')
    BY <1>4, <1>6, CountGrows
  <2>2. g.received <= Cardinality(CountedPeers(n, g.id, g.event)) /\ g.received \in Nat
    BY DEF AckInv, CountInv, WireOK, AckOK, Group
  <2> QED BY <2>1, <2>2, HoldersFinite, CountedNat
<1>9. QuorumMeansHeld'
  BY <1>1, <1>4, HeldGrows DEF QuorumMeansHeld, Holders, AckInv, WireOK
<1> QED BY <1>7, <1>8, <1>9 DEF AckInv

(* Progress of a group whose count is covered.                              *)
LEMMA AckAdvances ==
  ASSUME WireOK, AckInv, NEW n \in Nodes, NEW g \in groups[n], NEW h \in Group,
         NEW done \in BOOLEAN, Advance(n, g, h, done), h.id = g.id, h.event = g.event,
         reqs' \subseteq reqs, UNCHANGED <<mem, got, next_group_id>>,
         h.received <= Cardinality(CountedPeers(n, g.id, g.event)')
  PROVE  AckInv'
<1>1. /\ groups'[n] \subseteq (groups[n] \ {g}) \cup {h}
      /\ \A m \in Nodes \ {n} : groups'[m] = groups[m] /\ acks'[m] = acks[m]
      /\ acks'[n] = acks[n] \/ acks'[n] = Answer(h.received, h.min, h.event)
  BY DEF Advance, WireOK, AckOK
<1>2. \A m, id, p : Asked(m, id, p)' => Asked(m, id, p)
  BY DEF Asked
<1>3. ReqInv'
  <2>1. \A m \in Nodes : \A x \in groups'[m] : x.id < next_group_id'[m]
    BY <1>1 DEF AckInv, ReqInv
  <2>2. \A m \in Nodes : \A x, y \in groups'[m] : x.id = y.id => x = y
    BY <1>1 DEF AckInv, ReqInv
  <2>3. \A r \in reqs' : \A x \in groups'[r.from] : x.id = r.grp => x.event = r.event
    <3> SUFFICES ASSUME NEW r \in reqs', NEW x \in groups'[r.from], x.id = r.grp
                 PROVE  x.event = r.event
      OBVIOUS
    <3>1. r \in reqs /\ r.from \in Nodes
      BY DEF WireOK, AckOK, Request
    <3> QED BY <1>1, <3>1 DEF AckInv, ReqInv
  <2> QED BY <2>1, <2>2, <2>3 DEF AckInv, ReqInv
<1>4. CountInv'
  <2> SUFFICES ASSUME NEW m \in Nodes, NEW x \in groups'[m]
               PROVE  x.received <= Cardinality(CountedPeers(m, x.id, x.event)')
    BY DEF CountInv
  <2>1. CASE x \in groups[m]
    <3>1. Cardinality(CountedPeers(m, x.id, x.event))
            <= Cardinality(CountedPeers(m, x.id, x.event)')
      BY <1>2, CountGrows
    <3>2. x.received <= Cardinality(CountedPeers(m, x.id, x.event)) /\ x.received \in Nat
      BY <2>1 DEF AckInv, CountInv, WireOK, AckOK, Group
    <3> QED BY <3>1, <3>2, HoldersFinite, CountedNat
  <2>2. CASE m = n /\ x = h
    BY <2>2
  <2> QED BY <2>1, <2>2, <1>1
<1>5. QuorumMeansHeld'
  <2> SUFFICES ASSUME NEW m \in Nodes, NEW e \in acks'[m].events
               PROVE  acks'[m].received <= Cardinality(Holders(m, e)')
    BY DEF QuorumMeansHeld, Holders
  <2>1. CASE acks'[m] = acks[m]
    BY <2>1, HeldGrows DEF AckInv, WireOK
  <2>2. CASE m = n /\ acks'[n] = Answer(h.received, h.min, h.event)
    <3>1. acks'[n].received = h.received /\ e = h.event /\ h.received \in Nat
      BY <2>2, AnswerOK DEF Group
    <3> QED BY <2>2, <3>1, CountedNat
  <2> QED BY <1>1, <2>1, <2>2
<1> QED BY <1>3, <1>4, <1>5 DEF AckInv

(* A response that counts stands for a peer that no other response of the   *)
(* group stands for.                                                        *)
LEMMA AckEnds ==
  ASSUME WireOK, AckInv, NEW r, AckResponse(r) \/ AckFailure(r)
  PROVE  AckInv'
<1>1. /\ r \in reqs /\ reqs' = reqs \ {r} /\ UNCHANGED <<mem, got, next_group_id>>
  BY WireEnd DEF logVars
<1>2. r \in Request /\ r.from \in Nodes /\ r.to \in Nodes /\ r.to # r.from
  BY <1>1 DEF WireOK, AckOK, Request, AckInv, ReqInv
<1>3. \A m, id, p : Asked(m, id, p)' => Asked(m, id, p)
  BY <1>1 DEF Asked
<1>4. CASE UNCHANGED <<groups, acks, rpc>>
  <2>1. ReqInv'
    BY <1>1, <1>4 DEF AckInv, ReqInv
  <2>2. CountInv'
    <3> SUFFICES ASSUME NEW n \in Nodes, NEW g \in groups[n]
                 PROVE  g.received <= Cardinality(CountedPeers(n, g.id, g.event)')
      BY <1>4 DEF CountInv
    <3>1. Cardinality(CountedPeers(n, g.id, g.event))
            <= Cardinality(CountedPeers(n, g.id, g.event)')
      BY <1>1, <1>3, CountGrows
    <3>2. g.received <= Cardinality(CountedPeers(n, g.id, g.event)) /\ g.received \in Nat
      BY DEF AckInv, CountInv, WireOK, AckOK, Group
    <3> QED BY <3>1, <3>2, HoldersFinite, CountedNat
  <2>3. QuorumMeansHeld'
    BY <1>1, <1>4, HeldGrows DEF QuorumMeansHeld, Holders, AckInv, WireOK
  <2> QED BY <2>1, <2>2, <2>3 DEF AckInv
<1>5. ASSUME NEW g \in GroupOf(r)
      PROVE  /\ g \in groups[r.from] /\ g \in Group /\ g.received \in Nat /\ g.event = r.event
             /\ g.received <= Cardinality(CountedPeers(r.from, g.id, g.event)')
             /\ r.st = "yes" => g.received + 1 <= Cardinality(CountedPeers(r.from, g.id, g.event)')
  <2> DEFINE old == CountedPeers(r.from, g.id, g.event)
             new == CountedPeers(r.from, g.id, g.event)'
  <2>1. g \in groups[r.from] /\ g.id = r.grp /\ g \in Group /\ g.event = r.event
    BY <1>1, <1>2 DEF GroupOf, WireOK, AckOK, AckInv, ReqInv
  <2>2. g.received <= Cardinality(old) /\ g.received \in Nat
    BY <1>2, <2>1 DEF AckInv, CountInv, Group
  <2>3. Cardinality(old) <= Cardinality(new)
    BY <1>1, <1>3, CountGrows
  <2>4. Cardinality(old) \in Nat /\ IsFiniteSet(old) /\ Cardinality(new) \in Nat /\ IsFiniteSet(new)
    BY HoldersFinite, CountedNat
  <2>5. ASSUME r.st = "yes" PROVE g.received + 1 <= Cardinality(new)
    <3>1. <<r.to, r.event>> \in got /\ Asked(r.from, g.id, r.to)
      BY <1>1, <2>1, <2>5 DEF AckInv, ReqInv, Asked
    <3>2. ~Asked(r.from, g.id, r.to)'
      BY <1>1, <2>1 DEF Asked, AckInv, ReqInv
    <3>3. r.to \notin old /\ r.to \in new
      BY <1>1, <1>2, <2>1, <3>1, <3>2 DEF CountedPeers, Holders
    <3>4. old \subseteq new
      BY <1>1, <1>3 DEF CountedPeers, Holders
    <3> HIDE DEF old, new
    <3>5. Cardinality(old \cup {r.to}) = Cardinality(old) + 1
      BY <2>4, <3>3, FS_AddElement
    <3>6. Cardinality(old \cup {r.to}) <= Cardinality(new)
      BY <2>4, <3>3, <3>4, FS_Subset
    <3> QED BY <2>2, <2>4, <3>5, <3>6
  <2> QED BY <2>1, <2>2, <2>3, <2>4, <2>5
<1>6. CASE AckResponse(r) /\ ~UNCHANGED <<groups, acks, rpc>>
  <2>1. PICK g \in GroupOf(r) :
           LET h == [g EXCEPT !.received = @ + Counts(r), !.outstanding = @ - 1]
           IN  Advance(r.from, g, h, h.received >= h.min \/ h.outstanding = 0)
    BY <1>6 DEF AckResponse
  <2> DEFINE h == [g EXCEPT !.received = @ + Counts(r), !.outstanding = @ - 1]
             done == h.received >= h.min \/ h.outstanding = 0
  <2>2. g \in Group /\ Counts(r) \in Nat
    BY <1>5 DEF Counts
  <2>3. h \in Group
    BY <2>2, GroupOK
  <2>4. h.id = g.id /\ h.event = g.event /\ h.received = g.received + Counts(r)
    BY <2>2 DEF Group
  <2>5. Advance(r.from, g, h, done) /\ done \in BOOLEAN
    BY <2>1
  <2> HIDE DEF h, done
  <2>6. h.received <= Cardinality(CountedPeers(r.from, g.id, g.event)')
    <3>1. CASE r.st = "yes"
      BY <3>1, <1>5, <2>4 DEF Counts
    <3>2. CASE r.st # "yes"
      BY <3>2, <1>5, <2>4 DEF Counts
    <3> QED BY <3>1, <3>2
  <2> QED BY <1>1, <1>2, <1>5, <2>3, <2>4, <2>5, <2>6, AckAdvances
<1>7. CASE AckFailure(r) /\ ~UNCHANGED <<groups, acks, rpc>>
  <2>1. PICK g \in GroupOf(r) :
           LET h == [g EXCEPT !.outstanding = @ - 1]
           IN  Advance(r.from, g, h, Exhausted(h))
    BY <1>7 DEF AckFailure
  <2> DEFINE h == [g EXCEPT !.outstanding = @ - 1]
  <2>2. g \in Group
    BY <1>5
  <2>3. h \in Group
    BY <2>2, GroupOK
  <2>4. h.id = g.id /\ h.event = g.event /\ h.received = g.received
    BY <2>2 DEF Group
  <2>5. Advance(r.from, g, h, Exhausted(h)) /\ Exhausted(h) \in BOOLEAN
    BY <2>1 DEF Exhausted
  <2> HIDE DEF h
  <2> QED BY <1>1, <1>2, <1>5, <2>3, <2>4, <2>5, AckAdvances
<1> QED BY <1>4, <1>6, <1>7

LEMMA AckSweeps ==
  ASSUME WireOK, AckInv, NEW n \in Nodes, SweepGroups(n)
  PROVE  AckInv'
<1>1. PICK g \in groups[n] : Advance(n, g, g, TRUE) /\ UNCHANGED <<mem, got, reqs, next_group_id>>
  BY DEF SweepGroups, logVars
<1>2. g \in Group /\ g.received <= Cardinality(CountedPeers(n, g.id, g.event)) /\ g.received \in Nat
  BY DEF WireOK, AckOK, AckInv, CountInv, Group
<1>3. CountedPeers(n, g.id, g.event)' = CountedPeers(n, g.id, g.event)
  BY <1>1 DEF CountedPeers, Holders, Asked
<1> QED BY <1>1, <1>2, <1>3, AckAdvances

(* The groups and requests of a process end with it.                        *)
LEMMA AckCrashes ==
  ASSUME LogInv, WireOK, AckInv, NEW n \in Nodes, Crash(n)
  PROVE  AckInv'
<1>1. /\ mem' = [mem EXCEPT ![n] = {}] /\ UNCHANGED got
      /\ groups' = [groups EXCEPT ![n] = {}]
      /\ next_group_id' = [next_group_id EXCEPT ![n] = 0]
      /\ reqs' = {r \in reqs : r.from # n}
      /\ acks' = [acks EXCEPT ![n] = NoAcks]
  BY DEF Crash, FreshSwarm
<1>2. \A r \in reqs : r.from \in Nodes
  BY DEF WireOK, AckOK, Request
<1>3. /\ groups'[n] = {} /\ acks'[n] = NoAcks
      /\ \A m \in Nodes \ {n} : /\ groups'[m] = groups[m] /\ acks'[m] = acks[m]
                               /\ next_group_id'[m] = next_group_id[m]
  BY <1>1 DEF WireOK, AckOK
<1>4. ReqInv'
  <2>1. \A m \in Nodes : \A e \in mem'[m] : <<m, e>> \in got'
    BY <1>1 DEF LogInv, LogOK, AckInv, ReqInv
  <2>2. \A r \in reqs' : r \in reqs /\ r.from \in Nodes \ {n}
    BY <1>1, <1>2
  <2>3. \A r \in reqs' : r.grp < next_group_id'[r.from] /\ r.to # r.from
    BY <1>3, <2>2 DEF AckInv, ReqInv
  <2>4. \A r \in reqs' : \A g \in groups'[r.from] : g.id = r.grp => g.event = r.event
    BY <1>3, <2>2 DEF AckInv, ReqInv
  <2>5. \A m \in Nodes : \A g \in groups'[m] : m # n /\ g \in groups[m]
    BY <1>3
  <2>6. \A m \in Nodes : \A g \in groups'[m] : g.id < next_group_id'[m]
    BY <1>3, <2>5 DEF AckInv, ReqInv
  <2> QED BY <1>1, <2>1, <2>2, <2>3, <2>4, <2>5, <2>6 DEF AckInv, ReqInv
<1>5. CountInv'
  <2> SUFFICES ASSUME NEW m \in Nodes \ {n}, NEW g \in groups[m]
               PROVE  g.received <= Cardinality(CountedPeers(m, g.id, g.event)')
    BY <1>3 DEF CountInv
  <2>1. CountedPeers(m, g.id, g.event)' = CountedPeers(m, g.id, g.event)
    BY <1>1 DEF CountedPeers, Holders, Asked
  <2> QED BY <2>1 DEF AckInv, CountInv
<1>6. QuorumMeansHeld'
  <2> SUFFICES ASSUME NEW m \in Nodes, NEW e \in acks'[m].events
               PROVE  acks'[m].received <= Cardinality(Holders(m, e)')
    BY DEF QuorumMeansHeld, Holders
  <2>1. m # n
    BY <1>3 DEF NoAcks
  <2> QED BY <1>1, <1>3, <2>1, HeldGrows DEF AckInv, WireOK
<1> QED BY <1>4, <1>5, <1>6 DEF AckInv

LEMMA QuorumStep == PromiseInv /\ AckInv /\ [ReplicationNext]_repVars => AckInv'
<1> SUFFICES ASSUME PromiseInv, AckInv, [ReplicationNext]_repVars
             PROVE  AckInv'
  OBVIOUS
<1>0. LogInv /\ WireOK /\ MemGot
  BY DEF PromiseInv, WireOK, AckInv, ReqInv, MemGot
<1>1. ASSUME NEW n \in Writers, NEW m \in left.min_acks, create_event(n, m)
      PROVE  AckInv'
  <2>1. n \in Nodes /\ UNCHANGED ackVars /\ got \subseteq got'
    BY <1>1, ReplicationAssumption DEF create_event
  <2>2. MemGot'
    BY <1>0, <1>1, <2>1 DEF create_event, MemGot, LogInv, LogOK
  <2> QED BY <1>0, <2>1, <2>2, AckFrame
<1>2. ASSUME NEW n \in Writers, delete_bucket(n)
      PROVE  AckInv'
  <2>1. n \in Nodes /\ UNCHANGED ackVars /\ got \subseteq got'
    BY <1>2, ReplicationAssumption DEF delete_bucket
  <2>2. MemGot'
    BY <1>0, <1>2, <2>1 DEF delete_bucket, MemGot, LogInv, LogOK, WithoutBucket
  <2> QED BY <1>0, <2>1, <2>2, AckFrame
<1>3. ASSUME NEW n \in Nodes, RequestAcks(n) \/ SweepGroups(n) \/ Crash(n)
      PROVE  AckInv'
  BY <1>0, <1>3, AckAsks, AckSweeps, AckCrashes
<1>4. ASSUME NEW n \in Nodes, NEW S, insert_events(n, S), UNCHANGED ackVars
      PROVE  AckInv'
  BY <1>0, <1>4, InsertGot, AckFrame
<1>5. ASSUME NEW n \in Nodes, NEW e \in published, GossipMessage(n, e)
      PROVE  AckInv'
  BY <1>4, <1>5 DEF GossipMessage
<1>6. ASSUME NEW n \in Nodes, QueryRange(n)
      PROVE  AckInv'
  BY <1>4, <1>6 DEF QueryRange
<1>7. ASSUME UNCHANGED <<mem, got, ackVars>>
      PROVE  AckInv'
  BY <1>0, <1>7, AckFrame DEF MemGot
<1>8. ASSUME NEW n \in Nodes, NEW p \in Nodes,
             \/ GossipPublish(n) \/ QueryHeads(n, p) \/ QueryRangeFails(n) \/ Flush(n)
             \/ LinkDown(n, p) \/ LinkUp(n, p) \/ Ready(n)
      PROVE  AckInv'
  BY <1>7, <1>8 DEF GossipPublish, QueryHeads, QueryRangeFails, Flush, LinkDown, LinkUp, Ready,
                    logVars
<1>9. ASSUME NEW n \in Nodes, start_node(n)
      PROVE  AckInv'
  <2>1. UNCHANGED ackVars /\ got \subseteq got' /\ MemGot'
    BY <1>0, <1>9 DEF start_node, MemGot, LogInv, LogOK
  <2> QED BY <1>0, <2>1, AckFrame
<1>10. ASSUME NEW r \in reqs, AckRequest(r) \/ AckResponse(r) \/ AckFailure(r)
       PROVE  AckInv'
  BY <1>0, <1>10, AckAnswers, AckEnds
<1>11. CASE UNCHANGED repVars
  BY <1>7, <1>11 DEF repVars, ackVars
<1> QED
  BY <1>1, <1>2, <1>3, <1>5, <1>6, <1>8, <1>9, <1>10, <1>11 DEF ReplicationNext

(* In any cluster, an answered write counts only peers that had the event:  *)
(* a late, refused, failed or repeated ack request never adds to a quorum,  *)
(* and no peer is counted twice (libp2p.rs, the ack groups).                *)
THEOREM QuorumIsHeld == ReplicationSpec => []QuorumMeansHeld
<1>1. InitReplication => AckInv
  BY DEF InitReplication, AckInv, ReqInv, CountInv, QuorumMeansHeld, NoAcks
<1>2. PromiseInv /\ AckInv /\ [ReplicationNext]_repVars => PromiseInv' /\ AckInv'
  BY PromiseStep, QuorumStep
<1>3. AckInv => QuorumMeansHeld
  BY DEF AckInv
<1> QED BY <1>1, <1>2, <1>3, StartsEmpty, PTL DEF ReplicationSpec

-----------------------------------------------------------------------------
(* The registry of peers.                                                   *)

MemberEvent == {m \in [peer : RegPeers, addr : Addrs \cup {NoAddr},
                       status : {"active", "unreachable"}] :
                  m.status = "active" => m.addr # NoAddr}
Entry == [addr : Addrs \cup {NoAddr}, first : Nat, last : Nat,
          status : {"active", "unreachable", "decommissioned"}]
Heard == [at : Nat, up : BOOLEAN]

(* The swarm loop's tables.                                                 *)
SwarmOK ==
    /\ conns \in [AllPeers -> Nat]
    /\ peer_count = Cardinality(Connected)
    /\ known_peers \in [DOMAIN known_peers -> BOOLEAN]
    /\ DOMAIN known_peers \subseteq Connected \cap RegPeers
    /\ membership \in Seq(MemberEvent)

(* An entry is as old as the first event about its node, and no younger     *)
(* than now.                                                                *)
EntriesOK ==
    /\ now_ms \in Nat
    /\ pg \in [DOMAIN pg -> Entry]
    /\ heard \in [DOMAIN pg -> Heard]
    /\ retired \subseteq DOMAIN pg
    /\ \A p \in DOMAIN pg :
          /\ pg[p].last <= now_ms /\ pg[p].first <= now_ms
          /\ pg[p].first = heard[p].at
          /\ heard[p].up => pg[p].addr # NoAddr
          /\ pg[p].status = "decommissioned" <=> p \in retired

(* What the swarm loop knows of p agrees with status s.                     *)
Follows(p, s) == IF p \in DOMAIN known_peers THEN known_peers[p] => s = "active"
                 ELSE s = "unreachable"
LastOf(i) == \A j \in 1..Len(membership) : j > i => membership[j].peer # membership[i].peer

(* The last event on its way to the bridge, or else the entry, is true.     *)
FollowOK ==
    /\ \A i \in 1..Len(membership) :
          LastOf(i) => Follows(membership[i].peer, membership[i].status)
    /\ \A p \in DOMAIN pg \ (retired \cup tied) :
          (\A i \in 1..Len(membership) : membership[i].peer # p) => Follows(p, pg[p].status)

(* A message joins the channel.                                             *)
LEMMA JoinsChannel ==
    ASSUME SwarmOK, NEW m \in MemberEvent, membership' = Append(membership, m)
    PROVE  /\ membership' \in Seq(MemberEvent) /\ Len(membership') = Len(membership) + 1
           /\ Len(membership) \in Nat
           /\ \A i \in 1..Len(membership) : membership'[i] = membership[i]
           /\ membership'[Len(membership) + 1] = m
           /\ \A i \in 1..Len(membership') : i \in 1..Len(membership) \/ i = Len(membership) + 1
<1>1. membership \in Seq(MemberEvent) /\ Len(membership) \in Nat
  BY DEF SwarmOK
<1>2. membership' \in Seq(MemberEvent) /\ Len(membership') = Len(membership) + 1
  BY <1>1
<1>3. \A i \in 1..Len(membership) : membership'[i] = membership[i]
  BY <1>1
<1>4. membership'[Len(membership) + 1] = m
  BY <1>1
<1> QED BY <1>1, <1>2, <1>3, <1>4

(* The number of connected peers, when one connects and when one leaves.    *)
LEMMA CountPeers ==
    ASSUME SwarmOK, NEW p \in AllPeers
    PROVE  /\ IsFiniteSet(Connected) /\ Cardinality(Connected) \in Nat
           /\ p \notin Connected => Cardinality(Connected \cup {p}) = Cardinality(Connected) + 1
           /\ p \in Connected => Cardinality(Connected \ {p}) = Cardinality(Connected) - 1
<1>1. IsFiniteSet(Connected)
  BY PeersAssumption, FS_Subset DEF Connected
<1>2. p \notin Connected => Cardinality(Connected \cup {p}) = Cardinality(Connected) + 1
  BY <1>1, FS_AddElement
<1>3. p \in Connected => Cardinality(Connected \ {p}) = Cardinality(Connected) - 1
  BY <1>1, FS_RemoveElement
<1> QED BY <1>1, <1>2, <1>3, FS_CardinalityType

(* The swarm loop's tables are kept.                                        *)
LEMMA SwarmNext == SwarmOK /\ [RegistryNext]_regVars => SwarmOK'
<1> SUFFICES ASSUME SwarmOK, [RegistryNext]_regVars PROVE SwarmOK'
  OBVIOUS
<1>1. /\ conns \in [AllPeers -> Nat] /\ known_peers \in [DOMAIN known_peers -> BOOLEAN]
      /\ membership \in Seq(MemberEvent) /\ DOMAIN known_peers \subseteq Connected \cap RegPeers
      /\ peer_count = Cardinality(Connected)
  BY DEF SwarmOK
<1>2. ASSUME NEW p \in AllPeers, ConnectionEstablished(p) PROVE SwarmOK'
  <2>1. /\ conns' = [conns EXCEPT ![p] = @ + 1] /\ UNCHANGED <<known_peers, membership>>
        /\ peer_count' = peer_count + FirstConnection(p)
    BY <1>2 DEF ConnectionEstablished
  <2>2. conns' \in [AllPeers -> Nat] /\ Connected' = Connected \cup {p}
    BY <1>1, <2>1 DEF Connected
  <2>3. FirstConnection(p) = IF p \in Connected THEN 0 ELSE 1
    BY <1>1 DEF FirstConnection, Connected
  <2>4. peer_count' = Cardinality(Connected')
    <3>1. CASE p \in Connected
      <4>1. Connected' = Connected /\ FirstConnection(p) = 0
        BY <2>2, <2>3, <3>1
      <4>2. Cardinality(Connected') = Cardinality(Connected)
        BY <4>1, Zenon
      <4>3. Cardinality(Connected) \in Nat
        BY CountPeers
      <4> QED BY <1>1, <2>1, <4>1, <4>2, <4>3
    <3>2. CASE p \notin Connected
      BY <1>1, <2>1, <2>2, <2>3, <3>2, CountPeers
    <3> QED BY <3>1, <3>2
  <2> QED BY <1>1, <2>1, <2>2, <2>4 DEF SwarmOK
<1>3. ASSUME NEW p \in AllPeers, ConnectionClosed(p) PROVE SwarmOK'
  <2>1. conns' = [conns EXCEPT ![p] = @ - 1] /\ conns[p] \in Nat /\ conns[p] > 0 /\ p \in Connected
    BY <1>1, <1>3 DEF ConnectionClosed, Connected
  <2>2. CASE conns[p] > 1
    <3>1. UNCHANGED <<peer_count, known_peers, membership>>
      BY <1>3, <2>2 DEF ConnectionClosed
    <3>2. conns' \in [AllPeers -> Nat] /\ Connected' = Connected
      BY <1>1, <2>1, <2>2 DEF Connected
    <3> QED BY <1>1, <3>1, <3>2 DEF SwarmOK
  <2>3. CASE ~(conns[p] > 1)
    <3> DEFINE down == [peer |-> p, addr |-> NoAddr, status |-> "unreachable"]
    <3>1. /\ peer_count' = peer_count - 1 /\ known_peers' = Drop(known_peers, p)
          /\ membership' = IF p \in DOMAIN known_peers THEN Append(membership, down) ELSE membership
      BY <1>3, <2>3 DEF ConnectionClosed
    <3>2. conns' \in [AllPeers -> Nat] /\ Connected' = Connected \ {p}
      BY <1>1, <2>1, <2>3 DEF Connected
    <3>3. peer_count' = Cardinality(Connected')
      BY <1>1, <2>1, <3>1, <3>2, CountPeers
    <3>4. known_peers' \in [DOMAIN known_peers' -> BOOLEAN]
          /\ DOMAIN known_peers' \subseteq Connected' \cap RegPeers
      BY <1>1, <3>1, <3>2 DEF Drop
    <3>5. membership' \in Seq(MemberEvent)
      <4>1. CASE p \in DOMAIN known_peers
        <5>1. down \in MemberEvent
          BY <4>1 DEF MemberEvent, SwarmOK
        <5> HIDE DEF down
        <5> QED BY <3>1, <4>1, <5>1, JoinsChannel
      <4> QED BY <1>1, <3>1, <4>1
    <3> QED BY <3>2, <3>3, <3>4, <3>5 DEF SwarmOK
  <2> QED BY <2>2, <2>3
<1>4. ASSUME NEW p \in RegPeers, NEW listed \in BOOLEAN, NEW a \in Addrs,
             IdentifyReceived(p, listed, a)
      PROVE  SwarmOK'
  <2> DEFINE up == [peer |-> p, addr |-> a, status |-> "active"]
  <2>1. /\ known_peers' = Put(known_peers, p, listed) /\ p \in Connected
        /\ membership' = IF listed THEN Append(membership, up) ELSE membership
        /\ UNCHANGED <<conns, peer_count>>
    BY <1>4 DEF IdentifyReceived, Connected, AllPeers
  <2>2. Connected' = Connected
    BY <2>1 DEF Connected
  <2>3. known_peers' \in [DOMAIN known_peers' -> BOOLEAN]
        /\ DOMAIN known_peers' \subseteq Connected \cap RegPeers
    BY <1>1, <2>1 DEF Put
  <2>4. up \in MemberEvent
    BY PeersAssumption DEF MemberEvent
  <2> HIDE DEF up
  <2>5. membership' \in Seq(MemberEvent)
    BY <1>1, <2>1, <2>4, JoinsChannel
  <2> QED BY <1>1, <2>1, <2>2, <2>3, <2>5 DEF SwarmOK
<1>5. CASE BridgeStep
  <2>1. /\ membership # <<>> /\ membership' = Tail(membership)
        /\ UNCHANGED <<conns, peer_count, known_peers>>
    BY <1>5 DEF BridgeStep
  <2>2. membership' \in Seq(MemberEvent) /\ Connected' = Connected
    BY <1>1, <2>1 DEF Connected
  <2> QED BY <1>1, <2>1, <2>2 DEF SwarmOK
<1>6. ASSUME UNCHANGED <<conns, peer_count, known_peers, membership>> PROVE SwarmOK'
  BY <1>1, <1>6 DEF SwarmOK, Connected
<1>7. CASE UNCHANGED regVars \/ ClockTick \/ \E p \in RegPeers : decommission_node(p)
  BY <1>6, <1>7 DEF regVars, ClockTick, decommission_node
<1> QED BY <1>2, <1>3, <1>4, <1>5, <1>7 DEF RegistryNext

(* The bridge writes one entry.                                             *)
LEMMA BridgeFacts ==
    ASSUME SwarmOK, EntriesOK, BridgeStep
    PROVE  \E m \in MemberEvent :
             /\ m = membership[1] /\ Len(membership) \in Nat \ {0} /\ membership' = Tail(membership)
             /\ LET p == m.peer
                IN /\ DOMAIN pg' = DOMAIN pg \cup {p} /\ pg' \in [DOMAIN pg' -> Entry]
                   /\ DOMAIN heard' = DOMAIN pg' /\ heard' \in [DOMAIN pg' -> Heard]
                   /\ \A q \in DOMAIN pg \ {p} : pg'[q] = pg[q] /\ heard'[q] = heard[q]
                   /\ pg'[p].last = now_ms /\ pg'[p].first = heard'[p].at /\ pg'[p].first <= now_ms
                   /\ heard'[p].up => pg'[p].addr # NoAddr
                   /\ pg'[p].status = "decommissioned" <=> p \in retired
                   /\ p \notin retired \cup tied' => pg'[p].status = m.status
                   /\ \A q : q # p => (q \in tied' <=> q \in tied)
             /\ UNCHANGED <<conns, peer_count, known_peers, now_ms, retired, peer_events>>
<1> DEFINE m == Head(membership)
           p == m.peer
           entry == [addr |-> m.addr, first |-> now_ms, last |-> now_ms, status |-> m.status]
           row == pg[p]
           new == IF p \notin DOMAIN pg THEN entry
                  ELSE [addr |-> RowAddr(row, entry), first |-> Smaller(row.first, entry.first),
                        last |-> Larger(row.last, entry.last),
                        status |-> IF "decommissioned" \in {row.status, entry.status}
                                   THEN "decommissioned"
                                   ELSE IF entry.last > row.last THEN entry.status ELSE row.status]
           was == IF p \in DOMAIN heard THEN [heard[p] EXCEPT !.up = @ \/ m.status = "active"]
                  ELSE [at |-> now_ms, up |-> m.status = "active"]
<1>1. membership # <<>> /\ membership \in Seq(MemberEvent) /\ now_ms \in Nat
  BY DEF BridgeStep, SwarmOK, EntriesOK
<1>2. m \in MemberEvent /\ m = membership[1] /\ Len(membership) \in Nat \ {0}
  BY <1>1
<1>3. /\ pg' = Put(pg, p, new) /\ heard' = Put(heard, p, was)
      /\ tied' = IF p \in DOMAIN pg /\ pg[p].last = now_ms THEN tied \cup {p} ELSE tied \ {p}
      /\ membership' = Tail(membership)
      /\ UNCHANGED <<conns, peer_count, known_peers, now_ms, retired, peer_events>>
  BY DEF BridgeStep, UpsertRow
<1>4. /\ p \in RegPeers /\ m.addr \in Addrs \cup {NoAddr} /\ m.status \in {"active", "unreachable"}
      /\ m.status = "active" => m.addr # NoAddr
  BY <1>2 DEF MemberEvent
<1>5. /\ DOMAIN heard = DOMAIN pg /\ retired \subseteq DOMAIN pg
      /\ \A q \in DOMAIN pg : pg[q] \in Entry /\ heard[q] \in Heard
  BY DEF EntriesOK
<1>6. /\ new \in Entry /\ was \in Heard
      /\ new.last = now_ms /\ new.first = was.at /\ new.first <= now_ms
      /\ was.up => new.addr # NoAddr
      /\ new.status = "decommissioned" <=> p \in retired
      /\ p \notin retired \cup tied' => new.status = m.status
  <2>1. CASE p \notin DOMAIN pg
    <3>1. new = entry /\ was = [at |-> now_ms, up |-> m.status = "active"] /\ p \notin retired
      BY <1>5, <2>1
    <3> DEFINE b == m.status = "active"
    <3>2. b \in BOOLEAN
      BY Zenon
    <3>3. b => m.addr # NoAddr
      BY <1>4
    <3>4. was = [at |-> now_ms, up |-> b]
      BY <3>1
    <3> HIDE DEF m, p, new, was, b
    <3>5. was \in Heard /\ was.at = now_ms /\ (was.up <=> b)
      BY <1>1, <3>2, <3>4 DEF Heard
    <3>6. /\ new \in Entry /\ new.last = now_ms /\ new.first = now_ms
          /\ new.addr = m.addr /\ new.status = m.status /\ new.status # "decommissioned"
      BY <1>1, <1>4, <3>1 DEF Entry
    <3> QED BY <1>1, <3>1, <3>3, <3>5, <3>6
  <2>2. CASE p \in DOMAIN pg
    <3> DEFINE old == heard[p]
    <3>1. /\ row \in Entry /\ old \in Heard
          /\ row.last <= now_ms /\ row.first <= now_ms /\ row.first = old.at
          /\ old.up => row.addr # NoAddr
          /\ row.status = "decommissioned" <=> p \in retired
      BY <1>5, <2>2 DEF EntriesOK
    <3>2. /\ row.last \in Nat /\ row.first \in Nat /\ row.addr \in Addrs \cup {NoAddr}
          /\ row.status \in {"active", "unreachable", "decommissioned"}
          /\ old.at \in Nat /\ old.up \in BOOLEAN
      BY <3>1 DEF Entry, Heard
    <3>3. /\ new.addr = RowAddr(row, entry) /\ new.first = Smaller(row.first, now_ms)
          /\ new.last = Larger(row.last, now_ms)
          /\ new.status = IF "decommissioned" \in {row.status, m.status} THEN "decommissioned"
                          ELSE IF now_ms > row.last THEN m.status ELSE row.status
          /\ new = [addr |-> new.addr, first |-> new.first, last |-> new.last,
                    status |-> new.status]
      BY <2>2
    <3>4. was = [old EXCEPT !.up = @ \/ m.status = "active"]
      BY <1>5, <2>2
    <3>5. tied' = IF row.last = now_ms THEN tied \cup {p} ELSE tied \ {p}
      BY <1>3, <2>2
    <3> HIDE DEF old
    <3>6. was.at = old.at /\ (was.up <=> (old.up \/ m.status = "active")) /\ was \in Heard
      BY <3>1, <3>4 DEF Heard
    <3>7. RowAddr(row, entry) =
            IF now_ms > row.last THEN (IF m.addr # NoAddr THEN m.addr ELSE row.addr)
            ELSE (IF row.addr = NoAddr THEN m.addr ELSE row.addr)
      BY DEF RowAddr
    <3> HIDE DEF m, p, entry, row, new, was
    <3>8. new.last = now_ms /\ new.first = row.first
      BY <1>1, <3>1, <3>2, <3>3 DEF Smaller, Larger
    <3>9. new.addr \in Addrs \cup {NoAddr} /\ (was.up => new.addr # NoAddr)
      BY <1>4, <3>1, <3>2, <3>3, <3>6, <3>7
    <3>10. /\ new.status \in {"active", "unreachable", "decommissioned"}
           /\ new.status = "decommissioned" <=> p \in retired
      BY <1>4, <3>1, <3>2, <3>3
    <3>11. p \notin retired \cup tied' => new.status = m.status
      BY <1>1, <1>4, <3>1, <3>2, <3>3, <3>5
    <3>12. new \in Entry
      BY <1>1, <3>2, <3>3, <3>8, <3>9, <3>10 DEF Entry
    <3> QED BY <3>1, <3>6, <3>8, <3>9, <3>10, <3>11, <3>12
  <2> QED BY <2>1, <2>2
<1>7. /\ DOMAIN pg' = DOMAIN pg \cup {p} /\ pg'[p] = new
      /\ DOMAIN heard' = DOMAIN heard \cup {p} /\ heard'[p] = was
      /\ \A q \in DOMAIN pg \ {p} : pg'[q] = pg[q]
      /\ \A q \in DOMAIN heard \ {p} : heard'[q] = heard[q]
      /\ pg' \in [DOMAIN pg' -> Entry] /\ heard' \in [DOMAIN heard' -> Heard]
  <2>1. pg \in [DOMAIN pg -> Entry] /\ heard \in [DOMAIN heard -> Heard]
    BY <1>5 DEF EntriesOK
  <2> HIDE DEF new, was, p
  <2>2. /\ DOMAIN pg' = DOMAIN pg \cup {p} /\ pg'[p] = new
        /\ \A q \in DOMAIN pg \ {p} : pg'[q] = pg[q]
        /\ pg' \in [DOMAIN pg' -> Entry]
    BY <1>3, <1>6, <2>1 DEF Put
  <2>3. /\ DOMAIN heard' = DOMAIN heard \cup {p} /\ heard'[p] = was
        /\ \A q \in DOMAIN heard \ {p} : heard'[q] = heard[q]
        /\ heard' \in [DOMAIN heard' -> Heard]
    BY <1>3, <1>6, <2>1 DEF Put
  <2> QED BY <2>2, <2>3
<1> HIDE DEF new, was
<1>8. DOMAIN heard' = DOMAIN pg' /\ pg' \in [DOMAIN pg' -> Entry] /\ heard' \in [DOMAIN pg' -> Heard]
  BY <1>5, <1>7
<1>9. \A q : q # p => (q \in tied' <=> q \in tied)
  BY <1>3
<1> QED BY <1>2, <1>3, <1>5, <1>6, <1>7, <1>8, <1>9

(* The entries are kept.                                                    *)
LEMMA EntriesNext == SwarmOK /\ EntriesOK /\ [RegistryNext]_regVars => EntriesOK'
<1> SUFFICES ASSUME SwarmOK, EntriesOK, [RegistryNext]_regVars PROVE EntriesOK'
  OBVIOUS
<1>1. CASE BridgeStep
  <2>1. PICK m \in MemberEvent :
          /\ DOMAIN pg' = DOMAIN pg \cup {m.peer} /\ pg' \in [DOMAIN pg' -> Entry]
          /\ heard' \in [DOMAIN pg' -> Heard]
          /\ \A q \in DOMAIN pg \ {m.peer} : pg'[q] = pg[q] /\ heard'[q] = heard[q]
          /\ pg'[m.peer].last = now_ms /\ pg'[m.peer].first = heard'[m.peer].at
          /\ pg'[m.peer].first <= now_ms
          /\ heard'[m.peer].up => pg'[m.peer].addr # NoAddr
          /\ pg'[m.peer].status = "decommissioned" <=> m.peer \in retired
          /\ UNCHANGED <<now_ms, retired>>
    BY <1>1, BridgeFacts
  <2>2. now_ms \in Nat /\ retired \subseteq DOMAIN pg
    BY DEF EntriesOK
  <2>3. ASSUME NEW q \in DOMAIN pg'
        PROVE  /\ pg'[q].last <= now_ms /\ pg'[q].first <= now_ms
               /\ pg'[q].first = heard'[q].at
               /\ heard'[q].up => pg'[q].addr # NoAddr
               /\ pg'[q].status = "decommissioned" <=> q \in retired
    <3>1. CASE q = m.peer
      BY <2>1, <2>2, <3>1
    <3>2. CASE q # m.peer
      BY <2>1, <3>2 DEF EntriesOK
    <3> QED BY <3>1, <3>2
  <2> QED BY <2>1, <2>2, <2>3 DEF EntriesOK
<1>2. ASSUME NEW p \in RegPeers, decommission_node(p) PROVE EntriesOK'
  <2>1. /\ p \in DOMAIN pg /\ retired' = retired \cup {p}
        /\ pg' = [pg EXCEPT ![p].status = "decommissioned"] /\ UNCHANGED <<now_ms, heard>>
    BY <1>2 DEF decommission_node
  <2>2. /\ pg \in [DOMAIN pg -> Entry] /\ heard \in [DOMAIN pg -> Heard] /\ now_ms \in Nat
        /\ retired \subseteq DOMAIN pg
    BY DEF EntriesOK
  <2> DEFINE e == pg[p]
             f == [e EXCEPT !.status = "decommissioned"]
  <2>3. e \in Entry /\ pg' = [pg EXCEPT ![p] = f]
    BY <2>1, <2>2
  <2>4. /\ e.last <= now_ms /\ e.first <= now_ms /\ e.first = heard[p].at
        /\ heard[p].up => e.addr # NoAddr
    BY <2>1 DEF EntriesOK
  <2> HIDE DEF e
  <2>5. /\ f \in Entry /\ f.last = e.last /\ f.first = e.first /\ f.addr = e.addr
        /\ f.status = "decommissioned"
    BY <2>3 DEF Entry
  <2> HIDE DEF f
  <2>6. DOMAIN pg' = DOMAIN pg /\ pg' \in [DOMAIN pg -> Entry] /\ pg'[p] = f
        /\ \A q \in DOMAIN pg \ {p} : pg'[q] = pg[q]
    BY <2>1, <2>2, <2>3, <2>5
  <2>7. ASSUME NEW q \in DOMAIN pg
        PROVE  /\ pg'[q].last <= now_ms /\ pg'[q].first <= now_ms
               /\ pg'[q].first = heard[q].at
               /\ heard[q].up => pg'[q].addr # NoAddr
               /\ pg'[q].status = "decommissioned" <=> q \in retired'
    <3>1. CASE q = p
      BY <2>1, <2>4, <2>5, <2>6, <3>1
    <3>2. CASE q # p
      BY <2>1, <2>6, <3>2 DEF EntriesOK
    <3> QED BY <3>1, <3>2
  <2> QED BY <2>1, <2>2, <2>6, <2>7 DEF EntriesOK
<1>3. CASE ClockTick
  <2>1. now_ms' = now_ms + 1 /\ UNCHANGED <<pg, heard, retired>> /\ now_ms \in Nat
    BY <1>3 DEF ClockTick, EntriesOK
  <2>2. \A q \in DOMAIN pg : pg[q].last \in Nat /\ pg[q].first \in Nat
    BY DEF EntriesOK, Entry
  <2> QED BY <2>1, <2>2 DEF EntriesOK
<1>4. ASSUME UNCHANGED <<now_ms, pg, heard, retired>> PROVE EntriesOK'
  BY <1>4 DEF EntriesOK
<1>5. ASSUME NEW p, ConnectionEstablished(p) \/ ConnectionClosed(p) PROVE EntriesOK'
  BY <1>4, <1>5 DEF ConnectionEstablished, ConnectionClosed, storeVars
<1>6. ASSUME NEW p, NEW l, NEW a, IdentifyReceived(p, l, a) PROVE EntriesOK'
  BY <1>4, <1>6 DEF IdentifyReceived, storeVars
<1>7. CASE UNCHANGED regVars
  BY <1>4, <1>7 DEF regVars
<1> QED BY <1>1, <1>2, <1>3, <1>5, <1>6, <1>7 DEF RegistryNext

(* A peer's news joins the channel.                                         *)
LEMMA FollowJoins ==
    ASSUME SwarmOK, FollowOK, NEW m \in MemberEvent, membership' = Append(membership, m),
           Follows(m.peer, m.status)',
           \A q : q # m.peer => \A s : Follows(q, s) => Follows(q, s)',
           UNCHANGED <<pg, retired, tied>>
    PROVE  FollowOK'
<1>1. /\ Len(membership') = Len(membership) + 1 /\ Len(membership) \in Nat
      /\ \A i \in 1..Len(membership) : membership'[i] = membership[i]
      /\ membership'[Len(membership) + 1] = m
      /\ \A i \in 1..Len(membership') : i \in 1..Len(membership) \/ i = Len(membership) + 1
  BY JoinsChannel
<1>2. ASSUME NEW i \in 1..Len(membership'), LastOf(i)'
      PROVE  Follows(membership[i].peer, membership[i].status)'
  <2>1. CASE i = Len(membership) + 1
    BY <1>1, <2>1 DEF Follows
  <2>2. CASE i \in 1..Len(membership)
    <3>1. PICK q, s : q = membership[i].peer /\ s = membership[i].status
      OBVIOUS
    <3>2. membership'[i].peer = q /\ membership'[i].status = s
      BY <1>1, <2>2, <3>1
    <3>3. Len(membership) + 1 \in 1..Len(membership') /\ Len(membership) + 1 > i
      BY <1>1, <2>2
    <3>4. q # m.peer
      BY <1>1, <1>2, <3>2, <3>3 DEF LastOf
    <3>5. LastOf(i)
      <4> SUFFICES ASSUME NEW j \in 1..Len(membership), j > i
                   PROVE  membership[j].peer # membership[i].peer
        BY DEF LastOf
      <4>1. j \in 1..Len(membership')
        BY <1>1
      <4> QED BY <1>1, <1>2, <2>2, <4>1 DEF LastOf
    <3>6. Follows(q, s)
      BY <2>2, <3>1, <3>5 DEF FollowOK
    <3>7. Follows(q, s)'
      BY <3>4, <3>6
    <3> QED BY <3>2, <3>7 DEF Follows
  <2> QED BY <1>1, <2>1, <2>2
<1>3. ASSUME NEW p \in DOMAIN pg' \ (retired' \cup tied'),
             \A i \in 1..Len(membership') : membership'[i].peer # p
      PROVE  Follows(p, pg[p].status)'
  <2>1. PICK s : s = pg[p].status
    OBVIOUS
  <2>2. Len(membership) + 1 \in 1..Len(membership')
        /\ \A i \in 1..Len(membership) : i \in 1..Len(membership')
    BY <1>1
  <2>3. p # m.peer /\ \A i \in 1..Len(membership) : membership[i].peer # p
    BY <1>1, <1>3, <2>2
  <2>4. Follows(p, s)
    BY <1>3, <2>1, <2>3 DEF FollowOK
  <2>5. Follows(p, s)'
    BY <2>3, <2>4
  <2> QED BY <2>1, <2>5 DEF Follows
<1> QED BY <1>2, <1>3 DEF FollowOK

(* Nothing changes that a status has to agree with.                         *)
LEMMA FollowStays ==
    ASSUME FollowOK, UNCHANGED membership, \A q : \A s : Follows(q, s) => Follows(q, s)',
           \A p \in DOMAIN pg' \ (retired' \cup tied') :
              p \in DOMAIN pg \ (retired \cup tied) /\ pg'[p].status = pg[p].status
    PROVE  FollowOK'
<1>1. ASSUME NEW i \in 1..Len(membership'), LastOf(i)'
      PROVE  Follows(membership[i].peer, membership[i].status)'
  <2>1. PICK q, s : q = membership[i].peer /\ s = membership[i].status
    OBVIOUS
  <2>2. Follows(q, s)
    BY <1>1, <2>1 DEF FollowOK, LastOf
  <2>3. Follows(q, s)'
    BY <2>2
  <2> QED BY <2>1, <2>3 DEF Follows
<1>2. ASSUME NEW p \in DOMAIN pg' \ (retired' \cup tied'),
             \A i \in 1..Len(membership') : membership'[i].peer # p
      PROVE  Follows(p, pg[p].status)'
  <2>1. PICK s : s = pg[p].status
    OBVIOUS
  <2>2. Follows(p, s)
    BY <1>2, <2>1 DEF FollowOK
  <2>3. Follows(p, s)' /\ pg'[p].status = s
    BY <1>2, <2>1, <2>2
  <2> QED BY <2>3 DEF Follows
<1> QED BY <1>1, <1>2 DEF FollowOK

(* The channel and the entries follow the swarm loop.                       *)
LEMMA FollowNext == SwarmOK /\ EntriesOK /\ FollowOK /\ [RegistryNext]_regVars => FollowOK'
<1> SUFFICES ASSUME SwarmOK, EntriesOK, FollowOK, [RegistryNext]_regVars PROVE FollowOK'
  OBVIOUS
<1>1. /\ known_peers \in [DOMAIN known_peers -> BOOLEAN] /\ membership \in Seq(MemberEvent)
      /\ Len(membership) \in Nat
  BY DEF SwarmOK
<1>2. ASSUME UNCHANGED <<known_peers, membership, pg, retired, tied>> PROVE FollowOK'
  BY <1>2, FollowStays DEF Follows
<1>3. ASSUME NEW p \in AllPeers, ConnectionEstablished(p) PROVE FollowOK'
  BY <1>2, <1>3 DEF ConnectionEstablished, storeVars
<1>4. ASSUME NEW p \in AllPeers, ConnectionClosed(p) PROVE FollowOK'
  <2>1. UNCHANGED <<pg, retired, tied>>
    BY <1>4 DEF ConnectionClosed, storeVars
  <2>2. CASE conns[p] > 1
    BY <1>2, <1>4, <2>1, <2>2 DEF ConnectionClosed
  <2>3. CASE ~(conns[p] > 1)
    <3> DEFINE down == [peer |-> p, addr |-> NoAddr, status |-> "unreachable"]
    <3>1. /\ known_peers' = Drop(known_peers, p)
          /\ membership' = IF p \in DOMAIN known_peers THEN Append(membership, down) ELSE membership
      BY <1>4, <2>3 DEF ConnectionClosed
    <3>2. \A q : q # p => \A s : Follows(q, s) => Follows(q, s)'
      BY <3>1 DEF Follows, Drop
    <3>3. CASE p \in DOMAIN known_peers
      <4>1. down \in MemberEvent /\ down.peer = p /\ down.status = "unreachable"
        BY <3>3 DEF MemberEvent, SwarmOK
      <4>2. p \notin DOMAIN known_peers'
        BY <3>1 DEF Drop
      <4> HIDE DEF down
      <4>3. Follows(down.peer, down.status)'
        BY <4>1, <4>2 DEF Follows
      <4> QED BY <2>1, <3>1, <3>2, <3>3, <4>1, <4>3, FollowJoins
    <3>4. CASE p \notin DOMAIN known_peers
      <4>1. known_peers' = known_peers
        BY <1>1, <3>1, <3>4 DEF Drop
      <4> QED BY <1>2, <2>1, <3>1, <3>4, <4>1
    <3> QED BY <3>3, <3>4
  <2> QED BY <2>2, <2>3
<1>5. ASSUME NEW p \in RegPeers, NEW listed \in BOOLEAN, NEW a \in Addrs,
             IdentifyReceived(p, listed, a)
      PROVE  FollowOK'
  <2> DEFINE up == [peer |-> p, addr |-> a, status |-> "active"]
  <2>1. /\ known_peers' = Put(known_peers, p, listed)
        /\ membership' = IF listed THEN Append(membership, up) ELSE membership
        /\ UNCHANGED <<pg, retired, tied>>
    BY <1>5 DEF IdentifyReceived, storeVars
  <2>2. /\ p \in DOMAIN known_peers' /\ (known_peers'[p] <=> listed)
        /\ \A q : q # p => \A s : Follows(q, s) => Follows(q, s)'
    BY <2>1 DEF Follows, Put
  <2>3. up \in MemberEvent /\ up.peer = p /\ up.status = "active"
    BY PeersAssumption DEF MemberEvent
  <2> HIDE DEF up
  <2>4. CASE listed
    <3>1. Follows(up.peer, up.status)'
      BY <2>2, <2>3 DEF Follows
    <3> QED BY <2>1, <2>2, <2>3, <2>4, <3>1, FollowJoins
  <2>5. CASE ~listed
    <3>1. \A q : \A s : Follows(q, s) => Follows(q, s)'
      BY <2>2, <2>5 DEF Follows
    <3> QED BY <2>1, <2>5, <3>1, FollowStays
  <2> QED BY <2>4, <2>5
<1>6. CASE BridgeStep
  <2>1. PICK m \in MemberEvent :
          /\ m = membership[1] /\ Len(membership) \in Nat \ {0} /\ membership' = Tail(membership)
          /\ DOMAIN pg' = DOMAIN pg \cup {m.peer}
          /\ \A q \in DOMAIN pg \ {m.peer} : pg'[q] = pg[q]
          /\ m.peer \notin retired \cup tied' => pg'[m.peer].status = m.status
          /\ \A q : q # m.peer => (q \in tied' <=> q \in tied)
          /\ UNCHANGED <<known_peers, retired>>
    BY <1>6, BridgeFacts
  <2>2. /\ Len(membership') = Len(membership) - 1
        /\ \A i \in 1..Len(membership') : membership'[i] = membership[i + 1]
    BY <1>1, <2>1
  <2>3. \A q : \A s : Follows(q, s)' <=> Follows(q, s)
    BY <2>1 DEF Follows
  <2>4. \A i \in 1..Len(membership') : i + 1 \in 1..Len(membership)
    BY <2>1, <2>2
  <2>5. \A j \in 1..Len(membership) : j = 1 \/ (j - 1 \in 1..Len(membership') /\ j = (j - 1) + 1)
    BY <2>1, <2>2
  <2>6. ASSUME NEW i \in 1..Len(membership'), LastOf(i)'
        PROVE  Follows(membership[i].peer, membership[i].status)'
    <3>1. PICK q, s : q = membership[i + 1].peer /\ s = membership[i + 1].status
      OBVIOUS
    <3>2. LastOf(i + 1)
      <4> SUFFICES ASSUME NEW j \in 1..Len(membership), j > i + 1
                   PROVE  membership[j].peer # membership[i + 1].peer
        BY DEF LastOf
      <4>1. j - 1 \in 1..Len(membership') /\ j = (j - 1) + 1 /\ j - 1 > i
        BY <2>5
      <4> DEFINE k == j - 1
      <4>2. k \in 1..Len(membership') /\ j = k + 1 /\ k > i
        BY <4>1
      <4> HIDE DEF k
      <4> QED BY <2>2, <2>6, <4>2 DEF LastOf
    <3>3. Follows(q, s)
      BY <2>4, <3>1, <3>2 DEF FollowOK
    <3>4. membership'[i].peer = q /\ membership'[i].status = s
      BY <2>2, <3>1
    <3> QED BY <2>3, <3>3, <3>4 DEF Follows
  <2>7. ASSUME NEW p \in DOMAIN pg' \ (retired' \cup tied'),
               \A i \in 1..Len(membership') : membership'[i].peer # p
        PROVE  Follows(p, pg[p].status)'
    <3>1. PICK s : s = pg'[p].status
      OBVIOUS
    <3>2. \A j \in 1..Len(membership) : j # 1 => membership[j].peer # p
      <4> TAKE j \in 1..Len(membership)
      <4> DEFINE k == j - 1
      <4>1. j # 1 => k \in 1..Len(membership') /\ j = k + 1
        BY <2>5
      <4> HIDE DEF k
      <4> QED BY <2>2, <2>7, <4>1
    <3>3. CASE p = m.peer
      <4>1. 1 \in 1..Len(membership) /\ LastOf(1)
        BY <2>1, <3>2, <3>3 DEF LastOf
      <4>2. Follows(p, m.status)
        BY <2>1, <3>3, <4>1 DEF FollowOK
      <4>3. s = m.status
        BY <2>1, <2>7, <3>1, <3>3
      <4> QED BY <2>3, <3>1, <4>2, <4>3 DEF Follows
    <3>4. CASE p # m.peer
      <4>1. p \in DOMAIN pg \ (retired \cup tied) /\ pg'[p] = pg[p]
        BY <2>1, <2>7, <3>4
      <4>2. \A j \in 1..Len(membership) : membership[j].peer # p
        BY <2>1, <3>2, <3>4
      <4>3. Follows(p, s)
        BY <3>1, <4>1, <4>2 DEF FollowOK
      <4> QED BY <2>3, <3>1, <4>3 DEF Follows
    <3> QED BY <3>3, <3>4
  <2> QED BY <2>6, <2>7 DEF FollowOK
<1>7. ASSUME NEW p \in RegPeers, decommission_node(p) PROVE FollowOK'
  <2>1. /\ retired' = retired \cup {p} /\ pg' = [pg EXCEPT ![p].status = "decommissioned"]
        /\ UNCHANGED <<membership, known_peers, tied>>
    BY <1>7 DEF decommission_node
  <2>2. \A q \in DOMAIN pg' \ (retired' \cup tied') :
          q \in DOMAIN pg \ (retired \cup tied) /\ pg'[q].status = pg[q].status
    BY <2>1
  <2>3. \A q : \A s : Follows(q, s) => Follows(q, s)'
    BY <2>1 DEF Follows
  <2> QED BY <2>1, <2>2, <2>3, FollowStays
<1>8. CASE UNCHANGED regVars \/ ClockTick
  BY <1>2, <1>8 DEF regVars, ClockTick
<1> QED BY <1>3, <1>4, <1>5, <1>6, <1>7, <1>8 DEF RegistryNext

(* At first nobody is known.                                                *)
LEMMA RegistryInit == InitRegistry => SwarmOK /\ EntriesOK /\ FollowOK
<1> SUFFICES ASSUME InitRegistry PROVE SwarmOK /\ EntriesOK /\ FollowOK
  OBVIOUS
<1>1. DOMAIN <<>> = {} /\ Len(<<>>) = 0 /\ <<>> \in Seq(MemberEvent)
  OBVIOUS
<1>2. Connected = {}
  BY DEF InitRegistry, Connected
<1>3. Cardinality(Connected) = 0
  BY <1>2, FS_EmptySet
<1>4. SwarmOK
  BY <1>1, <1>2, <1>3 DEF InitRegistry, SwarmOK
<1>5. EntriesOK
  BY <1>1 DEF InitRegistry, EntriesOK
<1>6. FollowOK
  BY <1>1 DEF InitRegistry, FollowOK
<1> QED BY <1>4, <1>5, <1>6

(* However connections open and close, peers identify themselves, the clock *)
(* stands still and the bridge lags behind: the peer count is exact, a node *)
(* once heard of keeps its entry, and when the bridge has caught up the     *)
(* registry says who is connected (server.rs, the bridge; postgres.rs, the  *)
(* upsert).                                                                 *)
THEOREM RegistryIsTrue == RegistrySpec => []RegistryFollows
<1> DEFINE Inv == SwarmOK /\ EntriesOK /\ FollowOK
<1>1. InitRegistry => Inv
  BY RegistryInit
<1>2. Inv /\ [RegistryNext]_regVars => Inv'
  BY SwarmNext, EntriesNext, FollowNext
<1>3. Inv => RegistryFollows
  <2> SUFFICES ASSUME Inv PROVE RegistryFollows
    OBVIOUS
  <2>1. peer_count = Cardinality(Connected) /\ MembersReply \subseteq Connected
    BY DEF SwarmOK, MembersReply
  <2>2. \A p \in DOMAIN heard :
          /\ p \in DOMAIN pg
          /\ pg[p].first = heard[p].at
          /\ heard[p].up => pg[p].addr # NoAddr
          /\ p \in retired => pg[p].status = "decommissioned"
    BY DEF EntriesOK
  <2>3. membership = <<>> =>
          \A p \in DOMAIN pg \ (retired \cup tied) :
              IF p \in DOMAIN known_peers
              THEN known_peers[p] => pg[p].status = "active"
              ELSE pg[p].status = "unreachable"
    BY DEF FollowOK, Follows
  <2> QED BY <2>1, <2>2, <2>3 DEF RegistryFollows
<1>4. RegistrySpec => []Inv
  BY <1>1, <1>2, PTL DEF RegistrySpec
<1> QED BY <1>3, <1>4, PTL

(* Two entries that differ at most in which address they keep.              *)
Alike(x, y) == /\ x.first = y.first /\ x.last = y.last /\ x.status = y.status
               /\ x.addr = NoAddr <=> y.addr = NoAddr
AgreeOK ==
    /\ inner \in [DOMAIN pg -> Entry]
    /\ \A p \in DOMAIN pg : Alike(pg[p], inner[p])

(* Both backends merge an entry that is not older than theirs alike.        *)
LEMMA MergesAgree ==
    ASSUME NEW row \in Entry, NEW cur \in Entry, Alike(row, cur), NEW t \in Nat, row.last <= t,
           NEW a \in Addrs \cup {NoAddr}, NEW s \in {"active", "unreachable"}, NEW p, NEW f, NEW g,
           p \in DOMAIN f, p \in DOMAIN g, f[p] = row, g[p] = cur
    PROVE  LET e == [addr |-> a, first |-> t, last |-> t, status |-> s]
           IN  /\ MergeEntry(g, p, e)[p] \in Entry
               /\ Alike(UpsertRow(f, p, e)[p], MergeEntry(g, p, e)[p])
<1> DEFINE e == [addr |-> a, first |-> t, last |-> t, status |-> s]
           x == UpsertRow(f, p, e)[p]
           y == MergeEntry(g, p, e)[p]
<1>1. /\ row.addr \in Addrs \cup {NoAddr} /\ row.first \in Nat /\ row.last \in Nat
      /\ row.status \in {"active", "unreachable", "decommissioned"}
      /\ cur.addr \in Addrs \cup {NoAddr} /\ cur.first = row.first /\ cur.last = row.last
      /\ cur.status = row.status /\ (row.addr = NoAddr <=> cur.addr = NoAddr)
  BY DEF Entry, Alike
<1>2. e.addr = a /\ e.first = t /\ e.last = t /\ e.status = s
  OBVIOUS
<1> HIDE DEF e
<1>3. x = [addr |-> RowAddr(row, e), first |-> Smaller(row.first, e.first),
           last |-> Larger(row.last, e.last),
           status |-> IF "decommissioned" \in {row.status, e.status} THEN "decommissioned"
                      ELSE IF e.last > row.last THEN e.status ELSE row.status]
  BY DEF UpsertRow, Put
<1>4. y = [addr |-> latest_non_empty_addr(cur, e), first |-> Smaller(cur.first, e.first),
           last |-> Larger(cur.last, e.last),
           status |-> IF "decommissioned" \in {cur.status, e.status} THEN "decommissioned"
                      ELSE IF e.last > cur.last THEN e.status ELSE cur.status]
  BY DEF MergeEntry, Put, merge
<1> HIDE DEF x, y
<1>5. x.addr = RowAddr(row, e) /\ y.addr = latest_non_empty_addr(cur, e)
      /\ x.first = y.first /\ x.last = y.last /\ x.status = y.status
  BY <1>1, <1>2, <1>3, <1>4
<1>6. /\ y.addr \in Addrs \cup {NoAddr} /\ (x.addr = NoAddr <=> y.addr = NoAddr)
  BY <1>1, <1>2, <1>5 DEF RowAddr, latest_non_empty_addr
<1>7. y \in Entry
  <2>1. Smaller(cur.first, e.first) \in Nat /\ Larger(cur.last, e.last) \in Nat
    BY <1>1, <1>2 DEF Smaller, Larger
  <2> QED BY <1>1, <1>2, <1>4, <1>5, <1>6, <2>1 DEF Entry
<1>8. Alike(x, y)
  BY <1>5, <1>6 DEF Alike
<1> QED BY <1>7, <1>8 DEF x, y, e

(* Both registries take every step together.                                *)
LEMMA AgreeNext == SwarmOK /\ EntriesOK /\ AgreeOK /\ [RegistryNext]_regVars => AgreeOK'
<1> SUFFICES ASSUME SwarmOK, EntriesOK, AgreeOK, [RegistryNext]_regVars PROVE AgreeOK'
  OBVIOUS
<1>1. pg \in [DOMAIN pg -> Entry] /\ inner \in [DOMAIN pg -> Entry] /\ now_ms \in Nat
  BY DEF EntriesOK, AgreeOK
<1>2. CASE BridgeStep
  <2> DEFINE m == Head(membership)
             p == m.peer
             e == [addr |-> m.addr, first |-> now_ms, last |-> now_ms, status |-> m.status]
  <2>1. pg' = UpsertRow(pg, p, e) /\ inner' = MergeEntry(inner, p, e)
    BY <1>2 DEF BridgeStep
  <2>2. m \in MemberEvent
    BY <1>2 DEF BridgeStep, SwarmOK
  <2>3. m.addr \in Addrs \cup {NoAddr} /\ m.status \in {"active", "unreachable"}
    BY <2>2 DEF MemberEvent
  <2>4. e \in Entry
    BY <1>1, <2>3 DEF Entry
  <2>5. inner'[p] \in Entry /\ Alike(pg'[p], inner'[p])
    <3>1. CASE p \in DOMAIN pg
      <4>1. /\ pg[p] \in Entry /\ inner[p] \in Entry /\ Alike(pg[p], inner[p])
            /\ pg[p].last <= now_ms /\ p \in DOMAIN inner
        BY <1>1, <3>1 DEF EntriesOK, AgreeOK
      <4>2. PICK row, cur : row = pg[p] /\ cur = inner[p]
        OBVIOUS
      <4> HIDE DEF p, m
      <4>3. /\ MergeEntry(inner, p, e)[p] \in Entry
            /\ Alike(UpsertRow(pg, p, e)[p], MergeEntry(inner, p, e)[p])
        BY <1>1, <2>3, <3>1, <4>1, <4>2, MergesAgree
      <4> QED BY <2>1, <4>3
    <3>2. CASE p \notin DOMAIN pg
      <4>1. p \notin DOMAIN inner
        BY <1>1, <3>2
      <4> HIDE DEF e
      <4>2. pg'[p] = e /\ inner'[p] = e
        BY <2>1, <3>2, <4>1 DEF UpsertRow, MergeEntry, Put
      <4> QED BY <2>4, <4>2 DEF Alike
    <3> QED BY <3>1, <3>2
  <2> HIDE DEF e, p, m
  <2>6. /\ DOMAIN pg' = DOMAIN pg \cup {p} /\ DOMAIN inner' = DOMAIN inner \cup {p}
        /\ \A q \in DOMAIN pg \ {p} : pg'[q] = pg[q]
        /\ \A q \in DOMAIN inner \ {p} : inner'[q] = inner[q]
        /\ inner' = [q \in DOMAIN inner' |-> inner'[q]]
    BY <2>1 DEF UpsertRow, MergeEntry, Put
  <2>7. \A q \in DOMAIN pg' : inner'[q] \in Entry /\ Alike(pg'[q], inner'[q])
    <3> TAKE q \in DOMAIN pg'
    <3>1. CASE q = p
      BY <2>5, <3>1
    <3>2. CASE q # p
      BY <1>1, <2>6, <3>2 DEF AgreeOK
    <3> QED BY <3>1, <3>2
  <2>8. DOMAIN inner' = DOMAIN pg'
    BY <1>1, <2>6
  <2> QED BY <2>6, <2>7, <2>8 DEF AgreeOK
<1>3. ASSUME NEW p \in RegPeers, decommission_node(p) PROVE AgreeOK'
  <2>1. /\ p \in DOMAIN pg /\ pg' = [pg EXCEPT ![p].status = "decommissioned"]
        /\ inner' = [inner EXCEPT ![p].status = "decommissioned"]
    BY <1>3 DEF decommission_node
  <2> DEFINE x == pg[p]
             y == inner[p]
             u == [x EXCEPT !.status = "decommissioned"]
             v == [y EXCEPT !.status = "decommissioned"]
  <2>2. /\ x \in Entry /\ y \in Entry /\ Alike(x, y)
        /\ pg' = [pg EXCEPT ![p] = u] /\ inner' = [inner EXCEPT ![p] = v]
    BY <1>1, <2>1 DEF AgreeOK
  <2> HIDE DEF x, y
  <2>3. v \in Entry /\ Alike(u, v)
    BY <2>2 DEF Entry, Alike
  <2> HIDE DEF u, v
  <2>4. /\ DOMAIN pg' = DOMAIN pg /\ inner' \in [DOMAIN pg -> Entry]
        /\ pg'[p] = u /\ inner'[p] = v
        /\ \A q \in DOMAIN pg \ {p} : pg'[q] = pg[q] /\ inner'[q] = inner[q]
    BY <1>1, <2>1, <2>2, <2>3
  <2>5. \A q \in DOMAIN pg : Alike(pg'[q], inner'[q])
    <3> TAKE q \in DOMAIN pg
    <3>1. CASE q = p
      BY <2>3, <2>4, <3>1
    <3>2. CASE q # p
      BY <2>4, <3>2 DEF AgreeOK
    <3> QED BY <3>1, <3>2
  <2> QED BY <2>4, <2>5 DEF AgreeOK
<1>4. ASSUME UNCHANGED <<pg, inner>> PROVE AgreeOK'
  BY <1>4 DEF AgreeOK
<1>5. ASSUME NEW p, ConnectionEstablished(p) \/ ConnectionClosed(p) PROVE AgreeOK'
  BY <1>4, <1>5 DEF ConnectionEstablished, ConnectionClosed, storeVars
<1>6. ASSUME NEW p, NEW l, NEW a, IdentifyReceived(p, l, a) PROVE AgreeOK'
  BY <1>4, <1>6 DEF IdentifyReceived, storeVars
<1>7. CASE UNCHANGED regVars \/ ClockTick
  BY <1>4, <1>7 DEF regVars, ClockTick
<1> QED BY <1>2, <1>3, <1>5, <1>6, <1>7 DEF RegistryNext

(* The registry of the in-memory backend, which the tests run on, and the   *)
(* one of the database say the same of every node, except which of two      *)
(* addresses of the same millisecond they keep (types/src/lib.rs, merge;    *)
(* postgres.rs, upsert_registry_entry).                                     *)
THEOREM RegistriesStayAlike == RegistrySpec => []RegistriesAgree
<1> DEFINE Inv == SwarmOK /\ EntriesOK /\ AgreeOK
<1>1. InitRegistry => Inv
  <2>1. DOMAIN <<>> = {}
    OBVIOUS
  <2>2. InitRegistry => AgreeOK
    BY <2>1 DEF InitRegistry, AgreeOK
  <2> QED BY <2>2, RegistryInit
<1>2. Inv /\ [RegistryNext]_regVars => Inv'
  BY SwarmNext, EntriesNext, AgreeNext
<1>3. Inv => RegistriesAgree
  <2> SUFFICES ASSUME Inv PROVE RegistriesAgree
    OBVIOUS
  <2>1. DOMAIN pg = DOMAIN inner /\ pg \in [DOMAIN pg -> Entry] /\ inner \in [DOMAIN pg -> Entry]
    BY DEF EntriesOK, AgreeOK
  <2>2. ASSUME NEW p \in DOMAIN pg
        PROVE  /\ [pg[p] EXCEPT !.addr = NoAddr] = [inner[p] EXCEPT !.addr = NoAddr]
               /\ (pg[p].addr = NoAddr) <=> (inner[p].addr = NoAddr)
    <3> DEFINE x == pg[p]
               y == inner[p]
    <3>1. x \in Entry /\ y \in Entry /\ Alike(x, y)
      BY <2>1 DEF AgreeOK
    <3> HIDE DEF x, y
    <3>2. [x EXCEPT !.addr = NoAddr] = [y EXCEPT !.addr = NoAddr]
      BY <3>1 DEF Entry, Alike
    <3>3. (x.addr = NoAddr) <=> (y.addr = NoAddr)
      BY <3>1 DEF Alike
    <3> QED BY <3>2, <3>3 DEF x, y
  <2> QED BY <2>1, <2>2 DEF RegistriesAgree
<1>4. RegistrySpec => []Inv
  BY <1>1, <1>2, PTL DEF RegistrySpec
<1> QED BY <1>3, <1>4, PTL

-----------------------------------------------------------------------------
(* The bulk insert is a fold over the batch: what FoldLeft computes.        *)

(* Every finite, nonempty set of numbers has a largest member.              *)
LEMMA LargestOf ==
  ASSUME NEW S, IsFiniteSet(S), \A x \in S : x \in Int, S # {}
  PROVE  \E x \in S : \A y \in S : y <= x
<1> DEFINE T == {s \in SUBSET S : s # {} /\ ~\E x \in s : \A y \in s : y <= x}
<1> SUFFICES ASSUME T # {} PROVE FALSE
  OBVIOUS
<1>1. PICK s \in T : \A q \in T : q \subseteq s => q = s
  <2>1. T \subseteq SUBSET S
    OBVIOUS
  <2> HIDE DEF T
  <2> QED BY <2>1, LeastSubset
<1>2. PICK a \in s : TRUE
  BY <1>1
<1> DEFINE q == s \ {a}
<1>3. q \notin T /\ \A x \in s : x \in Int
  BY <1>1, <1>2
<1>4. CASE q = {}
  <2>1. \A y \in s : y <= a
    BY <1>2, <1>3, <1>4
  <2> QED BY <2>1, <1>1, <1>2
<1>5. CASE q # {}
  <2>1. q \in SUBSET S
    BY <1>1
  <2>2. PICK x \in q : \A y \in q : y <= x
    BY <1>3, <1>5, <2>1
  <2>3. x \in s /\ x \in Int /\ a \in Int
    BY <2>2, <1>2, <1>3
  <2>4. x <= a => \A y \in s : y <= a
    BY <2>2, <2>3, <1>3
  <2>5. a <= x => \A y \in s : y <= x
    BY <2>2, <2>3, <1>3
  <2> QED BY <2>3, <2>4, <2>5, <1>1, <1>2
<1> QED BY <1>4, <1>5

LEMMA MaxIn ==
  ASSUME NEW S, IsFiniteSet(S), \A x \in S : x \in Int, S # {}
  PROVE  Max(S) \in S /\ \A y \in S : y <= Max(S)
<1>1. PICK x \in S : \A y \in S : y <= x
  BY LargestOf
<1>2. \A y \in S : x >= y
  BY <1>1
<1>3. Max(S) \in S /\ \A y \in S : Max(S) >= y
  BY <1>2 DEF Max
<1> QED BY <1>3

(* One step of either fold, and the equation the fold of b solves.          *)
BulkStep(w, acc, e) == IF w = "mem" THEN MemStep(acc, e) ELSE PgStep(acc, e)
IsBulk(f, w, b, base, S) ==
  f = [s \in SUBSET S |-> IF s = {} THEN base ELSE BulkStep(w, f[s \ {Max(s)}], b[Max(s)])]

(* Two solutions agree wherever both are defined.                           *)
LEMMA BulksAgree ==
  ASSUME NEW w, NEW b, NEW base, NEW A, NEW B, NEW f, NEW g, IsFiniteSet(A), \A x \in A : x \in Int,
         IsBulk(f, w, b, base, A), IsBulk(g, w, b, base, B),
         NEW s, s \subseteq A, s \subseteq B
  PROVE  f[s] = g[s]
<1> DEFINE T == {r \in SUBSET A : r \subseteq B /\ f[r] # g[r]}
<1> SUFFICES ASSUME T # {} PROVE FALSE
  OBVIOUS
<1>1. PICK r \in T : \A q \in T : q \subseteq r => q = r
  <2>1. T \subseteq SUBSET A
    OBVIOUS
  <2> HIDE DEF T
  <2> QED BY <2>1, LeastSubset
<1>2. CASE r = {}
  BY <1>1, <1>2 DEF IsBulk
<1>3. CASE r # {}
  <2> DEFINE p == Max(r)
             q == r \ {p}
  <2>1. p \in r
    <3>1. IsFiniteSet(r) /\ \A x \in r : x \in Int
      BY <1>1, FS_Subset
    <3> QED BY <3>1, <1>3, MaxIn
  <2>2. f[q] = g[q]
    BY <1>1, <2>1
  <2>3. f[r] = BulkStep(w, f[q], b[p])
    BY <1>1, <1>3 DEF IsBulk
  <2>4. g[r] = BulkStep(w, g[q], b[p])
    BY <1>1, <1>3 DEF IsBulk
  <2> QED BY <2>2, <2>3, <2>4, <1>1
<1> QED BY <1>2, <1>3

(* The equation has a solution.                                             *)
LEMMA BulkExists ==
  ASSUME NEW w, NEW b, NEW base, NEW S, IsFiniteSet(S), \A x \in S : x \in Int
  PROVE  \E f : IsBulk(f, w, b, base, S)
<1> DEFINE T == {r \in SUBSET S : ~\E f : IsBulk(f, w, b, base, r)}
           G(r) == CHOOSE f : IsBulk(f, w, b, base, r)
<1> SUFFICES ASSUME T # {} PROVE FALSE
  OBVIOUS
<1>1. PICK s \in T : \A q \in T : q \subseteq s => q = s
  <2>1. T \subseteq SUBSET S
    OBVIOUS
  <2> HIDE DEF T
  <2> QED BY <2>1, LeastSubset
<1>2. \A r \in SUBSET s : r # s => IsBulk(G(r), w, b, base, r)
  BY <1>1
<1>3. \A r \in SUBSET s : IsFiniteSet(r) /\ \A x \in r : x \in Int
  BY <1>1, FS_Subset
<1> HIDE DEF G
<1>4. \A r \in SUBSET s : \A q \in SUBSET r : r # s => G(r)[q] = G(q)[q]
  <2> SUFFICES ASSUME NEW r \in SUBSET s, NEW q \in SUBSET r, r # s
               PROVE  G(r)[q] = G(q)[q]
    OBVIOUS
  <2>1. q # s
    OBVIOUS
  <2>2. IsBulk(G(r), w, b, base, r) /\ IsBulk(G(q), w, b, base, q)
    BY <1>2, <2>1
  <2>3. IsFiniteSet(r) /\ q \subseteq r /\ \A x \in r : x \in Int
    BY <1>3
  <2> QED BY <2>2, <2>3, BulksAgree
<1> DEFINE V(r) == IF r = {} THEN base
                   ELSE BulkStep(w, G(r \ {Max(r)})[r \ {Max(r)}], b[Max(r)])
           g == [r \in SUBSET s |-> V(r)]
<1>5. \A r \in SUBSET s : r # s => G(r)[r] = V(r)
  <2> SUFFICES ASSUME NEW r \in SUBSET s, r # s PROVE G(r)[r] = V(r)
    OBVIOUS
  <2>1. G(r)[r] = IF r = {} THEN base ELSE BulkStep(w, G(r)[r \ {Max(r)}], b[Max(r)])
    BY <1>2 DEF IsBulk
  <2>2. G(r)[r \ {Max(r)}] = G(r \ {Max(r)})[r \ {Max(r)}]
    BY <1>4
  <2> QED BY <2>1, <2>2
<1>6. \A r \in SUBSET s : r # {} => g[r] = BulkStep(w, g[r \ {Max(r)}], b[Max(r)])
  <2> SUFFICES ASSUME NEW r \in SUBSET s, r # {}
               PROVE  g[r] = BulkStep(w, g[r \ {Max(r)}], b[Max(r)])
    OBVIOUS
  <2> DEFINE q == r \ {Max(r)}
  <2>1. Max(r) \in r
    BY <1>3, MaxIn
  <2>2. q \in SUBSET s /\ q # s
    BY <2>1
  <2>3. G(q)[q] = g[q]
    BY <2>2, <1>5
  <2>4. g[r] = BulkStep(w, G(q)[q], b[Max(r)])
    OBVIOUS
  <2> QED BY <2>3, <2>4
<1>7. IsBulk(g, w, b, base, s)
  <2>1. g[{}] = base
    OBVIOUS
  <2>2. g = [r \in SUBSET s |-> g[r]]
    OBVIOUS
  <2> HIDE DEF g
  <2> QED BY <2>1, <2>2, <1>6 DEF IsBulk
<1> QED BY <1>1, <1>7

(* A solution, read along the batch: one step per event.                    *)
Along(f, w, b, base, n) ==
  /\ f[1..0] = base
  /\ \A i \in 1..n : f[1..i] = BulkStep(w, f[1..(i - 1)], b[i])

LEMMA BulkAlong ==
  ASSUME NEW w, NEW b, NEW base, NEW n \in Nat, NEW f, IsBulk(f, w, b, base, 1..n)
  PROVE  Along(f, w, b, base, n)
<1>1. f[1..0] = base
  <2>1. 1..0 = {} /\ {} \in SUBSET (1..n)
    OBVIOUS
  <2> QED BY <2>1 DEF IsBulk
<1>2. ASSUME NEW i \in 1..n PROVE f[1..i] = BulkStep(w, f[1..(i - 1)], b[i])
  <2> DEFINE s == 1..i
  <2>1. s \in SUBSET (1..n) /\ s # {} /\ IsFiniteSet(s) /\ i \in s /\ \A x \in s : x \in Int
    <3>1. i \in Int /\ 1 \in Int
      OBVIOUS
    <3>2. IsFiniteSet(1..i)
      BY <3>1, FS_Interval
    <3> QED BY <3>2
  <2>2. Max(s) \in s /\ \A y \in s : y <= Max(s)
    BY <2>1, MaxIn
  <2>3. Max(s) = i
    BY <2>2
  <2>4. s \ {i} = 1..(i - 1)
    OBVIOUS
  <2>5. f[s] = BulkStep(w, f[s \ {Max(s)}], b[Max(s)])
    <3> HIDE DEF s
    <3> QED BY <2>1 DEF IsBulk
  <2> QED BY <2>3, <2>4, <2>5
<1> QED BY <1>1, <1>2 DEF Along

(* What the loop of the in-memory backend goes through.                     *)
LEMMA MemBulkAlong ==
  ASSUME NEW batch, NEW n \in Nat, DOMAIN batch = 1..n
  PROVE  \E f : /\ f[1..0] = [events |-> m_events, ids |-> m_ids, count |-> 0]
                /\ \A i \in 1..n : f[1..i] = MemStep(f[1..(i - 1)], batch[i])
                /\ MemBulk(batch) = f[1..n]
<1> DEFINE base == [events |-> m_events, ids |-> m_ids, count |-> 0]
           Is(f) == f = [s \in SUBSET (1..n) |-> IF s = {} THEN base
                                                 ELSE MemStep(f[s \ {Max(s)}], batch[Max(s)])]
           g == CHOOSE f : Is(f)
<1>1. MemBulk(batch) = g[1..n]
  BY Zenon DEF MemBulk, FoldLeft, MapThenFoldSet
<1> HIDE DEF base
<1>2. \A f : IsBulk(f, "mem", batch, base, 1..n) <=> Is(f)
  BY DEF IsBulk, BulkStep
<1>3. \E f : Is(f)
  <2>1. IsFiniteSet(1..n) /\ \A x \in 1..n : x \in Int
    BY FS_Interval
  <2>2. \E f : IsBulk(f, "mem", batch, base, 1..n)
    BY <2>1, BulkExists
  <2> HIDE DEF Is
  <2> QED BY <2>2, <1>2
<1>4. Is(g)
  <2> HIDE DEF Is
  <2> QED BY <1>3
<1> HIDE DEF g, Is
<1>5. IsBulk(g, "mem", batch, base, 1..n)
  BY <1>2, <1>4
<1>6. g[1..0] = base /\ \A i \in 1..n : g[1..i] = BulkStep("mem", g[1..(i - 1)], batch[i])
  <2> DEFINE w == "mem"
  <2>1. IsBulk(g, w, batch, base, 1..n)
    BY <1>5
  <2> HIDE DEF w
  <2>2. Along(g, w, batch, base, n)
    BY <2>1, BulkAlong
  <2> QED BY <2>2 DEF w, Along
<1>7. \A i \in 1..n : g[1..i] = MemStep(g[1..(i - 1)], batch[i])
  BY <1>6 DEF BulkStep
<1> QED BY <1>1, <1>6, <1>7 DEF base

(* What the statement of the database goes through.                         *)
LEMMA PgBulkAlong ==
  ASSUME NEW batch, NEW n \in Nat, DOMAIN batch = 1..n
  PROVE  \E f : /\ f[1..0] = [table |-> rows, count |-> 0]
                /\ \A i \in 1..n : f[1..i] = PgStep(f[1..(i - 1)], batch[i])
                /\ PgBulk(batch) = f[1..n]
<1> DEFINE base == [table |-> rows, count |-> 0]
           Is(f) == f = [s \in SUBSET (1..n) |-> IF s = {} THEN base
                                                 ELSE PgStep(f[s \ {Max(s)}], batch[Max(s)])]
           g == CHOOSE f : Is(f)
<1>1. PgBulk(batch) = g[1..n]
  BY Zenon DEF PgBulk, FoldLeft, MapThenFoldSet
<1> HIDE DEF base
<1>2. \A f : IsBulk(f, "pg", batch, base, 1..n) <=> Is(f)
  BY DEF IsBulk, BulkStep
<1>3. \E f : Is(f)
  <2>1. IsFiniteSet(1..n) /\ \A x \in 1..n : x \in Int
    BY FS_Interval
  <2>2. \E f : IsBulk(f, "pg", batch, base, 1..n)
    BY <2>1, BulkExists
  <2> HIDE DEF Is
  <2> QED BY <2>2, <1>2
<1>4. Is(g)
  <2> HIDE DEF Is
  <2> QED BY <1>3
<1> HIDE DEF g, Is
<1>5. IsBulk(g, "pg", batch, base, 1..n)
  BY <1>2, <1>4
<1>6. g[1..0] = base /\ \A i \in 1..n : g[1..i] = BulkStep("pg", g[1..(i - 1)], batch[i])
  <2> DEFINE w == "pg"
  <2>1. IsBulk(g, w, batch, base, 1..n)
    BY <1>5
  <2> HIDE DEF w
  <2>2. Along(g, w, batch, base, n)
    BY <2>1, BulkAlong
  <2> QED BY <2>2 DEF w, Along
<1>7. \A i \in 1..n : g[1..i] = PgStep(g[1..(i - 1)], batch[i])
  BY <1>6 DEF BulkStep
<1> QED BY <1>1, <1>6, <1>7 DEF base
-----------------------------------------------------------------------------
(* Inserting into both backends.                                            *)

(* The maps of the in-memory backend say what the table says: one entry for *)
(* every row, under its origin key, and the key under its id.               *)
Mirror(events, ids, table) ==
  /\ table \subseteq Catalogue /\ IsFiniteSet(table)
  /\ \A r, q \in table : origin_key(r) = origin_key(q) => r = q
  /\ DOMAIN events = {origin_key(r) : r \in table}
  /\ \A r \in table : events[origin_key(r)] = r
  /\ DOMAIN ids = {r.id : r \in table}
  /\ \A r \in table : ids[r.id] = origin_key(r)

(* The two unique constraints never disagree: an event goes in exactly when *)
(* its origin key is free.                                                  *)
LEMMA SameVerdict ==
  ASSUME NEW events, NEW ids, NEW table, Mirror(events, ids, table), NEW e \in Catalogue
  PROVE  /\ MemInsert(events, ids, e) = PgInsert(table, e)
         /\ PgInsert(table, e) = "inserted" <=> \A r \in table : origin_key(r) # origin_key(e)
<1>1. \A r \in table : r.id = e.id => r = e
  BY CatalogueAssumption DEF Mirror
<1> DEFINE k == origin_key(e)
           same == {r \in table : origin_key(r) = k}
           taken == e.id \in DOMAIN ids /\ ids[e.id] # k
<1>2. ~taken
  <2> SUFFICES ASSUME taken PROVE FALSE
    OBVIOUS
  <2>1. PICK r \in table : r.id = e.id
    BY DEF Mirror
  <2> QED BY <2>1, <1>1 DEF Mirror
<1>3. k \in DOMAIN events <=> same # {}
  BY DEF Mirror
<1>4. CASE same = {}
  <2>1. k \notin DOMAIN events
    BY <1>3, <1>4
  <2>2. MemInsert(events, ids, e) = "inserted"
    BY <1>2, <2>1 DEF MemInsert
  <2>3. ~\E r \in table : r.id = e.id
    BY <1>1, <1>4
  <2>4. PgInsert(table, e) = "inserted"
    BY <1>4, <2>3 DEF PgInsert
  <2> QED BY <1>4, <2>2, <2>4
<1>5. CASE same # {}
  <2>1. PICK r \in table : origin_key(r) = k
    BY <1>5
  <2>2. k \in DOMAIN events /\ events[k] = r
    BY <2>1, <1>3, <1>5 DEF Mirror
  <2>3. same = {r}
    BY <2>1 DEF Mirror
  <2>4. MemInsert(events, ids, e) = IF r.id # e.id THEN "conflict" ELSE "duplicate"
    BY <1>2, <2>2 DEF MemInsert
  <2>5. PgInsert(table, e) = IF r.id = e.id THEN "duplicate" ELSE "conflict"
    <3>1. \E x \in same : x.id = e.id <=> r.id = e.id
      BY <2>3
    <3> QED BY <3>1, <1>5, <2>3 DEF PgInsert
  <2> QED BY <2>1, <2>4, <2>5
<1> QED BY <1>4, <1>5

LEMMA MirrorPut ==
  ASSUME NEW events, NEW ids, NEW table, Mirror(events, ids, table), NEW e \in Catalogue,
         \A r \in table : origin_key(r) # origin_key(e)
  PROVE  /\ e \notin table
         /\ Mirror(Put(events, origin_key(e), e), Put(ids, e.id, origin_key(e)), table \cup {e})
<1> DEFINE k == origin_key(e)
           t == table \cup {e}
           ev == Put(events, k, e)
           nid == Put(ids, e.id, k)
<1>1. e \notin table
  OBVIOUS
<1>2. \A r \in table : r.id # e.id
  BY CatalogueAssumption, <1>1 DEF Mirror
<1>3. t \subseteq Catalogue /\ IsFiniteSet(t)
  BY FS_AddElement DEF Mirror
<1>4. \A r, q \in t : origin_key(r) = origin_key(q) => r = q
  BY DEF Mirror
<1>5. /\ DOMAIN ev = DOMAIN events \cup {k} /\ ev[k] = e
      /\ \A x \in DOMAIN events : x # k => ev[x] = events[x]
  BY DEF Put
<1>6. /\ DOMAIN nid = DOMAIN ids \cup {e.id} /\ nid[e.id] = k
      /\ \A x \in DOMAIN ids : x # e.id => nid[x] = ids[x]
  BY DEF Put
<1> HIDE DEF ev, nid
<1>7. DOMAIN ev = {origin_key(r) : r \in t} /\ DOMAIN nid = {r.id : r \in t}
  BY <1>5, <1>6 DEF Mirror
<1>8. ASSUME NEW r \in t PROVE ev[origin_key(r)] = r /\ nid[r.id] = origin_key(r)
  <2>1. CASE r = e
    BY <2>1, <1>5, <1>6
  <2>2. CASE r # e
    <3>1. r \in table
      BY <2>2
    <3>2. origin_key(r) \in DOMAIN events /\ origin_key(r) # k /\ events[origin_key(r)] = r
      BY <3>1 DEF Mirror
    <3>3. r.id \in DOMAIN ids /\ r.id # e.id /\ ids[r.id] = origin_key(r)
      BY <3>1, <1>2 DEF Mirror
    <3> QED BY <3>2, <3>3, <1>5, <1>6
  <2> QED BY <2>1, <2>2
<1>9. Mirror(ev, nid, t)
  BY <1>3, <1>4, <1>7, <1>8 DEF Mirror
<1> QED BY <1>1, <1>9 DEF ev, nid

(* Table r is table t with the first i events of b inserted: every key is   *)
(* there, and a new row is the first of its key.                            *)
IsFirst(e, b, i) ==
  \E x \in 1..i : b[x] = e /\ \A y \in 1..(x - 1) : origin_key(b[y]) # origin_key(e)
Loaded(r, t, b, i) ==
  /\ t \subseteq r
  /\ \A e, q \in r : origin_key(e) = origin_key(q) => e = q
  /\ \A x \in 1..i : \E e \in r : origin_key(e) = origin_key(b[x])
  /\ \A e \in r : e \notin t => IsFirst(e, b, i)

LEMMA LoadedTaken ==
  ASSUME NEW r, NEW t, NEW b, NEW i \in Nat, i # 0, Loaded(r, t, b, i - 1),
         \E e \in r : origin_key(e) = origin_key(b[i])
  PROVE  Loaded(r, t, b, i)
<1>1. \A x \in 1..i : \E e \in r : origin_key(e) = origin_key(b[x])
  BY DEF Loaded
<1>2. \A e \in r : e \notin t => IsFirst(e, b, i)
  BY DEF Loaded, IsFirst
<1> QED BY <1>1, <1>2 DEF Loaded

LEMMA LoadedNew ==
  ASSUME NEW r, NEW t, NEW b, NEW i \in Nat, i # 0, Loaded(r, t, b, i - 1),
         \A e \in r : origin_key(e) # origin_key(b[i])
  PROVE  Loaded(r \cup {b[i]}, t, b, i)
<1> DEFINE a == b[i]
           n == r \cup {a}
<1>1. \A e, q \in n : origin_key(e) = origin_key(q) => e = q
  BY DEF Loaded
<1>2. \A x \in 1..i : \E e \in n : origin_key(e) = origin_key(b[x])
  <2> SUFFICES ASSUME NEW x \in 1..i PROVE \E e \in n : origin_key(e) = origin_key(b[x])
    OBVIOUS
  <2>1. CASE x = i
    BY <2>1
  <2>2. CASE x # i
    <3>1. x \in 1..(i - 1)
      BY <2>2
    <3> QED BY <3>1 DEF Loaded
  <2> QED BY <2>1, <2>2
<1>3. IsFirst(a, b, i)
  <2>1. i \in 1..i
    OBVIOUS
  <2>2. ASSUME NEW y \in 1..(i - 1) PROVE origin_key(b[y]) # origin_key(a)
    <3>1. PICK e \in r : origin_key(e) = origin_key(b[y])
      BY DEF Loaded
    <3> QED BY <3>1
  <2> QED BY <2>1, <2>2 DEF IsFirst
<1>4. \A e \in n : e \notin t => IsFirst(e, b, i)
  <2> SUFFICES ASSUME NEW e \in n, e \notin t PROVE IsFirst(e, b, i)
    OBVIOUS
  <2>1. CASE e = a
    BY <2>1, <1>3
  <2>2. CASE e # a
    <3>1. IsFirst(e, b, i - 1)
      BY <2>2 DEF Loaded
    <3> QED BY <3>1 DEF IsFirst
  <2> QED BY <2>1, <2>2
<1>5. t \subseteq n
  BY DEF Loaded
<1> QED BY <1>1, <1>2, <1>4, <1>5 DEF Loaded

(* The table after a batch is determined by that.                           *)
LEMMA LoadedOnce ==
  ASSUME NEW r, NEW q, NEW t, NEW b, NEW n \in Nat, Loaded(r, t, b, n), Loaded(q, t, b, n)
  PROVE  r \subseteq q
<1> SUFFICES ASSUME NEW e \in r, e \notin t PROVE e \in q
  BY DEF Loaded
<1>1. PICK x \in 1..n : b[x] = e /\ \A y \in 1..(x - 1) : origin_key(b[y]) # origin_key(e)
  BY DEF Loaded, IsFirst
<1>2. PICK a \in q : origin_key(a) = origin_key(e)
  BY <1>1 DEF Loaded
<1>3. a \notin t
  BY <1>2 DEF Loaded
<1>4. PICK z \in 1..n : b[z] = a /\ \A y \in 1..(z - 1) : origin_key(b[y]) # origin_key(a)
  BY <1>3 DEF Loaded, IsFirst
<1>5. ~(x < z)
  <2> SUFFICES ASSUME x < z PROVE FALSE
    OBVIOUS
  <2>1. x \in 1..(z - 1)
    OBVIOUS
  <2> QED BY <2>1, <1>1, <1>2, <1>4
<1>6. ~(z < x)
  <2> SUFFICES ASSUME z < x PROVE FALSE
    OBVIOUS
  <2>1. z \in 1..(x - 1)
    OBVIOUS
  <2> QED BY <2>1, <1>1, <1>2, <1>4
<1>7. x = z
  BY <1>5, <1>6
<1> QED BY <1>1, <1>4, <1>7

(* One row more counts one more.                                            *)
LEMMA CountsOne ==
  ASSUME NEW r, NEW t, IsFiniteSet(r), t \subseteq r, NEW e, e \notin r
  PROVE  Cardinality((r \cup {e}) \ t) = Cardinality(r \ t) + 1
<1>1. (r \cup {e}) \ t = (r \ t) \cup {e}
  OBVIOUS
<1>2. IsFiniteSet(r \ t)
  BY FS_Difference
<1>3. e \notin r \ t
  OBVIOUS
<1> QED BY <1>1, <1>2, <1>3, FS_AddElement

(* Least position with a property, for the inductions along a batch.        *)
LEMMA LeastAt ==
  ASSUME NEW n \in Nat, NEW T, T \subseteq 0..n, T # {}
  PROVE  \E i \in T : \A j \in T : i <= j
<1> DEFINE S == {n - i : i \in T}
<1>1. \A x \in S : x \in 0..n
  OBVIOUS
<1>2. S # {} /\ \A x \in S : x \in Int
  <2>1. PICK i \in T : TRUE
    OBVIOUS
  <2>2. n - i \in S
    BY <2>1
  <2> QED BY <1>1, <2>2
<1>3. IsFiniteSet(S)
  <2>1. IsFiniteSet(0..n)
    BY FS_Interval
  <2>2. S \in SUBSET (0..n)
    BY <1>1
  <2> HIDE DEF S
  <2> QED BY <2>1, <2>2, FS_Subset
<1>4. PICK x \in S : \A y \in S : y <= x
  <2> HIDE DEF S
  <2> QED BY <1>2, <1>3, LargestOf
<1>5. PICK i \in T : x = n - i
  OBVIOUS
<1>6. \A j \in T : n - j <= n - i
  BY <1>4, <1>5
<1> QED BY <1>5, <1>6

(* The loop of the in-memory backend.                                       *)
LEMMA MemBulkLoads ==
  ASSUME Mirror(m_events, m_ids, rows), NEW batch, NEW n \in Nat, DOMAIN batch = 1..n,
         \A x \in 1..n : batch[x] \in Catalogue
  PROVE  \E r : /\ Mirror(MemBulk(batch).events, MemBulk(batch).ids, r)
                /\ Loaded(r, rows, batch, n)
                /\ MemBulk(batch).count = Cardinality(r \ rows)
<1>1. PICK f : /\ f[1..0] = [events |-> m_events, ids |-> m_ids, count |-> 0]
               /\ \A i \in 1..n : f[1..i] = MemStep(f[1..(i - 1)], batch[i])
               /\ MemBulk(batch) = f[1..n]
  BY MemBulkAlong
<1> DEFINE Good(i) == \E r : /\ Mirror(f[1..i].events, f[1..i].ids, r)
                             /\ Loaded(r, rows, batch, i)
                             /\ f[1..i].count = Cardinality(r \ rows)
           T == {i \in 0..n : ~Good(i)}
<1>2. Good(0)
  <2>1. /\ f[1..0].events = m_events /\ f[1..0].ids = m_ids /\ f[1..0].count = 0
    BY <1>1
  <2>2. Loaded(rows, rows, batch, 0)
    BY DEF Loaded, Mirror
  <2>3. Cardinality(rows \ rows) = 0
    BY FS_EmptySet
  <2> QED BY <2>1, <2>2, <2>3
<1>3. ASSUME NEW i \in 1..n, Good(i - 1) PROVE Good(i)
  <2> DEFINE a == f[1..(i - 1)]
             c == f[1..i]
             e == batch[i]
  <2>1. PICK r : Mirror(a.events, a.ids, r) /\ Loaded(r, rows, batch, i - 1) /\ a.count = Cardinality(r \ rows)
    BY <1>3
  <2>2. c = MemStep(a, e) /\ e \in Catalogue /\ i \in Nat /\ i # 0
    BY <1>1
  <2>3. MemInsert(a.events, a.ids, e) = "inserted" <=> \A q \in r : origin_key(q) # origin_key(e)
    BY <2>1, <2>2, SameVerdict
  <2>4. CASE \A q \in r : origin_key(q) # origin_key(e)
    <3>1. c = [events |-> Put(a.events, origin_key(e), e),
               ids |-> Put(a.ids, e.id, origin_key(e)), count |-> a.count + 1]
      BY <2>2, <2>3, <2>4 DEF MemStep
    <3>2. e \notin r /\ Mirror(c.events, c.ids, r \cup {e})
      <4>1. /\ e \notin r
            /\ Mirror(Put(a.events, origin_key(e), e), Put(a.ids, e.id, origin_key(e)), r \cup {e})
        <5> DEFINE v == a.events
                   w == a.ids
        <5>1. Mirror(v, w, r) /\ e \in Catalogue
          BY <2>1, <2>2
        <5> HIDE DEF v, w, e
        <5>2. e \notin r /\ Mirror(Put(v, origin_key(e), e), Put(w, e.id, origin_key(e)), r \cup {e})
          BY <5>1, <2>4, MirrorPut
        <5> QED BY <5>2 DEF v, w
      <4>2. c.events = Put(a.events, origin_key(e), e) /\ c.ids = Put(a.ids, e.id, origin_key(e))
        BY <3>1
      <4> HIDE DEF a, c, e
      <4> QED BY <4>1, <4>2
    <3>3. Loaded(r \cup {e}, rows, batch, i)
      BY <2>1, <2>2, <2>4, LoadedNew
    <3>4. c.count = Cardinality((r \cup {e}) \ rows)
      <4>1. IsFiniteSet(r) /\ rows \subseteq r
        BY <2>1 DEF Mirror, Loaded
      <4>2. Cardinality((r \cup {e}) \ rows) = Cardinality(r \ rows) + 1
        BY <4>1, <3>2, CountsOne
      <4>3. c.count = a.count + 1
        BY <3>1
      <4> QED BY <4>2, <4>3, <2>1
    <3> QED BY <3>2, <3>3, <3>4
  <2>5. CASE \E q \in r : origin_key(q) = origin_key(e)
    <3>1. c = a
      BY <2>2, <2>3, <2>5 DEF MemStep
    <3>2. Loaded(r, rows, batch, i)
      BY <2>1, <2>2, <2>5, LoadedTaken
    <3> QED BY <3>1, <3>2, <2>1
  <2> QED BY <2>4, <2>5
<1>4. T = {}
  <2> SUFFICES ASSUME T # {} PROVE FALSE
    OBVIOUS
  <2>1. T \subseteq 0..n
    OBVIOUS
  <2>2. PICK i \in T : \A j \in T : i <= j
    <3> HIDE DEF T
    <3> QED BY <2>1, LeastAt
  <2>3. i \in 0..n /\ ~Good(i)
    BY <2>2
  <2> HIDE DEF Good
  <2>4. i # 0
    BY <2>3, <1>2
  <2>5. i \in 1..n /\ i - 1 \in 0..n /\ ~(i <= i - 1)
    BY <2>3, <2>4
  <2>6. Good(i - 1)
    BY <2>2, <2>5
  <2> QED BY <2>3, <2>5, <2>6, <1>3
<1>5. Good(n)
  <2> HIDE DEF Good
  <2> QED BY <1>4
<1> QED BY <1>1, <1>5

(* The statement of the database.                                           *)
LEMMA PgBulkLoads ==
  ASSUME Mirror(m_events, m_ids, rows), NEW batch, NEW n \in Nat, DOMAIN batch = 1..n,
         \A x \in 1..n : batch[x] \in Catalogue
  PROVE  /\ Loaded(PgBulk(batch).table, rows, batch, n)
         /\ PgBulk(batch).count = Cardinality(PgBulk(batch).table \ rows)
<1>1. PICK f : /\ f[1..0] = [table |-> rows, count |-> 0]
               /\ \A i \in 1..n : f[1..i] = PgStep(f[1..(i - 1)], batch[i])
               /\ PgBulk(batch) = f[1..n]
  BY PgBulkAlong
<1> DEFINE Good(i) == /\ Loaded(f[1..i].table, rows, batch, i)
                      /\ f[1..i].table \subseteq Catalogue /\ IsFiniteSet(f[1..i].table)
                      /\ f[1..i].count = Cardinality(f[1..i].table \ rows)
           T == {i \in 0..n : ~Good(i)}
<1>2. Good(0)
  <2>1. f[1..0].table = rows /\ f[1..0].count = 0
    BY <1>1
  <2>2. Loaded(rows, rows, batch, 0)
    BY DEF Loaded, Mirror
  <2>3. Cardinality(rows \ rows) = 0
    BY FS_EmptySet
  <2> QED BY <2>1, <2>2, <2>3 DEF Mirror
<1>3. ASSUME NEW i \in 1..n, Good(i - 1) PROVE Good(i)
  <2> DEFINE a == f[1..(i - 1)]
             c == f[1..i]
             e == batch[i]
             r == a.table
  <2>1. /\ r \subseteq Catalogue /\ IsFiniteSet(r)
        /\ Loaded(r, rows, batch, i - 1) /\ a.count = Cardinality(r \ rows)
    BY <1>3
  <2>2. c = PgStep(a, e) /\ e \in Catalogue /\ i \in Nat /\ i # 0
    BY <1>1
  <2>3. PgInsert(r, e) = "inserted" <=> \A q \in r : origin_key(q) # origin_key(e)
    <3>1. \A q \in r : q.id = e.id => q = e
      BY <2>1, <2>2, CatalogueAssumption
    <3> HIDE DEF r, e
    <3> DEFINE same == {q \in r : origin_key(q) = origin_key(e)}
    <3>2. CASE same = {}
      <4>1. PgInsert(r, e) = "inserted"
        BY <3>1, <3>2 DEF PgInsert
      <4> QED BY <3>2, <4>1
    <3>3. CASE same # {}
      <4>1. PgInsert(r, e) # "inserted"
        BY <3>3 DEF PgInsert
      <4> QED BY <3>3, <4>1
    <3> QED BY <3>2, <3>3
  <2>4. CASE \A q \in r : origin_key(q) # origin_key(e)
    <3>1. c = [table |-> r \cup {e}, count |-> a.count + 1]
      BY <2>2, <2>3, <2>4 DEF PgStep, Inserted
    <3>2. e \notin r
      BY <2>4
    <3>3. Loaded(r \cup {e}, rows, batch, i)
      BY <2>1, <2>2, <2>4, LoadedNew
    <3>4. rows \subseteq r
      BY <2>1 DEF Loaded
    <3>5. Cardinality((r \cup {e}) \ rows) = Cardinality(r \ rows) + 1
      BY <2>1, <3>2, <3>4, CountsOne
    <3>6. IsFiniteSet(r \cup {e}) /\ r \cup {e} \subseteq Catalogue
      BY <2>1, <2>2, FS_AddElement
    <3>7. c.table = r \cup {e} /\ c.count = a.count + 1
      BY <3>1
    <3> HIDE DEF a, c, e, r
    <3> QED BY <2>1, <3>3, <3>5, <3>6, <3>7 DEF c
  <2>5. CASE \E q \in r : origin_key(q) = origin_key(e)
    <3>1. c = [table |-> r, count |-> a.count + 0]
      BY <2>2, <2>3, <2>5 DEF PgStep, Inserted
    <3>2. Loaded(r, rows, batch, i)
      BY <2>1, <2>2, <2>5, LoadedTaken
    <3>3. a.count \in Nat
      <4>1. IsFiniteSet(r \ rows)
        BY <2>1, FS_Difference
      <4> QED BY <2>1, <4>1, FS_CardinalityType
    <3>4. c.table = r /\ c.count = a.count
      BY <3>1, <3>3
    <3> HIDE DEF a, c, e, r
    <3> QED BY <2>1, <3>2, <3>4 DEF c
  <2> QED BY <2>4, <2>5
<1>4. T = {}
  <2> SUFFICES ASSUME T # {} PROVE FALSE
    OBVIOUS
  <2>1. T \subseteq 0..n
    OBVIOUS
  <2>2. PICK i \in T : \A j \in T : i <= j
    <3> HIDE DEF T
    <3> QED BY <2>1, LeastAt
  <2>3. i \in 0..n /\ ~Good(i)
    BY <2>2
  <2> HIDE DEF Good
  <2>4. i # 0
    BY <2>3, <1>2
  <2>5. i \in 1..n /\ i - 1 \in 0..n /\ ~(i <= i - 1)
    BY <2>3, <2>4
  <2>6. Good(i - 1)
    BY <2>2, <2>5
  <2> QED BY <2>3, <2>5, <2>6, <1>3
<1>5. Good(n)
  <2> HIDE DEF Good
  <2> QED BY <1>4
<1> QED BY <1>1, <1>5

(* A batch lists different events; its sorted form lists the same ones.     *)
LEMMA SeqsOf ==
  ASSUME NEW S, NEW s \in SetToSeqs(S)
  PROVE  /\ DOMAIN s = 1..Cardinality(S)
         /\ \A x \in DOMAIN s : s[x] \in S
         /\ \A x, y \in DOMAIN s : x # y => s[x] # s[y]
         /\ s \in [1..Cardinality(S) -> S]
BY DEF SetToSeqs

LEMMA SortedSame ==
  ASSUME NEW n \in Nat, NEW batch, batch = [x \in 1..n |-> batch[x]],
         NEW s \in SetToSeqs(Range(batch))
  PROVE  /\ Cardinality(Range(batch)) \in Nat
         /\ DOMAIN s = 1..Cardinality(Range(batch))
         /\ \A x \in DOMAIN s : \E z \in 1..n : batch[z] = s[x]
         /\ \A z \in 1..n : \E x \in DOMAIN s : batch[z] = s[x]
<1> DEFINE R == Range(batch)
           m == Cardinality(R)
<1>1. \A r : r \in R <=> \E z \in 1..n : batch[z] = r
  BY DEF Range
<1>2. batch \in Surjection(1..n, R)
  <2>1. batch \in [1..n -> R]
    BY <1>1
  <2> HIDE DEF R
  <2> QED BY <1>1, <2>1 DEF Surjection
<1>3. IsFiniteSet(1..n) /\ Cardinality(1..n) = n
  BY FS_Interval
<1> HIDE DEF R
<1>4. IsFiniteSet(R)
  BY <1>2, <1>3, FS_Surjection
<1>5. m \in Nat
  BY <1>4, FS_CardinalityType
<1>6. DOMAIN s = 1..m /\ s \in [1..m -> R] /\ \A x, y \in 1..m : x # y => s[x] # s[y]
  BY SeqsOf DEF R
<1>7. s \in Injection(1..m, R)
  <2> HIDE DEF m
  <2>1. \A x, y \in 1..m : s[x] = s[y] => x = y
    BY <1>6
  <2> QED BY <1>6, <2>1 DEF Injection, IsInjective
<1>8. Cardinality(1..m) = m
  <2> HIDE DEF m
  <2>1. 1 \in Int /\ m \in Int
    BY <1>5
  <2>2. Cardinality(1..m) = IF 1 > m THEN 0 ELSE m - 1 + 1
    BY <2>1, FS_Interval
  <2> QED BY <1>5, <2>2
<1>9. s \in Surjection(1..m, R)
  BY <1>4, <1>7, <1>8, FS_Injection
<1>10. \A r \in R : \E x \in 1..m : s[x] = r
  BY <1>9 DEF Surjection
<1> QED BY <1>1, <1>5, <1>6, <1>10 DEF R

LEMMA SameKeyNoOrder ==
  ASSUME NEW a \in Catalogue, NEW b \in Catalogue, origin_key(a) = origin_key(b)
  PROVE  ~OriginOrder(a, b)
<1>1. a.bucket = b.bucket /\ a.origin = b.origin /\ a.epoch = b.epoch /\ a.seq = b.seq
  BY DEF origin_key
<1>2. a.order = b.order
  BY <1>1, CatalogueAssumption
<1>3. a.order \in Nat /\ a.epoch \in Nat /\ a.seq \in Nat
  BY CatalogueAssumption
<1> DEFINE x == <<a.order, a.epoch, a.seq>>
           y == <<b.order, b.epoch, b.seq>>
<1>4. x = y
  BY <1>1, <1>2
<1>5. \A i \in 1..3 : x[i] \in Nat
  BY <1>3
<1> HIDE DEF x, y
<1>6. \A i \in 1..3 : ~(x[i] < y[i])
  BY <1>4, <1>5
<1> QED BY <1>6 DEF OriginOrder, x, y

(* A stable sort keeps the first of every key first.                        *)
LEMMA SortedFirst ==
  ASSUME NEW n \in Nat, NEW batch, batch = [x \in 1..n |-> batch[x]],
         \A x \in 1..n : batch[x] \in Catalogue,
         \A x, y \in 1..n : x # y => batch[x] # batch[y],
         NEW s \in StablySorted(batch),
         NEW m \in Nat, DOMAIN s = 1..m,
         \A x \in 1..m : \E z \in 1..n : batch[z] = s[x],
         \A z \in 1..n : \E x \in 1..m : batch[z] = s[x],
         NEW e, IsFirst(e, s, m)
  PROVE  IsFirst(e, batch, n)
<1>3. \A i, j \in 1..m : i < j => \/ OriginOrder(s[i], s[j])
                                  \/ Precedes(batch, s[i], s[j])
  BY DEF StablySorted
<1>4. PICK x \in 1..m : s[x] = e /\ \A y \in 1..(x - 1) : origin_key(s[y]) # origin_key(e)
  BY DEF IsFirst
<1>5. PICK z \in 1..n : batch[z] = e
  BY <1>4
<1>6. ASSUME NEW y \in 1..(z - 1), origin_key(batch[y]) = origin_key(e) PROVE FALSE
  <2>1. y \in 1..n /\ y # z /\ y < z
    OBVIOUS
  <2>2. PICK w \in 1..m : s[w] = batch[y]
    BY <2>1
  <2>3. batch[y] # e
    BY <1>5, <2>1
  <2>4. w # x
    BY <1>4, <2>2, <2>3
  <2>5. ~(w < x)
    <3> SUFFICES ASSUME w < x PROVE FALSE
      OBVIOUS
    <3>1. w \in 1..(x - 1)
      OBVIOUS
    <3> QED BY <3>1, <1>4, <1>6, <2>2
  <2>6. x < w
    BY <2>4, <2>5
  <2>7. ~OriginOrder(s[x], s[w])
    <3>1. s[x] \in Catalogue /\ s[w] \in Catalogue
      BY <1>4, <1>5, <2>1, <2>2
    <3> QED BY <3>1, <1>4, <1>6, <2>2, SameKeyNoOrder
  <2>8. Precedes(batch, s[x], s[w])
    BY <1>3, <2>6, <2>7
  <2>9. PICK i \in DOMAIN batch, j \in DOMAIN batch : i < j /\ batch[i] = e /\ batch[j] = batch[y]
    BY <2>8, <1>4, <2>2 DEF Precedes
  <2>10. i = z /\ j = y
    BY <2>9, <2>1, <1>5
  <2> QED BY <2>1, <2>9, <2>10
<1> QED BY <1>5, <1>6 DEF IsFirst

(* Both backends hold the same events after a batch, and count the same.    *)
LEMMA BulkSame ==
  ASSUME Mirror(m_events, m_ids, rows), NEW n \in Nat, NEW batch, batch = [x \in 1..n |-> batch[x]],
         \A x \in 1..n : batch[x] \in Catalogue,
         \A x, y \in 1..n : x # y => batch[x] # batch[y],
         NEW s \in StablySorted(batch)
  PROVE  /\ Mirror(MemBulk(batch).events, MemBulk(batch).ids, PgBulk(s).table)
         /\ MemBulk(batch).count = PgBulk(s).count
<1> DEFINE m == Cardinality(Range(batch))
           q == PgBulk(s).table
<1>1. /\ m \in Nat /\ DOMAIN s = 1..m
      /\ \A x \in 1..m : \E z \in 1..n : batch[z] = s[x]
      /\ \A z \in 1..n : \E x \in 1..m : batch[z] = s[x]
  <2>1. s \in SetToSeqs(Range(batch))
    BY DEF StablySorted
  <2>2. /\ Cardinality(Range(batch)) \in Nat
        /\ DOMAIN s = 1..Cardinality(Range(batch))
        /\ \A x \in DOMAIN s : \E z \in 1..n : batch[z] = s[x]
        /\ \A z \in 1..n : \E x \in DOMAIN s : batch[z] = s[x]
    BY <2>1, SortedSame
  <2> QED BY <2>2
<1> HIDE DEF m
<1>2. DOMAIN batch = 1..n
  OBVIOUS
<1>3. PICK r : /\ Mirror(MemBulk(batch).events, MemBulk(batch).ids, r)
               /\ Loaded(r, rows, batch, n)
               /\ MemBulk(batch).count = Cardinality(r \ rows)
  BY <1>2, MemBulkLoads
<1>4. \A x \in 1..m : s[x] \in Catalogue
  BY <1>1
<1>5. Loaded(q, rows, s, m) /\ PgBulk(s).count = Cardinality(q \ rows)
  BY <1>1, <1>4, PgBulkLoads
<1> HIDE DEF q
<1>6. Loaded(q, rows, batch, n)
  <2>1. \A e \in q : e \notin rows => IsFirst(e, batch, n)
    <3> SUFFICES ASSUME NEW e \in q, e \notin rows PROVE IsFirst(e, batch, n)
      OBVIOUS
    <3>1. IsFirst(e, s, m)
      BY <1>5 DEF Loaded
    <3> QED BY <3>1, <1>1, SortedFirst
  <2>2. \A z \in 1..n : \E e \in q : origin_key(e) = origin_key(batch[z])
    <3> SUFFICES ASSUME NEW z \in 1..n PROVE \E e \in q : origin_key(e) = origin_key(batch[z])
      OBVIOUS
    <3>1. PICK x \in 1..m : batch[z] = s[x]
      BY <1>1
    <3> QED BY <3>1, <1>5 DEF Loaded
  <2> QED BY <2>1, <2>2, <1>5 DEF Loaded
<1>7. r = q
  <2>1. r \subseteq q /\ q \subseteq r
    BY <1>3, <1>6, LoadedOnce
  <2> QED BY <2>1
<1> QED BY <1>3, <1>5, <1>7 DEF q

-----------------------------------------------------------------------------
(* Reading from both backends.                                              *)

(* The values of the map are the rows of the table.                         *)
LEMMA SameValues ==
  ASSUME NEW events, NEW ids, NEW table, Mirror(events, ids, table)
  PROVE  /\ \A k \in DOMAIN events : events[k] \in table /\ k = origin_key(events[k])
         /\ Range(events) = table
<1>1. \A k \in DOMAIN events : events[k] \in table /\ k = origin_key(events[k])
  BY DEF Mirror
<1>2. \A r \in table : origin_key(r) \in DOMAIN events /\ events[origin_key(r)] = r
  BY DEF Mirror
<1> QED BY <1>1, <1>2 DEF Range

LEMMA AppendOne ==
  ASSUME NEW S, NEW s \in Seq(S), NEW x \in S
  PROVE  /\ Append(s, x) \in Seq(S) /\ Len(Append(s, x)) = Len(s) + 1
         /\ \A i \in 1..Len(s) : Append(s, x)[i] = s[i]
         /\ Append(s, x)[Len(s) + 1] = x
BY AppendProperties

LEMMA AppendFourth ==
  ASSUME NEW a, NEW b, NEW c, NEW x
  PROVE  Append(<<a, b, c>>, x) = <<a, b, c, x>>
<1> DEFINE s == <<a, b, c>>
           t == <<a, b, c, x>>
           u == Append(s, x)
           S == {a, b, c, x}
<1>1. s \in Seq(S) /\ x \in S /\ Len(s) = 3
  OBVIOUS
<1>2. u \in Seq(S) /\ Len(u) = 4 /\ u[4] = x /\ \A i \in 1..3 : u[i] = s[i]
  <2> HIDE DEF s, S
  <2>1. /\ Append(s, x) \in Seq(S) /\ Len(Append(s, x)) = Len(s) + 1
        /\ \A i \in 1..Len(s) : Append(s, x)[i] = s[i]
        /\ Append(s, x)[Len(s) + 1] = x
    BY <1>1, AppendOne
  <2> QED BY <1>1, <2>1
<1>3. u[1] = a /\ u[2] = b /\ u[3] = c /\ u[4] = x
  BY <1>2
<1>4. u = [i \in 1..4 |-> u[i]]
  <2> HIDE DEF u
  <2> QED BY <1>2
<1>5. t = [i \in 1..4 |-> t[i]]
  OBVIOUS
<1>6. \A i \in 1..4 : u[i] = t[i]
  <2> HIDE DEF u
  <2> QED BY <1>3
<1>7. u = t
  <2> HIDE DEF u, t
  <2> QED BY <1>4, <1>5, <1>6
<1> QED BY <1>7

LEMMA KeyParts ==
  ASSUME NEW r
  PROVE  /\ SubSeq(origin_key(r), 1, 3) = epoch_key(r)
         /\ origin_key(r)[1] = r.bucket /\ origin_key(r)[2] = r.origin
         /\ origin_key(r)[3] = r.epoch /\ origin_key(r)[4] = r.seq
         /\ \A s : Append(epoch_key(r), s) = <<r.bucket, r.origin, r.epoch, s>>
         /\ Append(epoch_key(r), r.account) = <<r.bucket, r.origin, r.epoch, r.account>>
<1> DEFINE k == origin_key(r)
           t == SubSeq(k, 1, 3)
           s == epoch_key(r)
<1>1. k = <<r.bucket, r.origin, r.epoch, r.seq>> /\ s = <<r.bucket, r.origin, r.epoch>>
  BY DEF origin_key, epoch_key
<1>2. t = [i \in 1..3 |-> k[i]]
  BY <1>1
<1>3. s = [i \in 1..3 |-> s[i]]
  BY <1>1
<1>4. \A i \in 1..3 : k[i] = s[i]
  BY <1>1
<1>5. t = s
  <2> HIDE DEF t, s, k
  <2> QED BY <1>2, <1>3, <1>4
<1>6. ASSUME NEW x PROVE Append(s, x) = <<r.bucket, r.origin, r.epoch, x>>
  BY <1>1, AppendFourth
<1> HIDE DEF k, s, t
<1>7. k[1] = r.bucket /\ k[2] = r.origin /\ k[3] = r.epoch /\ k[4] = r.seq
  BY <1>1
<1> QED BY <1>5, <1>6, <1>7 DEF k, s, t

LEMMA RangesSame ==
  ASSUME Mirror(m_events, m_ids, rows), NEW e, NEW from \in Int, NEW to \in Int
  PROVE  MemRange(epoch_key(e), from, to) = PgRange(epoch_key(e), from, to)
<1>1. \A k \in DOMAIN m_events : m_events[k] \in rows /\ k = origin_key(m_events[k])
  BY SameValues
<1>2. \A r \in rows : origin_key(r) \in DOMAIN m_events /\ m_events[origin_key(r)] = r
  BY DEF Mirror
<1>3. \A r \in rows : r.seq \in Int
  BY CatalogueAssumption DEF Mirror
<1>4. ASSUME NEW r \in rows
      PROVE  (\E s \in from..to : origin_key(r) = Append(epoch_key(e), s))
               <=> (epoch_key(r) = epoch_key(e) /\ r.seq >= from /\ r.seq <= to)
  <2>1. \A s : Append(epoch_key(e), s) = <<e.bucket, e.origin, e.epoch, s>>
    BY KeyParts
  <2>2. \A s : origin_key(r) = Append(epoch_key(e), s) <=> (epoch_key(r) = epoch_key(e) /\ r.seq = s)
    BY <2>1 DEF origin_key, epoch_key
  <2>3. (\E s \in from..to : origin_key(r) = Append(epoch_key(e), s))
          <=> (epoch_key(r) = epoch_key(e) /\ \E s \in from..to : r.seq = s)
    BY <2>2
  <2>4. (\E s \in from..to : r.seq = s) <=> r.seq >= from /\ r.seq <= to
    BY <1>3
  <2> QED BY <2>3, <2>4
<1>5. ASSUME NEW v PROVE v \in MemRange(epoch_key(e), from, to) <=> v \in PgRange(epoch_key(e), from, to)
  <2>1. v \in MemRange(epoch_key(e), from, to)
          <=> v \in rows /\ \E s \in from..to : origin_key(v) = Append(epoch_key(e), s)
    <3> DEFINE k == epoch_key(e)
    <3> HIDE DEF k
    <3>1. v \in MemRange(k, from, to) <=> v \in rows /\ \E s \in from..to : origin_key(v) = Append(k, s)
      BY <1>1, <1>2 DEF MemRange
    <3> QED BY <3>1 DEF k
  <2>2. v \in PgRange(epoch_key(e), from, to)
          <=> v \in rows /\ epoch_key(v) = epoch_key(e) /\ v.seq >= from /\ v.seq <= to
    BY DEF PgRange
  <2> QED BY <2>1, <2>2, <1>4
<1> QED BY <1>5

LEMMA SequencesSame ==
  ASSUME Mirror(m_events, m_ids, rows)
  PROVE  MemSequences = PgSequences
<1>1. \A k \in DOMAIN m_events : m_events[k] \in rows /\ k = origin_key(m_events[k])
  BY SameValues
<1>2. \A r \in rows : origin_key(r) \in DOMAIN m_events /\ m_events[origin_key(r)] = r
  BY DEF Mirror
<1>3. \A r : SubSeq(origin_key(r), 1, 3) = epoch_key(r) /\ origin_key(r)[4] = r.seq
  BY KeyParts
<1> DEFINE A == {SubSeq(k, 1, 3) : k \in DOMAIN m_events}
           B == {epoch_key(r) : r \in rows}
           F(l) == {k[4] : k \in {x \in DOMAIN m_events : SubSeq(x, 1, 3) = l}}
           G(l) == {r.seq : r \in {x \in rows : epoch_key(x) = l}}
<1>4. A = B
  <2>1. ASSUME NEW v \in A PROVE v \in B
    <3>1. PICK k \in DOMAIN m_events : v = SubSeq(k, 1, 3)
      OBVIOUS
    <3>2. PICK r \in rows : k = origin_key(r)
      BY <1>1
    <3>3. v = epoch_key(r)
      BY <3>1, <3>2, <1>3
    <3> QED BY <3>2, <3>3
  <2>2. ASSUME NEW v \in B PROVE v \in A
    <3>1. PICK r \in rows : v = epoch_key(r)
      OBVIOUS
    <3> DEFINE k == origin_key(r)
    <3>2. k \in DOMAIN m_events /\ v = SubSeq(k, 1, 3)
      BY <3>1, <1>2, <1>3
    <3> HIDE DEF k
    <3> QED BY <3>2
  <2> QED BY <2>1, <2>2
<1>5. ASSUME NEW l PROVE F(l) = G(l)
  <2>1. ASSUME NEW v \in F(l) PROVE v \in G(l)
    <3>1. PICK k \in DOMAIN m_events : SubSeq(k, 1, 3) = l /\ v = k[4]
      OBVIOUS
    <3> DEFINE r == m_events[k]
    <3>2. r \in rows /\ k = origin_key(r)
      BY <1>1
    <3>3. epoch_key(r) = l /\ r.seq = v
      BY <3>1, <3>2, <1>3
    <3> QED BY <3>2, <3>3
  <2>2. ASSUME NEW v \in G(l) PROVE v \in F(l)
    <3>1. PICK r \in rows : epoch_key(r) = l /\ v = r.seq
      OBVIOUS
    <3> DEFINE k == origin_key(r)
    <3>2. k \in DOMAIN m_events
      BY <1>2
    <3>3. SubSeq(k, 1, 3) = l /\ k[4] = v
      BY <3>1, <1>3
    <3> HIDE DEF k
    <3> QED BY <3>2, <3>3
  <2> QED BY <2>1, <2>2
<1>6. [l \in A |-> F(l)] = [l \in B |-> G(l)]
  <2> HIDE DEF A, B, F, G
  <2> QED BY <1>4, <1>5
<1> QED BY <1>6 DEF MemSequences, PgSequences

LEMMA NextSeqSame ==
  ASSUME Mirror(m_events, m_ids, rows), NEW l
  PROVE  MemNextSeq(l) = PgNextSeq(l)
<1> DEFINE M == {r.seq : r \in {x \in rows : epoch_key(x) = l}}
<1>1. l \in DOMAIN MemSequences <=> M # {}
  <2>1. DOMAIN MemSequences = {epoch_key(r) : r \in rows}
    BY SequencesSame DEF PgSequences
  <2> QED BY <2>1
<1>2. l \in DOMAIN MemSequences => MemSequences[l] = M
  <2>1. \A x \in DOMAIN PgSequences : PgSequences[x] = {r.seq : r \in {q \in rows : epoch_key(q) = x}}
    BY DEF PgSequences
  <2> QED BY <2>1, SequencesSame
<1>3. \A x \in M : x \in Nat
  BY CatalogueAssumption DEF Mirror
<1>4. PgNextSeq(l) = 1 + (CHOOSE s \in {0} \cup M : \A r \in rows : epoch_key(r) = l => r.seq <= s)
  BY DEF PgNextSeq
<1>5. \A s : (\A r \in rows : epoch_key(r) = l => r.seq <= s) <=> (\A t \in M : t <= s)
  OBVIOUS
<1>6. CASE M = {}
  <2> DEFINE P(s) == \A r \in rows : epoch_key(r) = l => r.seq <= s
             c == CHOOSE s \in {0} \cup M : P(s)
  <2>1. P(0)
    BY <1>5, <1>6
  <2>2. c \in {0} \cup M
    <3> HIDE DEF P, M
    <3> QED BY <2>1
  <2>3. c = 0
    BY <2>2, <1>6
  <2> HIDE DEF c
  <2>4. PgNextSeq(l) = 1 + c
    BY <1>4 DEF c
  <2>5. MemNextSeq(l) = 1
    BY <1>1, <1>6 DEF MemNextSeq
  <2> QED BY <2>3, <2>4, <2>5
<1>7. CASE M # {}
  <2> DEFINE Top(s) == \A t \in M : t <= s
             c == CHOOSE s \in M : Top(s)
             P(s) == \A r \in rows : epoch_key(r) = l => r.seq <= s
             d == CHOOSE s \in {0} \cup M : P(s)
  <2>1. IsFiniteSet(M)
    <3> DEFINE R == {x \in rows : epoch_key(x) = l}
               f == [r \in R |-> r.seq]
    <3>1. IsFiniteSet(R)
      <4>1. IsFiniteSet(rows)
        BY DEF Mirror
      <4>2. R \in SUBSET rows
        OBVIOUS
      <4> HIDE DEF R
      <4> QED BY <4>1, <4>2, FS_Subset
    <3>2. f \in Surjection(R, M)
      BY DEF Surjection
    <3> HIDE DEF R, M
    <3> QED BY <3>1, <3>2, FS_Surjection
  <2>2. \E x \in M : \A y \in M : y <= x
    <3>1. \A x \in M : x \in Int
      BY <1>3
    <3> HIDE DEF M
    <3> QED BY <2>1, <3>1, <1>7, LargestOf
  <2>3. \A s : P(s) <=> Top(s)
    BY <1>5
  <2> HIDE DEF M, Top, P
  <2>4. c \in M /\ Top(c)
    BY <2>2 DEF Top
  <2>5. d \in {0} \cup M /\ Top(d)
    BY <2>3, <2>4
  <2>6. c = d
    <3> HIDE DEF c, d
    <3>1. c \in Nat /\ (d = 0 \/ d \in M) /\ c <= d
      BY <1>3, <2>4, <2>5 DEF Top
    <3>2. d \in Nat
      BY <3>1, <1>3
    <3>3. CASE d \in M
      <4>1. d <= c
        BY <3>3, <2>4 DEF Top
      <4> QED BY <4>1, <3>1, <3>2
    <3>4. CASE d = 0
      BY <3>4, <3>1
    <3> QED BY <3>1, <3>3, <3>4
  <2>7. MemNextSeq(l) = 1 + c
    BY <1>1, <1>2, <1>7 DEF MemNextSeq, Top
  <2>8. PgNextSeq(l) = 1 + d
    BY <1>4 DEF P
  <2> QED BY <2>6, <2>7, <2>8
<1> QED BY <1>6, <1>7

(* The listings, sums and rebuilt holds only look at the values.            *)
LEMMA ListsSame ==
  ASSUME Mirror(m_events, m_ids, rows)
  PROVE  /\ \A e : MemByNonce(e) = PgByNonce(e)
         /\ MemMapping = PgMapping /\ MemChecksum = PgChecksum
         /\ MemReleased = PgReleased
         /\ \A now : MemActiveHolds(now) = PgActiveHolds(now)
         /\ \A f, limit, offset : MemFiltered(f, limit, offset) = PgFiltered(f, limit, offset)
<1>1. \A k \in DOMAIN m_events : m_events[k] \in rows /\ k = origin_key(m_events[k])
  BY SameValues
<1>2. \A r \in rows : origin_key(r) \in DOMAIN m_events /\ m_events[origin_key(r)] = r
  BY DEF Mirror
<1>3. Range(m_events) = rows
  BY SameValues
<1>4. ASSUME NEW e PROVE MemByNonce(e) = PgByNonce(e)
  <2>1. \A r \in rows : (<<r.nonce, r.bucket, r.account, r.amount>> =
                           <<e.nonce, e.bucket, e.account, e.amount>>)
          <=> /\ r.nonce = e.nonce /\ r.bucket = e.bucket
              /\ r.account = e.account /\ r.amount = e.amount
    OBVIOUS
  <2> QED BY <1>1, <1>2, <2>1 DEF MemByNonce, PgByNonce
<1>5. MemMapping = PgMapping
  <2>1. \A r : /\ origin_key(r)[1] = r.bucket /\ origin_key(r)[2] = r.origin
               /\ origin_key(r)[3] = r.epoch
               /\ Append(epoch_key(r), r.account) = <<r.bucket, r.origin, r.epoch, r.account>>
    BY KeyParts
  <2> DEFINE V(k) == <<k[1], k[2], k[3], m_events[k].account>>
             W(r) == Append(epoch_key(r), r.account)
  <2>2. \A r \in rows : V(origin_key(r)) = W(r)
    BY <1>2, <2>1
  <2>3. {V(k) : k \in DOMAIN m_events} = {W(r) : r \in rows}
    <3> HIDE DEF V, W
    <3>1. \A k \in DOMAIN m_events : \E r \in rows : V(k) = W(r)
      BY <1>1, <2>2
    <3>2. \A r \in rows : \E k \in DOMAIN m_events : V(k) = W(r)
      BY <1>2, <2>2
    <3> QED BY <3>1, <3>2
  <2> QED BY <2>3 DEF MemMapping, PgMapping
<1>6. MemChecksum = PgChecksum
  BY <1>3 DEF MemChecksum, PgChecksum
<1>7. MemReleased = PgReleased /\ \A now : MemActiveHolds(now) = PgActiveHolds(now)
  BY <1>3 DEF MemReleased, PgReleased, MemActiveHolds, PgActiveHolds
<1>8. ASSUME NEW f, NEW limit, NEW offset PROVE MemFiltered(f, limit, offset) = PgFiltered(f, limit, offset)
  <2> DEFINE S == {m_events[k] : k \in {x \in DOMAIN m_events : Passes(m_events[x], f)}}
             R == {r \in rows : Passes(r, f)}
  <2>1. S = R
    BY <1>1, <1>2
  <2> HIDE DEF S, R
  <2>2. <<Page(S, limit, offset), Cardinality(S)>> = <<Page(R, limit, offset), Cardinality(R)>>
    BY <2>1
  <2> QED BY <2>2 DEF MemFiltered, PgFiltered, S, R
<1> QED BY <1>4, <1>5, <1>6, <1>7, <1>8

LEMMA BalancesSame ==
  ASSUME Mirror(m_events, m_ids, rows)
  PROVE  MemBalances = PgBalances
<1>1. \A k \in DOMAIN m_events : m_events[k] \in rows /\ k = origin_key(m_events[k])
  BY SameValues
<1>2. \A r \in rows : origin_key(r) \in DOMAIN m_events /\ m_events[origin_key(r)] = r
  BY DEF Mirror
<1> DEFINE A == {<<m_events[k].bucket, m_events[k].account>> : k \in DOMAIN m_events}
           B == {<<r.bucket, r.account>> : r \in rows}
           F(a) == {m_events[k] : k \in {x \in DOMAIN m_events :
                       <<m_events[x].bucket, m_events[x].account>> = a}}
           G(a) == {r \in rows : <<r.bucket, r.account>> = a}
<1>3. A = B
  BY <1>1, <1>2
<1>4. ASSUME NEW a PROVE F(a) = G(a)
  BY <1>1, <1>2
<1>5. [a \in A |-> AmountSum(F(a))] = [a \in B |-> AmountSum(G(a))]
  <2> HIDE DEF A, B, F, G
  <2> QED BY <1>3, <1>4
<1> QED BY <1>5 DEF MemBalances, PgBalances

-----------------------------------------------------------------------------
(* The two backends, call by call.                                          *)

AllocRow == [epoch : Int, next : Int, needs_bump : BOOLEAN]
AllocsOK == m_allocs = p_allocs /\ m_allocs \in [DOMAIN m_allocs -> AllocRow]
StoreInv ==
  /\ Mirror(m_events, m_ids, rows)
  /\ m_digests = p_digests /\ AllocsOK
  /\ answers[1] = answers[2]

LEMMA StoreInit == InitStores => StoreInv
<1> SUFFICES ASSUME InitStores PROVE StoreInv
  OBVIOUS
<1>1. DOMAIN <<>> = {}
  OBVIOUS
<1>2. Mirror(m_events, m_ids, rows)
  BY <1>1, FS_EmptySet DEF InitStores, Mirror
<1>3. AllocsOK
  BY <1>1 DEF InitStores, AllocsOK
<1> QED BY <1>2, <1>3 DEF InitStores, StoreInv, Said

LEMMA InsertOneKeeps ==
  ASSUME StoreInv, NEW e \in Catalogue, insert_event(e)
  PROVE  StoreInv'
<1>1. Mirror(m_events, m_ids, rows)
  BY DEF StoreInv
<1>2. /\ MemInsert(m_events, m_ids, e) = PgInsert(rows, e)
      /\ PgInsert(rows, e) = "inserted" <=> \A r \in rows : origin_key(r) # origin_key(e)
  BY <1>1, SameVerdict
<1>3. answers'[1] = answers'[2]
  BY <1>2 DEF insert_event, Call
<1>4. Mirror(m_events', m_ids', rows')
  <2>1. CASE PgInsert(rows, e) = "inserted"
    <3>1. /\ m_events' = Put(m_events, origin_key(e), e)
          /\ m_ids' = Put(m_ids, e.id, origin_key(e))
          /\ rows' = rows \cup {e}
      BY <2>1, <1>2 DEF insert_event, Inserted
    <3>2. Mirror(Put(m_events, origin_key(e), e), Put(m_ids, e.id, origin_key(e)), rows \cup {e})
      BY <1>1, <1>2, <2>1, MirrorPut
    <3> QED BY <3>1, <3>2
  <2>2. CASE PgInsert(rows, e) # "inserted"
    <3>1. m_events' = m_events /\ m_ids' = m_ids /\ rows' = rows
      BY <2>2, <1>2 DEF insert_event, Inserted
    <3> QED BY <3>1, <1>1
  <2> QED BY <2>1, <2>2
<1>5. UNCHANGED <<m_digests, m_allocs, p_digests, p_allocs>>
  BY DEF insert_event
<1>6. m_digests' = p_digests' /\ AllocsOK'
  BY <1>5 DEF StoreInv, AllocsOK
<1> QED BY <1>3, <1>4, <1>6 DEF StoreInv

LEMMA BulkKeeps ==
  ASSUME StoreInv, NEW S \in SUBSET Catalogue, Cardinality(S) \in 2..MaxBulk,
         NEW batch \in SetToSeqs(S), NEW sorted, insert_events_bulk(batch, sorted)
  PROVE  StoreInv'
<1> DEFINE n == Cardinality(S)
<1>1. n \in Nat
  BY DEF insert_events_bulk
<1>2. /\ batch = [x \in 1..n |-> batch[x]]
      /\ \A x \in 1..n : batch[x] \in Catalogue
      /\ \A x, y \in 1..n : x # y => batch[x] # batch[y]
  BY SeqsOf
<1>3. Mirror(m_events, m_ids, rows) /\ sorted \in StablySorted(batch)
  BY DEF StoreInv, insert_events_bulk
<1> HIDE DEF n
<1>4. /\ Mirror(MemBulk(batch).events, MemBulk(batch).ids, PgBulk(sorted).table)
      /\ MemBulk(batch).count = PgBulk(sorted).count
  BY <1>1, <1>2, <1>3, BulkSame
<1>5. /\ m_events' = MemBulk(batch).events /\ m_ids' = MemBulk(batch).ids
      /\ rows' = PgBulk(sorted).table
      /\ answers' = <<Counted(MemBulk(batch).count), Counted(PgBulk(sorted).count)>>
      /\ UNCHANGED <<m_digests, m_allocs, p_digests, p_allocs>>
  BY DEF insert_events_bulk, Call
<1>6. Mirror(m_events', m_ids', rows')
  BY <1>4, <1>5
<1>7. answers'[1] = answers'[2]
  BY <1>4, <1>5
<1>8. m_digests' = p_digests' /\ AllocsOK'
  BY <1>5 DEF StoreInv, AllocsOK
<1> QED BY <1>6, <1>7, <1>8 DEF StoreInv

LEMMA CascadeKeeps ==
  ASSUME StoreInv, NEW b, delete_bucket_cascade(b)
  PROVE  StoreInv'
<1>1. CASE b = META_BUCKET
  <2>1. /\ UNCHANGED <<m_events, m_ids, m_digests, m_allocs, rows, p_digests, p_allocs>>
        /\ answers' = <<Said("error"), Said("error")>>
    BY <1>1 DEF delete_bucket_cascade, Call
  <2>2. Mirror(m_events', m_ids', rows') /\ m_digests' = p_digests' /\ AllocsOK'
    BY <2>1 DEF StoreInv, AllocsOK
  <2> QED BY <2>1, <2>2 DEF StoreInv
<1>2. CASE b # META_BUCKET
  <2>1. /\ m_events' = [k \in {x \in DOMAIN m_events : x[1] # b} |-> m_events[k]]
        /\ m_ids' = [i \in {x \in DOMAIN m_ids : m_ids[x][1] # b} |-> m_ids[i]]
        /\ m_digests' = [k \in {x \in DOMAIN m_digests : x[1] # b} |-> m_digests[k]]
        /\ m_allocs' = Drop(m_allocs, b)
        /\ rows' = {r \in rows : r.bucket # b}
        /\ p_digests' = [k \in {x \in DOMAIN p_digests : x[1] # b} |-> p_digests[k]]
        /\ p_allocs' = Drop(p_allocs, b)
        /\ answers' = <<Said("ok"), Said("ok")>>
    BY <1>2 DEF delete_bucket_cascade, Call, IdsLeft
  <2>2. m_digests' = p_digests' /\ answers'[1] = answers'[2]
    BY <2>1 DEF StoreInv
  <2>3. AllocsOK'
    <3>1. m_allocs = p_allocs /\ m_allocs \in [DOMAIN m_allocs -> AllocRow]
      BY DEF StoreInv, AllocsOK
    <3>2. m_allocs' = p_allocs' /\ m_allocs' = [x \in DOMAIN m_allocs \ {b} |-> m_allocs[x]]
      BY <2>1, <3>1 DEF Drop
    <3> QED BY <3>1, <3>2 DEF AllocsOK
  <2>4. Mirror(m_events, m_ids, rows)
    BY DEF StoreInv
  <2>5. \A r \in rows : origin_key(r)[1] = r.bucket
    BY KeyParts
  <2>6. rows' \subseteq Catalogue /\ IsFiniteSet(rows') /\ rows' \subseteq rows
    BY <2>1, <2>4, FS_Subset DEF Mirror
  <2>7. \A r, q \in rows' : origin_key(r) = origin_key(q) => r = q
    BY <2>4, <2>6 DEF Mirror
  <2>8. DOMAIN m_events' = {origin_key(r) : r \in rows'}
    <3>1. DOMAIN m_events' = {x \in DOMAIN m_events : x[1] # b}
      BY <2>1
    <3>2. DOMAIN m_events = {origin_key(r) : r \in rows}
      BY <2>4 DEF Mirror
    <3> QED BY <2>1, <2>5, <3>1, <3>2
  <2>9. DOMAIN m_ids' = {r.id : r \in rows'}
    <3>1. DOMAIN m_ids' = {x \in DOMAIN m_ids : m_ids[x][1] # b}
      BY <2>1
    <3>2. DOMAIN m_ids = {r.id : r \in rows} /\ \A r \in rows : m_ids[r.id] = origin_key(r)
      BY <2>4 DEF Mirror
    <3> QED BY <2>1, <2>5, <3>1, <3>2
  <2>10. ASSUME NEW r \in rows'
         PROVE  m_events'[origin_key(r)] = r /\ m_ids'[r.id] = origin_key(r)
    <3>1. /\ origin_key(r) \in DOMAIN m_events' /\ r.id \in DOMAIN m_ids' /\ r \in rows
      BY <2>6, <2>8, <2>9
    <3>2. m_events[origin_key(r)] = r /\ m_ids[r.id] = origin_key(r)
      BY <3>1, <2>4 DEF Mirror
    <3> QED BY <2>1, <3>1, <3>2
  <2>11. Mirror(m_events', m_ids', rows')
    BY <2>6, <2>7, <2>8, <2>9, <2>10 DEF Mirror
  <2> QED BY <2>2, <2>3, <2>11 DEF StoreInv
<1> QED BY <1>1, <1>2

LEMMA AllocsPut ==
  ASSUME AllocsOK, NEW b, NEW row \in AllocRow,
         m_allocs' = Put(m_allocs, b, row), p_allocs' = Put(p_allocs, b, row)
  PROVE  AllocsOK'
<1>1. m_allocs' = p_allocs'
  BY DEF AllocsOK
<1>2. m_allocs' = [x \in DOMAIN m_allocs \cup {b} |-> IF x = b THEN row ELSE m_allocs[x]]
  BY DEF Put
<1>3. m_allocs' \in [DOMAIN m_allocs' -> AllocRow]
  BY <1>2 DEF AllocsOK
<1> QED BY <1>1, <1>3 DEF AllocsOK

LEMMA BumpKeeps ==
  ASSUME StoreInv, NEW b, bump_bucket_epoch(b)
  PROVE  StoreInv'
<1> DEFINE m == IF b \in DOMAIN m_allocs THEN MemBumped(m_allocs[b]) ELSE FreshRow
           p == IF b \notin DOMAIN p_allocs THEN FreshRow
                ELSE IF p_allocs[b].needs_bump THEN RowBumped(p_allocs[b]) ELSE p_allocs[b]
<1>1. AllocsOK /\ m_allocs = p_allocs
  BY DEF StoreInv, AllocsOK
<1>2. m = p
  BY <1>1 DEF MemBumped, RowBumped
<1>3. m \in AllocRow
  <2>1. CASE b \notin DOMAIN m_allocs
    BY <2>1 DEF FreshRow, AllocRow
  <2>2. CASE b \in DOMAIN m_allocs
    <3> DEFINE r == m_allocs[b]
    <3>1. r \in AllocRow
      BY <2>2, <1>1 DEF AllocsOK
    <3> HIDE DEF r
    <3>2. MemBumped(r) \in AllocRow
      BY <3>1 DEF MemBumped, AllocRow
    <3> QED BY <2>2, <3>2 DEF r
  <2> QED BY <2>1, <2>2
<1>4. /\ m_allocs' = Put(m_allocs, b, m) /\ p_allocs' = Put(p_allocs, b, p)
      /\ answers' = <<Counted(m.epoch), Counted(p.epoch)>>
      /\ UNCHANGED <<m_events, m_ids, m_digests, rows, p_digests>>
  BY DEF bump_bucket_epoch, Call
<1> HIDE DEF m, p
<1>5. AllocsOK'
  BY <1>1, <1>2, <1>3, <1>4, AllocsPut
<1>6. Mirror(m_events', m_ids', rows') /\ m_digests' = p_digests'
  BY <1>4 DEF StoreInv
<1> QED BY <1>2, <1>4, <1>5, <1>6 DEF StoreInv

LEMMA PendingKeeps ==
  ASSUME StoreInv, mark_bucket_allocators_pending
  PROVE  StoreInv'
<1>1. AllocsOK /\ m_allocs = p_allocs
  BY DEF StoreInv, AllocsOK
<1>2. /\ m_allocs' = [b \in DOMAIN m_allocs |-> [m_allocs[b] EXCEPT !.needs_bump = TRUE]]
      /\ p_allocs' = [b \in DOMAIN p_allocs |-> [p_allocs[b] EXCEPT !.needs_bump = TRUE]]
      /\ answers' = <<Counted(Cardinality(DOMAIN m_allocs)), Counted(Cardinality(DOMAIN p_allocs))>>
      /\ UNCHANGED <<m_events, m_ids, m_digests, rows, p_digests>>
  BY DEF mark_bucket_allocators_pending, Call
<1>3. AllocsOK'
  <2>1. \A r \in AllocRow : [r EXCEPT !.needs_bump = TRUE] \in AllocRow
    BY DEF AllocRow
  <2>2. \A b \in DOMAIN m_allocs : [m_allocs[b] EXCEPT !.needs_bump = TRUE] \in AllocRow
    BY <1>1, <2>1 DEF AllocsOK
  <2>3. m_allocs' \in [DOMAIN m_allocs' -> AllocRow]
    BY <1>2, <2>2
  <2>4. m_allocs' = p_allocs'
    BY <1>1, <1>2
  <2> QED BY <2>3, <2>4 DEF AllocsOK
<1>4. answers'[1] = answers'[2]
  BY <1>1, <1>2
<1>5. Mirror(m_events', m_ids', rows') /\ m_digests' = p_digests'
  BY <1>2 DEF StoreInv
<1> QED BY <1>3, <1>4, <1>5 DEF StoreInv

LEMMA PersistKeeps ==
  ASSUME StoreInv, NEW b, NEW next \in Int, persist_bucket_next_seq(b, next)
  PROVE  StoreInv'
<1>1. AllocsOK /\ m_allocs = p_allocs
  BY DEF StoreInv, AllocsOK
<1>2. /\ m_allocs' = IF b \in DOMAIN m_allocs /\ next > m_allocs[b].next
                     THEN [m_allocs EXCEPT ![b].next = next] ELSE m_allocs
      /\ p_allocs' = IF b \in DOMAIN p_allocs
                     THEN [p_allocs EXCEPT ![b].next = Larger(@, next)] ELSE p_allocs
      /\ answers' = <<Said("ok"), Said("ok")>>
      /\ UNCHANGED <<m_events, m_ids, m_digests, rows, p_digests>>
  BY DEF persist_bucket_next_seq, Call
<1>3. AllocsOK'
  <2>1. CASE b \notin DOMAIN m_allocs
    BY <2>1, <1>1, <1>2 DEF AllocsOK
  <2>2. CASE b \in DOMAIN m_allocs
    <3> DEFINE r == m_allocs[b]
    <3>1. r \in AllocRow
      BY <2>2, <1>1 DEF AllocsOK
    <3>2. CASE next > r.next
      <4>1. m_allocs' = [m_allocs EXCEPT ![b].next = next]
        BY <1>2, <2>2, <3>2
      <4>2. p_allocs' = [m_allocs EXCEPT ![b].next = next]
        <5>1. Larger(r.next, next) = next
          BY <3>1, <3>2 DEF Larger, AllocRow
        <5>2. p_allocs' = [m_allocs EXCEPT ![b].next = Larger(r.next, next)]
          BY <1>1, <1>2, <2>2
        <5> QED BY <5>1, <5>2
      <4>3. [r EXCEPT !.next = next] \in AllocRow
        <5> HIDE DEF r
        <5> QED BY <3>1 DEF AllocRow
      <4>4. m_allocs' = [m_allocs EXCEPT ![b] = [r EXCEPT !.next = next]]
        BY <4>1
      <4>5. m_allocs' \in [DOMAIN m_allocs' -> AllocRow]
        BY <4>3, <4>4, <1>1 DEF AllocsOK
      <4> QED BY <4>1, <4>2, <4>5 DEF AllocsOK
    <3>3. CASE ~(next > r.next)
      <4>1. m_allocs' = m_allocs
        BY <1>2, <3>3
      <4>2. p_allocs' = [m_allocs EXCEPT ![b].next = Larger(r.next, next)]
        BY <1>1, <1>2, <2>2
      <4>3. Larger(r.next, next) = r.next
        BY <3>1, <3>3 DEF Larger, AllocRow
      <4>4. [r EXCEPT !.next = r.next] = r
        <5> HIDE DEF r
        <5> QED BY <3>1 DEF AllocRow
      <4>5. p_allocs' = [m_allocs EXCEPT ![b] = [r EXCEPT !.next = r.next]]
        BY <4>2, <4>3
      <4>6. p_allocs' = [m_allocs EXCEPT ![b] = r]
        BY <4>4, <4>5
      <4>7. p_allocs' = m_allocs
        BY <4>6, <1>1 DEF AllocsOK
      <4> QED BY <4>1, <4>7, <1>1 DEF AllocsOK
    <3> QED BY <3>2, <3>3
  <2> QED BY <2>1, <2>2
<1>4. Mirror(m_events', m_ids', rows') /\ m_digests' = p_digests'
  BY <1>2 DEF StoreInv
<1> QED BY <1>2, <1>3, <1>4 DEF StoreInv

LEMMA StoreNext == StoreInv /\ [StoresNext]_storeBackends => StoreInv'
<1> SUFFICES ASSUME StoreInv, [StoresNext]_storeBackends PROVE StoreInv'
  OBVIOUS
<1>1. ASSUME NEW k, NEW head, save_digest(k, head) PROVE StoreInv'
  <2>1. /\ m_digests' = Put(m_digests, k, head) /\ p_digests' = Put(p_digests, k, head)
        /\ answers' = <<Said("ok"), Said("ok")>>
        /\ UNCHANGED <<m_events, m_ids, m_allocs, rows, p_allocs>>
    BY <1>1 DEF save_digest, Call
  <2>2. Mirror(m_events', m_ids', rows') /\ m_digests' = p_digests' /\ AllocsOK'
    BY <2>1 DEF StoreInv, AllocsOK
  <2> QED BY <2>1, <2>2 DEF StoreInv
<1>2. CASE refresh_balance_summary
  <2>1. /\ answers' = <<Said("ok"), Said("ok")>>
        /\ UNCHANGED <<m_events, m_ids, m_digests, m_allocs, rows, p_digests, p_allocs>>
    BY <1>2 DEF refresh_balance_summary, Call
  <2>2. Mirror(m_events', m_ids', rows') /\ m_digests' = p_digests' /\ AllocsOK'
    BY <2>1 DEF StoreInv, AllocsOK
  <2> QED BY <2>1, <2>2 DEF StoreInv
<1>3. CASE UNCHANGED storeBackends
  BY <1>3 DEF storeBackends, StoreInv, AllocsOK
<1>4. ASSUME NEW b, \/ delete_bucket_cascade(b) \/ bump_bucket_epoch(b)
                    \/ \E next \in 1..2 : persist_bucket_next_seq(b, next)
      PROVE  StoreInv'
  <2>1. \A next \in 1..2 : next \in Int
    OBVIOUS
  <2> QED BY <1>4, <2>1, CascadeKeeps, BumpKeeps, PersistKeeps
<1> QED BY <1>1, <1>2, <1>3, <1>4, InsertOneKeeps, BulkKeeps, PendingKeeps DEF StoresNext

(* The backend the tests run on is a faithful stand-in for the database:    *)
(* for every set of events, every sequence of single and bulk inserts of    *)
(* any length, cascades, allocator and digest calls, in every order of the  *)
(* events of a batch, both answer each call and each later query alike      *)
(* (memory.rs, postgres.rs).                                                *)
THEOREM BackendsStayAlike == StorageSpec => []BackendsAgree
<1> DEFINE Next == \/ RegistryNext /\ UNCHANGED storeBackends
                   \/ StoresNext /\ UNCHANGED regVars
<1>1. InitStores => StoreInv
  BY StoreInit
<1>2. StoreInv /\ [Next]_<<regVars, storeBackends>> => StoreInv'
  <2>1. [Next]_<<regVars, storeBackends>> => [StoresNext]_storeBackends
    OBVIOUS
  <2> QED BY <2>1, StoreNext
<1>3. [Next]_<<regVars, storeBackends>> => [RegistryNext]_regVars
  OBVIOUS
<1>4. StoreInv /\ RegistriesAgree => BackendsAgree
  <2> SUFFICES ASSUME StoreInv, RegistriesAgree PROVE BackendsAgree
    OBVIOUS
  <2>1. Mirror(m_events, m_ids, rows)
    BY DEF StoreInv
  <2>2. \A e \in Catalogue : MemRange(epoch_key(e), 1, 2) = PgRange(epoch_key(e), 1, 2)
    <3>1. 1 \in Int /\ 2 \in Int
      OBVIOUS
    <3> QED BY <2>1, <3>1, RangesSame
  <2>3. \A e \in Catalogue : MemNextSeq(epoch_key(e)) = PgNextSeq(epoch_key(e))
    BY <2>1, NextSeqSame
  <2>4. MemSequences = PgSequences /\ MemBalances = PgBalances
    BY <2>1, SequencesSame, BalancesSame
  <2>5. /\ \A e \in Catalogue : MemByNonce(e) = PgByNonce(e)
        /\ MemMapping = PgMapping /\ MemChecksum = PgChecksum
        /\ MemReleased = PgReleased
        /\ \A now \in 0..2 : MemActiveHolds(now) = PgActiveHolds(now)
        /\ \A f \in Filters : \A limit, offset \in 0..2 :
              MemFiltered(f, limit, offset) = PgFiltered(f, limit, offset)
    BY <2>1, ListsSame
  <2>6. answers[1] = answers[2] /\ m_digests = p_digests /\ m_allocs = p_allocs
    BY DEF StoreInv, AllocsOK
  <2> QED BY <2>2, <2>3, <2>4, <2>5, <2>6 DEF BackendsAgree
<1>5. StorageSpec => []RegistriesAgree
  <2>1. StorageSpec => RegistrySpec
    BY <1>3, PTL DEF StorageSpec, RegistrySpec
  <2> QED BY <2>1, RegistriesStayAlike, PTL
<1>6. StorageSpec => []StoreInv
  BY <1>1, <1>2, PTL DEF StorageSpec
<1> QED BY <1>4, <1>5, <1>6, PTL

=============================================================================
