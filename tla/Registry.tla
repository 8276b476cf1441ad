------------------------------ MODULE Registry ------------------------------
(* How one node keeps track of its peers: the swarm loop counts connections *)
(* and identified peers (src/libs/broadcast/src/libp2p.rs), the bridge task *)
(* of src/apps/node/src/server.rs writes membership events to the registry, *)
(* and the two storage backends merge each entry into what they have.       *)
EXTENDS Integers, Sequences, FiniteSets

CONSTANTS
    RegPeers,       \* peers that identify as shardd nodes
    Visitors,       \* connected peers whose agent_version is not a node's
    Addrs,          \* addresses a peer may advertise
    MaxConns,       \* bound: parallel connections to one peer
    MaxTime,        \* bound: milliseconds that pass
    MaxPeerEvents   \* bound: connection and Identify events

VARIABLES
    conns,          \* [peers -> connections established]
    peer_count,     \* the AtomicUsize of the broadcaster
    known_peers,    \* [known peers -> Identify sent listen addresses?]
    membership,     \* membership channel: Up and Down events
    now_ms,         \* the wall clock
    pg,             \* node_registry rows: [known nodes -> entry]
    inner,          \* the same registry in InMemoryStorage
    heard,          \* history: [nodes with an event -> first time, ever Up?]
    tied,           \* history: nodes whose last event came within its last_seen
    retired,        \* history: nodes an operator decommissioned
    peer_events     \* events so far

regVars == <<conns, peer_count, known_peers, membership, now_ms, pg, inner, heard, tied,
             retired, peer_events>>

AllPeers == RegPeers \cup Visitors
Connected == {p \in AllPeers : conns[p] > 0}
NoAddr == "none"

ASSUME PeersAssumption == IsFiniteSet(AllPeers) /\ NoAddr \notin Addrs

InitRegistry ==
    /\ conns = [p \in AllPeers |-> 0]
    /\ peer_count = 0
    /\ known_peers = <<>>
    /\ membership = <<>>
    /\ now_ms = 1
    /\ pg = <<>>
    /\ inner = <<>>
    /\ heard = <<>>
    /\ tied = {}
    /\ retired = {}
    /\ peer_events = 0

Put(f, k, v) == [x \in DOMAIN f \cup {k} |-> IF x = k THEN v ELSE f[x]]
Drop(f, k) == [x \in DOMAIN f \ {k} |-> f[x]]

-----------------------------------------------------------------------------
(* The swarm loop                                                           *)

CountEvent == peer_events < MaxPeerEvents /\ peer_events' = peer_events + 1
storeVars == <<now_ms, pg, inner, heard, tied, retired>>

(* Faulty variant: every connection counts as a peer.                       *)
FirstOfAny(p) == 1

(* Only the first of several connections to a peer makes it connected.      *)
FirstConnection(p) == IF conns[p] = 0 THEN 1 ELSE 0

ConnectionEstablished(p) ==
    /\ conns[p] < MaxConns
    /\ CountEvent
    /\ conns' = [conns EXCEPT ![p] = @ + 1]
    /\ peer_count' = peer_count + FirstConnection(p)
    /\ UNCHANGED <<known_peers, membership, storeVars>>

(* The last connection closes: the peer is forgotten, and Down is sent if   *)
(* it had been identified.                                                  *)
ConnectionClosed(p) ==
    /\ conns[p] > 0
    /\ CountEvent
    /\ conns' = [conns EXCEPT ![p] = @ - 1]
    /\ IF conns[p] > 1
       THEN UNCHANGED <<peer_count, known_peers, membership>>
       ELSE /\ peer_count' = peer_count - 1
            /\ known_peers' = Drop(known_peers, p)
            /\ membership' = IF p \in DOMAIN known_peers
                             THEN Append(membership, [peer |-> p, addr |-> NoAddr,
                                                      status |-> "unreachable"])
                             ELSE membership
    /\ UNCHANGED storeVars

(* Identify of a node: known from now on; Up only if it lists an address.   *)
IdentifyReceived(p, listed, addr) ==
    /\ p \in RegPeers /\ conns[p] > 0
    /\ CountEvent
    /\ known_peers' = Put(known_peers, p, listed)
    /\ membership' = IF listed
                     THEN Append(membership, [peer |-> p, addr |-> addr, status |-> "active"])
                     ELSE membership
    /\ UNCHANGED <<conns, peer_count, storeVars>>

(* MembersRequest: this node and every identified peer.                     *)
MembersReply == DOMAIN known_peers

-----------------------------------------------------------------------------
(* Merging an entry into the registry                                       *)

Smaller(a, b) == IF a < b THEN a ELSE b
Larger(a, b) == IF a > b THEN a ELSE b

(* latest_non_empty_addr: on a tie the incoming address wins.               *)
latest_non_empty_addr(cur, inc) ==
    IF (inc.last >= cur.last /\ inc.addr # NoAddr) \/ cur.addr = NoAddr
    THEN inc.addr ELSE cur.addr

(* NodeRegistryEntry::merge; on a tie the status of self stays.             *)
merge(cur, inc) ==
    [addr |-> latest_non_empty_addr(cur, inc),
     first |-> Smaller(cur.first, inc.first),
     last |-> Larger(cur.last, inc.last),
     status |-> IF "decommissioned" \in {cur.status, inc.status} THEN "decommissioned"
                ELSE IF inc.last > cur.last THEN inc.status ELSE cur.status]

(* InMemoryStorage::upsert_registry_entry.                                  *)
MergeEntry(reg, p, entry) ==
    Put(reg, p, IF p \in DOMAIN reg THEN merge(reg[p], entry) ELSE entry)

(* The addr CASE of the SQL: on a tie the row's address stays.              *)
RowAddr(row, ex) ==
    IF ex.last > row.last
    THEN (IF ex.addr # NoAddr THEN ex.addr ELSE row.addr)
    ELSE (IF row.addr = NoAddr THEN ex.addr ELSE row.addr)

(* PostgresStorage::upsert_registry_entry: INSERT ... ON CONFLICT UPDATE.   *)
UpsertRow(reg, p, ex) ==
    Put(reg, p,
        IF p \notin DOMAIN reg THEN ex
        ELSE LET row == reg[p]
             IN  [addr |-> RowAddr(row, ex),
                  first |-> Smaller(row.first, ex.first),
                  last |-> Larger(row.last, ex.last),
                  status |-> IF "decommissioned" \in {row.status, ex.status}
                             THEN "decommissioned"
                             ELSE IF ex.last > row.last THEN ex.status ELSE row.status])

(* The bridge task: one membership event becomes one upsert.                *)
BridgeStep ==
    /\ membership # <<>>
    /\ LET m == Head(membership)
           entry == [addr |-> m.addr, first |-> now_ms, last |-> now_ms, status |-> m.status]
       IN  /\ pg' = UpsertRow(pg, m.peer, entry)
           /\ inner' = MergeEntry(inner, m.peer, entry)
           /\ heard' = Put(heard, m.peer,
                           IF m.peer \in DOMAIN heard
                           THEN [heard[m.peer] EXCEPT !.up = @ \/ m.status = "active"]
                           ELSE [at |-> now_ms, up |-> m.status = "active"])
           /\ tied' = IF m.peer \in DOMAIN pg /\ pg[m.peer].last = now_ms
                      THEN tied \cup {m.peer} ELSE tied \ {m.peer}
    /\ membership' = Tail(membership)
    /\ UNCHANGED <<conns, peer_count, known_peers, now_ms, retired, peer_events>>

(* decommission_node: the status of a known node, in both backends.         *)
decommission_node(p) ==
    /\ p \in DOMAIN pg
    /\ retired' = retired \cup {p}
    /\ pg' = [pg EXCEPT ![p].status = "decommissioned"]
    /\ inner' = [inner EXCEPT ![p].status = "decommissioned"]
    /\ UNCHANGED <<conns, peer_count, known_peers, membership, now_ms, heard, tied,
                   peer_events>>

ClockTick ==
    /\ now_ms < MaxTime
    /\ now_ms' = now_ms + 1
    /\ UNCHANGED <<conns, peer_count, known_peers, membership, pg, inner, heard, tied,
                   retired, peer_events>>

(* health: known_nodes is never less than the connected peers and self.     *)
known_nodes == Larger(Cardinality(DOMAIN pg), peer_count + 1)

RegistryNext ==
    \/ \E p \in AllPeers : ConnectionEstablished(p) \/ ConnectionClosed(p)
    \/ \E p \in RegPeers, listed \in BOOLEAN, a \in Addrs : IdentifyReceived(p, listed, a)
    \/ BridgeStep
    \/ \E p \in RegPeers : decommission_node(p)
    \/ ClockTick

RegistrySpec == InitRegistry /\ [][RegistryNext]_regVars

-----------------------------------------------------------------------------

(* After any order of parallel connections, Identify messages, closes and   *)
(* ties of the clock: the peer count is exact and only connected peers are  *)
(* announced as members; a node once heard of keeps its entry, first_seen  *)
(* and an address; a decommissioned node stays so; and when the bridge has  *)
(* caught up an entry says active exactly for the peers that are connected  *)
(* and identified, unless its last event fell into the same millisecond as  *)
(* the one before (server.rs, the bridge; postgres.rs, the upsert).         *)
RegistryFollows ==
    /\ peer_count = Cardinality(Connected)
    /\ MembersReply \subseteq Connected
    /\ \A p \in DOMAIN heard :
          /\ p \in DOMAIN pg
          /\ pg[p].first = heard[p].at
          /\ heard[p].up => pg[p].addr # NoAddr
          /\ p \in retired => pg[p].status = "decommissioned"
    /\ membership = <<>> =>
          \A p \in DOMAIN pg \ (retired \cup tied) :
              IF p \in DOMAIN known_peers
              THEN known_peers[p] => pg[p].status = "active"
              ELSE pg[p].status = "unreachable"

(* The backend the tests run on merges as the one production runs on; they  *)
(* may differ only in which of two addresses they keep for one millisecond. *)
RegistriesAgree ==
    /\ DOMAIN pg = DOMAIN inner
    /\ \A p \in DOMAIN pg : [pg[p] EXCEPT !.addr = NoAddr] = [inner[p] EXCEPT !.addr = NoAddr]
    /\ \A p \in DOMAIN pg : (pg[p].addr = NoAddr) <=> (inner[p].addr = NoAddr)
=============================================================================
