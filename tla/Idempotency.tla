---------------------------- MODULE Idempotency ----------------------------
(***************************************************************************)
(* One idempotency key (nonce, bucket, account, amount) across the nodes   *)
(* of a cluster: clients send the request to several nodes, each node may  *)
(* accept it before it hears of the others, and every node that meets two  *)
(* events with one key emits a void for the loser and, when the loser      *)
(* holds funds, a release (create_local_events, check_idempotency_conflict *)
(* and apply_correction_event of apps/node/src/state.rs).  Corrections     *)
(* have keys of their own and go through the same check, so two nodes that *)
(* void the same loser void each other's voids.                            *)
(*                                                                         *)
(* How an event travels, is deduplicated and persisted is NodeLog's        *)
(* matter; here a delivery is one step and an event arrives once.          *)
(***************************************************************************)
EXTENDS Integers, Sequences, FiniteSets

CONSTANTS
  Nodes,
  Workers,    \* tasks of a node that run insert_event
  Ranks,      \* bound: ages an event can have among the events of its key
  Plans       \* the requests, each with its bounds

\* A request: whether it is a reservation (amount 0, held funds), and as bounds
\* the corrections of corrections, the node crashes, and the failed lookups and
\* allocations.
ASSUME PlansAssumption ==
  /\ Ranks \subseteq Nat
  /\ \A p \in Plans : p.hold \in BOOLEAN /\ {p.depth, p.crashes, p.faults} \subseteq Nat

\* An event is the path from the request to it: <<kind, rank>> of the event
\* the client asked for, then of the correction of it, and so on.  The rank
\* stands for (created_at_unix_ms, event_id), unique within the key.
Kinds == {"create", "void", "release"}
Steps == Kinds \X Ranks

Target(e) == SubSeq(e, 1, Len(e) - 1)
Kind(e) == e[Len(e)][1]
Rank(e) == e[Len(e)][2]

\* (idempotency_nonce, bucket, account, amount): "void:<target>" and
\* "release:<target>" for corrections.
Key(e) == <<Target(e), Kind(e)>>
RequestKey == <<<<>>, "create">>
Older(e, f) == Rank(e) < Rank(f)

NoEvent == <<>>

VARIABLES
  known,   \* events applied to the node's balances
  db,      \* events in the node's database
  cache,   \* idempotency_cache: at most one event per key
  minted,  \* history: every event ever created
  lock,    \* the account lock: free or held by the client task
  cpc,     \* client RPC task: "idle", "db", "apply"
  pc,      \* insert_event's tail, per node and worker
  ev,      \* the event the worker inserts
  other,   \* the conflicting event it has read from the cache
  mine,    \* the correction it has created
  crashes, faults,
  plan     \* the request and its bounds

workerVars == <<pc, ev, other, mine>>
vars == <<known, db, cache, minted, lock, cpc, workerVars, crashes, faults, plan>>

PCs == {"idle", "read", "write", "void", "voiddb", "mintvoid", "recvoid",
        "release", "mintrelease", "recrelease"}

IsEvent(e) == e \in Seq(Steps) /\ Len(e) \in 1..plan.depth

TypeOK ==
  /\ plan \in Plans
  /\ \A e \in minted : IsEvent(e)
  /\ known \in [Nodes -> SUBSET minted]
  /\ \A n \in Nodes : db[n] \subseteq known[n] /\ cache[n] \subseteq known[n]
  /\ \A n \in Nodes : \A e, f \in cache[n] : Key(e) = Key(f) => e = f
  /\ lock \in [Nodes -> BOOLEAN]
  /\ cpc \in [Nodes -> {"idle", "db", "apply"}]
  /\ pc \in [Nodes \X Workers -> PCs]
  /\ crashes \in 0..plan.crashes /\ faults \in 0..plan.faults

Init ==
  /\ plan \in Plans
  /\ known = [n \in Nodes |-> {}]
  /\ db = [n \in Nodes |-> {}]
  /\ cache = [n \in Nodes |-> {}]
  /\ minted = {}
  /\ lock = [n \in Nodes |-> FALSE]
  /\ cpc = [n \in Nodes |-> "idle"]
  /\ pc = [t \in Nodes \X Workers |-> "idle"]
  /\ ev = [t \in Nodes \X Workers |-> NoEvent]
  /\ other = [t \in Nodes \X Workers |-> NoEvent]
  /\ mine = [t \in Nodes \X Workers |-> NoEvent]
  /\ crashes = 0 /\ faults = 0

-----------------------------------------------------------------------------
(* The cache and the database as maps from keys.                           *)

Cached(n, k) == {e \in cache[n] : Key(e) = k}
Stored(n, k) == {e \in db[n] : Key(e) = k}

\* idempotency_cache.insert, unconditional.
Put(n, e) ==
  cache' = [cache EXCEPT ![n] = {c \in @ : Key(c) # Key(e)} \cup {e}]

\* Faulty variant: the event that arrived last loses.
ArrivalLoses(e, f) == f

\* idempotency_winner
Winner(e, f) == IF Older(e, f) THEN e ELSE f
Loser(e, f) == IF Older(e, f) THEN f ELSE e

\* A new correction or request event of key k, of an age not used yet.
Fresh(k, e) ==
  \E r \in Ranks : /\ e = Append(k[1], <<k[2], r>>)
                   /\ e \notin minted
                   /\ \A f \in minted : Key(f) = k => Rank(f) # r
                   /\ Len(e) <= plan.depth

-----------------------------------------------------------------------------
(* create_local_events, under the account lock.                            *)

\* The cache answers: the cached event is returned, nothing is created.
ClientHit(n) ==
  /\ cpc[n] = "idle" /\ Cached(n, RequestKey) # {}
  /\ UNCHANGED vars

ClientMiss(n) ==
  /\ cpc[n] = "idle" /\ ~lock[n]
  /\ Cached(n, RequestKey) = {}
  /\ lock' = [lock EXCEPT ![n] = TRUE]
  /\ cpc' = [cpc EXCEPT ![n] = "db"]
  /\ UNCHANGED <<known, db, cache, minted, workerVars, crashes, faults>>

\* find_by_idempotency_key; the oldest match is cached and returned.
ClientDb(n) ==
  /\ cpc[n] = "db"
  /\ IF Stored(n, RequestKey) = {}
       THEN /\ cpc' = [cpc EXCEPT ![n] = "apply"]
            /\ UNCHANGED <<cache, lock>>
       ELSE /\ \E e \in Stored(n, RequestKey) :
                 /\ \A f \in Stored(n, RequestKey) \ {e} : Older(e, f)
                 /\ Put(n, e)
            /\ cpc' = [cpc EXCEPT ![n] = "idle"]
            /\ lock' = [lock EXCEPT ![n] = FALSE]
  /\ UNCHANGED <<known, db, minted, workerVars, crashes, faults>>

\* The query fails: the request counts as new.
ClientDbFails(n) ==
  /\ cpc[n] = "db"
  /\ faults < plan.faults /\ faults' = faults + 1
  /\ cpc' = [cpc EXCEPT ![n] = "apply"]
  /\ UNCHANGED <<known, db, cache, minted, lock, workerVars, crashes>>

\* emit_*_locked: the event is created, applied, cached and recorded, and the
\* lock is released; peers can have it from now on.
ClientApply(n) ==
  /\ cpc[n] = "apply"
  /\ \E e \in {<<<<"create", r>>>> : r \in Ranks} :
       /\ Fresh(RequestKey, e)
       /\ known' = [known EXCEPT ![n] = @ \cup {e}]
       /\ minted' = minted \cup {e}
       /\ Put(n, e)
  /\ cpc' = [cpc EXCEPT ![n] = "idle"]
  /\ lock' = [lock EXCEPT ![n] = FALSE]
  /\ UNCHANGED <<db, workerVars, crashes, faults>>

\* The request is refused (funds, settle or release of a closed reservation)
\* or allocate_or_fail fails, before anything is created.
ClientRefused(n) ==
  /\ cpc[n] = "apply"
  /\ cpc' = [cpc EXCEPT ![n] = "idle"]
  /\ lock' = [lock EXCEPT ![n] = FALSE]
  /\ UNCHANGED <<known, db, cache, minted, workerVars, crashes, faults>>

-----------------------------------------------------------------------------
(* insert_event and check_idempotency_conflict.                            *)

Goto(t, l) ==
  /\ pc' = [pc EXCEPT ![t] = l]
  /\ ev' = [ev EXCEPT ![t] = IF l = "idle" THEN NoEvent ELSE @]
  /\ other' = [other EXCEPT ![t] = IF l = "idle" THEN NoEvent ELSE @]
  /\ mine' = [mine EXCEPT ![t] = NoEvent]

\* Gossip, an ack request or catch-up brings an event some peer holds; its
\* amount is applied under the account lock and it is queued for the database.
Receive(n, w, e) ==
  /\ pc[<<n, w>>] = "idle" /\ ~lock[n]
  /\ e \notin known[n] /\ \E m \in Nodes : e \in known[m]
  /\ known' = [known EXCEPT ![n] = @ \cup {e}]
  /\ pc' = [pc EXCEPT ![<<n, w>>] = "read"]
  /\ ev' = [ev EXCEPT ![<<n, w>>] = e]
  /\ UNCHANGED <<db, cache, minted, lock, cpc, other, mine, crashes, faults>>

\* idempotency_cache.get; the event itself is no conflict.
ReadCache(n, w) ==
  /\ pc[<<n, w>>] = "read"
  /\ pc' = [pc EXCEPT ![<<n, w>>] = "write"]
  /\ LET found == Cached(n, Key(ev[<<n, w>>])) \ {ev[<<n, w>>]}
     IN other' = [other EXCEPT ![<<n, w>>] =
                    IF found = {} THEN NoEvent ELSE CHOOSE e \in found : TRUE]
  /\ UNCHANGED <<known, db, cache, minted, lock, cpc, ev, mine, crashes, faults>>

\* Faulty variant: conflicts between corrections are left alone.
WriteCacheRequestsOnly(n, w) ==
  /\ pc[<<n, w>>] = "write"
  /\ IF other[<<n, w>>] = NoEvent \/ Kind(ev[<<n, w>>]) # "create"
       THEN Put(n, ev[<<n, w>>]) /\ Goto(<<n, w>>, "idle")
       ELSE Put(n, Winner(other[<<n, w>>], ev[<<n, w>>])) /\ Goto(<<n, w>>, "void")
  /\ UNCHANGED <<known, db, minted, lock, cpc, crashes, faults>>

\* No conflict: the event is installed.  Conflict: the winner is.
WriteCache(n, w) ==
  /\ pc[<<n, w>>] = "write"
  /\ IF other[<<n, w>>] = NoEvent
       THEN Put(n, ev[<<n, w>>]) /\ Goto(<<n, w>>, "idle")
       ELSE Put(n, Winner(other[<<n, w>>], ev[<<n, w>>])) /\ Goto(<<n, w>>, "void")
  /\ UNCHANGED <<known, db, minted, lock, cpc, crashes, faults>>

LoserOf(n, w) == Loser(other[<<n, w>>], ev[<<n, w>>])
VoidKey(n, w) == <<LoserOf(n, w), "void">>
ReleaseKey(n, w) == <<LoserOf(n, w), "release">>

\* A void in the cache, ...
CheckVoidCache(n, w) ==
  /\ pc[<<n, w>>] = "void"
  /\ Goto(<<n, w>>, IF Cached(n, VoidKey(n, w)) # {} THEN "idle" ELSE "voiddb")
  /\ UNCHANGED <<known, db, cache, minted, lock, cpc, crashes, faults>>

\* ... or in the database, was emitted already.
CheckVoidDb(n, w) ==
  /\ pc[<<n, w>>] = "voiddb"
  /\ Goto(<<n, w>>, IF Stored(n, VoidKey(n, w)) # {} THEN "idle" ELSE "mintvoid")
  /\ UNCHANGED <<known, db, cache, minted, lock, cpc, crashes, faults>>

\* The query fails: the void counts as not emitted.
VoidDbFails(n, w) ==
  /\ pc[<<n, w>>] = "voiddb"
  /\ faults < plan.faults /\ faults' = faults + 1
  /\ Goto(<<n, w>>, "mintvoid")
  /\ UNCHANGED <<known, db, cache, minted, lock, cpc, crashes>>

\* allocate fails: a warning, and the correction is given up.
AllocFails(n, w) ==
  /\ pc[<<n, w>>] \in {"mintvoid", "mintrelease"}
  /\ faults < plan.faults /\ faults' = faults + 1
  /\ Goto(<<n, w>>, "idle")
  /\ UNCHANGED <<known, db, cache, minted, lock, cpc, crashes>>

\* apply_correction_event up to the balance, under the account lock.
Mint(n, w, k, l) ==
  /\ ~lock[n]
  /\ \E r \in Ranks :
       LET e == Append(k[1], <<k[2], r>>)
       IN /\ Fresh(k, e)
          /\ known' = [known EXCEPT ![n] = @ \cup {e}]
          /\ minted' = minted \cup {e}
          /\ mine' = [mine EXCEPT ![<<n, w>>] = e]
  /\ pc' = [pc EXCEPT ![<<n, w>>] = l]
  /\ UNCHANGED <<db, cache, lock, cpc, ev, other, crashes, faults>>

MintVoid(n, w) ==
  pc[<<n, w>>] = "mintvoid" /\ Mint(n, w, VoidKey(n, w), "recvoid")

MintRelease(n, w) ==
  pc[<<n, w>>] = "mintrelease" /\ Mint(n, w, ReleaseKey(n, w), "recrelease")

\* The rest of apply_correction_event: the correction overwrites what the
\* cache holds for its key, and is broadcast.
CacheOwn(n, w, l) ==
  /\ Put(n, mine[<<n, w>>])
  /\ Goto(<<n, w>>, l)
  /\ UNCHANGED <<known, db, minted, lock, cpc, crashes, faults>>

\* Faulty variant: the void ends the correction, held funds or not.
RecordVoidOnly(n, w) ==
  pc[<<n, w>>] = "recvoid" /\ CacheOwn(n, w, "idle")

RecordVoid(n, w) ==
  /\ pc[<<n, w>>] = "recvoid"
  /\ CacheOwn(n, w, IF plan.hold /\ Kind(LoserOf(n, w)) = "create"
                      THEN "release" ELSE "idle")

\* Only a loser that holds funds is released, and only if no release is cached.
CheckRelease(n, w) ==
  /\ pc[<<n, w>>] = "release"
  /\ Goto(<<n, w>>, IF Cached(n, ReleaseKey(n, w)) # {} THEN "idle" ELSE "mintrelease")
  /\ UNCHANGED <<known, db, cache, minted, lock, cpc, crashes, faults>>

RecordRelease(n, w) ==
  pc[<<n, w>>] = "recrelease" /\ CacheOwn(n, w, "idle")

WorkerStep(n, w) ==
  \/ ReadCache(n, w) \/ WriteCache(n, w) \/ CheckVoidCache(n, w)
  \/ CheckVoidDb(n, w) \/ VoidDbFails(n, w) \/ AllocFails(n, w)
  \/ MintVoid(n, w) \/ RecordVoid(n, w)
  \/ CheckRelease(n, w) \/ MintRelease(n, w) \/ RecordRelease(n, w)

-----------------------------------------------------------------------------
\* The batch writer or the orphan detector stores an event.
Persist(n, e) ==
  /\ e \in known[n] \ db[n]
  /\ db' = [db EXCEPT ![n] = @ \cup {e}]
  /\ UNCHANGED <<known, cache, minted, lock, cpc, workerVars, crashes, faults>>

\* Restart: memory is rebuilt from the database.  The cache is filled from the
\* newest event backwards and keeps the first event of a key it meets.
Restart(n) ==
  /\ crashes < plan.crashes /\ crashes' = crashes + 1
  /\ known' = [known EXCEPT ![n] = db[n]]
  /\ cache' = [cache EXCEPT ![n] =
                 {e \in db[n] : \A f \in Stored(n, Key(e)) \ {e} : Older(f, e)}]
  /\ lock' = [lock EXCEPT ![n] = FALSE]
  /\ cpc' = [cpc EXCEPT ![n] = "idle"]
  /\ pc' = [t \in DOMAIN pc |-> IF t[1] = n THEN "idle" ELSE pc[t]]
  /\ ev' = [t \in DOMAIN ev |-> IF t[1] = n THEN NoEvent ELSE ev[t]]
  /\ other' = [t \in DOMAIN other |-> IF t[1] = n THEN NoEvent ELSE other[t]]
  /\ mine' = [t \in DOMAIN mine |-> IF t[1] = n THEN NoEvent ELSE mine[t]]
  /\ UNCHANGED <<db, minted, faults>>

Next ==
  /\ UNCHANGED plan
  /\ \/ \E n \in Nodes : ClientHit(n) \/ ClientMiss(n) \/ ClientDb(n)
                        \/ ClientDbFails(n) \/ ClientApply(n) \/ ClientRefused(n)
     \/ \E n \in Nodes, w \in Workers :
          WorkerStep(n, w) \/ \E e \in minted : Receive(n, w, e)
     \/ \E n \in Nodes : Restart(n) \/ \E e \in known[n] : Persist(n, e)

Spec == Init /\ [][Next]_vars

-----------------------------------------------------------------------------
(* Properties.                                                             *)

AllEvents == UNION {known[n] : n \in Nodes}

\* Every event has reached every node and every correction has been decided.
Settled ==
  /\ \A n \in Nodes : known[n] = AllEvents /\ cpc[n] = "idle"
  /\ \A t \in Nodes \X Workers : pc[t] = "idle"

\* What the events add up to, in units of the request's amount: a void takes
\* back what its target did.
Corrections(e) == \A i \in 1..Len(e) : e[i][1] # "release"
Net == Cardinality({e \in AllEvents : Corrections(e) /\ Len(e) % 2 = 1})
       - Cardinality({e \in AllEvents : Corrections(e) /\ Len(e) % 2 = 0})

\* Once the nodes have exchanged everything, a request counts exactly once on
\* every node, however many nodes accepted it and however many corrections
\* crossed on the way (docs/protocol.md 10.6, 10.7), as long as no lookup or
\* allocation failed and no node crashed.
ChargedOnce ==
  Settled /\ AllEvents # {} /\ ~plan.hold /\ faults = 0 /\ crashes = 0 => Net = 1

\* Once the nodes have exchanged everything, exactly one of the duplicate
\* reservations still holds funds, as long as no lookup or allocation failed
\* and no node crashed.
OneHoldLeft ==
  Settled /\ AllEvents # {} /\ plan.hold /\ faults = 0 /\ crashes = 0 =>
    Cardinality({e \in AllEvents : Kind(e) = "create" /\
                   \A f \in AllEvents : Target(f) = e => Kind(f) # "release"}) = 1

\* The oldest event of a key is never corrected, so nodes that correct on
\* their own never cancel both duplicates.
OldestStands ==
  \A e \in minted : Len(e) > 1 =>
    \E f \in minted : Key(f) = Key(Target(e)) /\ Older(f, Target(e))

=============================================================================
