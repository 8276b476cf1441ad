------------------------------- MODULE Stores -------------------------------
(* The two storage backends of src/libs/storage side by side, fed with the  *)
(* same calls: InMemoryStorage (maps behind a mutex, what the tests run on) *)
(* and PostgresStorage (tables with a primary key on event_id and a unique  *)
(* index on the origin key). The registry tables are in Registry.           *)
EXTENDS Registry, SequencesExt

CONSTANTS
    Catalogue,      \* events nodes may insert
    Filters,        \* filters of the admin listing; a field that is absent is None
    MaxRowEpoch,    \* bound: epochs of an allocator row
    MaxBulk,        \* bound: events in one bulk insert
    MaxStoreOps     \* bound: calls

VARIABLES
    m_events,       \* events: [origin keys -> event]
    m_ids,          \* event_ids: [event ids -> origin key]
    m_digests,      \* digests: [(bucket, origin, epoch) -> head]
    m_allocs,       \* bucket_allocators: [bucket -> row], of one node
    rows,           \* the events table
    p_digests,      \* rolling_digests
    p_allocs,       \* bucket_seq_allocator
    view,           \* balance_summary, as of its last refresh
    answers,        \* what the two backends answered to the last call
    store_ops       \* calls so far

(* Keys are numbers after the bucket and the node, which are compared as    *)
(* bytes (order); event ids are random, so no two events share one.         *)
ASSUME CatalogueAssumption ==
    /\ \A e \in Catalogue : e.order \in Nat /\ e.epoch \in Nat /\ e.seq \in Nat
    /\ \A a, b \in Catalogue :
          /\ a.id = b.id => a = b
          /\ a.order = b.order <=> a.bucket = b.bucket /\ a.origin = b.origin

storeBackends == <<m_events, m_ids, m_digests, m_allocs, rows, p_digests, p_allocs, view,
                   answers, store_ops>>

META_BUCKET == "meta"
origin_key(e) == <<e.bucket, e.origin, e.epoch, e.seq>>
epoch_key(e) == <<e.bucket, e.origin, e.epoch>>

Said(word) == <<word>>
Counted(n) == <<"count", n>>

InitStores ==
    /\ m_events = <<>> /\ m_ids = <<>> /\ m_digests = <<>> /\ m_allocs = <<>>
    /\ rows = {} /\ p_digests = <<>> /\ p_allocs = <<>> /\ view = <<>>
    /\ answers = <<Said("none"), Said("none")>>
    /\ store_ops = 0

Call(m, p) ==
    /\ store_ops < MaxStoreOps
    /\ store_ops' = store_ops + 1
    /\ answers' = <<m, p>>

-----------------------------------------------------------------------------
(* Inserting events                                                         *)

(* The checks of InMemoryStorage::insert_event: primary key, then dedup key.*)
MemInsert(events, ids, e) ==
    LET k == origin_key(e)
        taken == e.id \in DOMAIN ids /\ ids[e.id] # k
    IN  IF taken \/ (k \in DOMAIN events /\ events[k].id # e.id) THEN "conflict"
        ELSE IF k \in DOMAIN events THEN "duplicate" ELSE "inserted"

(* Faulty variant: ON CONFLICT looks at the event id only.                  *)
PgInsertById(table, e) ==
    IF \E r \in table : r.id = e.id THEN "duplicate" ELSE "inserted"

(* INSERT ... ON CONFLICT (origin key) DO NOTHING, then the SELECT that     *)
(* tells a duplicate from a conflict. An event id that is taken by another  *)
(* key violates the primary key: the statement fails.                       *)
PgInsert(table, e) ==
    LET same == {r \in table : origin_key(r) = origin_key(e)}
    IN  IF same = {}
        THEN IF \E r \in table : r.id = e.id THEN "error" ELSE "inserted"
        ELSE IF \E r \in same : r.id = e.id THEN "duplicate" ELSE "conflict"

Inserted(table, e) == IF PgInsert(table, e) = "inserted" THEN table \cup {e} ELSE table

insert_event(e) ==
    /\ Call(Said(MemInsert(m_events, m_ids, e)), Said(PgInsert(rows, e)))
    /\ IF MemInsert(m_events, m_ids, e) = "inserted"
       THEN /\ m_events' = Put(m_events, origin_key(e), e)
            /\ m_ids' = Put(m_ids, e.id, origin_key(e))
       ELSE UNCHANGED <<m_events, m_ids>>
    /\ rows' = Inserted(rows, e)
    /\ UNCHANGED <<m_digests, m_allocs, p_digests, p_allocs, view>>

(* Order of the origin keys, as the BTreeMap and as the sort of the bulk    *)
(* insert have it.                                                          *)
OriginOrder(a, b) ==
    LET x == <<a.order, a.epoch, a.seq>>
        y == <<b.order, b.epoch, b.seq>>
    IN  \E i \in 1..3 : x[i] < y[i] /\ \A j \in 1..(i - 1) : x[j] = y[j]

(* One event of the loop of InMemoryStorage::insert_events_bulk, and one    *)
(* row of the statement of PostgresStorage::insert_events_bulk.             *)
MemStep(acc, e) ==
    IF MemInsert(acc.events, acc.ids, e) = "inserted"
    THEN [events |-> Put(acc.events, origin_key(e), e),
          ids |-> Put(acc.ids, e.id, origin_key(e)), count |-> acc.count + 1]
    ELSE acc
PgStep(acc, e) ==
    [table |-> Inserted(acc.table, e),
     count |-> acc.count + (IF PgInsert(acc.table, e) = "inserted" THEN 1 ELSE 0)]

MemBulk(batch) == FoldLeft(MemStep, [events |-> m_events, ids |-> m_ids, count |-> 0], batch)
PgBulk(batch) == FoldLeft(PgStep, [table |-> rows, count |-> 0], batch)

(* sort_by is stable: events of one origin key keep the caller's order.     *)
Precedes(batch, a, b) == \E i, j \in DOMAIN batch : i < j /\ batch[i] = a /\ batch[j] = b
StablySorted(batch) ==
    {s \in SetToSeqs(Range(batch)) : \A i, j \in DOMAIN s : i < j =>
        OriginOrder(s[i], s[j])
        \/ (~OriginOrder(s[j], s[i]) /\ Precedes(batch, s[i], s[j]))}

(* insert_events_bulk: in memory one insert after the other in the caller's *)
(* order; in Postgres one statement over the events in origin order.        *)
insert_events_bulk(batch, sorted) ==
    /\ sorted \in StablySorted(batch)
    /\ Call(Counted(MemBulk(batch).count), Counted(PgBulk(sorted).count))
    /\ m_events' = MemBulk(batch).events
    /\ m_ids' = MemBulk(batch).ids
    /\ rows' = PgBulk(sorted).table
    /\ UNCHANGED <<m_digests, m_allocs, p_digests, p_allocs, view>>

(* event_ids without the ids of a deleted bucket.                           *)
IdsLeft(b) == [i \in {x \in DOMAIN m_ids : m_ids[x][1] # b} |-> m_ids[i]]

(* delete_bucket_cascade: events, digests and allocator rows of a bucket,   *)
(* never of the meta log.                                                   *)
delete_bucket_cascade(b) ==
    IF b = META_BUCKET
    THEN /\ Call(Said("error"), Said("error"))
         /\ UNCHANGED <<m_events, m_ids, m_digests, m_allocs, rows, p_digests, p_allocs, view>>
    ELSE /\ Call(Said("ok"), Said("ok"))
         /\ m_events' = [k \in {x \in DOMAIN m_events : x[1] # b} |-> m_events[k]]
         /\ m_ids' = IdsLeft(b)
         /\ m_digests' = [k \in {x \in DOMAIN m_digests : x[1] # b} |-> m_digests[k]]
         /\ m_allocs' = Drop(m_allocs, b)
         /\ rows' = {r \in rows : r.bucket # b}
         /\ p_digests' = [k \in {x \in DOMAIN p_digests : x[1] # b} |-> p_digests[k]]
         /\ p_allocs' = Drop(p_allocs, b)
         /\ UNCHANGED view

-----------------------------------------------------------------------------
(* Allocator rows, digests, the balance view                                *)

FreshRow == [epoch |-> 1, next |-> 1, needs_bump |-> FALSE]

MemBumped(row) ==
    IF row.needs_bump THEN [epoch |-> row.epoch + 1, next |-> 1, needs_bump |-> FALSE] ELSE row

(* UPDATE ... SET current_epoch + 1, next_seq = 1, needs_bump = FALSE.      *)
RowBumped(row) == [epoch |-> row.epoch + 1, next |-> 1, needs_bump |-> FALSE]

(* bump_bucket_epoch: the map entry in memory; SELECT FOR UPDATE, then      *)
(* UPDATE, INSERT or nothing, in one transaction.                           *)
bump_bucket_epoch(b) ==
    LET m == IF b \in DOMAIN m_allocs THEN MemBumped(m_allocs[b]) ELSE FreshRow
        p == IF b \notin DOMAIN p_allocs THEN FreshRow
             ELSE IF p_allocs[b].needs_bump THEN RowBumped(p_allocs[b]) ELSE p_allocs[b]
    IN  /\ {m.epoch, p.epoch} \subseteq 1..MaxRowEpoch
        /\ Call(Counted(m.epoch), Counted(p.epoch))
        /\ m_allocs' = Put(m_allocs, b, m)
        /\ p_allocs' = Put(p_allocs, b, p)
        /\ UNCHANGED <<m_events, m_ids, m_digests, rows, p_digests, view>>

mark_bucket_allocators_pending ==
    /\ Call(Counted(Cardinality(DOMAIN m_allocs)), Counted(Cardinality(DOMAIN p_allocs)))
    /\ m_allocs' = [b \in DOMAIN m_allocs |-> [m_allocs[b] EXCEPT !.needs_bump = TRUE]]
    /\ p_allocs' = [b \in DOMAIN p_allocs |-> [p_allocs[b] EXCEPT !.needs_bump = TRUE]]
    /\ UNCHANGED <<m_events, m_ids, m_digests, rows, p_digests, view>>

(* persist_bucket_next_seq only moves forward: a comparison in memory,      *)
(* GREATEST in SQL; no row, no effect.                                      *)
persist_bucket_next_seq(b, next) ==
    /\ Call(Said("ok"), Said("ok"))
    /\ m_allocs' = IF b \in DOMAIN m_allocs /\ next > m_allocs[b].next
                   THEN [m_allocs EXCEPT ![b].next = next] ELSE m_allocs
    /\ p_allocs' = IF b \in DOMAIN p_allocs
                   THEN [p_allocs EXCEPT ![b].next = Larger(@, next)] ELSE p_allocs
    /\ UNCHANGED <<m_events, m_ids, m_digests, rows, p_digests, view>>

(* save_digest replaces what was there, whatever its head.                  *)
save_digest(k, head) ==
    /\ Call(Said("ok"), Said("ok"))
    /\ m_digests' = Put(m_digests, k, head)
    /\ p_digests' = Put(p_digests, k, head)
    /\ UNCHANGED <<m_events, m_ids, m_allocs, rows, p_allocs, view>>

AmountSum(S) == FoldSet(LAMBDA e, acc : e.amount + acc, 0, S)

(* aggregate_balances: a running sum per account, and SUM ... GROUP BY.     *)
MemBalances == [a \in {<<m_events[k].bucket, m_events[k].account>> : k \in DOMAIN m_events} |->
                   AmountSum({m_events[k] : k \in {x \in DOMAIN m_events :
                       <<m_events[x].bucket, m_events[x].account>> = a}})]
PgBalances == [a \in {<<r.bucket, r.account>> : r \in rows} |->
                  AmountSum({r \in rows : <<r.bucket, r.account>> = a})]

(* REFRESH MATERIALIZED VIEW; nothing to do in memory.                      *)
refresh_balance_summary ==
    /\ Call(Said("ok"), Said("ok"))
    /\ view' = PgBalances
    /\ UNCHANGED <<m_events, m_ids, m_digests, m_allocs, rows, p_digests, p_allocs>>

-----------------------------------------------------------------------------
(* Reading                                                                  *)

(* query_events_range: the slice of the map between two keys; the WHERE.    *)
MemRange(k, from, to) ==
    {m_events[x] : x \in {y \in DOMAIN m_events : \E s \in from..to : y = Append(k, s)}}
PgRange(k, from, to) == {r \in rows : epoch_key(r) = k /\ r.seq >= from /\ r.seq <= to}

(* sequences_by_origin_epoch                                                *)
MemSequences == [l \in {SubSeq(k, 1, 3) : k \in DOMAIN m_events} |->
                    {k[4] : k \in {x \in DOMAIN m_events : SubSeq(x, 1, 3) = l}}]
PgSequences == [l \in {epoch_key(r) : r \in rows} |-> {r.seq : r \in {x \in rows : epoch_key(x) = l}}]

(* derive_next_seq: the last key of the line, MAX(origin_seq).              *)
MemNextSeq(l) == IF l \in DOMAIN MemSequences
                 THEN 1 + (CHOOSE s \in MemSequences[l] : \A t \in MemSequences[l] : t <= s) ELSE 1
PgNextSeq(l) == 1 + (CHOOSE s \in {0} \cup {r.seq : r \in {x \in rows : epoch_key(x) = l}} :
                        \A r \in rows : epoch_key(r) = l => r.seq <= s)

Wants(f, field, value) == field \in DOMAIN f => f[field] = value

(* The predicates of query_events_filtered.                                 *)
Passes(e, f) ==
    /\ Wants(f, "bucket", e.bucket)
    /\ Wants(f, "account", e.account)
    /\ Wants(f, "origin", e.origin)
    /\ Wants(f, "kind", e.kind)
    /\ "since" \in DOMAIN f => e.at >= f.since
    /\ "until" \in DOMAIN f => e.at <= f.until

NewestFirst(a, b) == a.at > b.at \/ (a.at = b.at /\ a.rank > b.rank)

Page(S, limit, offset) ==
    SubSeq(SetToSortSeq(S, NewestFirst), offset + 1, Smaller(offset + limit, Cardinality(S)))

(* skip/take of the sorted matches; LIMIT/OFFSET, with its own COUNT.       *)
MemFiltered(f, limit, offset) ==
    LET S == {m_events[k] : k \in {x \in DOMAIN m_events : Passes(m_events[x], f)}}
    IN  <<Page(S, limit, offset), Cardinality(S)>>
PgFiltered(f, limit, offset) ==
    LET S == {r \in rows : Passes(r, f)}
    IN  <<Page(S, limit, offset), Cardinality(S)>>

(* find_by_idempotency_key                                                  *)
MemByNonce(e) == {m_events[k] : k \in {x \in DOMAIN m_events :
                     /\ m_events[x].nonce = e.nonce /\ m_events[x].bucket = e.bucket
                     /\ m_events[x].account = e.account /\ m_events[x].amount = e.amount}}
PgByNonce(e) == {r \in rows : <<r.nonce, r.bucket, r.account, r.amount>> =
                                  <<e.nonce, e.bucket, e.account, e.amount>>}

(* active_holds, released_hold_refs: what a node rebuilds its holds from.   *)
HoldsAt(e, now) == e.kind = "standard" /\ e.amount < 0 /\ e.hold > 0 /\ e.until > now
MemActiveHolds(now) == {e \in Range(m_events) : HoldsAt(e, now)}
PgActiveHolds(now) == {r \in rows : HoldsAt(r, now)}
MemReleased == {e.ref : e \in {x \in Range(m_events) : x.kind = "hold_release"}}
PgReleased == {r.ref : r \in {x \in rows : x.kind = "hold_release"}}

(* origin_account_epoch_mapping                                             *)
MemMapping == {<<k[1], k[2], k[3], m_events[k].account>> : k \in DOMAIN m_events}
PgMapping == {Append(epoch_key(r), r.account) : r \in rows}

(* checksum_data: a hash over the events in origin order, the one of the    *)
(* map and the one of ORDER BY (equal if the database compares bytes).      *)
InOriginOrder(S) == SetToSortSeq(S, OriginOrder)
MemChecksum == InOriginOrder(Range(m_events))
PgChecksum == InOriginOrder(rows)

StoresNext ==
    \/ \E e \in Catalogue : insert_event(e)
    \/ \E S \in SUBSET Catalogue : /\ Cardinality(S) \in 2..MaxBulk
                                   /\ \E batch, sorted \in SetToSeqs(S) : insert_events_bulk(batch, sorted)
    \/ \E b \in {e.bucket : e \in Catalogue} :
          \/ delete_bucket_cascade(b)
          \/ bump_bucket_epoch(b)
          \/ \E next \in 1..2 : persist_bucket_next_seq(b, next)
    \/ mark_bucket_allocators_pending
    \/ \E e \in Catalogue : \E head \in 0..1 : save_digest(epoch_key(e), head)
    \/ refresh_balance_summary

(* The tables of events and allocators and the registry of peers, each      *)
(* called on its own.                                                       *)
StorageSpec ==
    /\ InitRegistry /\ InitStores
    /\ [][\/ RegistryNext /\ UNCHANGED storeBackends
          \/ StoresNext /\ UNCHANGED regVars]_<<regVars, storeBackends>>

-----------------------------------------------------------------------------

(* The tests' backend is a faithful stand-in: after any sequence of calls   *)
(* the two answered the last one alike and answer every later query alike,  *)
(* although one is a set of maps and the other SQL with two unique          *)
(* constraints (memory.rs, postgres.rs). The materialized view lags.        *)
BackendsAgree ==
    /\ answers[1] = answers[2]
    /\ m_digests = p_digests /\ m_allocs = p_allocs
    /\ \A e \in Catalogue :
          /\ MemRange(epoch_key(e), 1, 2) = PgRange(epoch_key(e), 1, 2)
          /\ MemNextSeq(epoch_key(e)) = PgNextSeq(epoch_key(e))
          /\ MemByNonce(e) = PgByNonce(e)
    /\ MemSequences = PgSequences
    /\ MemBalances = PgBalances
    /\ MemMapping = PgMapping /\ MemChecksum = PgChecksum
    /\ MemReleased = PgReleased
    /\ \A now \in 0..2 : MemActiveHolds(now) = PgActiveHolds(now)
    /\ \A f \in Filters : \A limit, offset \in 0..2 :
          MemFiltered(f, limit, offset) = PgFiltered(f, limit, offset)
    /\ RegistriesAgree
=============================================================================
