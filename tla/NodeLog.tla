------------------------------ MODULE NodeLog ------------------------------
(***************************************************************************)
(* One epoch chain (bucket, origin, epoch) inside one shardd node: how its *)
(* events enter memory, become contiguous, reach the node's database and   *)
(* leave memory again (apps/node/src/state.rs, batch_writer.rs,            *)
(* orphan_detector.rs, the range server of server.rs).                     *)
(*                                                                         *)
(* An event of the chain is its origin_seq.  Workers are the tasks that    *)
(* call insert_event (gossip workers, ack task, catch-up task); Writers    *)
(* are the tasks that record new events when the origin is this node.      *)
(* Every map below is a concurrent DashMap, so one step of a task is one   *)
(* access to one map, except under the per-epoch head lock where accesses  *)
(* that no other task can separate are taken together.                     *)
(***************************************************************************)
EXTENDS Integers, Sequences, FiniteSets

CONSTANTS
  Workers,    \* tasks running insert_event
  Writers,    \* tasks running record_new_local_event; {} for a remote chain
  MaxSeq,     \* bound: events of the chain
  MaxCrashes, \* bound: crashes of the node
  ServeRanges \* whether peers ask this node for ranges

ASSUME MaxSeqAssumption == MaxSeq \in Nat
ASSUME MaxCrashesAssumption == MaxCrashes \in Nat
ASSUME ServeAssumption == ServeRanges \in BOOLEAN
ASSUME TasksAssumption == Workers \cap Writers = {} /\ "none" \notin Workers \cup Writers

Seqs == 1..MaxSeq
Tasks == Workers \cup Writers
NoTask == "none"

\* The two tasks that write events to the database.
Persisters == {"batch", "orphan"}

VARIABLES
  sent,      \* events of the chain that peers hold and may deliver
  next,      \* Writers: next sequence number of the allocator
  open,      \* Writers: the chain's epoch is the current one
  \* --- SharedState
  buffer,    \* keys of event_buffer
  unp,       \* keys of unpersisted
  pending,   \* pending_seqs
  head,      \* heads
  digest,    \* what the rolling digest has folded in, position by position;
             \* 0 stands for an event the fold did not find in the buffer
  lock,      \* holder of the head lock
  range,     \* [lo, hi]: current+1 and new_head of the lock holder
  applied,   \* times each event was added to its balance: 0, 1 or 2 (= more)
  queue,     \* events in the batch channel or the batch writer's Vec
  \* --- database
  db,        \* events table
  \* --- tasks
  pc,        \* where each task is
  cur,       \* the event each task works on
  ppc,       \* where each persister is
  batch,     \* events the persister's current call carries
  mark,      \* the key mark_persisted is at, 0 between keys
  seen,      \* the head mark_persisted has read for that key
  \* --- range server
  rpc, want, have,
  crashes

chainVars == <<sent, next, open>>
memVars == <<buffer, unp, pending, head, digest, lock, range, applied, queue>>
taskVars == <<pc, cur>>
persVars == <<ppc, batch, mark, seen>>
serveVars == <<rpc, want, have>>
vars == <<chainVars, memVars, db, taskVars, persVars, serveVars, crashes>>

TaskPCs == {"idle", "in_buffer", "in_pending", "under_head", "claim", "apply",
            "store", "unp", "advance", "fold", "publish", "prune", "send"}

ChainOK == sent \in SUBSET Seqs /\ next \in 1..MaxSeq + 1 /\ open \in BOOLEAN
MapsOK ==
  /\ buffer \in SUBSET Seqs /\ unp \in SUBSET Seqs /\ pending \in SUBSET Seqs
  /\ queue \in SUBSET Seqs /\ db \in SUBSET Seqs
HeadOK ==
  /\ head \in 0..MaxSeq
  /\ lock \in Tasks \cup {NoTask}
  /\ range \in [lo : 1..MaxSeq + 1, hi : 0..MaxSeq]
DigestOK == digest \in Seq(0..MaxSeq)
AppliedOK == applied \in [Seqs -> 0..2]
TasksOK == pc \in [Tasks -> TaskPCs] /\ cur \in [Tasks -> 0..MaxSeq]
PersistersOK ==
  /\ ppc \in [Persisters -> {"idle", "insert", "unmark", "head", "pend", "drop"}]
  /\ batch \in [Persisters -> SUBSET Seqs]
  /\ mark \in [Persisters -> 0..MaxSeq] /\ seen \in [Persisters -> 0..MaxSeq]
ServerOK ==
  /\ rpc \in {"idle", "storage"}
  /\ want \in SUBSET Seqs /\ have \in SUBSET Seqs
  /\ crashes \in 0..MaxCrashes

TypeOK ==
  /\ ChainOK /\ MapsOK /\ HeadOK /\ DigestOK /\ AppliedOK
  /\ TasksOK /\ PersistersOK /\ ServerOK

\* compute_contiguous_head: the longest prefix 1..h of a set of sequences.
ContiguousHead(S, h) == h \in 0..MaxSeq /\ 1..h \subseteq S /\ h + 1 \notin S

\* Faulty variant of SharedState::new: the digests are not recomputed.
RebuiltWithoutDigest(h) ==
  /\ ContiguousHead(db, h)
  /\ head' = h
  /\ pending' = {s \in db : s > h} /\ buffer' = {s \in db : s > h}
  /\ digest' = <<>>
  /\ applied' = [s \in Seqs |-> IF s \in db THEN 1 ELSE 0]
  /\ unp' = {} /\ queue' = {}
  /\ lock' = NoTask /\ range' = [lo |-> 1, hi |-> 0]

\* SharedState::new: everything in memory is rebuilt from the database.
Rebuilt(h) ==
  /\ ContiguousHead(db, h)
  /\ head' = h
  /\ pending' = {s \in db : s > h}
  /\ buffer' = {s \in db : s > h}
  /\ digest' = [i \in 1..h |-> i]
  /\ applied' = [s \in Seqs |-> IF s \in db THEN 1 ELSE 0]
  /\ unp' = {} /\ queue' = {}
  /\ lock' = NoTask /\ range' = [lo |-> 1, hi |-> 0]

Init ==
  /\ sent = (IF Writers = {} THEN Seqs ELSE {})
  /\ next = 1 /\ open = (Writers # {})
  /\ buffer = {} /\ unp = {} /\ pending = {} /\ head = 0 /\ digest = <<>>
  /\ lock = NoTask /\ range = [lo |-> 1, hi |-> 0]
  /\ applied = [s \in Seqs |-> 0]
  /\ queue = {} /\ db = {}
  /\ pc = [t \in Tasks |-> "idle"] /\ cur = [t \in Tasks |-> 0]
  /\ ppc = [p \in Persisters |-> "idle"]
  /\ batch = [p \in Persisters |-> {}]
  /\ mark = [p \in Persisters |-> 0] /\ seen = [p \in Persisters |-> 0]
  /\ rpc = "idle" /\ want = {} /\ have = {}
  /\ crashes = 0

-----------------------------------------------------------------------------
(* insert_event, up to the head.                                           *)

Goto(t, l) ==
  /\ pc' = [pc EXCEPT ![t] = l]
  /\ cur' = [cur EXCEPT ![t] = IF l = "idle" THEN 0 ELSE @]

\* A task that takes up event s.
Begin(t, s, l) ==
  /\ pc' = [pc EXCEPT ![t] = l]
  /\ cur' = [cur EXCEPT ![t] = s]

\* A peer's event arrives by gossip, ack request or catch-up: any event peers
\* hold, any number of times, in any order.
Deliver(t, s) ==
  /\ pc[t] = "idle" /\ s \in sent
  /\ Begin(t, s, "in_buffer")
  /\ UNCHANGED <<chainVars, memVars, db, persVars, serveVars, crashes>>

\* event_is_present, first access: the event buffer.
LookInBuffer(t) ==
  /\ pc[t] = "in_buffer"
  /\ Goto(t, IF cur[t] \in buffer THEN "idle" ELSE "in_pending")
  /\ UNCHANGED <<chainVars, memVars, db, persVars, serveVars, crashes>>

\* event_is_present, second access: the out-of-order sequences.
LookInPending(t) ==
  /\ pc[t] = "in_pending"
  /\ Goto(t, IF cur[t] \in pending THEN "idle" ELSE "under_head")
  /\ UNCHANGED <<chainVars, memVars, db, persVars, serveVars, crashes>>

\* event_is_present, third access: the contiguous head.
LookUnderHead(t) ==
  /\ pc[t] = "under_head"
  /\ Goto(t, IF cur[t] <= head THEN "idle" ELSE "claim")
  /\ UNCHANGED <<chainVars, memVars, db, persVars, serveVars, crashes>>

\* event_buffer.entry(key): only one task wins a vacant entry.
Claim(t) ==
  /\ pc[t] = "claim"
  /\ IF cur[t] \in buffer
       THEN Goto(t, "idle") /\ UNCHANGED buffer
       ELSE Goto(t, "apply") /\ buffer' = buffer \cup {cur[t]}
  /\ UNCHANGED <<chainVars, unp, pending, head, digest, lock, range, applied,
                 queue, db, persVars, serveVars, crashes>>

\* One more addition of s to its account, under the account lock.
AddToBalance(s) ==
  applied' = [applied EXCEPT ![s] = IF @ = 0 THEN 1 ELSE 2]

Apply(t) ==
  /\ pc[t] = "apply"
  /\ AddToBalance(cur[t])
  /\ Goto(t, "unp")
  /\ UNCHANGED <<chainVars, buffer, unp, pending, head, digest, lock, range,
                 queue, db, persVars, serveVars, crashes>>

-----------------------------------------------------------------------------
(* A new event of this node: the account changes under its lock, then      *)
(* record_new_local_event / apply_correction_event.                        *)

CreateLocal(t) ==
  /\ pc[t] = "idle" /\ open /\ next <= MaxSeq
  /\ Begin(t, next, "store")
  /\ next' = next + 1
  /\ AddToBalance(next)
  /\ UNCHANGED <<sent, open, buffer, unp, pending, head, digest, lock, range,
                 queue, db, persVars, serveVars, crashes>>

\* store_event_buffer, first insert.
StoreBuffer(t) ==
  /\ pc[t] = "store"
  /\ buffer' = buffer \cup {cur[t]}
  /\ Goto(t, "unp")
  /\ UNCHANGED <<chainVars, unp, pending, head, digest, lock, range, applied,
                 queue, db, persVars, serveVars, crashes>>

-----------------------------------------------------------------------------
(* The common tail: unpersisted, advance_head, batch channel.              *)

TrackUnpersisted(t) ==
  /\ pc[t] = "unp"
  /\ unp' = unp \cup {cur[t]}
  /\ Goto(t, "advance")
  /\ UNCHANGED <<chainVars, buffer, pending, head, digest, lock, range, applied,
                 queue, db, persVars, serveVars, crashes>>

\* Faulty variant: what was pending behind the new head stays pending.
NothingDrained(h, n) == n = h

\* drain_pending: the new head after h becomes contiguous.
Drained(h, n) ==
  /\ n \in h..MaxSeq
  /\ (h + 1)..n \subseteq pending
  /\ n + 1 \notin pending

\* advance_head takes the head lock and reads the head; the event extends it
\* and what was pending behind it, ...
AdvanceContiguous(t) ==
  /\ pc[t] = "advance" /\ lock = NoTask
  /\ cur[t] = head + 1
  /\ \E n \in Seqs :
       /\ Drained(cur[t], n)
       /\ pending' = pending \ (cur[t] + 1 .. n)
       /\ range' = [lo |-> cur[t], hi |-> n]
  /\ lock' = t
  /\ Goto(t, "fold")
  /\ UNCHANGED <<chainVars, buffer, unp, head, digest, applied, queue, db,
                 persVars, serveVars, crashes>>

\* ... or lies beyond a gap, or is already covered.
AdvanceOther(t) ==
  /\ pc[t] = "advance" /\ lock = NoTask
  /\ cur[t] # head + 1
  /\ pending' = IF cur[t] > head + 1 THEN pending \cup {cur[t]} ELSE pending
  /\ Goto(t, "send")
  /\ UNCHANGED <<chainVars, buffer, unp, head, digest, lock, range, applied,
                 queue, db, persVars, serveVars, crashes>>

\* Faulty variant: the digest of the new range replaces the rolling digest.
FoldFromZero(t) ==
  /\ pc[t] = "fold"
  /\ digest' = [i \in 1..(range.hi - range.lo + 1) |-> range.lo + i - 1]
  /\ Goto(t, "publish")
  /\ UNCHANGED <<chainVars, buffer, unp, pending, head, lock, range, applied,
                 queue, db, persVars, serveVars, crashes>>

\* update_digest: events not found in the buffer are passed over.
FoldDigest(t) ==
  /\ pc[t] = "fold"
  /\ digest' = digest \o [i \in 1..(range.hi - range.lo + 1) |->
                            IF range.lo + i - 1 \in buffer
                              THEN range.lo + i - 1 ELSE 0]
  /\ Goto(t, "publish")
  /\ UNCHANGED <<chainVars, buffer, unp, pending, head, lock, range, applied,
                 queue, db, persVars, serveVars, crashes>>

\* Faulty variant: the head moves only past the event itself, not past what
\* was drained.
PublishOwnSeqOnly(t) ==
  /\ pc[t] = "publish"
  /\ head' = range.lo
  /\ Goto(t, "prune")
  /\ UNCHANGED <<chainVars, buffer, unp, pending, digest, lock, range, applied,
                 queue, db, persVars, serveVars, crashes>>

\* heads.insert
PublishHead(t) ==
  /\ pc[t] = "publish"
  /\ head' = range.hi
  /\ Goto(t, "prune")
  /\ UNCHANGED <<chainVars, buffer, unp, pending, digest, lock, range, applied,
                 queue, db, persVars, serveVars, crashes>>

\* Faulty variants: only the event itself is pruned, not the drained range, ...
PruneOwnSeqOnly(t) ==
  /\ pc[t] = "prune"
  /\ buffer' = {s \in buffer : s = range.lo => s \in unp}
  /\ lock' = NoTask /\ range' = [lo |-> 1, hi |-> 0]
  /\ Goto(t, "send")
  /\ UNCHANGED <<chainVars, unp, pending, head, digest, applied, queue, db,
                 persVars, serveVars, crashes>>

\* ... or the whole range is pruned, persisted or not.
PruneUnpersisted(t) ==
  /\ pc[t] = "prune"
  /\ buffer' = buffer \ (range.lo..range.hi)
  /\ lock' = NoTask /\ range' = [lo |-> 1, hi |-> 0]
  /\ Goto(t, "send")
  /\ UNCHANGED <<chainVars, unp, pending, head, digest, applied, queue, db,
                 persVars, serveVars, crashes>>

\* prune_persisted_buffer_range; the guard drops.
PruneBuffer(t) ==
  /\ pc[t] = "prune"
  /\ buffer' = {s \in buffer : s \in range.lo..range.hi => s \in unp}
  /\ lock' = NoTask /\ range' = [lo |-> 1, hi |-> 0]
  /\ Goto(t, "send")
  /\ UNCHANGED <<chainVars, unp, pending, head, digest, applied, queue, db,
                 persVars, serveVars, crashes>>

\* batch_tx.send; a new local event is broadcast once it is recorded.
Send(t) ==
  /\ pc[t] = "send"
  /\ queue' = queue \cup {cur[t]}
  /\ sent' = IF t \in Writers THEN sent \cup {cur[t]} ELSE sent
  /\ Goto(t, "idle")
  /\ UNCHANGED <<next, open, buffer, unp, pending, head, digest, lock, range,
                 applied, db, persVars, serveVars, crashes>>

TaskStep(t) ==
  \/ LookInBuffer(t) \/ LookInPending(t) \/ LookUnderHead(t)
  \/ Claim(t) \/ Apply(t) \/ StoreBuffer(t) \/ TrackUnpersisted(t)
  \/ AdvanceContiguous(t) \/ AdvanceOther(t)
  \/ FoldDigest(t) \/ PublishHead(t) \/ PruneBuffer(t) \/ Send(t)

-----------------------------------------------------------------------------
(* The batch writer and the orphan detector.                               *)

PGoto(p, l) == ppc' = [ppc EXCEPT ![p] = l]

\* do_flush takes what the timer or the size limit finds in the Vec.
TakeBatch(B) ==
  /\ ppc["batch"] = "idle" /\ B # {} /\ B \subseteq queue
  /\ queue' = queue \ B
  /\ batch' = [batch EXCEPT !["batch"] = B]
  /\ PGoto("batch", "insert")
  /\ UNCHANGED <<chainVars, buffer, unp, pending, head, digest, lock, range,
                 applied, db, taskVars, mark, seen, serveVars, crashes>>

\* Faulty variant: the scan looks at out-of-order events only.
ScanPendingOnly(B) ==
  /\ ppc["orphan"] = "idle" /\ B # {} /\ B \subseteq unp \cap pending
  /\ batch' = [batch EXCEPT !["orphan"] = B]
  /\ PGoto("orphan", "insert")
  /\ UNCHANGED <<chainVars, memVars, db, taskVars, mark, seen, serveVars, crashes>>

\* get_unpersisted_events: what is old enough, unpersisted and buffered.
ScanOrphans(B) ==
  /\ ppc["orphan"] = "idle" /\ B # {} /\ B \subseteq unp \cap buffer
  /\ batch' = [batch EXCEPT !["orphan"] = B]
  /\ PGoto("orphan", "insert")
  /\ UNCHANGED <<chainVars, memVars, db, taskVars, mark, seen, serveVars, crashes>>

\* insert_events_bulk, ON CONFLICT DO NOTHING; then mark_persisted.
InsertBulk(p) ==
  /\ ppc[p] = "insert"
  /\ db' = db \cup batch[p]
  /\ PGoto(p, "unmark")
  /\ UNCHANGED <<chainVars, memVars, taskVars, batch, mark, seen, serveVars, crashes>>

\* Faulty variant: a failed batch is marked persisted all the same.
InsertFailsButMarks(p) ==
  /\ ppc[p] = "insert"
  /\ db' \in {db, db \cup batch[p]}
  /\ PGoto(p, "unmark")
  /\ UNCHANGED <<chainVars, memVars, taskVars, batch, mark, seen, serveVars, crashes>>

\* The call fails, before or after the commit: nothing is marked.
InsertFails(p) ==
  /\ ppc[p] = "insert"
  /\ db' \in {db, db \cup batch[p]}
  /\ batch' = [batch EXCEPT ![p] = {}]
  /\ PGoto(p, "idle")
  /\ UNCHANGED <<chainVars, memVars, taskVars, mark, seen, serveVars, crashes>>

\* mark_persisted for one key: unpersisted.remove, ...
Unmark(p) ==
  /\ ppc[p] = "unmark" /\ batch[p] # {}
  /\ \E s \in batch[p] :
       /\ unp' = unp \ {s}
       /\ mark' = [mark EXCEPT ![p] = s]
  /\ PGoto(p, "head")
  /\ UNCHANGED <<chainVars, buffer, pending, head, digest, lock, range, applied,
                 queue, db, taskVars, batch, seen, serveVars, crashes>>

\* ... heads.get, ...
MarkReadHead(p) ==
  /\ ppc[p] = "head"
  /\ seen' = [seen EXCEPT ![p] = head]
  /\ PGoto(p, "pend")
  /\ UNCHANGED <<chainVars, memVars, db, taskVars, batch, mark, serveVars, crashes>>

\* The key is done; the next one follows.
MarkNext(p) ==
  /\ batch' = [batch EXCEPT ![p] = @ \ {mark[p]}]
  /\ mark' = [mark EXCEPT ![p] = 0]
  /\ seen' = [seen EXCEPT ![p] = 0]
  /\ PGoto(p, "unmark")

\* Faulty variant: every persisted event that is not pending is dropped, also
\* one that no head covers yet.
MarkIgnoresHead(p) ==
  /\ ppc[p] = "pend"
  /\ IF mark[p] \notin pending
       THEN PGoto(p, "drop") /\ UNCHANGED <<batch, mark, seen>>
       ELSE MarkNext(p)
  /\ UNCHANGED <<chainVars, memVars, db, taskVars, serveVars, crashes>>

\* ... pending_seqs.get, ...
MarkReadPending(p) ==
  /\ ppc[p] = "pend"
  /\ IF mark[p] <= seen[p] /\ mark[p] \notin pending
       THEN PGoto(p, "drop") /\ UNCHANGED <<batch, mark, seen>>
       ELSE MarkNext(p)
  /\ UNCHANGED <<chainVars, memVars, db, taskVars, serveVars, crashes>>

\* ... and event_buffer.remove.
MarkDrop(p) ==
  /\ ppc[p] = "drop"
  /\ buffer' = buffer \ {mark[p]}
  /\ MarkNext(p)
  /\ UNCHANGED <<chainVars, unp, pending, head, digest, lock, range, applied,
                 queue, db, taskVars, serveVars, crashes>>

MarkDone(p) ==
  /\ ppc[p] = "unmark" /\ batch[p] = {}
  /\ PGoto(p, "idle")
  /\ UNCHANGED <<chainVars, memVars, db, taskVars, batch, mark, seen, serveVars, crashes>>

PersistStep(p) ==
  \/ InsertBulk(p) \/ InsertFails(p) \/ Unmark(p) \/ MarkReadHead(p)
  \/ MarkReadPending(p) \/ MarkDrop(p) \/ MarkDone(p)

-----------------------------------------------------------------------------
(* The range server: the buffer first, then storage for what is missing.   *)

\* A peer asks for a range up to a head this node has advertised.
ServeFromBuffer ==
  /\ ServeRanges /\ rpc = "idle" /\ head > 0
  /\ want' = 1..head
  /\ have' = buffer \cap 1..head
  /\ rpc' = "storage"
  /\ UNCHANGED <<chainVars, memVars, db, taskVars, persVars, crashes>>

\* query_events_range, merge, reply.
ServeFromStorage ==
  /\ rpc = "storage"
  /\ want' = {} /\ have' = {} /\ rpc' = "idle"
  /\ UNCHANGED <<chainVars, memVars, db, taskVars, persVars, crashes>>

-----------------------------------------------------------------------------
\* The process dies and starts again on its database, in a new epoch.
Crash ==
  /\ crashes < MaxCrashes
  /\ crashes' = crashes + 1
  /\ \E h \in 0..MaxSeq : Rebuilt(h)
  /\ open' = FALSE
  /\ pc' = [t \in Tasks |-> "idle"] /\ cur' = [t \in Tasks |-> 0]
  /\ ppc' = [p \in Persisters |-> "idle"]
  /\ batch' = [p \in Persisters |-> {}]
  /\ mark' = [p \in Persisters |-> 0] /\ seen' = [p \in Persisters |-> 0]
  /\ rpc' = "idle" /\ want' = {} /\ have' = {}
  /\ UNCHANGED <<sent, next, db>>

Next ==
  \/ \E t \in Workers, s \in Seqs : Deliver(t, s)
  \/ \E t \in Writers : CreateLocal(t)
  \/ \E t \in Tasks : TaskStep(t)
  \/ \E B \in SUBSET Seqs : TakeBatch(B) \/ ScanOrphans(B)
  \/ \E p \in Persisters : PersistStep(p)
  \/ ServeFromBuffer \/ ServeFromStorage
  \/ Crash

Spec == Init /\ [][Next]_vars

\* The runtime schedules every task.  Catch-up asks again every five seconds,
\* so every event peers hold is delivered again and again while it is missing.
\* The orphan detector's timer fires, every unpersisted event comes of age, and
\* the database does not refuse the orphan detector for ever.  Nothing is asked
\* of the batch writer but that it does not stop halfway.
Fairness ==
  /\ \A t \in Tasks : WF_vars(TaskStep(t))
  /\ \A s \in Seqs : SF_vars(\E t \in Workers : Deliver(t, s))
  /\ \A s \in Seqs : SF_vars(\E B \in SUBSET Seqs : s \in B /\ ScanOrphans(B))
  /\ \A p \in Persisters : WF_vars(PersistStep(p))
  /\ SF_vars(InsertBulk("orphan"))

FairSpec == Spec /\ Fairness

-----------------------------------------------------------------------------
(* Properties.                                                             *)

\* The rolling digest folds every event of the contiguous prefix exactly once
\* and in order, although mark_persisted removes events from the buffer while
\* the fold reads it and a restart recomputes it from the database.
DigestCoversHead ==
  /\ \A i \in DOMAIN digest : digest[i] = i
  /\ lock = NoTask => Len(digest) = head

\* An event that counts in a balance can always be recovered: it is in the
\* database, or buffered and marked for the orphan detector, or a task is just
\* about to mark it.  A failed flush drops its batch and relies on this.
Recoverable ==
  \A s \in Seqs : applied[s] > 0 =>
    \/ s \in db
    \/ s \in buffer \cap unp
    \/ \E t \in Tasks : cur[t] = s /\ pc[t] \in {"store", "unp"}

\* An event that counts in a balance is known to the head machinery: covered
\* by the head, pending behind a gap, or in the hands of a task that will call
\* or is inside advance_head.  None is forgotten by two racing advances.
AppliedIsTracked ==
  \A s \in Seqs : applied[s] > 0 =>
    \/ s <= head \/ s \in pending
    \/ lock # NoTask /\ s \in range.lo..range.hi
    \/ \E t \in Tasks : cur[t] = s /\ pc[t] \in {"store", "unp", "advance"}

\* While nobody advances it, the head stands exactly before a gap.
HeadIsMaximal ==
  lock = NoTask => head + 1 \notin pending /\ \A s \in pending : s > head

\* The range server, reading buffer and database in two steps, finds every
\* event under a head it has advertised, whatever is flushed, marked and pruned
\* in between.
RangeComplete == rpc = "storage" => want \subseteq have \cup db

\* Memory does not leak: once nothing is in flight, only events beyond a gap
\* stay buffered.  It needs mark_persisted to clear `unpersisted` before it
\* reads the head, and advance_head to publish the head before it prunes.
Quiescent ==
  /\ \A t \in Tasks : pc[t] = "idle"
  /\ \A p \in Persisters : ppc[p] = "idle"
  /\ queue = {} /\ unp = {}

NoBufferLeak == Quiescent => buffer = pending

\* Each event is added to its balance at most once.
AppliedOnce == \A s \in Seqs : applied[s] <= 1

\* Except across a restart the head never moves back and the digest is only
\* ever extended.
HeadAdvances ==
  [][crashes' = crashes =>
       /\ head' >= head
       /\ Len(digest') >= Len(digest)
       /\ \A i \in DOMAIN digest : digest'[i] = digest[i]]_vars

\* Every event peers hold, and every event that counts in a balance, ends up in
\* this node's database, and nothing but events beyond a gap stays in memory,
\* through flush failures, duplicates and restarts.
DrainsToDatabase ==
  <>[](/\ sent \subseteq db /\ \A s \in Seqs : applied[s] > 0 => s \in db
       /\ unp = {} /\ buffer = pending)

=============================================================================
