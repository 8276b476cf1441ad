-------------------------- MODULE BucketAllocator --------------------------
(***************************************************************************)
(* The per-(bucket, node) epoch/sequence allocator of a shardd node        *)
(* (apps/node/src/bucket_allocator.rs) and the row of bucket_seq_allocator *)
(* it is built on (libs/storage/src/postgres.rs).  Buckets have            *)
(* independent lines, so the module follows ONE bucket of ONE node.        *)
(*                                                                         *)
(* Tasks are the tokio tasks that may call allocate() for the bucket: the  *)
(* client RPC task and the replication tasks, which allocate when they     *)
(* emit a void.  A step of a task is one access to shared state or one     *)
(* database transaction.  A crash destroys everything but the row.         *)
(***************************************************************************)
EXTENDS Naturals, Sequences

CONSTANTS
  Tasks,       \* tasks that allocate from the bucket
  RacedFirstUse, \* whether two tasks may meet a bucket without an allocator
  MaxEpoch,    \* bound: no crash once the durable epoch has reached it, and
               \* none after a lapse
  MaxSeq       \* bound: no new allocation beyond this sequence number

ASSUME RaceAssumption == RacedFirstUse \in BOOLEAN
ASSUME BoundsAssumption == MaxEpoch \in Nat /\ MaxSeq \in Nat

VARIABLES
  row,      \* durable row: [epoch, next_seq, needs_bump]; epoch 0 is "no row"
  phase,    \* "down", "marked" (rows flagged, not loaded) or "up"
  entry,    \* the bucket's entry of `map`: an index into heap, 0 when absent
  heap,     \* the BucketAllocator objects this process has created
  pc,       \* where each task is inside allocate()
  obj,      \* the Arc<BucketAllocator> each task works with
  epoch,    \* the epoch each task has read
  issued,   \* history: every <<epoch, seq>> allocate() ever returned
  clash,    \* history: pairs that allocate() returned a second time
  tomb,     \* the bucket is in the in-memory deleted_buckets
  tombLog,  \* the BucketDelete meta event is durable
  cascade,  \* where the bucket-delete cascade is
  lapse     \* history: a startup statement failed, or a crash cut a deletion
            \* short; what the node promises about keys ends there

vars == <<row, phase, entry, heap, pc, obj, epoch, issued, clash,
          tomb, tombLog, cascade, lapse>>

taskVars == <<pc, obj, epoch>>
histVars == <<issued, clash, lapse>>
tombVars == <<tomb, tombLog, cascade>>

Row == [epoch : Nat, next_seq : Nat, needs_bump : BOOLEAN]
NoRow == [epoch |-> 0, next_seq |-> 0, needs_bump |-> FALSE]

\* A BucketAllocator; `lock` is the task holding bump_lock, if any.
NoTask == "none"
ASSUME TasksAssumption == NoTask \notin Tasks
Object == [epoch : Nat, next_seq : Nat, needs_bump : BOOLEAN,
           lock : Tasks \cup {NoTask}]

PCs == {"idle", "create", "load", "check", "lock", "bump",
        "store_epoch", "store_seq", "clear", "read", "take"}

TypeOK ==
  /\ row \in Row
  /\ phase \in {"down", "marked", "up"}
  /\ heap \in Seq(Object)
  /\ entry \in 0..Len(heap)
  /\ pc \in [Tasks -> PCs]
  /\ obj \in [Tasks -> 0..Len(heap)]
  /\ epoch \in [Tasks -> Nat]
  /\ issued \in SUBSET (Nat \X Nat)
  /\ clash \in SUBSET (Nat \X Nat)
  /\ tomb \in BOOLEAN /\ tombLog \in BOOLEAN
  /\ cascade \in {"none", "row", "forget", "log"}
  /\ lapse \in BOOLEAN

\* A set of pairs without holes within an epoch.
Gapless(S) == \A k \in S : \A q \in 1..k[2] : <<k[1], q>> \in S

\* Earlier lifetimes have left a row and pairs of epochs up to its epoch, or
\* nobody has written the bucket yet.
Init ==
  /\ row \in {NoRow} \cup [epoch : 1..MaxEpoch, next_seq : {1}, needs_bump : BOOLEAN]
  /\ issued \in SUBSET ((1..row.epoch) \X (1..MaxSeq)) /\ Gapless(issued)
  /\ phase = "down"
  /\ entry = 0 /\ heap = <<>>
  /\ pc = [t \in Tasks |-> "idle"]
  /\ obj = [t \in Tasks |-> 0]
  /\ epoch = [t \in Tasks |-> 0]
  /\ clash = {} /\ lapse = FALSE
  /\ tomb = FALSE /\ tombLog = FALSE /\ cascade = "none"

-----------------------------------------------------------------------------
(* Startup: load_from_storage.                                             *)

\* mark_bucket_allocators_pending: UPDATE ... SET needs_bump = TRUE.
MarkPending ==
  /\ phase = "down"
  /\ phase' = "marked"
  /\ row' = IF row = NoRow THEN row ELSE [row EXCEPT !.needs_bump = TRUE]
  /\ UNCHANGED <<entry, heap, taskVars, histVars, tombVars>>

\* load_bucket_allocators, and one in-memory entry per row.
LoadRows ==
  /\ phase = "marked"
  /\ phase' = "up"
  /\ IF row = NoRow
       THEN UNCHANGED <<entry, heap>>
       ELSE /\ heap' = Append(heap, [epoch |-> row.epoch,
                                     next_seq |-> row.next_seq,
                                     needs_bump |-> row.needs_bump,
                                     lock |-> NoTask])
            /\ entry' = Len(heap')
  /\ UNCHANGED <<row, taskVars, histVars, tombVars>>

\* Either statement fails: SharedState::new logs "starting fresh" and goes on.
LoadFails ==
  /\ phase \in {"down", "marked"}
  /\ phase' = "up" /\ lapse' = TRUE
  /\ UNCHANGED <<row, entry, heap, taskVars, issued, clash, tombVars>>

\* The process dies; only the row and the meta log survive.
Crash ==
  /\ phase # "down"
  /\ row.epoch < MaxEpoch /\ ~lapse
  /\ phase' = "down"
  /\ entry' = 0 /\ heap' = <<>>
  /\ pc' = [t \in Tasks |-> "idle"]
  /\ obj' = [t \in Tasks |-> 0]
  /\ epoch' = [t \in Tasks |-> 0]
  /\ tomb' = tombLog /\ cascade' = "none"
  /\ lapse' = (lapse \/ (tomb /\ ~tombLog))
  /\ UNCHANGED <<row, issued, clash, tombLog>>

-----------------------------------------------------------------------------
(* The database transaction both paths of allocate() run.                  *)

\* Faulty variant: a bump starts the epochs again.
BumpRestartsEpochs ==
  IF row = NoRow \/ row.needs_bump
    THEN [epoch |-> 1, next_seq |-> 1, needs_bump |-> FALSE]
    ELSE row

\* bump_bucket_epoch: the row after the transaction; its epoch is returned.
BumpedRow ==
  IF row = NoRow
    THEN [epoch |-> 1, next_seq |-> 1, needs_bump |-> FALSE]
    ELSE IF row.needs_bump
           THEN [epoch |-> row.epoch + 1, next_seq |-> 1, needs_bump |-> FALSE]
           ELSE row

(* allocate(), one shared access per step.                                 *)

\* Sequence numbers the in-flight calls may still take are within the bound.
WithinBound ==
  \A i \in 1..Len(heap) : heap[i].needs_bump \/ heap[i].next_seq <= MaxSeq

\* self.map.get(bucket)
Lookup(t) ==
  /\ phase = "up" /\ pc[t] = "idle"
  /\ ~tomb                       \* create_local_events rejects tombstoned buckets
  /\ RacedFirstUse \/ entry # 0 \/ \A u \in Tasks : pc[u] \notin {"create", "load"}
  /\ WithinBound
  /\ obj' = [obj EXCEPT ![t] = entry]
  /\ pc' = [pc EXCEPT ![t] = IF entry = 0 THEN "create" ELSE "check"]
  /\ UNCHANGED <<row, phase, entry, heap, epoch, histVars, tombVars>>

\* Miss: bump_bucket_epoch inserts the row or bumps it.
CreateRow(t) ==
  /\ pc[t] = "create"
  /\ row' = BumpedRow
  /\ epoch' = [epoch EXCEPT ![t] = BumpedRow.epoch]
  /\ pc' = [pc EXCEPT ![t] = "load"]
  /\ UNCHANGED <<phase, entry, heap, obj, histVars, tombVars>>

\* Miss: read next_seq/needs_bump back and install a new allocator.
InstallNew(t) ==
  /\ pc[t] = "load"
  /\ heap' = Append(heap,
       [epoch |-> epoch[t],
        next_seq |-> IF row = NoRow THEN 1 ELSE row.next_seq,
        needs_bump |-> row # NoRow /\ row.needs_bump,
        lock |-> NoTask])
  /\ entry' = Len(heap')
  /\ obj' = [obj EXCEPT ![t] = Len(heap')]
  /\ pc' = [pc EXCEPT ![t] = "check"]
  /\ UNCHANGED <<row, phase, epoch, histVars, tombVars>>

\* needs_bump.load() outside the lock.
CheckBump(t) ==
  /\ pc[t] = "check"
  /\ pc' = [pc EXCEPT ![t] = IF heap[obj[t]].needs_bump THEN "lock" ELSE "read"]
  /\ UNCHANGED <<row, phase, entry, heap, obj, epoch, histVars, tombVars>>

\* Faulty variant: needs_bump is not looked at again under the lock.
LockWithoutRecheck(t) ==
  /\ pc[t] = "lock"
  /\ heap[obj[t]].lock = NoTask
  /\ heap' = [heap EXCEPT ![obj[t]].lock = t]
  /\ pc' = [pc EXCEPT ![t] = "bump"]
  /\ UNCHANGED <<row, phase, entry, obj, epoch, histVars, tombVars>>

\* bump_lock.lock().await and the re-check; the guard drops if nothing to do.
AcquireBumpLock(t) ==
  /\ pc[t] = "lock"
  /\ heap[obj[t]].lock = NoTask
  /\ IF heap[obj[t]].needs_bump
       THEN /\ heap' = [heap EXCEPT ![obj[t]].lock = t]
            /\ pc' = [pc EXCEPT ![t] = "bump"]
       ELSE /\ pc' = [pc EXCEPT ![t] = "read"]
            /\ UNCHANGED heap
  /\ UNCHANGED <<row, phase, entry, obj, epoch, histVars, tombVars>>

\* bump_bucket_epoch under bump_lock.
Bump(t) ==
  /\ pc[t] = "bump"
  /\ row' = BumpedRow
  /\ epoch' = [epoch EXCEPT ![t] = BumpedRow.epoch]
  /\ pc' = [pc EXCEPT ![t] = "store_epoch"]
  /\ UNCHANGED <<phase, entry, heap, obj, histVars, tombVars>>

StoreEpoch(t) ==
  /\ pc[t] = "store_epoch"
  /\ heap' = [heap EXCEPT ![obj[t]].epoch = epoch[t]]
  /\ pc' = [pc EXCEPT ![t] = "store_seq"]
  /\ UNCHANGED <<row, phase, entry, obj, epoch, histVars, tombVars>>

StoreSeq(t) ==
  /\ pc[t] = "store_seq"
  /\ heap' = [heap EXCEPT ![obj[t]].next_seq = 1]
  /\ pc' = [pc EXCEPT ![t] = "clear"]
  /\ UNCHANGED <<row, phase, entry, obj, epoch, histVars, tombVars>>

\* needs_bump.store(false); the guard drops at the end of the block.
ClearBump(t) ==
  /\ pc[t] = "clear"
  /\ heap' = [heap EXCEPT ![obj[t]].needs_bump = FALSE, ![obj[t]].lock = NoTask]
  /\ pc' = [pc EXCEPT ![t] = "read"]
  /\ UNCHANGED <<row, phase, entry, obj, epoch, histVars, tombVars>>

\* Faulty variant: the error path leaves bump_lock held.
DbFailsKeepsLock(t) ==
  /\ pc[t] \in {"create", "load", "bump"}
  /\ \/ row' = row
     \/ pc[t] # "load" /\ row' = BumpedRow
  /\ pc' = [pc EXCEPT ![t] = "idle"]
  /\ UNCHANGED <<phase, entry, heap, obj, epoch, histVars, tombVars>>

\* A database call returns an error.  The transaction may have committed all
\* the same; `?` leaves allocate() and drops the guard if it is held.
DbFails(t) ==
  /\ pc[t] \in {"create", "load", "bump"}
  /\ \/ row' = row
     \/ pc[t] # "load" /\ row' = BumpedRow
  /\ heap' = [i \in DOMAIN heap |->
                IF heap[i].lock = t THEN [heap[i] EXCEPT !.lock = NoTask]
                                    ELSE heap[i]]
  /\ pc' = [pc EXCEPT ![t] = "idle"]
  /\ UNCHANGED <<phase, entry, obj, epoch, histVars, tombVars>>

\* allocator.epoch()
ReadEpoch(t) ==
  /\ pc[t] = "read"
  /\ epoch' = [epoch EXCEPT ![t] = heap[obj[t]].epoch]
  /\ pc' = [pc EXCEPT ![t] = "take"]
  /\ UNCHANGED <<row, phase, entry, heap, obj, histVars, tombVars>>

\* The history of pairs; those of a deleted bucket no longer matter.
Record(pair) ==
  IF tomb THEN UNCHANGED <<issued, clash>>
          ELSE /\ issued' = issued \cup {pair}
               /\ clash' = clash \cup ({pair} \cap issued)

\* Faulty variant: the value after the increment is returned.
TakeIncremented(t) ==
  LET pair == <<epoch[t], heap[obj[t]].next_seq + 1>>
  IN /\ pc[t] = "take"
     /\ heap' = [heap EXCEPT ![obj[t]].next_seq = @ + 1]
     /\ Record(pair)
     /\ pc' = [pc EXCEPT ![t] = "idle"]
     /\ UNCHANGED <<row, phase, entry, obj, epoch, lapse, tombVars>>

\* next_seq.fetch_add(1), and the pair is returned.
TakeSeq(t) ==
  LET pair == <<epoch[t], heap[obj[t]].next_seq>>
  IN /\ pc[t] = "take"
     /\ heap' = [heap EXCEPT ![obj[t]].next_seq = @ + 1]
     /\ Record(pair)
     /\ pc' = [pc EXCEPT ![t] = "idle"]
     /\ UNCHANGED <<row, phase, entry, obj, epoch, lapse, tombVars>>

AllocStep(t) ==
  \/ Lookup(t) \/ CreateRow(t) \/ InstallNew(t) \/ CheckBump(t)
  \/ AcquireBumpLock(t) \/ Bump(t) \/ StoreEpoch(t) \/ StoreSeq(t)
  \/ ClearBump(t) \/ DbFails(t) \/ ReadEpoch(t) \/ TakeSeq(t)

-----------------------------------------------------------------------------
(* The bucket-delete cascade, as far as the allocator is concerned.        *)

\* deleted_buckets.insert
DeleteBegin ==
  /\ phase = "up" /\ ~tomb /\ cascade = "none"
  /\ tomb' = TRUE /\ cascade' = "row"
  /\ UNCHANGED <<row, phase, entry, heap, taskVars, histVars, tombLog>>

\* storage.delete_bucket_cascade drops the allocator row; an error is logged.
DeleteRow ==
  /\ cascade = "row"
  /\ row' \in {NoRow, row} /\ cascade' = "forget"
  /\ UNCHANGED <<phase, entry, heap, taskVars, histVars, tomb, tombLog>>

\* bucket_allocators.forget
Forget ==
  /\ cascade = "forget"
  /\ entry' = 0 /\ cascade' = "log"
  /\ UNCHANGED <<row, phase, heap, taskVars, histVars, tomb, tombLog>>

\* The meta event, queued only after the cascade, is flushed.
LogTombstone ==
  /\ cascade = "log"
  /\ tombLog' = TRUE /\ cascade' = "none"
  /\ UNCHANGED <<row, phase, entry, heap, taskVars, histVars, tomb>>

Delete == DeleteBegin \/ DeleteRow \/ Forget \/ LogTombstone

-----------------------------------------------------------------------------
\* No call is in progress: the node waits for a request.
Idle ==
  /\ phase = "up" /\ \A t \in Tasks : pc[t] = "idle"
  /\ UNCHANGED vars

Next ==
  \/ MarkPending \/ LoadRows \/ LoadFails \/ Crash \/ Idle
  \/ \E t \in Tasks : AllocStep(t)
  \/ Delete

Spec == Init /\ [][Next]_vars

\* The scheduler runs every task, and tokio's Mutex queues waiters first-in
\* first-out, so a waiter whose lock is released again and again gets it.
TaskFairness ==
  \A t \in Tasks : WF_vars(AllocStep(t) /\ pc[t] # "idle")
                   /\ SF_vars(AcquireBumpLock(t))

FairSpec == Spec /\ TaskFairness

-----------------------------------------------------------------------------
(* Properties.                                                             *)

\* allocate() never returns the same (epoch, seq) twice, over all tasks, all
\* database errors, all restarts and deletions that complete: the pair is the
\* deduplication key of the event, so a second use makes one of the two events
\* disappear at every peer.
UniqueKeys == lapse \/ clash = {}

\* Within an epoch the numbers handed out have no hole below them ("gapless
\* within an epoch", docs/protocol.md 2.1): allocate() skips no number, whatever
\* task, error or restart comes between the epoch read and the fetch_add.
GaplessWithinEpoch == lapse \/ Gapless(issued)

\* A pair handed out now is never of an older epoch than one handed out
\* before, although tasks read the epoch and the number in separate steps.
EpochsAdvance ==
  [][lapse \/ \A k \in issued' \ issued : \A j \in issued : j[1] <= k[1]]_vars

\* A call of allocate() ends: no error path leaves bump_lock held.
CallsEnd == \A t \in Tasks : pc[t] # "idle" ~> pc[t] = "idle"

=============================================================================
