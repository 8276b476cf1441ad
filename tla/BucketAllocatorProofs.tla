----------------------- MODULE BucketAllocatorProofs -----------------------
(***************************************************************************)
(* What the allocator promises about keys, for every number of tasks,      *)
(* restarts, database errors and allocations, as long as no two tasks meet *)
(* the bucket without an allocator (RacedFirstUse is FALSE) and nothing    *)
(* has lapsed.                                                             *)
(*                                                                         *)
(* UniqueKeys is not inductive.  A pair is new because the object's epoch  *)
(* is the row's and its next_seq is above every number of that epoch; that *)
(* holds from the moment needs_bump is cleared, and before it because a    *)
(* bump that the row has seen has raised its epoch above every pair handed *)
(* out.  Core says where each of these holds.                              *)
(***************************************************************************)
EXTENDS BucketAllocator, SequenceTheorems, TLAPS

\* Labels at which a task works with an object, and at which it holds its lock.
Using == {"check", "lock", "bump", "store_epoch", "store_seq", "clear", "read", "take"}
Holding == {"bump", "store_epoch", "store_seq", "clear"}

FirstRow == [epoch |-> 1, next_seq |-> 1, needs_bump |-> FALSE]

\* What holds whatever has lapsed.
Base ==
  /\ TypeOK
  /\ \A t \in Tasks : pc[t] \in Using => obj[t] \in 1..Len(heap)
  /\ cascade # "none" => tomb

\* Every pair handed out is of an epoch the row has reached.
RowInv ==
  /\ row.epoch = 0 => row = NoRow
  /\ \A k \in issued : k[1] \in 1..row.epoch

\* Before the rows are loaded nobody works, and the rows are flagged first.
StartInv ==
  phase # "up" =>
    /\ heap = <<>> /\ entry = 0 /\ \A t \in Tasks : pc[t] = "idle"
    /\ phase = "marked" => row = NoRow \/ row.needs_bump

\* No entry: the bucket was never written, and one task at most is creating it.
NoEntryInv ==
  phase = "up" /\ entry = 0 =>
    /\ heap = <<>> /\ issued = {} /\ row \in {NoRow, FirstRow}
    /\ \A t \in Tasks : pc[t] \in {"idle", "create", "load"}
    /\ \A t \in Tasks : pc[t] = "load" => row = FirstRow /\ epoch[t] = 1
    /\ \A t, u \in Tasks : pc[t] # "idle" /\ pc[u] # "idle" => t = u

\* One object; its lock is held by the task that bumps it.
EntryInv ==
  entry # 0 =>
    /\ entry = 1 /\ Len(heap) = 1 /\ row # NoRow
    /\ \A t \in Tasks : pc[t] \notin {"create", "load"}
    /\ \A t \in Tasks : pc[t] \in Holding <=> heap[1].lock = t

\* The bump is still to come, or under way.
BumpInv ==
  entry # 0 /\ heap[1].needs_bump =>
    /\ \A t \in Tasks : pc[t] \notin {"read", "take"}
    /\ ~row.needs_bump => \A k \in issued : k[1] < row.epoch
    /\ \A t \in Tasks :
         /\ pc[t] \in {"store_epoch", "store_seq", "clear"}
              => ~row.needs_bump /\ epoch[t] = row.epoch
         /\ pc[t] \in {"store_seq", "clear"} => heap[1].epoch = row.epoch
         /\ pc[t] = "clear" => heap[1].next_seq = 1

\* Pairs are handed out: those of the current epoch are 1..next_seq - 1.
TakeInv ==
  entry # 0 /\ ~heap[1].needs_bump =>
    /\ heap[1].epoch = row.epoch /\ heap[1].next_seq >= 1
    /\ \A t \in Tasks : pc[t] \notin Holding
    /\ \A t \in Tasks : pc[t] = "take" => epoch[t] = row.epoch
    /\ \A k \in issued : k[1] = row.epoch => k[2] < heap[1].next_seq
    /\ \A q \in 1..(heap[1].next_seq - 1) : <<row.epoch, q>> \in issued

Core == RowInv /\ StartInv /\ NoEntryInv /\ EntryInv /\ BumpInv /\ TakeInv

\* The inductive invariant.
IInv ==
  /\ Base
  /\ lapse \/ (clash = {} /\ Gapless(issued) /\ (tomb \/ Core))

-----------------------------------------------------------------------------
(* Types.                                                                  *)

\* An object of the heap is replaced by another one.
LEMMA HeapEdit ==
  ASSUME NEW s \in Seq(Object), NEW i \in 1..Len(s), NEW h \in Object, NEW t,
         t = [s EXCEPT ![i] = h]
  PROVE  /\ t \in Seq(Object) /\ Len(t) = Len(s) /\ t[i] = h
         /\ \A j \in 1..Len(s) : j # i => t[j] = s[j]
BY ExceptSeq

\* The next allocator of the bucket joins the heap.
LEMMA HeapAppend ==
  ASSUME NEW s \in Seq(Object), NEW h \in Object, NEW t, t = Append(s, h)
  PROVE  /\ t \in Seq(Object) /\ Len(t) = Len(s) + 1 /\ t[Len(s) + 1] = h
         /\ \A j \in 1..Len(s) : t[j] = s[j]
BY AppendProperties

\* `?` drops the guards that task t holds and nothing else.
LEMMA HeapUnlock ==
  ASSUME heap \in Seq(Object), NEW t \in Tasks, DbFails(t)
  PROVE  /\ heap' \in Seq(Object) /\ Len(heap') = Len(heap)
         /\ \A j \in 1..Len(heap) :
              heap'[j] = IF heap[j].lock = t THEN [heap[j] EXCEPT !.lock = NoTask]
                                             ELSE heap[j]
<1>1. Len(heap) \in Nat /\ DOMAIN heap = 1..Len(heap)
      /\ \A j \in 1..Len(heap) : heap[j] \in Object
  BY LenProperties, ElementOfSeq
<1>2. heap' = [i \in DOMAIN heap |->
                 IF heap[i].lock = t THEN [heap[i] EXCEPT !.lock = NoTask]
                                     ELSE heap[i]]
  BY Zenon DEF DbFails
<1>3. heap' \in [1..Len(heap) -> Object]
  BY <1>1, <1>2 DEF Object
<1>4. heap' \in Seq(Object)
  BY <1>1, <1>3
<1>5. DOMAIN heap' = 1..Len(heap') /\ Len(heap') \in Nat
  BY <1>4, LenProperties
<1> QED BY <1>1, <1>2, <1>3, <1>4, <1>5

\* The row stays a row.
LEMMA BumpedRowType ==
  ASSUME row \in Row PROVE BumpedRow \in Row
BY DEF Row, BumpedRow, NoRow

LEMMA InitBase == ASSUME Init PROVE Base
<1>1. row \in Row
  <2>1. CASE row = NoRow BY <2>1 DEF Row, NoRow
  <2>2. CASE row \in [epoch : 1..MaxEpoch, next_seq : {1}, needs_bump : BOOLEAN]
    BY <2>2, BoundsAssumption DEF Row
  <2> QED BY <2>1, <2>2 DEF Init
<1>2. issued \in SUBSET (Nat \X Nat)
  BY <1>1, BoundsAssumption DEF Init, Row
<1>3. heap \in Seq(Object) /\ Len(heap) = 0
  BY EmptySeq DEF Init
<1>4. clash \in SUBSET (Nat \X Nat)
  BY DEF Init
<1>5. pc \in [Tasks -> PCs] /\ obj \in [Tasks -> 0..Len(heap)] /\ epoch \in [Tasks -> Nat]
  BY <1>3 DEF Init, PCs
<1>6. TypeOK
  <2>1. entry \in 0..Len(heap) BY <1>3 DEF Init
  <2>2. /\ phase \in {"down", "marked", "up"} /\ cascade \in {"none", "row", "forget", "log"}
        /\ tomb \in BOOLEAN /\ tombLog \in BOOLEAN /\ lapse \in BOOLEAN
    BY DEF Init
  <2> QED BY <1>1, <1>2, <1>3, <1>4, <1>5, <2>1, <2>2 DEF TypeOK
<1> QED BY <1>6 DEF Init, Base, Using

\* Startup and crashes.
LEMMA BaseLife ==
  ASSUME Base, MarkPending \/ LoadRows \/ LoadFails \/ Crash PROVE Base'
<1> USE DEF Base, taskVars, histVars, tombVars
<1>1. CASE MarkPending
  BY <1>1 DEF MarkPending, TypeOK, Row, NoRow, PCs, Using
<1>2. CASE LoadRows
  <2>1. CASE row = NoRow
    BY <1>2, <2>1 DEF LoadRows, TypeOK, Using
  <2>2. CASE row # NoRow
    <3> DEFINE h == [epoch |-> row.epoch, next_seq |-> row.next_seq,
                     needs_bump |-> row.needs_bump, lock |-> NoTask]
    <3>1. h \in Object
      BY DEF TypeOK, Row, Object
    <3>2. heap' = Append(heap, h)
      BY <1>2, <2>2 DEF LoadRows
    <3> HIDE DEF h
    <3>3. heap' \in Seq(Object) /\ Len(heap') = Len(heap) + 1 /\ Len(heap) \in Nat
      BY <3>1, <3>2, HeapAppend, LenProperties DEF TypeOK
    <3> QED BY <1>2, <2>2, <3>3 DEF LoadRows, TypeOK, Using
  <2> QED BY <2>1, <2>2
<1>3. CASE LoadFails
  BY <1>3 DEF LoadFails, TypeOK, Using
<1>4. CASE Crash
  <2>1. heap' \in Seq(Object) /\ Len(heap') = 0
    BY <1>4, EmptySeq DEF Crash
  <2> QED BY <1>4, <2>1 DEF Crash, TypeOK, PCs, Using
<1> QED BY <1>1, <1>2, <1>3, <1>4

\* Steps of allocate() that leave the heap alone.
LEMMA BaseRead ==
  ASSUME Base, NEW t \in Tasks,
         Lookup(t) \/ CreateRow(t) \/ CheckBump(t) \/ Bump(t) \/ ReadEpoch(t)
  PROVE  Base'
<1> USE DEF Base, taskVars, histVars, tombVars
<1>1. BumpedRow \in Row /\ BumpedRow.epoch \in Nat /\ Len(heap) \in Nat
  BY BumpedRowType, LenProperties DEF TypeOK, Row
<1>2. CASE Lookup(t)
  BY <1>1, <1>2 DEF Lookup, TypeOK, PCs, Using
<1>3. CASE CreateRow(t)
  BY <1>1, <1>3 DEF CreateRow, TypeOK, PCs, Using
<1>4. CASE CheckBump(t)
  BY <1>1, <1>4 DEF CheckBump, TypeOK, PCs, Using
<1>5. CASE Bump(t)
  BY <1>1, <1>5 DEF Bump, TypeOK, PCs, Using
<1>6. CASE ReadEpoch(t)
  <2>1. heap[obj[t]] \in Object
    BY <1>6, ElementOfSeq DEF ReadEpoch, TypeOK, Using
  <2>2. heap[obj[t]].epoch \in Nat
    BY <2>1 DEF Object
  <2> QED BY <2>2, <1>1, <1>6 DEF ReadEpoch, TypeOK, PCs, Using
<1> QED BY <1>2, <1>3, <1>4, <1>5, <1>6

\* Steps of allocate() that change the object of the task.
LEMMA BaseWrite ==
  ASSUME Base, NEW t \in Tasks,
         AcquireBumpLock(t) \/ StoreEpoch(t) \/ StoreSeq(t) \/ ClearBump(t) \/ TakeSeq(t)
  PROVE  Base'
<1> USE DEF Base, taskVars, histVars, tombVars
<1> DEFINE o == obj[t]
<1>1. o \in 1..Len(heap) /\ heap[o] \in Object /\ Len(heap) \in Nat
  BY ElementOfSeq, LenProperties
  DEF AcquireBumpLock, StoreEpoch, StoreSeq, ClearBump, TakeSeq, TypeOK, Using
<1>2. \/ UNCHANGED heap
      \/ \E h \in Object : heap' = [heap EXCEPT ![o] = h]
  <2>1. CASE AcquireBumpLock(t)
    <3>1. [heap[o] EXCEPT !.lock = t] \in Object BY <1>1 DEF Object
    <3> QED BY <2>1, <3>1 DEF AcquireBumpLock
  <2>2. CASE StoreEpoch(t)
    <3>1. [heap[o] EXCEPT !.epoch = epoch[t]] \in Object BY <1>1 DEF Object, TypeOK
    <3> QED BY <2>2, <3>1 DEF StoreEpoch
  <2>3. CASE StoreSeq(t)
    <3>1. [heap[o] EXCEPT !.next_seq = 1] \in Object BY <1>1 DEF Object
    <3> QED BY <2>3, <3>1 DEF StoreSeq
  <2>4. CASE ClearBump(t)
    <3>1. [[heap[o] EXCEPT !.needs_bump = FALSE] EXCEPT !.lock = NoTask] \in Object
      BY <1>1 DEF Object
    <3>2. heap' = [heap EXCEPT ![o] =
                     [[heap[o] EXCEPT !.needs_bump = FALSE] EXCEPT !.lock = NoTask]]
      BY <2>4, <1>1 DEF ClearBump, TypeOK
    <3> QED BY <3>1, <3>2
  <2>5. CASE TakeSeq(t)
    <3>1. [heap[o] EXCEPT !.next_seq = @ + 1] \in Object BY <1>1 DEF Object
    <3> QED BY <2>5, <3>1 DEF TakeSeq
  <2> QED BY <2>1, <2>2, <2>3, <2>4, <2>5
<1>3. heap' \in Seq(Object) /\ Len(heap') = Len(heap)
  BY <1>1, <1>2, HeapEdit DEF TypeOK
<1>4. CASE AcquireBumpLock(t)
  BY <1>3, <1>4 DEF AcquireBumpLock, TypeOK, PCs, Using
<1>5. CASE StoreEpoch(t) \/ StoreSeq(t) \/ ClearBump(t)
  BY <1>3, <1>5 DEF StoreEpoch, StoreSeq, ClearBump, TypeOK, PCs, Using
<1>6. CASE TakeSeq(t)
  <2>1. <<epoch[t], heap[o].next_seq>> \in Nat \X Nat
    BY <1>1 DEF TypeOK, Object
  <2>2. issued' \in SUBSET (Nat \X Nat) /\ clash' \in SUBSET (Nat \X Nat)
    BY <1>6, <2>1 DEF TakeSeq, Record, TypeOK
  <2> QED BY <1>3, <1>6, <2>2 DEF TakeSeq, TypeOK, PCs, Using
<1> QED BY <1>4, <1>5, <1>6

LEMMA BaseInstall ==
  ASSUME Base, NEW t \in Tasks, InstallNew(t) PROVE Base'
<1> DEFINE h == [epoch |-> epoch[t],
                 next_seq |-> IF row = NoRow THEN 1 ELSE row.next_seq,
                 needs_bump |-> row # NoRow /\ row.needs_bump,
                 lock |-> NoTask]
<1>1. h \in Object
  BY DEF Base, TypeOK, Row, Object
<1>2. heap' = Append(heap, h)
  BY DEF InstallNew
<1> HIDE DEF h
<1>3. heap' \in Seq(Object) /\ Len(heap') = Len(heap) + 1 /\ Len(heap) \in Nat
  BY <1>1, <1>2, HeapAppend, LenProperties DEF Base, TypeOK
<1> QED
  BY <1>3 DEF InstallNew, Base, TypeOK, PCs, Using, histVars, tombVars

LEMMA BaseFails ==
  ASSUME Base, NEW t \in Tasks, DbFails(t) PROVE Base'
<1>1. heap' \in Seq(Object) /\ Len(heap') = Len(heap)
  BY HeapUnlock DEF Base, TypeOK
<1> QED
  BY <1>1, BumpedRowType
  DEF DbFails, Base, TypeOK, PCs, Using, histVars, tombVars

LEMMA BaseDelete ==
  ASSUME Base, Delete PROVE Base'
<1>1. NoRow \in Row /\ Len(heap) \in Nat
  BY LenProperties DEF NoRow, Row, Base, TypeOK
<1> USE DEF Base, TypeOK, taskVars, histVars, tombVars
<1>2. CASE DeleteBegin BY <1>2 DEF DeleteBegin
<1>3. CASE DeleteRow BY <1>1, <1>3 DEF DeleteRow
<1>4. CASE Forget BY <1>1, <1>4 DEF Forget
<1>5. CASE LogTombstone BY <1>5 DEF LogTombstone
<1> QED BY <1>2, <1>3, <1>4, <1>5 DEF Delete

LEMMA BaseStep ==
  ASSUME Base, [Next]_vars PROVE Base'
<1>1. CASE UNCHANGED vars
  BY <1>1 DEF vars, Base, TypeOK, Using
<1>2. ASSUME NEW t \in Tasks, AllocStep(t) PROVE Base'
  BY <1>2, BaseRead, BaseWrite, BaseInstall, BaseFails DEF AllocStep
<1> QED
  BY <1>1, <1>2, BaseLife, BaseDelete DEF Next, Idle

-----------------------------------------------------------------------------
(* Core, action by action, while the bucket lives and nothing has lapsed.  *)

LEMMA InitCore == ASSUME Init PROVE Core /\ clash = {} /\ Gapless(issued)
<1>1. RowInv
  <2>1. row.epoch = 0 => row = NoRow
    BY BoundsAssumption DEF Init
  <2>2. row.epoch \in Nat
    BY InitBase DEF Base, TypeOK, Row
  <2> QED BY <2>1, <2>2, BoundsAssumption DEF Init, RowInv
<1>2. StartInv /\ NoEntryInv /\ EntryInv /\ BumpInv /\ TakeInv
  BY DEF Init, StartInv, NoEntryInv, EntryInv, BumpInv, TakeInv
<1> QED BY <1>1, <1>2 DEF Init, Core

\* A task inside the part of allocate() that uses an object uses the only one.
LEMMA TheObject ==
  ASSUME Base, Core, NEW t \in Tasks, pc[t] \in Using
  PROVE  phase = "up" /\ entry = 1 /\ Len(heap) = 1 /\ obj[t] = 1 /\ heap[1] \in Object
<1>1. phase = "up" /\ entry # 0
  BY DEF Core, StartInv, NoEntryInv, Using
<1>2. entry = 1 /\ Len(heap) = 1
  BY <1>1 DEF Core, EntryInv
<1>3. heap[1] \in Object
  BY <1>2, ElementOfSeq DEF Base, TypeOK
<1> QED BY <1>1, <1>2, <1>3 DEF Base

\* Only the label and the private values of t change.
LEMMA CoreLookup ==
  ASSUME Base, Core, ~RacedFirstUse, NEW t \in Tasks, Lookup(t) PROVE Core'
<1> USE DEF Lookup, Core, histVars, tombVars
<1>1. pc' = [pc EXCEPT ![t] = IF entry = 0 THEN "create" ELSE "check"]
      /\ pc \in [Tasks -> PCs]
  BY DEF Base, TypeOK
<1>2. RowInv' /\ StartInv'
  BY DEF RowInv, StartInv
<1>3. NoEntryInv'
  BY <1>1 DEF NoEntryInv
<1>4. EntryInv'
  BY <1>1 DEF EntryInv, Holding
<1>5. BumpInv' /\ TakeInv'
  BY <1>1 DEF BumpInv, TakeInv, Holding
<1> QED BY <1>2, <1>3, <1>4, <1>5

LEMMA CoreCreate ==
  ASSUME Base, Core, NEW t \in Tasks, CreateRow(t) PROVE Core'
<1> USE DEF CreateRow, Core, histVars, tombVars
<1>1. /\ phase = "up" /\ entry = 0 /\ issued = {} /\ row \in {NoRow, FirstRow}
      /\ \A u \in Tasks \ {t} : pc[u] = "idle"
  BY DEF StartInv, EntryInv, NoEntryInv
<1>2. row' = FirstRow /\ FirstRow.epoch = 1
  <2>1. row' = BumpedRow BY Zenon
  <2>2. CASE row = NoRow BY <2>1, <2>2 DEF BumpedRow, FirstRow
  <2>3. CASE row = FirstRow BY <2>1, <2>3 DEF BumpedRow, FirstRow
  <2> QED BY <1>1, <2>2, <2>3
<1>3. epoch'[t] = 1 /\ pc'[t] = "load" /\ \A u \in Tasks \ {t} : pc'[u] = "idle"
  BY <1>1, <1>2 DEF Base, TypeOK
<1> QED BY <1>1, <1>2, <1>3 DEF RowInv, StartInv, NoEntryInv, EntryInv, BumpInv, TakeInv

LEMMA CoreInstall ==
  ASSUME Base, Core, NEW t \in Tasks, InstallNew(t) PROVE Core'
<1> USE DEF Core
<1>1. /\ phase = "up" /\ entry = 0 /\ issued = {} /\ row = FirstRow /\ epoch[t] = 1
      /\ heap = <<>> /\ \A u \in Tasks \ {t} : pc[u] = "idle"
  BY DEF StartInv, EntryInv, NoEntryInv, InstallNew
<1> DEFINE h == [epoch |-> 1, next_seq |-> 1, needs_bump |-> FALSE, lock |-> NoTask]
<1>2. heap' = Append(heap, h)
  BY <1>1 DEF InstallNew, FirstRow, NoRow
<1>3. heap' = <<h>> /\ Len(heap') = 1 /\ heap'[1] = h
  BY <1>1, <1>2
<1>4. pc'[t] = "check" /\ \A u \in Tasks \ {t} : pc'[u] = "idle"
  BY <1>1 DEF Base, TypeOK, InstallNew
<1>5. row' = FirstRow /\ issued' = {} /\ phase' = "up" /\ entry' = 1 /\ FirstRow # NoRow
      /\ FirstRow.epoch = 1
  BY <1>1, <1>3 DEF InstallNew, histVars, FirstRow, NoRow
<1> QED
  BY <1>3, <1>4, <1>5, TasksAssumption
  DEF RowInv, StartInv, NoEntryInv, EntryInv, BumpInv, TakeInv, Holding

LEMMA CoreCheck ==
  ASSUME Base, Core, NEW t \in Tasks, CheckBump(t) PROVE Core'
<1> USE DEF Core, CheckBump, histVars, tombVars
<1>1. phase = "up" /\ entry = 1 /\ obj[t] = 1 /\ heap[1] \in Object
  BY TheObject DEF Using
<1>2. pc' = [pc EXCEPT ![t] = IF heap[1].needs_bump THEN "lock" ELSE "read"]
      /\ pc \in [Tasks -> PCs]
  BY <1>1 DEF Base, TypeOK
<1>3. RowInv' /\ StartInv' /\ NoEntryInv'
  BY <1>1 DEF RowInv, StartInv, NoEntryInv
<1>4. EntryInv'
  BY <1>2 DEF EntryInv, Holding
<1>5. BumpInv' /\ TakeInv'
  BY <1>1, <1>2 DEF BumpInv, TakeInv, Holding
<1> QED BY <1>3, <1>4, <1>5

LEMMA CoreAcquire ==
  ASSUME Base, Core, NEW t \in Tasks, AcquireBumpLock(t) PROVE Core'
<1> USE DEF Core
<1>1. /\ phase = "up" /\ entry = 1 /\ Len(heap) = 1 /\ obj[t] = 1 /\ heap[1] \in Object
      /\ heap \in Seq(Object) /\ pc \in [Tasks -> PCs]
  BY TheObject DEF Using, AcquireBumpLock, Base, TypeOK
<1>2. /\ UNCHANGED <<row, phase, entry, epoch, issued>> /\ heap[1].lock = NoTask
      /\ pc[t] = "lock"
  BY <1>1 DEF AcquireBumpLock, histVars
<1>3. RowInv' /\ StartInv' /\ NoEntryInv'
  BY <1>1, <1>2 DEF RowInv, StartInv, NoEntryInv
<1>4. CASE heap[1].needs_bump
  <2> DEFINE h == [heap[1] EXCEPT !.lock = t]
  <2>1. h \in Object /\ heap' = [heap EXCEPT ![1] = h]
    BY <1>1, <1>4 DEF AcquireBumpLock, Object
  <2>2. Len(heap') = 1 /\ heap'[1] = h
    BY <1>1, <2>1, HeapEdit
  <2>3. /\ heap'[1].lock = t /\ heap'[1].needs_bump /\ heap'[1].epoch = heap[1].epoch
        /\ heap'[1].next_seq = heap[1].next_seq
    BY <1>1, <1>4, <2>2 DEF Object
  <2>4. pc' = [pc EXCEPT ![t] = "bump"]
    BY <1>1, <1>4 DEF AcquireBumpLock
  <2>5. EntryInv'
    BY <1>1, <1>2, <2>2, <2>3, <2>4, TasksAssumption DEF EntryInv, Holding
  <2>6. BumpInv' /\ TakeInv'
    BY <1>1, <1>2, <1>4, <2>3, <2>4 DEF BumpInv, TakeInv
  <2> QED BY <1>3, <2>5, <2>6
<1>5. CASE ~heap[1].needs_bump
  <2>1. pc' = [pc EXCEPT ![t] = "read"] /\ heap' = heap
    BY <1>1, <1>5 DEF AcquireBumpLock
  <2>2. EntryInv' /\ BumpInv' /\ TakeInv'
    BY <1>1, <1>2, <1>5, <2>1 DEF EntryInv, BumpInv, TakeInv, Holding
  <2> QED BY <1>3, <2>2
<1> QED BY <1>4, <1>5

\* A transaction that bumps raises the epoch above every pair handed out; one
\* that does not leaves the row alone.
LEMMA BumpRaises ==
  ASSUME Base, RowInv, row # NoRow
  PROVE  /\ ~BumpedRow.needs_bump /\ BumpedRow # NoRow /\ BumpedRow.epoch \in Nat \ {0}
         /\ row.needs_bump => BumpedRow.epoch = row.epoch + 1
         /\ ~row.needs_bump => BumpedRow = row
         /\ row.needs_bump => \A k \in issued : k[1] < BumpedRow.epoch
         /\ \A k \in issued : k[1] \in 1..BumpedRow.epoch
<1>1. row \in Row /\ row.epoch \in Nat \ {0} /\ row.needs_bump \in BOOLEAN
  BY DEF Base, TypeOK, Row, RowInv
<1>2. CASE row.needs_bump
  <2>1. BumpedRow = [epoch |-> row.epoch + 1, next_seq |-> 1, needs_bump |-> FALSE]
    BY <1>2 DEF BumpedRow
  <2>2. BumpedRow.epoch = row.epoch + 1 /\ BumpedRow.needs_bump = FALSE /\ NoRow.epoch = 0
    BY <2>1 DEF NoRow
  <2> QED BY <1>1, <1>2, <2>2 DEF RowInv
<1>3. CASE ~row.needs_bump
  <2>1. BumpedRow = row
    BY <1>3 DEF BumpedRow
  <2> QED BY <1>1, <1>3, <2>1 DEF RowInv
<1> QED BY <1>1, <1>2, <1>3

LEMMA CoreBump ==
  ASSUME Base, Core, NEW t \in Tasks, Bump(t) PROVE Core'
<1> USE DEF Core
<1>1. /\ phase = "up" /\ entry = 1 /\ Len(heap) = 1 /\ obj[t] = 1 /\ heap[1] \in Object
      /\ pc \in [Tasks -> PCs] /\ epoch \in [Tasks -> Nat]
  BY TheObject DEF Using, Bump, Base, TypeOK
<1>2. /\ UNCHANGED <<phase, entry, heap, issued>> /\ pc[t] = "bump" /\ row' = BumpedRow
      /\ pc' = [pc EXCEPT ![t] = "store_epoch"]
      /\ epoch' = [epoch EXCEPT ![t] = BumpedRow.epoch]
  BY <1>1 DEF Bump, histVars
<1>3. /\ ~row'.needs_bump /\ row' # NoRow /\ row'.epoch \in Nat \ {0}
      /\ ~row.needs_bump => row' = row
      /\ row.needs_bump => \A k \in issued : k[1] < row'.epoch
      /\ \A k \in issued : k[1] \in 1..row'.epoch
  BY <1>1, <1>2, BumpRaises DEF EntryInv
<1>4. RowInv' /\ StartInv' /\ NoEntryInv'
  BY <1>1, <1>2, <1>3 DEF RowInv, StartInv, NoEntryInv
<1>5. EntryInv'
  BY <1>1, <1>2, <1>3 DEF EntryInv, Holding
<1>6. heap[1].needs_bump /\ heap[1].lock = t
  BY <1>1, <1>2 DEF TakeInv, EntryInv, Holding
<1>7. \A u \in Tasks \ {t} : pc[u] \notin Holding
  BY <1>1, <1>6 DEF EntryInv
<1>8. BumpInv' /\ TakeInv'
  BY <1>1, <1>2, <1>3, <1>6, <1>7 DEF BumpInv, TakeInv, Holding
<1> QED BY <1>4, <1>5, <1>8

\* The bumped epoch reaches the object in three stores.
LEMMA CoreStore ==
  ASSUME Base, Core, NEW t \in Tasks, StoreEpoch(t) \/ StoreSeq(t) \/ ClearBump(t)
  PROVE  Core'
<1> USE DEF Core
<1>1. /\ phase = "up" /\ entry = 1 /\ Len(heap) = 1 /\ obj[t] = 1 /\ heap[1] \in Object
      /\ heap \in Seq(Object) /\ pc \in [Tasks -> PCs] /\ epoch[t] \in Nat
  BY TheObject DEF Using, StoreEpoch, StoreSeq, ClearBump, Base, TypeOK
<1>2. UNCHANGED <<row, phase, entry, epoch, issued>>
  BY DEF StoreEpoch, StoreSeq, ClearBump, histVars
<1>3. pc[t] \in {"store_epoch", "store_seq", "clear"}
  BY DEF StoreEpoch, StoreSeq, ClearBump
<1>4. heap[1].needs_bump /\ heap[1].lock = t /\ \A u \in Tasks \ {t} : pc[u] \notin Holding
  BY <1>1, <1>3 DEF TakeInv, EntryInv, Holding
<1>5. RowInv' /\ StartInv' /\ NoEntryInv'
  BY <1>1, <1>2 DEF RowInv, StartInv, NoEntryInv
<1>6. CASE StoreEpoch(t)
  <2> DEFINE h == [heap[1] EXCEPT !.epoch = epoch[t]]
  <2>1. h \in Object /\ heap' = [heap EXCEPT ![1] = h]
    BY <1>1, <1>6 DEF StoreEpoch, Object
  <2>2. Len(heap') = 1 /\ heap'[1] = h
    BY <1>1, <2>1, HeapEdit
  <2>3. heap'[1].lock = t /\ heap'[1].needs_bump /\ heap'[1].epoch = epoch[t]
    BY <1>1, <1>4, <2>2 DEF Object
  <2>4. pc' = [pc EXCEPT ![t] = "store_seq"]
    BY <1>6 DEF StoreEpoch
  <2>5. EntryInv'
    BY <1>1, <1>2, <1>3, <1>4, <2>2, <2>3, <2>4 DEF EntryInv, Holding
  <2>6. BumpInv' /\ TakeInv'
    BY <1>1, <1>2, <1>3, <1>4, <2>3, <2>4 DEF BumpInv, TakeInv, Holding, StoreEpoch
  <2> QED BY <1>5, <2>5, <2>6
<1>7. CASE StoreSeq(t)
  <2> DEFINE h == [heap[1] EXCEPT !.next_seq = 1]
  <2>1. h \in Object /\ heap' = [heap EXCEPT ![1] = h]
    BY <1>1, <1>7 DEF StoreSeq, Object
  <2>2. Len(heap') = 1 /\ heap'[1] = h
    BY <1>1, <2>1, HeapEdit
  <2>3. /\ heap'[1].lock = t /\ heap'[1].needs_bump /\ heap'[1].epoch = heap[1].epoch
        /\ heap'[1].next_seq = 1
    BY <1>1, <1>4, <2>2 DEF Object
  <2>4. pc' = [pc EXCEPT ![t] = "clear"] /\ pc[t] = "store_seq"
    BY <1>7 DEF StoreSeq
  <2>5. EntryInv'
    BY <1>1, <1>2, <1>3, <1>4, <2>2, <2>3, <2>4 DEF EntryInv, Holding
  <2>6. BumpInv' /\ TakeInv'
    BY <1>1, <1>2, <1>3, <1>4, <2>3, <2>4 DEF BumpInv, TakeInv, Holding
  <2> QED BY <1>5, <2>5, <2>6
<1>8. CASE ClearBump(t)
  <2> DEFINE h == [[heap[1] EXCEPT !.needs_bump = FALSE] EXCEPT !.lock = NoTask]
  <2>1. h \in Object /\ heap' = [heap EXCEPT ![1] = h]
    BY <1>1, <1>8 DEF ClearBump, Object
  <2>2. Len(heap') = 1 /\ heap'[1] = h
    BY <1>1, <2>1, HeapEdit
  <2>3. /\ heap'[1].lock = NoTask /\ ~heap'[1].needs_bump
        /\ heap'[1].epoch = heap[1].epoch /\ heap'[1].next_seq = heap[1].next_seq
    BY <1>1, <1>4, <2>2 DEF Object
  <2>4. pc' = [pc EXCEPT ![t] = "read"] /\ pc[t] = "clear"
    BY <1>8 DEF ClearBump
  <2>5. EntryInv'
    BY <1>1, <1>2, <1>3, <1>4, <2>2, <2>3, <2>4, TasksAssumption DEF EntryInv, Holding
  <2>6. /\ heap[1].epoch = row.epoch /\ heap[1].next_seq = 1
        /\ \A k \in issued : k[1] < row.epoch
        /\ \A u \in Tasks : pc[u] # "take"
    BY <1>1, <1>4, <2>4 DEF BumpInv
  <2>7. \A k \in issued : k[1] # row.epoch
    BY <2>6 DEF Base, TypeOK, Row
  <2>8. BumpInv' /\ TakeInv'
    BY <1>1, <1>2, <1>3, <1>4, <2>3, <2>4, <2>6, <2>7 DEF BumpInv, TakeInv, Holding
  <2> QED BY <1>5, <2>5, <2>8
<1> QED BY <1>6, <1>7, <1>8

\* A failed call leaves the row as it was or bumped, and the lock free.
LEMMA CoreFails ==
  ASSUME Base, Core, NEW t \in Tasks, DbFails(t) PROVE Core'
<1> USE DEF Core
<1>1. /\ UNCHANGED <<phase, entry, epoch, issued>> /\ pc' = [pc EXCEPT ![t] = "idle"]
      /\ pc \in [Tasks -> PCs] /\ heap \in Seq(Object)
  BY DEF DbFails, histVars, Base, TypeOK
<1>2. /\ Len(heap') = Len(heap)
      /\ \A j \in 1..Len(heap) :
           heap'[j] = IF heap[j].lock = t THEN [heap[j] EXCEPT !.lock = NoTask] ELSE heap[j]
  BY <1>1, HeapUnlock
<1>3. phase = "up"
  BY DEF DbFails, StartInv
<1>4. CASE pc[t] \in {"create", "load"}
  <2>1. /\ entry = 0 /\ heap = <<>> /\ issued = {} /\ row \in {NoRow, FirstRow}
        /\ \A u \in Tasks \ {t} : pc[u] = "idle"
    BY <1>3, <1>4 DEF EntryInv, NoEntryInv
  <2>2. row' \in {NoRow, FirstRow} /\ FirstRow.epoch = 1
    <3>1. row' = row \/ row' = BumpedRow
      BY Zenon DEF DbFails
    <3>2. FirstRow.epoch = 1 /\ ~FirstRow.needs_bump /\ NoRow.epoch = 0
      BY DEF FirstRow, NoRow
    <3>3. CASE row = NoRow BY <3>1, <3>2, <3>3 DEF BumpedRow, FirstRow
    <3>4. CASE row = FirstRow BY <3>1, <3>2, <3>4 DEF BumpedRow
    <3> QED BY <2>1, <3>2, <3>3, <3>4
  <2>3. heap' = <<>>
    <3>1. Len(heap') = 0 /\ heap' \in Seq(Object)
      BY <1>1, <1>2, <2>1, HeapUnlock, EmptySeq
    <3> QED BY <3>1, EmptySeq
  <2>4. \A u \in Tasks : pc'[u] = "idle"
    BY <1>1, <2>1
  <2> QED
    BY <1>1, <1>3, <2>1, <2>2, <2>3, <2>4
    DEF RowInv, StartInv, NoEntryInv, EntryInv, BumpInv, TakeInv
<1>5. CASE pc[t] = "bump"
  <2>1. entry = 1 /\ Len(heap) = 1 /\ obj[t] = 1 /\ heap[1] \in Object
    BY <1>5, TheObject DEF Using
  <2>2. heap[1].needs_bump /\ heap[1].lock = t /\ \A u \in Tasks \ {t} : pc[u] \notin Holding
    BY <1>5, <2>1 DEF TakeInv, EntryInv, Holding
  <2>3. heap'[1].lock = NoTask /\ heap'[1].needs_bump /\ Len(heap') = 1
    BY <1>2, <2>1, <2>2 DEF Object
  <2>4. /\ row' # NoRow /\ (row'.epoch = 0 => row' = NoRow)
        /\ \A k \in issued : k[1] \in 1..row'.epoch
        /\ ~row'.needs_bump => \A k \in issued : k[1] < row'.epoch
    <3>1. row' = row \/ row' = BumpedRow
      BY Zenon DEF DbFails
    <3>2. CASE row' = row
      BY <2>1, <2>2, <3>2 DEF EntryInv, RowInv, BumpInv
    <3>3. CASE row' = BumpedRow
      BY <2>1, <2>2, <3>3, BumpRaises DEF EntryInv, BumpInv
    <3> QED BY <3>1, <3>2, <3>3
  <2>5. RowInv' /\ StartInv' /\ NoEntryInv'
    BY <1>1, <1>3, <2>1, <2>4 DEF RowInv, StartInv, NoEntryInv
  <2>6. EntryInv'
    BY <1>1, <2>1, <2>2, <2>3, <2>4, TasksAssumption DEF EntryInv, Holding
  <2>7. BumpInv' /\ TakeInv'
    BY <1>1, <2>1, <2>2, <2>3, <2>4 DEF BumpInv, TakeInv, Holding
  <2> QED BY <2>5, <2>6, <2>7
<1> QED BY <1>4, <1>5 DEF DbFails

LEMMA CoreRead ==
  ASSUME Base, Core, NEW t \in Tasks, ReadEpoch(t) PROVE Core'
<1> USE DEF Core
<1>1. /\ phase = "up" /\ entry = 1 /\ obj[t] = 1 /\ heap[1] \in Object
      /\ pc \in [Tasks -> PCs] /\ epoch \in [Tasks -> Nat]
  BY TheObject DEF Using, ReadEpoch, Base, TypeOK
<1>2. /\ UNCHANGED <<row, phase, entry, heap, issued>> /\ pc[t] = "read"
      /\ pc' = [pc EXCEPT ![t] = "take"] /\ epoch' = [epoch EXCEPT ![t] = heap[1].epoch]
  BY <1>1 DEF ReadEpoch, histVars
<1>3. RowInv' /\ StartInv' /\ NoEntryInv'
  BY <1>1, <1>2 DEF RowInv, StartInv, NoEntryInv
<1>4. EntryInv'
  BY <1>1, <1>2 DEF EntryInv, Holding
<1>5. ~heap[1].needs_bump
  BY <1>1, <1>2 DEF BumpInv
<1>6. BumpInv' /\ TakeInv'
  BY <1>1, <1>2, <1>5 DEF BumpInv, TakeInv, Holding
<1> QED BY <1>3, <1>4, <1>6

\* The pair that is handed out is the next one of the row's epoch: it is new,
\* and every smaller number of its epoch is taken.
LEMMA TakesNext ==
  ASSUME Base, Core, NEW t \in Tasks, TakeSeq(t)
  PROVE  /\ epoch[t] = row.epoch /\ heap[obj[t]].next_seq \in Nat \ {0}
         /\ <<epoch[t], heap[obj[t]].next_seq>> \notin issued
         /\ \A q \in 1..(heap[obj[t]].next_seq - 1) : <<epoch[t], q>> \in issued
<1>1. entry = 1 /\ obj[t] = 1 /\ heap[1] \in Object /\ heap[1].next_seq \in Nat
  BY TheObject DEF Using, TakeSeq, Object
<1>2. ~heap[1].needs_bump
  BY <1>1 DEF Core, BumpInv, TakeSeq
<1>3. TakeInv /\ pc[t] = "take"
  BY DEF Core, TakeSeq
<1>4. /\ epoch[t] = row.epoch /\ heap[1].next_seq >= 1
      /\ \A k \in issued : k[1] = row.epoch => k[2] < heap[1].next_seq
      /\ \A q \in 1..(heap[1].next_seq - 1) : <<row.epoch, q>> \in issued
  BY <1>1, <1>2, <1>3 DEF TakeInv
<1> QED BY <1>1, <1>4

LEMMA CoreTake ==
  ASSUME Base, Core, ~tomb, clash = {}, Gapless(issued), NEW t \in Tasks, TakeSeq(t)
  PROVE  Core' /\ clash' = {} /\ Gapless(issued')
<1> DEFINE q == heap[obj[t]].next_seq
           pair == <<epoch[t], q>>
<1>1. /\ phase = "up" /\ entry = 1 /\ Len(heap) = 1 /\ obj[t] = 1 /\ heap[1] \in Object
      /\ heap \in Seq(Object) /\ pc \in [Tasks -> PCs] /\ issued \subseteq Nat \X Nat
  BY TheObject DEF Using, TakeSeq, Base, TypeOK
<1>2. /\ UNCHANGED <<row, phase, entry, epoch>> /\ pc[t] = "take"
      /\ pc' = [pc EXCEPT ![t] = "idle"]
  BY DEF TakeSeq
<1>3. /\ epoch[t] = row.epoch /\ q \in Nat \ {0} /\ pair \notin issued
      /\ \A r \in 1..(q - 1) : <<epoch[t], r>> \in issued
  BY TakesNext
<1>4. issued' = issued \cup {pair} /\ clash' = clash \cup ({pair} \cap issued)
  BY DEF TakeSeq, Record
<1>5. Gapless(issued')
  <2> SUFFICES ASSUME NEW k \in issued', NEW r \in 1..k[2] PROVE <<k[1], r>> \in issued'
    BY DEF Gapless
  <2>1. CASE k \in issued BY <1>4, <2>1 DEF Gapless
  <2>2. CASE k = pair BY <1>3, <1>4, <2>2
  <2> QED BY <1>4, <2>1, <2>2
<1> DEFINE h == [heap[1] EXCEPT !.next_seq = @ + 1]
<1>6. h \in Object /\ heap' = [heap EXCEPT ![1] = h]
  BY <1>1 DEF TakeSeq, Object
<1>7. Len(heap') = 1 /\ heap'[1] = h
  BY <1>1, <1>6, HeapEdit
<1>8. /\ heap'[1].lock = heap[1].lock /\ heap'[1].needs_bump = heap[1].needs_bump
      /\ heap'[1].epoch = heap[1].epoch /\ heap'[1].next_seq = q + 1
  BY <1>1, <1>7 DEF Object
<1>9. row \in Row /\ row # NoRow /\ row.epoch \in Nat \ {0}
  BY <1>1 DEF Core, EntryInv, RowInv, Base, TypeOK, Row
<1>10. RowInv' /\ StartInv' /\ NoEntryInv'
  BY <1>1, <1>2, <1>3, <1>4, <1>9 DEF Core, RowInv, StartInv, NoEntryInv
<1>11. EntryInv'
  BY <1>1, <1>2, <1>7, <1>8 DEF Core, EntryInv, Holding
<1>12. ~heap[1].needs_bump
  BY <1>1, <1>2 DEF Core, BumpInv
<1>13. BumpInv' /\ TakeInv'
  <2>1. \A k \in issued' : k[1] = row.epoch => k[2] < q + 1
    BY <1>1, <1>3, <1>4, <1>12 DEF Core, TakeInv
  <2>2. \A r \in 1..(q + 1 - 1) : <<row.epoch, r>> \in issued'
    BY <1>3, <1>4
  <2> QED
    BY <1>1, <1>2, <1>3, <1>8, <1>12, <2>1, <2>2 DEF Core, BumpInv, TakeInv, Holding
<1> QED BY <1>3, <1>4, <1>5, <1>10, <1>11, <1>13 DEF Core

LEMMA CoreLife ==
  ASSUME Base, Core, ~tomb, MarkPending \/ LoadRows \/ Crash
  PROVE  Core' /\ UNCHANGED <<issued, clash>>
<1> USE DEF Core, taskVars, histVars, tombVars
<1>1. CASE MarkPending
  <2>1. row' = IF row = NoRow THEN row ELSE [row EXCEPT !.needs_bump = TRUE]
    BY <1>1 DEF MarkPending
  <2>2. row'.epoch = row.epoch /\ (row = NoRow => row' = NoRow)
        /\ (row # NoRow => row'.needs_bump)
    BY <2>1 DEF Base, TypeOK, Row
  <2> QED
    BY <1>1, <2>2
    DEF MarkPending, RowInv, StartInv, NoEntryInv, EntryInv, BumpInv, TakeInv
<1>2. CASE LoadRows
  <2>1. /\ heap = <<>> /\ entry = 0 /\ \A t \in Tasks : pc[t] = "idle"
        /\ row = NoRow \/ row.needs_bump
    BY <1>2 DEF LoadRows, StartInv
  <2>2. CASE row = NoRow
    <3>1. issued = {}
      BY <2>2 DEF RowInv, NoRow
    <3> QED
      BY <1>2, <2>1, <2>2, <3>1
      DEF LoadRows, RowInv, StartInv, NoEntryInv, EntryInv, BumpInv, TakeInv
  <2>3. CASE row # NoRow
    <3> DEFINE h == [epoch |-> row.epoch, next_seq |-> row.next_seq,
                     needs_bump |-> row.needs_bump, lock |-> NoTask]
    <3>1. heap' = Append(heap, h)
      BY <1>2, <2>3 DEF LoadRows
    <3>2. Len(heap') = 1 /\ heap'[1] = h
      BY <2>1, <3>1
    <3>3. entry' = 1 /\ UNCHANGED <<row, pc, issued, clash>> /\ phase' = "up"
      BY <1>2, <2>3, <3>2 DEF LoadRows
    <3> QED
      BY <2>1, <2>3, <3>2, <3>3, TasksAssumption
      DEF RowInv, StartInv, NoEntryInv, EntryInv, BumpInv, TakeInv, Holding
  <2> QED BY <2>2, <2>3
<1>3. CASE Crash
  BY <1>3 DEF Crash, RowInv, StartInv, NoEntryInv, EntryInv, BumpInv, TakeInv
<1> QED BY <1>1, <1>2, <1>3

-----------------------------------------------------------------------------
(* The theorems.                                                           *)

\* A step of a task while the bucket lives.
LEMMA CoreAlloc ==
  ASSUME Base, Core, ~tomb, clash = {}, Gapless(issued), ~RacedFirstUse,
         NEW t \in Tasks, AllocStep(t)
  PROVE  Core' /\ clash' = {} /\ Gapless(issued')
<1>1. CASE TakeSeq(t)
  BY <1>1, CoreTake
<1>2. CASE ~TakeSeq(t)
  <2>1. UNCHANGED <<issued, clash>>
    BY <1>2
    DEF AllocStep, Lookup, CreateRow, InstallNew, CheckBump, AcquireBumpLock, Bump,
        StoreEpoch, StoreSeq, ClearBump, DbFails, ReadEpoch, histVars
  <2>2. Core'
    BY <1>2, CoreLookup, CoreCreate, CoreInstall, CoreCheck, CoreAcquire, CoreBump,
       CoreStore, CoreFails, CoreRead
    DEF AllocStep
  <2> QED BY <2>1, <2>2
<1> QED BY <1>1, <1>2

\* Once the bucket is deleted the history of pairs stands still.
LEMMA TombStep ==
  ASSUME Base, tomb, [Next]_vars
  PROVE  UNCHANGED <<issued, clash>> /\ (tomb' \/ lapse')
<1>1. ASSUME NEW t \in Tasks, AllocStep(t) PROVE UNCHANGED <<issued, clash, tomb>>
  BY <1>1
  DEF AllocStep, Lookup, CreateRow, InstallNew, CheckBump, AcquireBumpLock, Bump,
      StoreEpoch, StoreSeq, ClearBump, DbFails, ReadEpoch, TakeSeq, Record,
      histVars, tombVars
<1>2. CASE Delete
  BY <1>2 DEF Delete, DeleteBegin, DeleteRow, Forget, LogTombstone, histVars
<1>3. CASE MarkPending \/ LoadRows \/ LoadFails \/ Crash \/ Idle \/ UNCHANGED vars
  BY <1>3
  DEF MarkPending, LoadRows, LoadFails, Crash, Idle, vars, histVars, tombVars, Base, TypeOK
<1> QED BY <1>1, <1>2, <1>3 DEF Next

LEMMA LapseStays == ASSUME lapse, [Next]_vars PROVE lapse'
BY DEF Next, vars, MarkPending, LoadRows, LoadFails, Crash, Idle, AllocStep, Lookup,
       CreateRow, InstallNew, CheckBump, AcquireBumpLock, Bump, StoreEpoch, StoreSeq,
       ClearBump, DbFails, ReadEpoch, TakeSeq, Delete, DeleteBegin, DeleteRow, Forget,
       LogTombstone, histVars

LEMMA IInvStep ==
  ASSUME IInv, [Next]_vars, ~RacedFirstUse PROVE IInv'
<1>1. Base'
  BY BaseStep DEF IInv
<1>2. CASE lapse
  BY <1>1, <1>2, LapseStays DEF IInv
<1>3. CASE ~lapse /\ tomb
  BY <1>1, <1>3, TombStep DEF IInv
<1>4. CASE ~lapse /\ ~tomb
  <2>1. Base /\ Core /\ clash = {} /\ Gapless(issued)
    BY <1>4 DEF IInv
  <2>2. ASSUME NEW t \in Tasks, AllocStep(t) PROVE IInv'
    BY <1>1, <1>4, <2>1, <2>2, CoreAlloc DEF IInv
  <2>3. CASE MarkPending \/ LoadRows \/ Crash
    BY <1>1, <1>4, <2>1, <2>3, CoreLife DEF IInv
  <2>4. CASE LoadFails
    BY <1>1, <2>4 DEF IInv, LoadFails
  <2>5. CASE Idle \/ UNCHANGED vars
    <3>1. UNCHANGED vars BY <2>5 DEF Idle
    <3> QED
      BY <1>1, <2>1, <3>1
      DEF vars, IInv, Core, RowInv, StartInv, NoEntryInv, EntryInv, BumpInv, TakeInv
  <2>6. CASE Delete
    BY <1>1, <1>4, <2>1, <2>6
    DEF Delete, DeleteBegin, DeleteRow, Forget, LogTombstone, histVars, IInv, Base
  <2> QED BY <2>2, <2>3, <2>4, <2>5, <2>6 DEF Next
<1> QED BY <1>2, <1>3, <1>4

\* The invariant holds in every behaviour without a raced first use.
LEMMA InvariantHolds == ASSUME ~RacedFirstUse PROVE Spec => []IInv
<1>1. Init => IInv
  BY InitBase, InitCore DEF IInv
<1>2. IInv /\ [Next]_vars => IInv'
  BY IInvStep
<1> QED BY <1>1, <1>2, PTL DEF Spec

\* allocate() never hands out a pair twice (bucket_allocator.rs), for every
\* number of tasks, restarts and allocations: a crash costs at most an epoch,
\* and a bump that committed although its caller saw an error is not repeated.
THEOREM KeysAreUnique == ASSUME ~RacedFirstUse PROVE Spec => []UniqueKeys
<1>1. IInv => UniqueKeys
  BY DEF IInv, UniqueKeys
<1> QED BY <1>1, InvariantHolds, PTL

\* No number below one that allocate() handed out in an epoch is skipped.
THEOREM KeysAreGapless == ASSUME ~RacedFirstUse PROVE Spec => []GaplessWithinEpoch
<1>1. IInv => GaplessWithinEpoch
  BY DEF IInv, GaplessWithinEpoch
<1> QED BY <1>1, InvariantHolds, PTL

\* Although a task reads the epoch and takes the number in two steps, what it
\* hands out is never of an older epoch than a pair handed out before.
THEOREM EpochsOnlyAdvance == ASSUME ~RacedFirstUse PROVE Spec => EpochsAdvance
<1>1. ASSUME IInv, [Next]_vars
      PROVE  [lapse \/ \A k \in issued' \ issued : \A j \in issued : j[1] <= k[1]]_vars
  <2>1. CASE lapse \/ tomb
    BY <1>1, <2>1, TombStep DEF IInv
  <2>2. CASE ~lapse /\ ~tomb
    <3>1. Base /\ Core
      BY <1>1, <2>2 DEF IInv
    <3>2. ASSUME NEW t \in Tasks, TakeSeq(t)
          PROVE  \A k \in issued' \ issued : \A j \in issued : j[1] <= k[1]
      <4>1. issued' \ issued \subseteq {<<epoch[t], heap[obj[t]].next_seq>>}
        BY <2>2, <3>2 DEF TakeSeq, Record
      <4>2. epoch[t] = row.epoch /\ \A j \in issued : j[1] \in 1..row.epoch
        BY <3>1, <3>2, TakesNext DEF Core, RowInv
      <4> QED BY <4>1, <4>2
    <3>3. CASE ~\E t \in Tasks : TakeSeq(t)
      <4>1. UNCHANGED issued
        BY <1>1, <3>3
        DEF Next, vars, MarkPending, LoadRows, LoadFails, Crash, Idle, AllocStep, Lookup,
            CreateRow, InstallNew, CheckBump, AcquireBumpLock, Bump, StoreEpoch, StoreSeq,
            ClearBump, DbFails, ReadEpoch, Delete, DeleteBegin, DeleteRow, Forget,
            LogTombstone, histVars
      <4> QED BY <4>1
    <3> QED BY <3>2, <3>3
  <2> QED BY <2>1, <2>2
<1> QED BY <1>1, InvariantHolds, PTL DEF Spec, EpochsAdvance

=============================================================================
