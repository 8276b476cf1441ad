--------------------------- MODULE NodeLogProofs ---------------------------
(***************************************************************************)
(* NodeLog's safety properties for every number of tasks, events and       *)
(* crashes.  The properties are not inductive: that the digest misses no   *)
(* event depends on where the lock holder is, on the buffer holding every  *)
(* event above the head, and on mark_persisted dropping only events it saw *)
(* under the head.  IInv says all of it.                                   *)
(***************************************************************************)
EXTENDS NodeLog, SequenceTheorems, TLAPS

InAdvance == {"fold", "publish", "prune"}

\* A busy task works on an event of the chain.
CurInv == \A t \in Tasks : pc[t] # "idle" => cur[t] \in Seqs

\* The head lock is held exactly by the task inside advance_head.
LockInv == \A t \in Tasks : pc[t] \in InAdvance <=> lock = t

\* Head, digest and pending set, stage by stage of advance_head.
AdvInv ==
  /\ lock = NoTask => Len(digest) = head /\ \A s \in pending : s > head + 1
  /\ lock # NoTask =>
       /\ range.lo \in Seqs /\ range.lo <= range.hi
       /\ \A s \in pending : s > range.hi + 1
       /\ pc[lock] = "fold" => head = range.lo - 1 /\ Len(digest) = head
       /\ pc[lock] = "publish" => head = range.lo - 1 /\ Len(digest) = range.hi
       /\ pc[lock] = "prune" => head = range.hi /\ Len(digest) = range.hi

DigestInv == \A i \in 1..Len(digest) : digest[i] = i

\* What is above the head and was claimed is still in the buffer.
BufferInv ==
  /\ pending \subseteq buffer
  /\ \A t \in Tasks : pc[t] \in {"apply", "unp", "advance"} /\ cur[t] > head
                        => cur[t] \in buffer
  /\ lock # NoTask /\ pc[lock] = "fold" => range.lo..range.hi \subseteq buffer

\* mark_persisted runs on durable keys and drops only below a head it has read.
MarkInv == \A p \in Persisters :
  /\ ppc[p] \in {"unmark", "head", "pend", "drop"} => batch[p] \subseteq db
  /\ ppc[p] \in {"head", "pend", "drop"} => mark[p] \in db
  /\ ppc[p] \in {"pend", "drop"} => seen[p] <= head
  /\ ppc[p] = "drop" => mark[p] <= seen[p]

\* Events the head machinery knows of.
Known(s) ==
  \/ s <= head \/ s \in pending
  \/ lock # NoTask /\ s \in range.lo..range.hi
  \/ \E t \in Tasks : cur[t] = s /\ pc[t] = "advance"

DurableInv == \A s \in Seqs : Known(s) => s \in db \/ s \in buffer \cap unp

IInv ==
  /\ TypeOK /\ CurInv /\ LockInv /\ AdvInv /\ DigestInv /\ BufferInv
  /\ MarkInv /\ DurableInv /\ Recoverable /\ AppliedIsTracked /\ RangeComplete

\* A function on 1..n is a sequence of length n.
LEMMA FunctionIsSeq ==
  ASSUME NEW S, NEW n \in Nat, NEW f \in [1..n -> S]
  PROVE  f \in Seq(S) /\ Len(f) = n
<1>1. f \in Seq(S) OBVIOUS
<1>2. DOMAIN f = 1..Len(f) /\ Len(f) \in Nat BY <1>1, LenProperties
<1>3. DOMAIN f = 1..n OBVIOUS
<1> QED BY <1>1, <1>2, <1>3

-----------------------------------------------------------------------------
(* Only task t moves, and it moves to label l.                             *)
Moved(t, l) ==
  /\ TasksOK' /\ pc'[t] = l
  /\ \A u \in Tasks \ {t} : pc'[u] = pc[u] /\ cur'[u] = cur[u]

\* Goto moves one task and leaves its event alone unless it goes idle.
LEMMA GotoMoves ==
  ASSUME TasksOK, NEW t \in Tasks, NEW l \in TaskPCs, Goto(t, l)
  PROVE  Moved(t, l) /\ (l # "idle" => cur'[t] = cur[t])
BY MaxSeqAssumption DEF Goto, Moved, TasksOK

\* Begin moves one task and gives it an event.
LEMMA BeginMoves ==
  ASSUME TasksOK, NEW t \in Tasks, NEW l \in TaskPCs, NEW s \in Seqs, Begin(t, s, l)
  PROVE  Moved(t, l) /\ cur'[t] = s
BY MaxSeqAssumption DEF Begin, Moved, TasksOK, Seqs

\* Labels of a task that no invariant except CurInv speaks of.
Quiet == {"idle", "in_buffer", "in_pending", "under_head", "claim", "send"}

\* A move between quiet labels that leaves the memory maps alone.
LEMMA QuietMove ==
  ASSUME IInv, NEW t \in Tasks, NEW l \in Quiet, pc[t] \in Quiet, Moved(t, l),
         l # "idle" => cur'[t] \in Seqs,
         UNCHANGED <<buffer, unp, pending, head, digest, lock, range, applied,
                     db, persVars, serveVars, crashes>>,
         ChainOK', queue' \in SUBSET Seqs
  PROVE  IInv'
<1> USE DEF IInv, Quiet, Moved, persVars, serveVars
<1>1. TypeOK'
  BY DEF TypeOK, MapsOK, HeadOK, DigestOK, AppliedOK, PersistersOK, ServerOK
<1>2. CurInv' /\ LockInv'
  BY DEF CurInv, LockInv, InAdvance
<1>3. lock # NoTask => lock \in Tasks /\ lock # t /\ pc'[lock] = pc[lock]
  BY DEF TypeOK, HeadOK, LockInv, InAdvance
<1>4. AdvInv' /\ DigestInv' /\ MarkInv' /\ RangeComplete'
  BY <1>3 DEF AdvInv, DigestInv, MarkInv, RangeComplete
<1>5. BufferInv'
  BY <1>3 DEF BufferInv
<1>6. DurableInv'
  BY <1>3 DEF DurableInv, Known
<1>7. Recoverable'
  BY DEF Recoverable
<1>8. AppliedIsTracked'
  BY DEF AppliedIsTracked
<1> QED BY <1>1, <1>2, <1>4, <1>5, <1>6, <1>7, <1>8

LEMMA DeliverStep ==
  ASSUME IInv, NEW t \in Workers, NEW s \in Seqs, Deliver(t, s) PROVE IInv'
<1>1. t \in Tasks /\ "in_buffer" \in TaskPCs
  BY DEF Tasks, TaskPCs
<1>2. Moved(t, "in_buffer") /\ cur'[t] = s
  BY <1>1, BeginMoves DEF Deliver, IInv, TypeOK
<1> QED
  BY <1>1, <1>2, QuietMove
  DEF Deliver, Quiet, IInv, TypeOK, ChainOK, MapsOK, chainVars, memVars

\* The three accesses of event_is_present change nothing but the label.
LEMMA PresenceStep ==
  ASSUME IInv, NEW t \in Tasks,
         LookInBuffer(t) \/ LookInPending(t) \/ LookUnderHead(t)
  PROVE  IInv'
<1>1. PICK l \in {"idle", "in_pending", "under_head", "claim"} : Goto(t, l)
  BY DEF LookInBuffer, LookInPending, LookUnderHead
<1>2. Moved(t, l) /\ (l # "idle" => cur'[t] = cur[t])
  BY <1>1, GotoMoves DEF IInv, TypeOK, TaskPCs
<1>3. pc[t] \in Quiet /\ pc[t] # "idle"
  BY DEF LookInBuffer, LookInPending, LookUnderHead, Quiet
<1>4. UNCHANGED <<chainVars, memVars, db, persVars, serveVars, crashes>>
  BY DEF LookInBuffer, LookInPending, LookUnderHead
<1> QED
  BY <1>2, <1>3, <1>4, QuietMove
  DEF Quiet, IInv, CurInv, TypeOK, ChainOK, MapsOK, chainVars, memVars

LEMMA SendStep == ASSUME IInv, NEW t \in Tasks, Send(t) PROVE IInv'
<1>1. Moved(t, "idle")
  BY GotoMoves DEF Send, IInv, TypeOK, TaskPCs
<1>2. cur[t] \in Seqs
  BY DEF Send, IInv, CurInv
<1>3. ChainOK' /\ queue' \in SUBSET Seqs
  BY <1>2 DEF Send, IInv, TypeOK, ChainOK, MapsOK
<1> QED
  BY <1>1, <1>3, QuietMove DEF Send, Quiet

LEMMA ClaimStep == ASSUME IInv, NEW t \in Tasks, Claim(t) PROVE IInv'
<1>1. CASE cur[t] \in buffer
  <2>1. Moved(t, "idle")
    BY <1>1, GotoMoves DEF Claim, IInv, TypeOK, TaskPCs
  <2> QED
    BY <1>1, <2>1, QuietMove
    DEF Claim, Quiet, IInv, TypeOK, ChainOK, MapsOK, chainVars
<1>2. CASE cur[t] \notin buffer
  <2>1. Moved(t, "apply") /\ cur'[t] = cur[t]
    BY <1>2, GotoMoves DEF Claim, IInv, TypeOK, TaskPCs
  <2>2. cur[t] \in Seqs /\ buffer' = buffer \cup {cur[t]} /\ pc[t] = "claim"
    BY <1>2 DEF Claim, IInv, CurInv
  <2>3. UNCHANGED <<chainVars, unp, pending, head, digest, lock, range, applied,
                    queue, db, persVars, serveVars, crashes>>
    BY DEF Claim
  <2> USE <2>1, <2>2, <2>3 DEF IInv, Moved, chainVars, persVars, serveVars
  <2>4. TypeOK'
    BY DEF TypeOK, ChainOK, MapsOK, HeadOK, DigestOK, AppliedOK, PersistersOK, ServerOK
  <2>5. CurInv' /\ LockInv'
    BY DEF CurInv, LockInv, InAdvance
  <2>6. lock # NoTask => lock \in Tasks /\ lock # t /\ pc'[lock] = pc[lock]
    BY DEF TypeOK, HeadOK, LockInv, InAdvance
  <2>7. AdvInv' /\ DigestInv' /\ MarkInv' /\ RangeComplete'
    BY <2>6 DEF AdvInv, DigestInv, MarkInv, RangeComplete
  <2>8. BufferInv'
    BY <2>6 DEF BufferInv
  <2>9. DurableInv'
    BY <2>6 DEF DurableInv, Known
  <2>10. Recoverable'
    BY DEF Recoverable
  <2>11. AppliedIsTracked'
    BY DEF AppliedIsTracked
  <2> QED BY <2>4, <2>5, <2>7, <2>8, <2>9, <2>10, <2>11
<1> QED BY <1>1, <1>2

LEMMA ApplyStep == ASSUME IInv, NEW t \in Tasks, Apply(t) PROVE IInv'
<1>1. Moved(t, "unp") /\ cur'[t] = cur[t]
  BY GotoMoves DEF Apply, IInv, TypeOK, TaskPCs
<1>2. cur[t] \in Seqs /\ pc[t] = "apply"
  BY DEF Apply, IInv, CurInv
<1>3. AppliedOK' /\ \A s \in Seqs \ {cur[t]} : applied'[s] = applied[s]
  BY <1>2 DEF Apply, AddToBalance, IInv, TypeOK, AppliedOK
<1>4. UNCHANGED <<chainVars, buffer, unp, pending, head, digest, lock, range,
                  queue, db, persVars, serveVars, crashes>>
  BY DEF Apply
<1> USE <1>1, <1>2, <1>3, <1>4 DEF IInv, Moved, chainVars, persVars, serveVars
<1>5. TypeOK'
  BY DEF TypeOK, ChainOK, MapsOK, HeadOK, DigestOK, PersistersOK, ServerOK
<1>6. CurInv' /\ LockInv'
  BY DEF CurInv, LockInv, InAdvance
<1>7. lock # NoTask => lock \in Tasks /\ lock # t /\ pc'[lock] = pc[lock]
  BY DEF TypeOK, HeadOK, LockInv, InAdvance
<1>8. AdvInv' /\ DigestInv' /\ MarkInv' /\ RangeComplete'
  BY <1>7 DEF AdvInv, DigestInv, MarkInv, RangeComplete
<1>9. BufferInv'
  BY <1>7 DEF BufferInv
<1>10. DurableInv'
  BY <1>7 DEF DurableInv, Known
<1>11. Recoverable'
  BY DEF Recoverable
<1>12. AppliedIsTracked'
  BY DEF AppliedIsTracked
<1> QED BY <1>5, <1>6, <1>8, <1>9, <1>10, <1>11, <1>12

LEMMA CreateLocalStep ==
  ASSUME IInv, NEW t \in Writers, CreateLocal(t) PROVE IInv'
<1>1. t \in Tasks /\ pc[t] = "idle"
  BY DEF Tasks, CreateLocal
<1>2. next \in Seqs /\ ChainOK'
  BY MaxSeqAssumption DEF CreateLocal, IInv, TypeOK, ChainOK, Seqs
<1>3. Moved(t, "store") /\ cur'[t] = next
  BY <1>1, <1>2, BeginMoves DEF CreateLocal, IInv, TypeOK, TaskPCs
<1>4. AppliedOK' /\ \A s \in Seqs \ {next} : applied'[s] = applied[s]
  BY <1>2 DEF CreateLocal, AddToBalance, IInv, TypeOK, AppliedOK
<1>5. UNCHANGED <<buffer, unp, pending, head, digest, lock, range, queue, db,
                  persVars, serveVars, crashes>>
  BY DEF CreateLocal
<1> USE <1>1, <1>2, <1>3, <1>4, <1>5 DEF IInv, Moved, persVars, serveVars
<1>6. TypeOK'
  BY DEF TypeOK, MapsOK, HeadOK, DigestOK, PersistersOK, ServerOK
<1>7. CurInv' /\ LockInv'
  BY DEF CurInv, LockInv, InAdvance
<1>8. lock # NoTask => lock \in Tasks /\ lock # t /\ pc'[lock] = pc[lock]
  BY DEF TypeOK, HeadOK, LockInv, InAdvance
<1>9. AdvInv' /\ DigestInv' /\ MarkInv' /\ RangeComplete'
  BY <1>8 DEF AdvInv, DigestInv, MarkInv, RangeComplete
<1>10. BufferInv' /\ DurableInv'
  BY <1>8 DEF BufferInv, DurableInv, Known
<1>11. Recoverable'
  BY DEF Recoverable
<1>12. AppliedIsTracked'
  BY DEF AppliedIsTracked
<1> QED BY <1>6, <1>7, <1>9, <1>10, <1>11, <1>12

LEMMA StoreBufferStep == ASSUME IInv, NEW t \in Tasks, StoreBuffer(t) PROVE IInv'
<1>1. Moved(t, "unp") /\ cur'[t] = cur[t]
  BY GotoMoves DEF StoreBuffer, IInv, TypeOK, TaskPCs
<1>2. cur[t] \in Seqs /\ pc[t] = "store" /\ buffer' = buffer \cup {cur[t]}
  BY DEF StoreBuffer, IInv, CurInv
<1>3. UNCHANGED <<chainVars, unp, pending, head, digest, lock, range, applied,
                  queue, db, persVars, serveVars, crashes>>
  BY DEF StoreBuffer
<1> USE <1>1, <1>2, <1>3 DEF IInv, Moved, chainVars, persVars, serveVars
<1>4. TypeOK'
  BY DEF TypeOK, ChainOK, MapsOK, HeadOK, DigestOK, AppliedOK, PersistersOK, ServerOK
<1>5. CurInv' /\ LockInv'
  BY DEF CurInv, LockInv, InAdvance
<1>6. lock # NoTask => lock \in Tasks /\ lock # t /\ pc'[lock] = pc[lock]
  BY DEF TypeOK, HeadOK, LockInv, InAdvance
<1>7. AdvInv' /\ DigestInv' /\ MarkInv' /\ RangeComplete'
  BY <1>6 DEF AdvInv, DigestInv, MarkInv, RangeComplete
<1>8. BufferInv' /\ DurableInv'
  BY <1>6 DEF BufferInv, DurableInv, Known
<1>9. Recoverable'
  BY DEF Recoverable
<1>10. AppliedIsTracked'
  BY DEF AppliedIsTracked
<1> QED BY <1>4, <1>5, <1>7, <1>8, <1>9, <1>10

LEMMA TrackUnpersistedStep ==
  ASSUME IInv, NEW t \in Tasks, TrackUnpersisted(t) PROVE IInv'
<1>1. Moved(t, "advance") /\ cur'[t] = cur[t]
  BY GotoMoves DEF TrackUnpersisted, IInv, TypeOK, TaskPCs
<1>2. cur[t] \in Seqs /\ pc[t] = "unp" /\ unp' = unp \cup {cur[t]}
  BY DEF TrackUnpersisted, IInv, CurInv
<1>3. UNCHANGED <<chainVars, buffer, pending, head, digest, lock, range, applied,
                  queue, db, persVars, serveVars, crashes>>
  BY DEF TrackUnpersisted
<1> USE <1>1, <1>2, <1>3 DEF IInv, Moved, chainVars, persVars, serveVars
<1>4. TypeOK'
  BY DEF TypeOK, ChainOK, MapsOK, HeadOK, DigestOK, AppliedOK, PersistersOK, ServerOK
<1>5. CurInv' /\ LockInv'
  BY DEF CurInv, LockInv, InAdvance
<1>6. lock # NoTask => lock \in Tasks /\ lock # t /\ pc'[lock] = pc[lock]
  BY DEF TypeOK, HeadOK, LockInv, InAdvance
<1>7. AdvInv' /\ DigestInv' /\ MarkInv' /\ RangeComplete'
  BY <1>6 DEF AdvInv, DigestInv, MarkInv, RangeComplete
<1>8. BufferInv'
  BY <1>6 DEF BufferInv
<1>9. cur[t] \in db \/ cur[t] \in buffer \cap unp'
  BY MaxSeqAssumption DEF BufferInv, DurableInv, Known, TypeOK, HeadOK, Seqs
<1>10. DurableInv'
  BY <1>6, <1>9 DEF DurableInv, Known
<1>11. Recoverable'
  BY <1>9 DEF Recoverable
<1>12. AppliedIsTracked'
  BY DEF AppliedIsTracked
<1> QED BY <1>4, <1>5, <1>7, <1>8, <1>10, <1>11, <1>12

LEMMA AdvanceContiguousStep ==
  ASSUME IInv, NEW t \in Tasks, AdvanceContiguous(t) PROVE IInv'
<1>1. Moved(t, "fold") /\ cur'[t] = cur[t]
  BY GotoMoves DEF AdvanceContiguous, IInv, TypeOK, TaskPCs
<1>2. /\ cur[t] \in Seqs /\ pc[t] = "advance" /\ cur[t] = head + 1
      /\ lock = NoTask /\ lock' = t /\ t # NoTask
  BY TasksAssumption DEF AdvanceContiguous, IInv, CurInv, Tasks, NoTask
<1>3. PICK n \in Seqs : /\ Drained(cur[t], n)
                        /\ pending' = pending \ (cur[t] + 1 .. n)
                        /\ range' = [lo |-> cur[t], hi |-> n]
  BY DEF AdvanceContiguous
<1>4. /\ cur[t] <= n /\ cur[t] + 1 .. n \subseteq pending /\ n + 1 \notin pending
      /\ range'.lo = cur[t] /\ range'.hi = n
  BY <1>2, <1>3, MaxSeqAssumption DEF Drained, Seqs
<1>5. UNCHANGED <<chainVars, buffer, unp, head, digest, applied, queue, db,
                  persVars, serveVars, crashes>>
  BY DEF AdvanceContiguous
<1> USE <1>1, <1>2, <1>3, <1>4, <1>5, MaxSeqAssumption
    DEF IInv, Moved, chainVars, persVars, serveVars
<1>6. TypeOK'
  <2>1. MapsOK' BY DEF TypeOK, MapsOK
  <2>2. HeadOK' BY DEF TypeOK, HeadOK, Seqs
  <2> QED
    BY <2>1, <2>2 DEF TypeOK, ChainOK, DigestOK, AppliedOK, PersistersOK, ServerOK
<1>7. CurInv' /\ LockInv'
  <2>1. \A u \in Tasks : u # NoTask BY TasksAssumption DEF Tasks, NoTask
  <2> QED BY <2>1 DEF CurInv, LockInv, InAdvance
<1>8. \A s \in pending' : s \in Seqs /\ s > n + 1
  BY DEF TypeOK, MapsOK, AdvInv, HeadOK, Seqs
<1>9. AdvInv'
  BY <1>8 DEF AdvInv
<1>10. DigestInv' /\ MarkInv' /\ RangeComplete'
  BY DEF DigestInv, MarkInv, RangeComplete
<1>11. BufferInv'
  BY DEF BufferInv, TypeOK, MapsOK, HeadOK, Seqs
<1>12. DurableInv'
  BY DEF DurableInv, Known, Seqs
<1>13. Recoverable'
  BY DEF Recoverable
<1>14. AppliedIsTracked'
  BY DEF AppliedIsTracked, Seqs
<1> QED BY <1>6, <1>7, <1>9, <1>10, <1>11, <1>12, <1>13, <1>14

LEMMA AdvanceOtherStep ==
  ASSUME IInv, NEW t \in Tasks, AdvanceOther(t) PROVE IInv'
<1>1. Moved(t, "send") /\ cur'[t] = cur[t]
  BY GotoMoves DEF AdvanceOther, IInv, TypeOK, TaskPCs
<1>2. /\ cur[t] \in Seqs /\ pc[t] = "advance" /\ cur[t] # head + 1
      /\ lock = NoTask
  BY DEF AdvanceOther, IInv, CurInv
<1>3. \/ cur[t] > head + 1 /\ pending' = pending \cup {cur[t]}
      \/ cur[t] <= head /\ pending' = pending
  BY <1>2, MaxSeqAssumption DEF AdvanceOther, IInv, TypeOK, HeadOK, Seqs
<1>4. UNCHANGED <<chainVars, buffer, unp, head, digest, lock, range, applied,
                  queue, db, persVars, serveVars, crashes>>
  BY DEF AdvanceOther
<1> USE <1>1, <1>2, <1>3, <1>4, MaxSeqAssumption
    DEF IInv, Moved, chainVars, persVars, serveVars
<1>5. TypeOK'
  BY DEF TypeOK, ChainOK, MapsOK, HeadOK, DigestOK, AppliedOK, PersistersOK, ServerOK
<1>6. CurInv' /\ LockInv'
  BY DEF CurInv, LockInv, InAdvance
<1>7. AdvInv'
  BY DEF AdvInv
<1>8. DigestInv' /\ MarkInv' /\ RangeComplete'
  BY DEF DigestInv, MarkInv, RangeComplete
<1>9. BufferInv'
  BY DEF BufferInv, TypeOK, HeadOK, Seqs
<1>10. DurableInv'
  BY DEF DurableInv, Known
<1>11. Recoverable'
  BY DEF Recoverable
<1>12. AppliedIsTracked'
  BY DEF AppliedIsTracked
<1> QED BY <1>5, <1>6, <1>7, <1>8, <1>9, <1>10, <1>11, <1>12

LEMMA FoldDigestStep == ASSUME IInv, NEW t \in Tasks, FoldDigest(t) PROVE IInv'
<1>1. Moved(t, "publish") /\ cur'[t] = cur[t]
  BY GotoMoves DEF FoldDigest, IInv, TypeOK, TaskPCs
<1>2. pc[t] = "fold" /\ lock = t /\ t # NoTask /\ cur[t] \in Seqs
  BY TasksAssumption DEF FoldDigest, IInv, LockInv, CurInv, InAdvance, Tasks, NoTask
<1>3. /\ range.lo \in Seqs /\ range.hi \in Seqs /\ range.lo <= range.hi
      /\ range.lo..range.hi \subseteq buffer
      /\ head = range.lo - 1 /\ Len(digest) = head
  BY <1>2, MaxSeqAssumption DEF IInv, AdvInv, BufferInv, TypeOK, HeadOK, Seqs
<1>4. UNCHANGED <<chainVars, buffer, unp, pending, head, lock, range, applied,
                  queue, db, persVars, serveVars, crashes>>
  BY DEF FoldDigest
<1> DEFINE k == range.hi - range.lo + 1
           seg == [i \in 1..k |-> IF range.lo + i - 1 \in buffer
                                   THEN range.lo + i - 1 ELSE 0]
<1>5. k \in Nat /\ digest \in Seq(0..MaxSeq) /\ digest' = digest \o seg
  BY <1>3, MaxSeqAssumption DEF FoldDigest, IInv, TypeOK, DigestOK, Seqs
<1>6. \A i \in 1..k : seg[i] = range.lo + i - 1 /\ seg[i] \in 0..MaxSeq
  BY <1>3, MaxSeqAssumption DEF Seqs
<1>7. seg \in Seq(0..MaxSeq) /\ Len(seg) = k
  <2>1. seg \in [1..k -> 0..MaxSeq] BY <1>6
  <2> HIDE DEF k, seg
  <2> QED BY <2>1, <1>5, FunctionIsSeq
<1> HIDE DEF seg
<1>8. /\ digest' \in Seq(0..MaxSeq) /\ Len(digest') = range.hi
      /\ \A i \in 1..range.hi : digest'[i] = IF i <= Len(digest) THEN digest[i]
                                               ELSE seg[i - Len(digest)]
  <2>1. Len(digest) + Len(seg) = range.hi
    BY <1>3, <1>7 DEF Seqs
  <2> HIDE DEF k
  <2> QED BY <2>1, <1>5, <1>7, ConcatProperties
<1>9. ASSUME NEW i \in 1..Len(digest') PROVE digest'[i] = i
  <2>1. CASE i <= Len(digest)
    BY <2>1, <1>3, <1>5, <1>7 DEF IInv, DigestInv, Seqs
  <2>2. CASE i > Len(digest)
    <3>1. i - Len(digest) \in 1..k /\ digest'[i] = seg[i - Len(digest)]
      BY <2>2, <1>3, <1>8, MaxSeqAssumption DEF Seqs
    <3> QED BY <3>1, <1>3, <1>6 DEF Seqs
  <2> QED BY <2>1, <2>2, <1>3, <1>8, MaxSeqAssumption DEF Seqs
<1>10. DigestInv' BY <1>9 DEF DigestInv
<1> USE <1>1, <1>2, <1>3, <1>4, <1>8
    DEF IInv, Moved, chainVars, persVars, serveVars
<1>11. TypeOK'
  BY DEF TypeOK, ChainOK, MapsOK, HeadOK, DigestOK, AppliedOK, PersistersOK, ServerOK
<1>12. CurInv' /\ LockInv'
  BY DEF CurInv, LockInv, InAdvance
<1>13. AdvInv' /\ MarkInv' /\ RangeComplete'
  BY DEF AdvInv, MarkInv, RangeComplete
<1>14. BufferInv'
  BY DEF BufferInv
<1>15. DurableInv'
  BY DEF DurableInv, Known
<1>16. Recoverable'
  BY DEF Recoverable
<1>17. AppliedIsTracked'
  BY DEF AppliedIsTracked
<1> QED BY <1>10, <1>11, <1>12, <1>13, <1>14, <1>15, <1>16, <1>17

LEMMA PublishHeadStep == ASSUME IInv, NEW t \in Tasks, PublishHead(t) PROVE IInv'
<1>1. Moved(t, "prune") /\ cur'[t] = cur[t]
  BY GotoMoves DEF PublishHead, IInv, TypeOK, TaskPCs
<1>2. pc[t] = "publish" /\ lock = t /\ t # NoTask
  BY TasksAssumption DEF PublishHead, IInv, LockInv, InAdvance, Tasks, NoTask
<1>3. /\ range.lo \in Seqs /\ range.hi \in Seqs /\ range.lo <= range.hi
      /\ head \in 0..MaxSeq /\ head = range.lo - 1 /\ head' = range.hi
      /\ Len(digest) = range.hi
  BY <1>2, MaxSeqAssumption DEF PublishHead, IInv, AdvInv, TypeOK, HeadOK, Seqs
<1>4. UNCHANGED <<chainVars, buffer, unp, pending, digest, lock, range, applied,
                  queue, db, persVars, serveVars, crashes>>
  BY DEF PublishHead
<1> USE <1>1, <1>2, <1>3, <1>4, MaxSeqAssumption
    DEF IInv, Moved, chainVars, persVars, serveVars
<1>5. TypeOK'
  BY DEF TypeOK, ChainOK, MapsOK, HeadOK, DigestOK, AppliedOK, PersistersOK,
         ServerOK, Seqs
<1>6. CurInv' /\ LockInv'
  BY DEF CurInv, LockInv, InAdvance
<1>7. AdvInv' /\ DigestInv' /\ RangeComplete'
  BY DEF AdvInv, DigestInv, RangeComplete
<1>8. MarkInv'
  BY DEF MarkInv, TypeOK, PersistersOK, Seqs
<1>9. BufferInv'
  BY DEF BufferInv, CurInv, Seqs
<1>10. DurableInv'
  BY DEF DurableInv, Known, Seqs
<1>11. Recoverable'
  BY DEF Recoverable
<1>12. AppliedIsTracked'
  BY DEF AppliedIsTracked, Seqs
<1> QED BY <1>5, <1>6, <1>7, <1>8, <1>9, <1>10, <1>11, <1>12

LEMMA PruneBufferStep == ASSUME IInv, NEW t \in Tasks, PruneBuffer(t) PROVE IInv'
<1>1. Moved(t, "send") /\ cur'[t] = cur[t]
  BY GotoMoves DEF PruneBuffer, IInv, TypeOK, TaskPCs
<1>2. pc[t] = "prune" /\ lock = t /\ t # NoTask /\ lock' = NoTask
  BY TasksAssumption DEF PruneBuffer, IInv, LockInv, InAdvance, Tasks, NoTask
<1>3. /\ range.lo \in Seqs /\ range.hi \in Seqs /\ head = range.hi
      /\ Len(digest) = range.hi
  BY <1>2, MaxSeqAssumption DEF IInv, AdvInv, TypeOK, HeadOK, Seqs
<1>4. /\ buffer' = {s \in buffer : s \in range.lo..range.hi => s \in unp}
      /\ range' = [lo |-> 1, hi |-> 0]
      /\ UNCHANGED <<chainVars, unp, pending, head, digest, applied, queue, db,
                     persVars, serveVars, crashes>>
  BY DEF PruneBuffer
<1> USE <1>1, <1>2, <1>3, <1>4, MaxSeqAssumption
    DEF IInv, Moved, chainVars, persVars, serveVars
<1>5. TypeOK'
  <2>1. MapsOK' BY DEF TypeOK, MapsOK
  <2>2. HeadOK' BY DEF TypeOK, HeadOK, Seqs
  <2> QED
    BY <2>1, <2>2 DEF TypeOK, ChainOK, DigestOK, AppliedOK, PersistersOK, ServerOK
<1>6. CurInv' /\ LockInv'
  <2>1. \A u \in Tasks : u # NoTask BY TasksAssumption DEF Tasks, NoTask
  <2> QED BY <2>1 DEF CurInv, LockInv, InAdvance
<1>7. AdvInv' /\ DigestInv' /\ MarkInv' /\ RangeComplete'
  BY DEF AdvInv, DigestInv, MarkInv, RangeComplete
<1>8. BufferInv'
  BY DEF BufferInv, AdvInv, CurInv, TypeOK, MapsOK, Seqs
<1>9. DurableInv'
  BY DEF DurableInv, Known, Seqs
<1>10. Recoverable'
  BY DEF Recoverable
<1>11. AppliedIsTracked'
  BY DEF AppliedIsTracked, Seqs
<1> QED BY <1>5, <1>6, <1>7, <1>8, <1>9, <1>10, <1>11
-----------------------------------------------------------------------------
(* The persisters.                                                         *)

\* Steps that move no task and change neither maps, head nor database.
LEMMA TakeBatchStep ==
  ASSUME IInv, NEW B \in SUBSET Seqs, TakeBatch(B) \/ ScanOrphans(B) PROVE IInv'
<1>1. /\ UNCHANGED <<chainVars, buffer, unp, pending, head, digest, lock, range,
                     applied, db, taskVars, mark, seen, serveVars, crashes>>
      /\ queue' \in SUBSET Seqs
  BY DEF TakeBatch, ScanOrphans, memVars, IInv, TypeOK, MapsOK
<1>2. PICK p \in Persisters : /\ ppc' = [ppc EXCEPT ![p] = "insert"]
                              /\ batch' = [batch EXCEPT ![p] = B]
  BY DEF TakeBatch, ScanOrphans, PGoto, Persisters
<1> USE <1>1, <1>2 DEF IInv, chainVars, taskVars, serveVars
<1>3. PersistersOK'
  BY DEF TypeOK, PersistersOK
<1>4. TypeOK'
  BY <1>3 DEF TypeOK, ChainOK, MapsOK, HeadOK, DigestOK, AppliedOK, TasksOK, ServerOK
<1>5. MarkInv'
  BY DEF MarkInv, TypeOK, PersistersOK
<1>6. CurInv' /\ LockInv' /\ AdvInv' /\ DigestInv' /\ BufferInv'
  BY DEF CurInv, LockInv, AdvInv, DigestInv, BufferInv
<1>7. DurableInv' /\ Recoverable' /\ AppliedIsTracked' /\ RangeComplete'
  BY DEF DurableInv, Known, Recoverable, AppliedIsTracked, RangeComplete
<1> QED BY <1>4, <1>5, <1>6, <1>7

\* Steps of one persister that leave memory alone; the database only grows.
LEMMA PersisterMove ==
  ASSUME IInv, PersistersOK', MarkInv', db \subseteq db', db' \subseteq Seqs,
         UNCHANGED <<chainVars, memVars, taskVars, serveVars, crashes>>
  PROVE  IInv'
<1> USE DEF IInv, chainVars, memVars, taskVars, serveVars
<1>1. TypeOK'
  BY DEF TypeOK, ChainOK, MapsOK, HeadOK, DigestOK, AppliedOK, TasksOK, ServerOK
<1>2. CurInv' /\ LockInv' /\ AdvInv' /\ DigestInv' /\ BufferInv'
  BY DEF CurInv, LockInv, AdvInv, DigestInv, BufferInv
<1>3. DurableInv' /\ RangeComplete'
  BY DEF DurableInv, Known, RangeComplete
<1>4. Recoverable' /\ AppliedIsTracked'
  BY DEF Recoverable, AppliedIsTracked
<1> QED BY <1>1, <1>2, <1>3, <1>4

LEMMA InsertStep ==
  ASSUME IInv, NEW p \in Persisters, InsertBulk(p) \/ InsertFails(p) PROVE IInv'
<1>1. db \subseteq db' /\ db' \subseteq Seqs
  BY DEF InsertBulk, InsertFails, IInv, TypeOK, MapsOK, PersistersOK
<1>2. PersistersOK'
  BY DEF InsertBulk, InsertFails, PGoto, IInv, TypeOK, PersistersOK
<1>3. MarkInv'
  BY DEF InsertBulk, InsertFails, PGoto, IInv, TypeOK, PersistersOK, MarkInv, memVars
<1> QED
  BY <1>1, <1>2, <1>3, PersisterMove DEF InsertBulk, InsertFails

LEMMA MarkReadStep ==
  ASSUME IInv, NEW p \in Persisters,
         MarkReadHead(p) \/ MarkReadPending(p) \/ MarkDone(p)
  PROVE  IInv'
<1>1. UNCHANGED <<chainVars, memVars, db, taskVars, serveVars, crashes>>
  BY DEF MarkReadHead, MarkReadPending, MarkDone
<1>2. db \subseteq Seqs
  BY DEF IInv, TypeOK, MapsOK
<1>3. PersistersOK'
  BY MaxSeqAssumption
  DEF MarkReadHead, MarkReadPending, MarkDone, MarkNext, PGoto, IInv, TypeOK,
      PersistersOK, HeadOK
<1>4. MarkInv'
  BY <1>1, MaxSeqAssumption
  DEF MarkReadHead, MarkReadPending, MarkDone, MarkNext, PGoto, IInv, TypeOK,
      PersistersOK, HeadOK, MarkInv, memVars
<1> QED BY <1>1, <1>2, <1>3, <1>4, PersisterMove

LEMMA UnmarkStep == ASSUME IInv, NEW p \in Persisters, Unmark(p) PROVE IInv'
<1>1. PICK s \in batch[p] : unp' = unp \ {s} /\ mark' = [mark EXCEPT ![p] = s]
  BY DEF Unmark
<1>2. s \in db /\ s \in Seqs
  BY DEF Unmark, IInv, MarkInv, TypeOK, PersistersOK
<1>3. /\ ppc[p] = "unmark" /\ ppc' = [ppc EXCEPT ![p] = "head"]
      /\ UNCHANGED <<chainVars, buffer, pending, head, digest, lock, range, applied,
                     queue, db, taskVars, batch, seen, serveVars, crashes>>
  BY DEF Unmark, PGoto
<1> USE <1>1, <1>2, <1>3 DEF IInv, chainVars, taskVars, serveVars
<1>4. PersistersOK' /\ MapsOK'
  BY MaxSeqAssumption DEF TypeOK, PersistersOK, MapsOK, Seqs
<1>5. TypeOK'
  BY <1>4 DEF TypeOK, ChainOK, HeadOK, DigestOK, AppliedOK, TasksOK, ServerOK
<1>6. MarkInv'
  BY DEF MarkInv, TypeOK, PersistersOK
<1>7. CurInv' /\ LockInv' /\ AdvInv' /\ DigestInv' /\ BufferInv'
  BY DEF CurInv, LockInv, AdvInv, DigestInv, BufferInv
<1>8. DurableInv' /\ RangeComplete'
  BY DEF DurableInv, Known, RangeComplete
<1>9. Recoverable' /\ AppliedIsTracked'
  BY DEF Recoverable, AppliedIsTracked
<1> QED BY <1>5, <1>6, <1>7, <1>8, <1>9

\* The event that mark_persisted drops is under the head and durable.
LEMMA MarkDropStep == ASSUME IInv, NEW p \in Persisters, MarkDrop(p) PROVE IInv'
<1> DEFINE m == mark[p]
<1>1. m \in db /\ m <= head /\ m \in Seqs /\ buffer' = buffer \ {m}
  BY MaxSeqAssumption
  DEF MarkDrop, IInv, MarkInv, TypeOK, PersistersOK, MapsOK, HeadOK, Seqs
<1>2. MarkNext(p) /\ ppc[p] = "drop"
  BY DEF MarkDrop
<1>3. UNCHANGED <<chainVars, unp, pending, head, digest, lock, range, applied,
                  queue, db, taskVars, serveVars, crashes>>
  BY DEF MarkDrop
<1>4. PersistersOK' /\ MarkInv'
  BY <1>1, <1>2, <1>3, MaxSeqAssumption
  DEF MarkNext, PGoto, IInv, TypeOK, PersistersOK, MarkInv, Seqs
<1> HIDE DEF m
<1> USE <1>1, <1>3 DEF IInv, chainVars, taskVars, serveVars
<1>5. TypeOK'
  <2>1. MapsOK' BY DEF TypeOK, MapsOK
  <2> QED
    BY <1>4, <2>1 DEF TypeOK, ChainOK, HeadOK, DigestOK, AppliedOK, TasksOK, ServerOK
<1>6. CurInv' /\ LockInv' /\ AdvInv' /\ DigestInv'
  BY DEF CurInv, LockInv, AdvInv, DigestInv
<1>7. BufferInv'
  <2>1. lock # NoTask => /\ lock \in Tasks /\ pc[lock] \in InAdvance
                         /\ range.lo \in Seqs /\ range.hi \in Seqs
                         /\ range.lo <= range.hi
                         /\ head \in {range.lo - 1, range.hi}
    BY MaxSeqAssumption DEF LockInv, AdvInv, TypeOK, HeadOK, Seqs, InAdvance
  <2>2. m \notin pending
    BY <2>1, MaxSeqAssumption DEF AdvInv, TypeOK, HeadOK, Seqs
  <2>3. lock # NoTask /\ pc[lock] = "fold" => m \notin range.lo..range.hi
    BY <2>1, MaxSeqAssumption DEF AdvInv, Seqs
  <2> QED BY <2>2, <2>3, MaxSeqAssumption DEF BufferInv, TypeOK, TasksOK, HeadOK, Seqs
<1>8. DurableInv'
  BY DEF DurableInv, Known
<1>9. Recoverable' /\ AppliedIsTracked' /\ RangeComplete'
  BY DEF Recoverable, AppliedIsTracked, RangeComplete
<1> QED BY <1>4, <1>5, <1>6, <1>7, <1>8, <1>9

-----------------------------------------------------------------------------
(* The range server and the crash.                                         *)

LEMMA ServeStep ==
  ASSUME IInv, ServeFromBuffer \/ ServeFromStorage PROVE IInv'
<1>1. UNCHANGED <<chainVars, memVars, db, taskVars, persVars, crashes>>
  BY DEF ServeFromBuffer, ServeFromStorage
<1> USE <1>1 DEF IInv, chainVars, memVars, taskVars, persVars
<1>2. ServerOK' /\ RangeComplete'
  BY MaxSeqAssumption
  DEF ServeFromBuffer, ServeFromStorage, TypeOK, ServerOK, HeadOK, Seqs,
      RangeComplete, DurableInv, Known
<1>3. TypeOK'
  BY <1>2 DEF TypeOK, ChainOK, MapsOK, HeadOK, DigestOK, AppliedOK, TasksOK, PersistersOK
<1>4. CurInv' /\ LockInv' /\ AdvInv' /\ DigestInv' /\ BufferInv' /\ MarkInv'
  BY DEF CurInv, LockInv, AdvInv, DigestInv, BufferInv, MarkInv
<1>5. DurableInv' /\ Recoverable' /\ AppliedIsTracked'
  BY DEF DurableInv, Known, Recoverable, AppliedIsTracked
<1> QED BY <1>2, <1>3, <1>4, <1>5

\* What is known after a restart is exactly what the database held.
LEMMA CrashStep == ASSUME IInv, Crash PROVE IInv'
<1>1. PICK h \in 0..MaxSeq : Rebuilt(h)
  BY DEF Crash
<1>2. 1..h \subseteq db /\ h + 1 \notin db /\ db \subseteq Seqs
  BY <1>1 DEF Rebuilt, ContiguousHead, IInv, TypeOK, MapsOK
<1>3. /\ head' = h /\ pending' = {s \in db : s > h} /\ buffer' = pending'
      /\ applied' = [s \in Seqs |-> IF s \in db THEN 1 ELSE 0]
      /\ unp' = {} /\ queue' = {} /\ lock' = NoTask
      /\ range' = [lo |-> 1, hi |-> 0]
  BY <1>1 DEF Rebuilt
<1>4. /\ digest' \in Seq(0..MaxSeq) /\ Len(digest') = h
      /\ \A i \in 1..h : digest'[i] = i
  <2>1. digest' = [i \in 1..h |-> i] /\ digest' \in [1..h -> 0..MaxSeq] /\ h \in Nat
    BY <1>1, MaxSeqAssumption DEF Rebuilt
  <2> QED BY <2>1, FunctionIsSeq
<1>5. /\ pc' = [t \in Tasks |-> "idle"] /\ cur' = [t \in Tasks |-> 0]
      /\ open' = FALSE /\ crashes' \in 0..MaxCrashes
      /\ UNCHANGED <<sent, next, db>>
  BY MaxCrashesAssumption DEF Crash, IInv, TypeOK, ServerOK
<1>6. /\ ppc' = [p \in Persisters |-> "idle"] /\ batch' = [p \in Persisters |-> {}]
      /\ mark' = [p \in Persisters |-> 0] /\ seen' = [p \in Persisters |-> 0]
      /\ rpc' = "idle" /\ want' = {} /\ have' = {}
  BY DEF Crash
<1>7. \A t \in Tasks : t # NoTask
  BY TasksAssumption DEF Tasks, NoTask
<1>8. PersistersOK' /\ MarkInv'
  BY <1>6, MaxSeqAssumption DEF PersistersOK, MarkInv
<1> USE <1>2, <1>3, <1>4, <1>5, MaxSeqAssumption
<1>9. TypeOK'
  <2>1. MapsOK' BY DEF MapsOK
  <2>2. ChainOK' BY DEF IInv, TypeOK, ChainOK
  <2>3. TasksOK' BY DEF TasksOK, TaskPCs
  <2>4. HeadOK' BY DEF HeadOK
  <2>5. AppliedOK' /\ DigestOK' BY DEF AppliedOK, DigestOK
  <2>6. ServerOK'
    BY <1>6 DEF ServerOK
  <2> QED BY <1>8, <2>1, <2>2, <2>3, <2>4, <2>5, <2>6 DEF TypeOK
<1>10. CurInv' /\ LockInv' /\ DigestInv'
  BY <1>7 DEF CurInv, LockInv, InAdvance, DigestInv
<1>11. AdvInv' /\ BufferInv'
  BY DEF AdvInv, BufferInv, Seqs
<1>12. DurableInv' /\ Recoverable' /\ AppliedIsTracked'
  BY DEF DurableInv, Known, Recoverable, AppliedIsTracked, Seqs
<1>13. RangeComplete'
  BY <1>6 DEF RangeComplete
<1> QED BY <1>8, <1>9, <1>10, <1>11, <1>12, <1>13 DEF IInv

-----------------------------------------------------------------------------
LEMMA InitIInv == Init => IInv
<1> SUFFICES ASSUME Init PROVE IInv OBVIOUS
<1>1. \A t \in Tasks : t # NoTask
  BY TasksAssumption DEF Tasks, NoTask
<1>2. TypeOK
  <2>1. ChainOK /\ MapsOK /\ HeadOK /\ DigestOK /\ AppliedOK
    BY MaxSeqAssumption
    DEF Init, ChainOK, MapsOK, HeadOK, DigestOK, AppliedOK, Seqs
  <2>2. TasksOK /\ PersistersOK /\ ServerOK
    BY MaxSeqAssumption, MaxCrashesAssumption
    DEF Init, TasksOK, TaskPCs, PersistersOK, ServerOK
  <2> QED BY <2>1, <2>2 DEF TypeOK
<1>3. CurInv /\ LockInv /\ AdvInv /\ DigestInv
  BY <1>1 DEF Init, CurInv, LockInv, InAdvance, AdvInv, DigestInv
<1>4. BufferInv /\ MarkInv /\ RangeComplete
  BY DEF Init, BufferInv, MarkInv, RangeComplete
<1>5. DurableInv /\ Recoverable /\ AppliedIsTracked
  BY DEF Init, DurableInv, Known, Recoverable, AppliedIsTracked, Seqs
<1> QED BY <1>2, <1>3, <1>4, <1>5 DEF IInv

LEMMA StutterIInv == IInv /\ UNCHANGED vars => IInv'
<1> SUFFICES ASSUME IInv, UNCHANGED vars PROVE IInv' OBVIOUS
<1> USE DEF IInv, vars, chainVars, memVars, taskVars, persVars, serveVars
<1>1. TypeOK'
  BY DEF TypeOK, ChainOK, MapsOK, HeadOK, DigestOK, AppliedOK, TasksOK,
         PersistersOK, ServerOK
<1>2. CurInv' /\ LockInv' /\ AdvInv' /\ DigestInv' /\ BufferInv' /\ MarkInv'
  BY DEF CurInv, LockInv, AdvInv, DigestInv, BufferInv, MarkInv
<1>3. DurableInv' /\ Recoverable' /\ AppliedIsTracked' /\ RangeComplete'
  BY DEF DurableInv, Known, Recoverable, AppliedIsTracked, RangeComplete
<1> QED BY <1>1, <1>2, <1>3

LEMMA NextIInv == IInv /\ [Next]_vars => IInv'
<1> SUFFICES ASSUME IInv, [Next]_vars PROVE IInv' OBVIOUS
<1>1. ASSUME NEW t \in Workers, NEW s \in Seqs, Deliver(t, s) PROVE IInv'
  BY <1>1, DeliverStep
<1>2. ASSUME NEW t \in Writers, CreateLocal(t) PROVE IInv'
  BY <1>2, CreateLocalStep
<1>3. ASSUME NEW t \in Tasks, TaskStep(t) PROVE IInv'
  BY <1>3, PresenceStep, ClaimStep, ApplyStep, StoreBufferStep,
     TrackUnpersistedStep, AdvanceContiguousStep, AdvanceOtherStep,
     FoldDigestStep, PublishHeadStep, PruneBufferStep, SendStep DEF TaskStep
<1>4. ASSUME NEW B \in SUBSET Seqs, TakeBatch(B) \/ ScanOrphans(B) PROVE IInv'
  BY <1>4, TakeBatchStep
<1>5. ASSUME NEW p \in Persisters, PersistStep(p) PROVE IInv'
  BY <1>5, InsertStep, UnmarkStep, MarkReadStep, MarkDropStep DEF PersistStep
<1>6. CASE ServeFromBuffer \/ ServeFromStorage
  BY <1>6, ServeStep
<1>7. CASE Crash
  BY <1>7, CrashStep
<1>8. CASE UNCHANGED vars
  BY <1>8, StutterIInv
<1> QED BY <1>1, <1>2, <1>3, <1>4, <1>5, <1>6, <1>7, <1>8 DEF Next

LEMMA InvariantHolds == Spec => []IInv
BY InitIInv, NextIInv, PTL DEF Spec

\* Type correctness: in particular no task leaves the labels of its function
\* and no map ever holds a key outside the chain.
THEOREM TypeCorrect == Spec => []TypeOK
<1>1. IInv => TypeOK BY DEF IInv
<1> QED BY <1>1, InvariantHolds, PTL

\* The rolling digest folds each event of the prefix once and in order, and
\* matches the head whenever nobody is inside advance_head: for any number of
\* concurrent inserts, flushes, marks and restarts.
THEOREM DigestCorrect == Spec => []DigestCoversHead
<1>1. IInv => DigestCoversHead
  <2> SUFFICES ASSUME IInv PROVE DigestCoversHead OBVIOUS
  <2>1. DOMAIN digest = 1..Len(digest)
    BY LenProperties DEF IInv, TypeOK, DigestOK
  <2> QED BY <2>1 DEF IInv, AdvInv, DigestInv, DigestCoversHead
<1> QED BY <1>1, InvariantHolds, PTL

\* The head stands exactly before a gap whenever nobody moves it.
THEOREM HeadMaximal == Spec => []HeadIsMaximal
<1>1. IInv => HeadIsMaximal
  BY DEF IInv, TypeOK, HeadOK, MapsOK, Seqs, AdvInv, HeadIsMaximal
<1> QED BY <1>1, InvariantHolds, PTL

\* An event that counts in a balance is durable, or tracked for the orphan
\* detector with its body still in the buffer, or about to be.
THEOREM AppliedRecoverable == Spec => []Recoverable
<1>1. IInv => Recoverable BY DEF IInv
<1> QED BY <1>1, InvariantHolds, PTL

\* No event that counts in a balance is lost between head and pending set.
THEOREM AppliedTracked == Spec => []AppliedIsTracked
<1>1. IInv => AppliedIsTracked BY DEF IInv
<1> QED BY <1>1, InvariantHolds, PTL

\* The two-step range read returns every event under the advertised head.
THEOREM RangeIsComplete == Spec => []RangeComplete
<1>1. IInv => RangeComplete BY DEF IInv
<1> QED BY <1>1, InvariantHolds, PTL

\* Only the fold extends the digest and only its publication moves the head.
LEMMA HeadDigestStep ==
  ASSUME IInv, IInv', [Next]_vars, crashes' = crashes
  PROVE  head' >= head /\ Len(digest') >= Len(digest)
<1> USE DEF chainVars, memVars, persVars, serveVars, taskVars
<1>0. /\ head \in Nat /\ Len(digest) \in Nat
      /\ head' \in Nat /\ Len(digest') \in Nat
  BY MaxSeqAssumption, LenProperties DEF IInv, TypeOK, HeadOK, DigestOK
<1>1. CASE UNCHANGED <<head, digest>>
  BY <1>0, <1>1
<1>2. ASSUME NEW t \in Tasks, FoldDigest(t) PROVE head' >= head /\ Len(digest') >= Len(digest)
  <2>1. /\ lock = t /\ lock # NoTask /\ lock' = lock /\ pc'[lock'] = "publish"
        /\ head' = head /\ range' = range
    BY <1>2, TasksAssumption
    DEF FoldDigest, IInv, LockInv, InAdvance, Goto, TypeOK, TasksOK, Tasks, NoTask
  <2>2. Len(digest) = range.lo - 1 /\ range.lo <= range.hi /\ range.lo \in Seqs
    BY <1>2, <2>1 DEF FoldDigest, IInv, AdvInv
  <2>3. Len(digest') = range.hi
    BY <2>1 DEF IInv, AdvInv
  <2> QED BY <1>0, <2>1, <2>2, <2>3 DEF IInv, TypeOK, HeadOK, Seqs
<1>3. ASSUME NEW t \in Tasks, PublishHead(t) PROVE head' >= head /\ Len(digest') >= Len(digest)
  <2>1. lock = t /\ lock # NoTask /\ head' = range.hi /\ digest' = digest
    BY <1>3, TasksAssumption DEF PublishHead, IInv, LockInv, InAdvance, Tasks, NoTask
  <2>2. head = range.lo - 1 /\ range.lo <= range.hi /\ range.lo \in Seqs
    BY <1>3, <2>1 DEF PublishHead, IInv, AdvInv
  <2> QED BY <1>0, <2>1, <2>2 DEF IInv, TypeOK, HeadOK, Seqs
<1>4. ASSUME NEW t \in Tasks, TaskStep(t), ~FoldDigest(t), ~PublishHead(t)
      PROVE UNCHANGED <<head, digest>>
  BY <1>4 DEF TaskStep, LookInBuffer, LookInPending, LookUnderHead, Claim, Apply,
     StoreBuffer, TrackUnpersisted, AdvanceContiguous, AdvanceOther, PruneBuffer, Send
<1>5. ASSUME NEW p \in Persisters, PersistStep(p) PROVE UNCHANGED <<head, digest>>
  BY <1>5 DEF PersistStep, InsertBulk, InsertFails, Unmark, MarkReadHead,
     MarkReadPending, MarkDrop, MarkNext, MarkDone
<1>6. ~Crash
  BY MaxCrashesAssumption DEF Crash, IInv, TypeOK, ServerOK
<1>7. ASSUME NEW B \in SUBSET Seqs, TakeBatch(B) \/ ScanOrphans(B)
      PROVE UNCHANGED <<head, digest>>
  BY <1>7 DEF TakeBatch, ScanOrphans
<1>8. ASSUME NEW t \in Tasks, (\E s \in Seqs : Deliver(t, s)) \/ CreateLocal(t)
      PROVE UNCHANGED <<head, digest>>
  BY <1>8 DEF Deliver, CreateLocal
<1>9. CASE ServeFromBuffer \/ ServeFromStorage \/ UNCHANGED vars
  BY <1>1, <1>9 DEF ServeFromBuffer, ServeFromStorage, vars
<1> QED
  BY <1>1, <1>2, <1>3, <1>4, <1>5, <1>6, <1>7, <1>8, <1>9 DEF Next, Tasks

\* Except across a restart, heads that peers have seen never go back and the
\* digest they compare is only ever extended.
THEOREM HeadsAdvance == Spec => HeadAdvances
<1>1. ASSUME IInv, IInv', [Next]_vars
      PROVE  [crashes' = crashes =>
                /\ head' >= head
                /\ Len(digest') >= Len(digest)
                /\ \A i \in DOMAIN digest : digest'[i] = digest[i]]_vars
  <2> SUFFICES ASSUME crashes' = crashes
               PROVE  /\ head' >= head
                      /\ Len(digest') >= Len(digest)
                      /\ \A i \in DOMAIN digest : digest'[i] = digest[i]
    OBVIOUS
  <2>1. head' >= head /\ Len(digest') >= Len(digest)
    BY <1>1, HeadDigestStep
  <2>2. /\ DOMAIN digest = 1..Len(digest)
        /\ Len(digest) \in Nat /\ Len(digest') \in Nat
    BY <1>1, LenProperties DEF IInv, TypeOK, DigestOK
  <2>3. \A i \in DOMAIN digest : digest'[i] = digest[i]
    BY <1>1, <2>1, <2>2 DEF IInv, DigestInv
  <2> QED BY <2>1, <2>3
<1> QED BY <1>1, InvariantHolds, PTL DEF Spec, HeadAdvances

-----------------------------------------------------------------------------
(* Nothing is left behind in the buffer.                                   *)

\* An event marked for the orphan detector is known to the head machinery.
UnpInv == \A s \in unp : Known(s)

\* A task that has yet to mark s, or has yet to advance over it.
TaskHas(s) ==
  \E t \in Tasks : cur[t] = s /\ \/ pc[t] \in {"apply", "store", "unp"}
                                 \/ pc[t] = "advance" /\ s > head

\* A persister that is going to drop s.
WillDrop(s) ==
  \E p \in Persisters : mark[p] = s /\ \/ ppc[p] = "head" /\ s <= head
                                       \/ ppc[p] = "pend" /\ s <= seen[p]
                                       \/ ppc[p] = "drop"

\* Whatever is buffered without being pending has somebody who will remove it:
\* the persister that finds it marked, the advance that prunes its range, the
\* task that still has to mark it or to advance over it, or the persister that
\* has just unmarked it.
LeakInv ==
  \A s \in buffer : \/ s \in pending \/ s \in unp
                    \/ lock # NoTask /\ s \in range.lo..range.hi
                    \/ TaskHas(s) \/ WillDrop(s)

\* A step that leaves the maps alone, and everybody who matters where he is.
LEMMA LeakFrame ==
  ASSUME UnpInv, LeakInv,
         UNCHANGED <<buffer, unp, pending, head, lock, range>>,
         \A t \in Tasks : pc[t] \in {"apply", "store", "unp", "advance"} =>
            /\ cur'[t] = cur[t]
            /\ pc'[t] = pc[t] \/ (pc[t] # "advance" /\ pc'[t] \in {"apply", "store", "unp"}),
         \A p \in Persisters : ppc[p] \in {"head", "pend", "drop"} =>
            ppc'[p] = ppc[p] /\ mark'[p] = mark[p] /\ seen'[p] = seen[p]
  PROVE  UnpInv' /\ LeakInv'
<1>1. \A s : Known(s) => Known(s)'
  BY DEF Known
<1>2. \A s : TaskHas(s) => TaskHas(s)'
  BY DEF TaskHas
<1>3. \A s : WillDrop(s) => WillDrop(s)'
  BY DEF WillDrop
<1>4. UnpInv'
  BY <1>1 DEF UnpInv
<1>5. LeakInv'
  BY <1>2, <1>3 DEF LeakInv
<1> QED BY <1>4, <1>5

\* Moves between labels that no clause speaks of.
LEMMA LeakQuiet ==
  ASSUME IInv, UnpInv, LeakInv, NEW t \in Tasks,
         \/ \E s \in Seqs : Deliver(t, s)
         \/ LookInBuffer(t) \/ LookInPending(t) \/ LookUnderHead(t)
         \/ Apply(t) \/ FoldDigest(t) \/ Send(t) \/ CreateLocal(t)
  PROVE  UnpInv' /\ LeakInv'
<1>1. UNCHANGED <<buffer, unp, pending, head, lock, range, persVars>>
  BY DEF Deliver, LookInBuffer, LookInPending, LookUnderHead, Apply, FoldDigest, Send,
         CreateLocal, memVars, chainVars
<1>2. pc \in [Tasks -> TaskPCs] /\ cur \in [Tasks -> 0..MaxSeq]
  BY DEF IInv, TypeOK, TasksOK
<1>3. \A u \in Tasks : pc[u] \in {"apply", "store", "unp", "advance"} =>
         /\ cur'[u] = cur[u]
         /\ pc'[u] = pc[u] \/ (pc[u] # "advance" /\ pc'[u] \in {"apply", "store", "unp"})
  BY <1>2
  DEF Deliver, LookInBuffer, LookInPending, LookUnderHead, Apply, FoldDigest, Send,
      CreateLocal, Goto, Begin
<1> QED BY <1>1, <1>3, LeakFrame DEF persVars

\* Steps of the writers and the range server that touch no map.
LEMMA LeakServe ==
  ASSUME IInv, UnpInv, LeakInv,
         \/ \E B \in SUBSET Seqs : TakeBatch(B) \/ ScanOrphans(B)
         \/ \E p \in Persisters : InsertBulk(p) \/ InsertFails(p) \/ MarkDone(p)
         \/ ServeFromBuffer \/ ServeFromStorage \/ UNCHANGED vars
  PROVE  UnpInv' /\ LeakInv'
<1>1. UNCHANGED <<buffer, unp, pending, head, lock, range, pc, cur, mark, seen>>
  BY DEF TakeBatch, ScanOrphans, InsertBulk, InsertFails, MarkDone, ServeFromBuffer,
         ServeFromStorage, vars, memVars, taskVars, persVars
<1>2. ppc \in [Persisters -> {"idle", "insert", "unmark", "head", "pend", "drop"}]
  BY DEF IInv, TypeOK, PersistersOK
<1>3. \A p \in Persisters : ppc[p] \in {"head", "pend", "drop"} => ppc'[p] = ppc[p]
  BY <1>2
  DEF TakeBatch, ScanOrphans, InsertBulk, InsertFails, MarkDone, ServeFromBuffer,
      ServeFromStorage, vars, persVars, PGoto, Persisters
<1> QED BY <1>1, <1>3, LeakFrame

LEMMA LeakEnter ==
  ASSUME IInv, UnpInv, LeakInv, NEW t \in Tasks,
         Claim(t) \/ StoreBuffer(t) \/ TrackUnpersisted(t)
  PROVE  UnpInv' /\ LeakInv'
<1>1. pc \in [Tasks -> TaskPCs] /\ cur \in [Tasks -> 0..MaxSeq]
  BY DEF IInv, TypeOK, TasksOK
<1>2. UNCHANGED <<pending, head, lock, range, ppc, mark, seen>>
  BY DEF Claim, StoreBuffer, TrackUnpersisted, persVars
<1>3. \A s : WillDrop(s) => WillDrop(s)'
  BY <1>2 DEF WillDrop
<1>4. CASE Claim(t)
  <2>1. \A u \in Tasks \ {t} : pc'[u] = pc[u] /\ cur'[u] = cur[u]
    BY <1>1, <1>4 DEF Claim, Goto
  <2>2. \A s : (Known(s) => Known(s)') /\ (TaskHas(s) => TaskHas(s)')
    BY <1>2, <1>4, <2>1 DEF Known, TaskHas, Claim
  <2>3. \A s \in buffer' : s \in buffer \/ TaskHas(s)'
    BY <1>1, <1>4 DEF Claim, Goto, TaskHas
  <2> QED BY <1>2, <1>3, <1>4, <2>2, <2>3 DEF UnpInv, LeakInv, Claim
<1>5. CASE StoreBuffer(t)
  <2>1. /\ \A u \in Tasks \ {t} : pc'[u] = pc[u] /\ cur'[u] = cur[u]
        /\ pc'[t] = "unp" /\ cur'[t] = cur[t]
    BY <1>1, <1>5 DEF StoreBuffer, Goto
  <2>2. \A s : (Known(s) => Known(s)') /\ (TaskHas(s) => TaskHas(s)')
    BY <1>2, <1>5, <2>1 DEF Known, TaskHas, StoreBuffer
  <2>3. \A s \in buffer' : s \in buffer \/ TaskHas(s)'
    BY <1>5, <2>1 DEF StoreBuffer, TaskHas
  <2> QED BY <1>2, <1>3, <1>5, <2>2, <2>3 DEF UnpInv, LeakInv, StoreBuffer
<1>6. CASE TrackUnpersisted(t)
  <2>1. /\ \A u \in Tasks \ {t} : pc'[u] = pc[u] /\ cur'[u] = cur[u]
        /\ pc'[t] = "advance" /\ cur'[t] = cur[t] /\ unp' = unp \cup {cur[t]}
        /\ buffer' = buffer
    BY <1>1, <1>6 DEF TrackUnpersisted, Goto
  <2>2. \A s : Known(s) => Known(s)'
    BY <1>2, <1>6, <2>1 DEF Known, TrackUnpersisted
  <2>3. \A s : TaskHas(s) => TaskHas(s)' \/ s \in unp'
    BY <1>2, <2>1 DEF TaskHas
  <2>4. Known(cur[t])'
    BY <2>1 DEF Known
  <2> QED BY <1>2, <1>3, <2>1, <2>2, <2>3, <2>4 DEF UnpInv, LeakInv
<1> QED BY <1>4, <1>5, <1>6

LEMMA LeakAdvance ==
  ASSUME IInv, IInv', UnpInv, LeakInv, NEW t \in Tasks,
         AdvanceContiguous(t) \/ AdvanceOther(t)
  PROVE  UnpInv' /\ LeakInv'
<1>1. /\ pc \in [Tasks -> TaskPCs] /\ cur \in [Tasks -> 0..MaxSeq]
      /\ head \in 0..MaxSeq /\ pending \subseteq Seqs
  BY DEF IInv, TypeOK, TasksOK, HeadOK, MapsOK
<1>2. UNCHANGED <<buffer, unp, head, ppc, mark, seen>> /\ lock = NoTask
  BY DEF AdvanceContiguous, AdvanceOther, persVars
<1>3. \A s : WillDrop(s) => WillDrop(s)'
  BY <1>2 DEF WillDrop
<1>4. \A u \in Tasks \ {t} : pc'[u] = pc[u] /\ cur'[u] = cur[u]
  BY <1>1 DEF AdvanceContiguous, AdvanceOther, Goto
<1>5. CASE AdvanceContiguous(t)
  <2>1. PICK n \in Seqs : /\ Drained(cur[t], n)
                          /\ pending' = pending \ (cur[t] + 1 .. n)
                          /\ range' = [lo |-> cur[t], hi |-> n]
    BY <1>5 DEF AdvanceContiguous
  <2>2. lock' # NoTask /\ range'.lo = cur[t] /\ range'.hi = n /\ cur[t] <= n
    BY <1>1, <1>5, <2>1, TasksAssumption DEF AdvanceContiguous, Tasks, NoTask, Drained, Seqs
  <2>3. \A s \in pending : s \in pending' \/ s \in range'.lo..range'.hi
    BY <1>1, <2>1, <2>2 DEF Seqs
  <2>4. cur[t] \in range'.lo..range'.hi
    BY <1>1, <2>2 DEF Seqs
  <2>5. \A s : Known(s) => Known(s)'
    BY <1>2, <1>4, <2>2, <2>3, <2>4 DEF Known
  <2>6. \A s : TaskHas(s) => TaskHas(s)' \/ s \in range'.lo..range'.hi
    BY <1>2, <1>4, <2>4 DEF TaskHas
  <2> QED BY <1>2, <1>3, <2>2, <2>3, <2>5, <2>6 DEF UnpInv, LeakInv
<1>6. CASE AdvanceOther(t)
  <2>1. UNCHANGED <<lock, range>> /\ pending \subseteq pending'
        /\ (cur[t] > head => cur[t] \in pending')
    BY <1>1, <1>6 DEF AdvanceOther
  <2>2. \A s : Known(s) => Known(s)'
    BY <1>1, <1>2, <1>4, <2>1 DEF Known
  <2>3. \A s : TaskHas(s) => TaskHas(s)' \/ s \in pending'
    BY <1>2, <1>4, <1>6, <2>1 DEF TaskHas, AdvanceOther
  <2> QED BY <1>2, <1>3, <2>1, <2>2, <2>3 DEF UnpInv, LeakInv
<1> QED BY <1>5, <1>6

\* The head is published before the range is pruned, so a persister that has
\* read an older head leaves the event to the prune.
LEMMA LeakPublish ==
  ASSUME IInv, IInv', UnpInv, LeakInv, NEW t \in Tasks, PublishHead(t)
  PROVE  UnpInv' /\ LeakInv'
<1>1. /\ pc \in [Tasks -> TaskPCs] /\ cur \in [Tasks -> 0..MaxSeq]
      /\ head \in 0..MaxSeq /\ pending \subseteq Seqs /\ unp \subseteq Seqs
      /\ buffer \subseteq Seqs /\ range.hi \in 0..MaxSeq
  BY DEF IInv, TypeOK, TasksOK, HeadOK, MapsOK
<1>2. UNCHANGED <<buffer, unp, pending, lock, range, ppc, mark, seen>> /\ head' = range.hi
  BY DEF PublishHead, persVars
<1>3. lock = t /\ lock # NoTask /\ pc[t] = "publish"
  BY TasksAssumption DEF PublishHead, IInv, LockInv, InAdvance, Tasks, NoTask
<1>4. head = range.lo - 1 /\ range.lo <= range.hi /\ range.lo \in Seqs
  BY <1>3 DEF IInv, AdvInv
<1>5. \A u \in Tasks \ {t} : pc'[u] = pc[u] /\ cur'[u] = cur[u]
  BY <1>1 DEF PublishHead, Goto
<1>6. \A s \in Seqs : Known(s) => Known(s)'
  BY <1>1, <1>2, <1>3, <1>4, <1>5 DEF Known, Seqs
<1>7. \A s \in Seqs : TaskHas(s) => TaskHas(s)' \/ s \in range.lo..range.hi
  BY <1>1, <1>2, <1>3, <1>4, <1>5 DEF TaskHas, Seqs
<1>8. \A s \in Seqs : WillDrop(s) => WillDrop(s)'
  BY <1>1, <1>2, <1>4 DEF WillDrop, Seqs
<1> QED BY <1>1, <1>2, <1>3, <1>6, <1>7, <1>8 DEF UnpInv, LeakInv

LEMMA LeakPrune ==
  ASSUME IInv, UnpInv, LeakInv, NEW t \in Tasks, PruneBuffer(t)
  PROVE  UnpInv' /\ LeakInv'
<1>1. /\ pc \in [Tasks -> TaskPCs] /\ cur \in [Tasks -> 0..MaxSeq]
      /\ head \in 0..MaxSeq /\ range.lo \in Int /\ range.hi \in 0..MaxSeq
  BY MaxSeqAssumption DEF IInv, TypeOK, TasksOK, HeadOK
<1>2. UNCHANGED <<unp, pending, head, ppc, mark, seen>>
  BY DEF PruneBuffer, persVars
<1>3. lock = t /\ lock # NoTask /\ pc[t] = "prune"
  BY TasksAssumption DEF PruneBuffer, IInv, LockInv, InAdvance, Tasks, NoTask
<1>4. head = range.hi
  BY <1>3 DEF IInv, AdvInv
<1>5. \A u \in Tasks \ {t} : pc'[u] = pc[u] /\ cur'[u] = cur[u]
  BY <1>1 DEF PruneBuffer, Goto
<1>6. \A s : Known(s) => Known(s)'
  BY <1>1, <1>2, <1>3, <1>4, <1>5 DEF Known
<1>7. \A s : TaskHas(s) => TaskHas(s)'
  BY <1>2, <1>3, <1>5 DEF TaskHas
<1>8. \A s : WillDrop(s) => WillDrop(s)'
  BY <1>2 DEF WillDrop
<1>9. buffer' = {s \in buffer : s \in range.lo..range.hi => s \in unp}
  BY DEF PruneBuffer
<1> QED BY <1>2, <1>6, <1>7, <1>8, <1>9 DEF UnpInv, LeakInv

\* mark_persisted clears `unpersisted` before it reads the head.
LEMMA LeakMark ==
  ASSUME IInv, UnpInv, LeakInv, NEW p \in Persisters,
         Unmark(p) \/ MarkReadHead(p) \/ MarkReadPending(p) \/ MarkDrop(p)
  PROVE  UnpInv' /\ LeakInv'
<1>1. /\ ppc \in [Persisters -> {"idle", "insert", "unmark", "head", "pend", "drop"}]
      /\ mark \in [Persisters -> 0..MaxSeq] /\ seen \in [Persisters -> 0..MaxSeq]
      /\ head \in 0..MaxSeq /\ unp \subseteq Seqs /\ batch \in [Persisters -> SUBSET Seqs]
  BY DEF IInv, TypeOK, PersistersOK, HeadOK, MapsOK
<1>2. UNCHANGED <<pending, head, lock, range, pc, cur>>
  BY DEF Unmark, MarkReadHead, MarkReadPending, MarkDrop, memVars, taskVars
<1>3. \A s : (Known(s) => Known(s)') /\ (TaskHas(s) => TaskHas(s)')
  BY <1>2 DEF Known, TaskHas
<1>4. \A q \in Persisters \ {p} : ppc'[q] = ppc[q] /\ mark'[q] = mark[q] /\ seen'[q] = seen[q]
  BY <1>1 DEF Unmark, MarkReadHead, MarkReadPending, MarkDrop, MarkNext, PGoto
<1>5. CASE Unmark(p)
  <2>1. PICK s \in batch[p] : unp' = unp \ {s} /\ mark' = [mark EXCEPT ![p] = s]
    BY <1>5 DEF Unmark
  <2>2. ppc'[p] = "head" /\ mark'[p] = s /\ buffer' = buffer /\ s \in Seqs
    BY <1>1, <1>5, <2>1 DEF Unmark, PGoto
  <2>3. \A r : WillDrop(r) => WillDrop(r)'
    BY <1>2, <1>4, <1>5 DEF WillDrop, Unmark
  <2>4. UnpInv'
    BY <1>3, <2>1 DEF UnpInv
  <2>5. s \in unp => \/ s \in pending
                     \/ lock # NoTask /\ s \in range.lo..range.hi
                     \/ TaskHas(s) \/ s <= head
    BY <1>1, <2>2 DEF UnpInv, Known, TaskHas, Seqs
  <2>6. s <= head => WillDrop(s)'
    BY <1>2, <2>2 DEF WillDrop
  <2>7. LeakInv'
    BY <1>2, <1>3, <2>1, <2>2, <2>3, <2>5, <2>6 DEF LeakInv
  <2> QED BY <2>4, <2>7
<1>6. CASE MarkReadHead(p)
  <2>1. ppc'[p] = "pend" /\ mark'[p] = mark[p] /\ seen'[p] = head /\ ppc[p] = "head"
        /\ UNCHANGED <<unp, buffer>>
    BY <1>1, <1>6 DEF MarkReadHead, PGoto, memVars
  <2>2. \A r : WillDrop(r) => WillDrop(r)'
    BY <1>2, <1>4, <2>1 DEF WillDrop
  <2> QED BY <1>2, <1>3, <2>1, <2>2 DEF UnpInv, LeakInv
<1>7. CASE MarkReadPending(p)
  <2>1. UNCHANGED <<unp, buffer>> /\ ppc[p] = "pend"
    BY <1>7 DEF MarkReadPending, memVars
  <2>2. mark[p] <= seen[p] => \/ ppc'[p] = "drop" /\ mark'[p] = mark[p]
                              \/ mark[p] \in pending
    BY <1>1, <1>7 DEF MarkReadPending, PGoto
  <2>3. \A r : WillDrop(r) => WillDrop(r)' \/ r \in pending
    BY <1>2, <1>4, <2>1, <2>2 DEF WillDrop
  <2> QED BY <1>2, <1>3, <2>1, <2>3 DEF UnpInv, LeakInv
<1>8. CASE MarkDrop(p)
  <2>1. UNCHANGED unp /\ ppc[p] = "drop" /\ buffer' = buffer \ {mark[p]}
    BY <1>8 DEF MarkDrop
  <2>2. \A r : WillDrop(r) => WillDrop(r)' \/ r = mark[p]
    BY <1>2, <1>4 DEF WillDrop
  <2> QED BY <1>2, <1>3, <2>1, <2>2 DEF UnpInv, LeakInv
<1> QED BY <1>5, <1>6, <1>7, <1>8

LEMMA LeakStep ==
  ASSUME IInv, IInv', UnpInv, LeakInv, [Next]_vars PROVE UnpInv' /\ LeakInv'
<1>1. ASSUME NEW t \in Tasks, TaskStep(t) PROVE UnpInv' /\ LeakInv'
  BY <1>1, LeakQuiet, LeakEnter, LeakAdvance, LeakPublish, LeakPrune DEF TaskStep
<1>2. ASSUME NEW t \in Tasks, (\E s \in Seqs : Deliver(t, s)) \/ CreateLocal(t)
      PROVE  UnpInv' /\ LeakInv'
  BY <1>2, LeakQuiet
<1>3. ASSUME NEW p \in Persisters, PersistStep(p) PROVE UnpInv' /\ LeakInv'
  BY <1>3, LeakServe, LeakMark DEF PersistStep
<1>4. CASE Crash
  BY <1>4 DEF Crash, Rebuilt, UnpInv, LeakInv
<1>5. ASSUME NEW B \in SUBSET Seqs, TakeBatch(B) \/ ScanOrphans(B) PROVE UnpInv' /\ LeakInv'
  BY <1>5, LeakServe
<1>6. CASE ServeFromBuffer \/ ServeFromStorage \/ UNCHANGED vars
  BY <1>6, LeakServe
<1> QED BY <1>1, <1>2, <1>3, <1>4, <1>5, <1>6 DEF Next, Tasks

\* Once nothing is in flight, only events beyond a gap stay buffered, for any
\* number of inserts, duplicate deliveries, failed flushes and restarts: the
\* order of the two sides' accesses (mark_persisted unmarks before it reads the
\* head, advance_head publishes before it prunes) is what makes it so.
THEOREM BufferDrains == Spec => []NoBufferLeak
<1>1. Init => UnpInv /\ LeakInv
  BY DEF Init, UnpInv, LeakInv
<1>2. IInv /\ IInv' /\ UnpInv /\ LeakInv /\ [Next]_vars => UnpInv' /\ LeakInv'
  BY LeakStep
<1>3. IInv /\ LeakInv => NoBufferLeak
  <2> SUFFICES ASSUME IInv, LeakInv, Quiescent PROVE buffer = pending
    BY DEF NoBufferLeak
  <2>1. lock = NoTask
    BY DEF IInv, TypeOK, HeadOK, LockInv, InAdvance, Quiescent
  <2>2. \A s : ~TaskHas(s) /\ ~WillDrop(s)
    BY DEF TaskHas, WillDrop, Quiescent
  <2> QED BY <2>1, <2>2 DEF LeakInv, Quiescent, IInv, BufferInv
<1> QED BY <1>1, <1>2, <1>3, InvariantHolds, PTL DEF Spec

=============================================================================
