------------------------- MODULE IdempotencyProofs -------------------------
(***************************************************************************)
(* Corrections never cancel both duplicates: whatever number of nodes,     *)
(* workers and requests, crashes and failed lookups included, an event     *)
(* that is corrected has an older one of its key (OldestStands).           *)
(*                                                                         *)
(* A worker corrects on the strength of an event it read from the cache    *)
(* some steps before.  The invariant says that this event is, and stays, a *)
(* rival of the one it inserts: another event of the same key.  Two events *)
(* of a key differ in rank, so the loser of the two is not the oldest.     *)
(*                                                                         *)
(* Nor do they leave two: without crashes and failures, and with one task  *)
(* per node inserting events, exactly one event of every key is left once  *)
(* everything has been exchanged, so a charge counts once (ChargedOnce)    *)
(* and one reservation holds funds (OneHoldLeft).  The invariant says that *)
(* some node watches the key: the one that created its first event had     *)
(* nothing of it in hand, so it compares all others with what it           *)
(* remembers.  The voided events and the voids of them that are left pair  *)
(* off, which is how the sum comes out without counting corrections.       *)
(***************************************************************************)
EXTENDS Idempotency, FiniteSetTheorems, FunctionTheorems, SequenceTheorems, TLAPS

Tasks == Nodes \X Workers
Events == {e \in Seq(Steps) : Len(e) >= 1}

IdemOK ==
  /\ minted \subseteq Events
  /\ known \in [Nodes -> SUBSET minted] /\ db \in [Nodes -> SUBSET minted]
  /\ cache \in [Nodes -> SUBSET minted]
  /\ pc \in [Tasks -> PCs]
  /\ ev \in [Tasks -> Seq(Steps)] /\ other \in [Tasks -> Seq(Steps)]
  /\ mine \in [Tasks -> Seq(Steps)]

\* Another event of the same key.
Rival(f, e) == f \in minted /\ Key(f) = Key(e) /\ f # e

\* What a worker has read it may rely on.
RivalInv ==
  \A t \in Tasks :
    /\ pc[t] # "idle" => ev[t] \in minted
    /\ pc[t] = "write" => other[t] = NoEvent \/ Rival(other[t], ev[t])
    /\ pc[t] \notin {"idle", "read", "write"} => Rival(other[t], ev[t])
    /\ pc[t] \in {"recvoid", "recrelease"} => mine[t] \in minted

IdemInv == IdemOK /\ RivalInv /\ OldestStands

-----------------------------------------------------------------------------
(* Events as paths                                                         *)

LEMMA AppendParts ==
  ASSUME NEW k \in Seq(Steps), NEW x \in Steps
  PROVE  /\ Append(k, x) \in Events /\ Len(Append(k, x)) = Len(k) + 1
         /\ Target(Append(k, x)) = k
<1>1. /\ Append(k, x) \in Seq(Steps) /\ Len(Append(k, x)) = Len(k) + 1
      /\ \A i \in 1..Len(k) : Append(k, x)[i] = k[i]
  BY AppendProperties
<1>2. Len(k) \in Nat
  BY LenProperties
<1>3. Target(Append(k, x)) = k
  <2>1. Target(Append(k, x)) = SubSeq(Append(k, x), 1, Len(k))
    BY <1>1, <1>2 DEF Target
  <2> QED BY <1>1, <1>2, <2>1
<1> QED BY <1>1, <1>2, <1>3 DEF Events

LEMMA RankTellsApart ==
  ASSUME NEW e \in Events, NEW f \in Events, Key(e) = Key(f), Rank(e) = Rank(f)
  PROVE  e = f
<1>1. /\ e \in Seq(Steps) /\ f \in Seq(Steps) /\ Len(e) \in Nat /\ Len(f) \in Nat
      /\ Len(e) >= 1 /\ Len(f) >= 1
  BY LenProperties DEF Events
<1>2. SubSeq(e, 1, Len(e) - 1) = SubSeq(f, 1, Len(f) - 1) /\ e[Len(e)][1] = f[Len(f)][1]
  BY DEF Key, Target, Kind
<1>3. Len(e) = Len(f)
  BY <1>1, <1>2
<1>4. \A i \in 1..(Len(e) - 1) : e[i] = f[i]
  BY <1>1, <1>2, <1>3
<1>5. e[Len(e)] = f[Len(f)]
  <2>1. e[Len(e)] \in Steps /\ f[Len(f)] \in Steps
    BY <1>1
  <2> QED BY <1>2, <2>1 DEF Rank, Steps
<1>6. \A i \in 1..Len(e) : e[i] = f[i]
  BY <1>1, <1>3, <1>4, <1>5
<1> QED BY <1>1, <1>3, <1>6, SeqEqual

LEMMA RanksAreNumbers ==
  ASSUME NEW e \in Events
  PROVE  Rank(e) \in Nat
<1>1. e[Len(e)] \in Steps
  BY LenProperties DEF Events
<1> QED BY <1>1, PlansAssumption DEF Rank, Steps

\* Of two rivals the older one wins.
LEMMA LoserIsNotOldest ==
  ASSUME NEW e \in Events, NEW f \in Events, Key(f) = Key(e), f # e
  PROVE  /\ Loser(f, e) \in {e, f} /\ Winner(f, e) \in {e, f}
         /\ Older(Winner(f, e), Loser(f, e))
<1>1. Rank(e) # Rank(f) /\ Rank(e) \in Nat /\ Rank(f) \in Nat
  BY RankTellsApart, RanksAreNumbers
<1> QED BY <1>1 DEF Loser, Winner, Older

-----------------------------------------------------------------------------
(* Steps                                                                   *)

LEMMA IdemInitially == Init => IdemInv
<1> SUFFICES ASSUME Init PROVE IdemInv OBVIOUS
<1>1. <<>> \in Seq(Steps)
  BY EmptySeq
<1>2. IdemOK
  BY <1>1 DEF Init, IdemOK, Tasks, PCs, NoEvent
<1>3. RivalInv /\ OldestStands
  BY DEF Init, RivalInv, OldestStands, Tasks
<1> QED BY <1>2, <1>3 DEF IdemInv

\* Steps that create no event and leave the workers alone.
LEMMA StorageStep ==
  ASSUME IdemInv, UNCHANGED <<minted, workerVars>>,
         known' \in [Nodes -> SUBSET minted], db' \in [Nodes -> SUBSET minted],
         cache' \in [Nodes -> SUBSET minted]
  PROVE  IdemInv'
<1> USE DEF IdemInv, workerVars
<1>1. IdemOK'
  BY DEF IdemOK
<1>2. RivalInv'
  BY DEF RivalInv, Rival
<1>3. OldestStands'
  BY DEF OldestStands
<1> QED BY <1>1, <1>2, <1>3

LEMMA PutKeeps ==
  ASSUME IdemInv, NEW n \in Nodes, NEW e \in minted, Put(n, e)
  PROVE  cache' \in [Nodes -> SUBSET minted]
BY DEF IdemInv, IdemOK, Put

LEMMA ClientStep ==
  ASSUME IdemInv, NEW n \in Nodes,
         ClientHit(n) \/ ClientMiss(n) \/ ClientDb(n) \/ ClientDbFails(n) \/ ClientRefused(n)
  PROVE  IdemInv'
<1>0. /\ known \in [Nodes -> SUBSET minted] /\ db \in [Nodes -> SUBSET minted]
      /\ cache \in [Nodes -> SUBSET minted]
  BY DEF IdemInv, IdemOK
<1>1. UNCHANGED <<minted, workerVars, known, db>>
  BY DEF ClientHit, ClientMiss, ClientDb, ClientDbFails, ClientRefused, vars, workerVars
<1>2. cache' \in [Nodes -> SUBSET minted]
  <2>1. CASE UNCHANGED cache
    BY <1>0, <2>1
  <2>2. ASSUME NEW e \in Stored(n, RequestKey), Put(n, e)
        PROVE  cache' \in [Nodes -> SUBSET minted]
    <3>1. e \in minted
      BY <1>0 DEF Stored
    <3> QED BY <2>2, <3>1, PutKeeps
  <2> QED BY <2>1, <2>2 DEF ClientHit, ClientMiss, ClientDb, ClientDbFails, ClientRefused, vars
<1> QED BY <1>0, <1>1, <1>2, StorageStep

\* A new event: the oldest still stands if the event is the client's or corrects
\* the loser of two rivals.
LEMMA MintKeeps ==
  ASSUME IdemInv, NEW n \in Nodes, NEW k \in Seq(Steps), NEW x \in Steps,
         minted' = minted \cup {Append(k, x)},
         known' = [known EXCEPT ![n] = @ \cup {Append(k, x)}],
         db' = db, cache' \in [Nodes -> SUBSET minted'],
         k = <<>> \/ \E f \in minted : Key(f) = Key(k) /\ Older(f, k)
  PROVE  /\ minted' \subseteq Events /\ known' \in [Nodes -> SUBSET minted']
         /\ db' \in [Nodes -> SUBSET minted'] /\ OldestStands'
<1> DEFINE e == Append(k, x)
<1>1. e \in Events /\ Len(e) = Len(k) + 1 /\ Target(e) = k
  BY AppendParts
<1>2. /\ minted \subseteq Events /\ known \in [Nodes -> SUBSET minted]
      /\ db \in [Nodes -> SUBSET minted]
  BY DEF IdemInv, IdemOK
<1>3. minted' \subseteq Events
  BY <1>1, <1>2
<1> HIDE DEF e
<1>4. minted' = minted \cup {e} /\ known' = [known EXCEPT ![n] = @ \cup {e}]
  BY DEF e
<1>5. known' \in [Nodes -> SUBSET minted'] /\ db' \in [Nodes -> SUBSET minted']
  BY <1>2, <1>4
<1>6. OldestStands'
  <2> SUFFICES ASSUME NEW d \in minted', Len(d) > 1
               PROVE  \E f \in minted' : Key(f) = Key(Target(d)) /\ Older(f, Target(d))
    BY DEF OldestStands
  <2>1. CASE d \in minted
    BY <1>4, <2>1 DEF IdemInv, OldestStands
  <2>2. CASE d = e
    <3>1. k # <<>>
      BY <1>1, <2>2
    <3> QED BY <1>1, <1>4, <2>2, <3>1
  <2> QED BY <1>4, <2>1, <2>2
<1> QED BY <1>3, <1>5, <1>6

LEMMA ClientApplyStep ==
  ASSUME IdemInv, NEW n \in Nodes, ClientApply(n)
  PROVE  IdemInv'
<1>1. PICK r \in Ranks :
        /\ known' = [known EXCEPT ![n] = @ \cup {<<<<"create", r>>>>}]
        /\ minted' = minted \cup {<<<<"create", r>>>>}
        /\ Put(n, <<<<"create", r>>>>)
  BY DEF ClientApply
<1> DEFINE x == <<"create", r>>
           e == Append(<<>>, x)
<1>2. e = <<x>> /\ x \in Steps /\ <<>> \in Seq(Steps)
  BY EmptySeq DEF Steps, Kinds
<1>3. db' = db /\ UNCHANGED workerVars
  BY DEF ClientApply
<1> HIDE DEF x
<1>4. /\ known' = [known EXCEPT ![n] = @ \cup {e}] /\ minted' = minted \cup {e} /\ Put(n, e)
  BY <1>1, <1>2 DEF x
<1>5. cache' \in [Nodes -> SUBSET minted']
  BY <1>4 DEF Put, IdemInv, IdemOK
<1>6. /\ minted' \subseteq Events /\ known' \in [Nodes -> SUBSET minted']
      /\ db' \in [Nodes -> SUBSET minted'] /\ OldestStands'
  BY <1>2, <1>3, <1>4, <1>5, MintKeeps
<1>7. IdemOK'
  BY <1>3, <1>5, <1>6 DEF IdemInv, IdemOK, workerVars
<1>8. RivalInv'
  BY <1>3, <1>4 DEF IdemInv, RivalInv, Rival, workerVars
<1> QED BY <1>6, <1>7, <1>8 DEF IdemInv

-----------------------------------------------------------------------------
(* Workers                                                                 *)

RivalFits(l, e, f, m) ==
  /\ l # "idle" => e \in minted
  /\ l = "write" => f = NoEvent \/ Rival(f, e)
  /\ l \notin {"idle", "read", "write"} => Rival(f, e)
  /\ l \in {"recvoid", "recrelease"} => m \in minted

\* A step of one worker that creates no event.
LEMMA TaskStep ==
  ASSUME IdemInv, NEW t \in Tasks, NEW l \in PCs,
         NEW e \in Seq(Steps), NEW f \in Seq(Steps), NEW m \in Seq(Steps),
         pc' = [pc EXCEPT ![t] = l], ev' = [ev EXCEPT ![t] = e],
         other' = [other EXCEPT ![t] = f], mine' = [mine EXCEPT ![t] = m],
         RivalFits(l, e, f, m), UNCHANGED <<minted, db>>,
         known' \in [Nodes -> SUBSET minted], cache' \in [Nodes -> SUBSET minted]
  PROVE  IdemInv'
<1>1. IdemOK'
  BY DEF IdemInv, IdemOK
<1>2. /\ \A s \in Tasks \ {t} : /\ pc'[s] = pc[s] /\ ev'[s] = ev[s] /\ other'[s] = other[s]
                                /\ mine'[s] = mine[s]
      /\ pc'[t] = l /\ ev'[t] = e /\ other'[t] = f /\ mine'[t] = m
  BY DEF IdemInv, IdemOK
<1>3. RivalInv'
  <2> SUFFICES ASSUME NEW s \in Tasks
               PROVE  RivalFits(pc'[s], ev'[s], other'[s], mine'[s])
    BY DEF RivalInv, RivalFits, Rival
  <2>1. CASE s = t
    BY <1>2, <2>1
  <2>2. CASE s # t
    BY <1>2, <2>2 DEF IdemInv, RivalInv, RivalFits
  <2> QED BY <2>1, <2>2
<1>4. OldestStands'
  BY DEF IdemInv, OldestStands
<1> QED BY <1>1, <1>3, <1>4 DEF IdemInv

\* Moving on with what was read, or to the end.
LEMMA GotoKeeps ==
  ASSUME IdemInv, NEW t \in Tasks, NEW l \in PCs \ {"write", "recvoid", "recrelease"}, Goto(t, l),
         l # "idle" => pc[t] # "idle" /\ Rival(other[t], ev[t]),
         UNCHANGED <<minted, db, known>>, cache' \in [Nodes -> SUBSET minted]
  PROVE  IdemInv'
<1>0. /\ ev[t] \in Seq(Steps) /\ other[t] \in Seq(Steps) /\ NoEvent \in Seq(Steps)
      /\ known \in [Nodes -> SUBSET minted]
  BY EmptySeq DEF IdemInv, IdemOK, NoEvent
<1>1. CASE l = "idle"
  <2>1. /\ pc' = [pc EXCEPT ![t] = l] /\ ev' = [ev EXCEPT ![t] = NoEvent]
        /\ other' = [other EXCEPT ![t] = NoEvent] /\ mine' = [mine EXCEPT ![t] = NoEvent]
    BY <1>1 DEF Goto
  <2>2. RivalFits(l, NoEvent, NoEvent, NoEvent)
    BY <1>1 DEF RivalFits
  <2> QED BY <1>0, <2>1, <2>2, TaskStep
<1>2. CASE l # "idle"
  <2> DEFINE e == ev[t]
             f == other[t]
  <2>1. /\ pc' = [pc EXCEPT ![t] = l] /\ ev' = [ev EXCEPT ![t] = e]
        /\ other' = [other EXCEPT ![t] = f] /\ mine' = [mine EXCEPT ![t] = NoEvent]
    BY <1>2 DEF Goto
  <2>2. RivalFits(l, e, f, NoEvent)
    BY <1>2 DEF RivalFits, IdemInv, RivalInv
  <2>3. e \in Seq(Steps) /\ f \in Seq(Steps)
    BY <1>0
  <2> HIDE DEF e, f
  <2> QED BY <1>0, <2>1, <2>2, <2>3, TaskStep
<1> QED BY <1>1, <1>2

LEMMA ReceiveStep ==
  ASSUME IdemInv, NEW n \in Nodes, NEW w \in Workers, NEW e \in minted, Receive(n, w, e)
  PROVE  IdemInv'
<1> DEFINE t == <<n, w>>
           f == other[t]
           m == mine[t]
<1>1. t \in Tasks /\ f \in Seq(Steps) /\ m \in Seq(Steps) /\ e \in Seq(Steps)
  BY DEF Tasks, IdemInv, IdemOK, Events
<1>2. /\ pc' = [pc EXCEPT ![t] = "read"] /\ ev' = [ev EXCEPT ![t] = e]
      /\ other' = other /\ mine' = mine /\ UNCHANGED <<minted, db, cache>>
      /\ known' = [known EXCEPT ![n] = @ \cup {e}]
  BY DEF Receive
<1>3. /\ other' = [other EXCEPT ![t] = f] /\ mine' = [mine EXCEPT ![t] = m]
      /\ known' \in [Nodes -> SUBSET minted] /\ cache' \in [Nodes -> SUBSET minted]
  BY <1>1, <1>2 DEF IdemInv, IdemOK
<1>4. RivalFits("read", e, f, m) /\ "read" \in PCs
  BY DEF RivalFits, PCs
<1> HIDE DEF t, f, m
<1> QED BY <1>1, <1>2, <1>3, <1>4, TaskStep

LEMMA ReadStep ==
  ASSUME IdemInv, NEW n \in Nodes, NEW w \in Workers, ReadCache(n, w)
  PROVE  IdemInv'
<1> DEFINE t == <<n, w>>
           e == ev[t]
           m == mine[t]
           found == Cached(n, Key(e)) \ {e}
           f == IF found = {} THEN NoEvent ELSE CHOOSE d \in found : TRUE
<1>1. t \in Tasks /\ e \in Seq(Steps) /\ m \in Seq(Steps) /\ e \in minted
  BY DEF Tasks, IdemInv, IdemOK, RivalInv, ReadCache
<1>2. /\ pc' = [pc EXCEPT ![t] = "write"] /\ other' = [other EXCEPT ![t] = f]
      /\ UNCHANGED <<ev, mine, minted, db, cache, known>>
  BY DEF ReadCache
<1>3. /\ ev' = [ev EXCEPT ![t] = e] /\ mine' = [mine EXCEPT ![t] = m]
      /\ known' \in [Nodes -> SUBSET minted] /\ cache' \in [Nodes -> SUBSET minted]
  BY <1>1, <1>2 DEF IdemInv, IdemOK
<1>4. f \in Seq(Steps) /\ (f = NoEvent \/ Rival(f, e))
  <2>1. CASE found = {}
    BY <2>1, EmptySeq DEF NoEvent
  <2>2. CASE found # {}
    <3>1. f \in found
      BY <2>2
    <3>2. \A d \in found : Rival(d, e) /\ d \in Seq(Steps)
      BY DEF Cached, Rival, IdemInv, IdemOK, Events
    <3> QED BY <3>1, <3>2
  <2> QED BY <2>1, <2>2
<1>5. RivalFits("write", e, f, m) /\ "write" \in PCs
  BY <1>1, <1>4 DEF RivalFits, PCs
<1> HIDE DEF t, e, f, m
<1> QED BY <1>1, <1>2, <1>3, <1>4, <1>5, TaskStep

LEMMA WriteStep ==
  ASSUME IdemInv, NEW n \in Nodes, NEW w \in Workers, WriteCache(n, w)
  PROVE  IdemInv'
<1> DEFINE t == <<n, w>>
<1>1. t \in Tasks /\ ev[t] \in minted /\ (other[t] = NoEvent \/ Rival(other[t], ev[t]))
  BY DEF Tasks, IdemInv, RivalInv, WriteCache
<1>2. UNCHANGED <<minted, db, known>> /\ {"idle", "void"} \subseteq PCs /\ pc[t] = "write"
  BY DEF WriteCache, PCs
<1>3. CASE other[t] = NoEvent
  <2>1. Put(n, ev[t]) /\ Goto(t, "idle")
    BY <1>3 DEF WriteCache
  <2>2. cache' \in [Nodes -> SUBSET minted]
    BY <1>1, <2>1, PutKeeps
  <2> HIDE DEF t
  <2> QED BY <1>1, <1>2, <2>1, <2>2, GotoKeeps
<1>4. CASE other[t] # NoEvent
  <2>1. Put(n, Winner(other[t], ev[t])) /\ Goto(t, "void")
    BY <1>4 DEF WriteCache
  <2>2. Rival(other[t], ev[t])
    BY <1>1, <1>4
  <2>3. Winner(other[t], ev[t]) \in minted
    BY <1>1, <2>2 DEF Winner, Rival
  <2>4. cache' \in [Nodes -> SUBSET minted]
    BY <2>1, <2>3, PutKeeps
  <2> HIDE DEF t
  <2> QED BY <1>1, <1>2, <2>1, <2>2, <2>4, GotoKeeps
<1> QED BY <1>3, <1>4

\* The checks before a correction, and giving it up.
LEMMA CheckStep ==
  ASSUME IdemInv, NEW n \in Nodes, NEW w \in Workers,
         \/ CheckVoidCache(n, w) \/ CheckVoidDb(n, w) \/ VoidDbFails(n, w)
         \/ AllocFails(n, w) \/ CheckRelease(n, w)
  PROVE  IdemInv'
<1> DEFINE t == <<n, w>>
<1>1. t \in Tasks
  BY DEF Tasks
<1>2. /\ UNCHANGED <<minted, db, known, cache>>
      /\ pc[t] \in {"void", "voiddb", "mintvoid", "mintrelease", "release"}
      /\ \E l \in {"idle", "voiddb", "mintvoid", "mintrelease"} : Goto(t, l)
  BY DEF CheckVoidCache, CheckVoidDb, VoidDbFails, AllocFails, CheckRelease
<1>3. PICK l \in {"idle", "voiddb", "mintvoid", "mintrelease"} : Goto(t, l)
  BY <1>2
<1>4. l \in PCs \ {"write", "recvoid", "recrelease"}
  BY <1>3 DEF PCs
<1>5. Rival(other[t], ev[t])
  BY <1>1, <1>2 DEF IdemInv, RivalInv
<1>6. cache' \in [Nodes -> SUBSET minted]
  BY <1>2 DEF IdemInv, IdemOK
<1> HIDE DEF t
<1> QED BY <1>1, <1>2, <1>3, <1>4, <1>5, <1>6, GotoKeeps

LEMMA RecordStep ==
  ASSUME IdemInv, NEW n \in Nodes, NEW w \in Workers, RecordVoid(n, w) \/ RecordRelease(n, w)
  PROVE  IdemInv'
<1> DEFINE t == <<n, w>>
<1>1. t \in Tasks
  BY DEF Tasks
<1>2. pc[t] \in {"recvoid", "recrelease"} /\ \E l \in {"idle", "release"} : CacheOwn(n, w, l)
  BY DEF RecordVoid, RecordRelease
<1>3. PICK l \in {"idle", "release"} : CacheOwn(n, w, l)
  BY <1>2
<1>4. UNCHANGED <<minted, db, known>> /\ Put(n, mine[t]) /\ Goto(t, l)
  BY <1>3 DEF CacheOwn
<1>5. mine[t] \in minted /\ Rival(other[t], ev[t])
  BY <1>1, <1>2 DEF IdemInv, RivalInv
<1>6. cache' \in [Nodes -> SUBSET minted]
  BY <1>4, <1>5, PutKeeps
<1>7. l \in PCs \ {"write", "recvoid", "recrelease"}
  BY <1>3 DEF PCs
<1> HIDE DEF t
<1> QED BY <1>1, <1>2, <1>4, <1>5, <1>6, <1>7, GotoKeeps

LEMMA CorrectionStep ==
  ASSUME IdemInv, NEW n \in Nodes, NEW w \in Workers, MintVoid(n, w) \/ MintRelease(n, w)
  PROVE  IdemInv'
<1> DEFINE t == <<n, w>>
           loser == LoserOf(n, w)
<1>1. t \in Tasks
  BY DEF Tasks
<1>2. PICK kind \in {"void", "release"}, l \in {"recvoid", "recrelease"} :
        Mint(n, w, <<loser, kind>>, l) /\ pc[t] \in {"mintvoid", "mintrelease"}
  BY DEF MintVoid, MintRelease, VoidKey, ReleaseKey
<1>3. PICK r \in Ranks :
        /\ known' = [known EXCEPT ![n] = @ \cup {Append(loser, <<kind, r>>)}]
        /\ minted' = minted \cup {Append(loser, <<kind, r>>)}
        /\ mine' = [mine EXCEPT ![t] = Append(loser, <<kind, r>>)]
  BY <1>2 DEF Mint
<1>4. /\ pc' = [pc EXCEPT ![t] = l] /\ UNCHANGED <<db, cache, ev, other>>
  BY <1>2 DEF Mint
<1>5. ev[t] \in minted /\ Rival(other[t], ev[t]) /\ minted \subseteq Events
  BY <1>1, <1>2 DEF IdemInv, IdemOK, RivalInv
<1>6. loser = Loser(other[t], ev[t])
  BY DEF LoserOf
<1>7. /\ loser \in {ev[t], other[t]} /\ Winner(other[t], ev[t]) \in {ev[t], other[t]}
      /\ Older(Winner(other[t], ev[t]), loser)
  BY <1>5, <1>6, LoserIsNotOldest DEF Rival
<1>8. loser \in Seq(Steps) /\ \E f \in minted : Key(f) = Key(loser) /\ Older(f, loser)
  BY <1>5, <1>7 DEF Rival, Events
<1> DEFINE x == <<kind, r>>
<1>9. x \in Steps
  BY <1>2 DEF Steps, Kinds
<1> HIDE DEF x, loser, t
<1>10. /\ known' = [known EXCEPT ![n] = @ \cup {Append(loser, x)}]
       /\ minted' = minted \cup {Append(loser, x)} /\ db' = db
       /\ mine' = [mine EXCEPT ![t] = Append(loser, x)]
  BY <1>3, <1>4 DEF x
<1>11. cache' \in [Nodes -> SUBSET minted']
  BY <1>4, <1>10 DEF IdemInv, IdemOK
<1>12. /\ minted' \subseteq Events /\ known' \in [Nodes -> SUBSET minted']
       /\ db' \in [Nodes -> SUBSET minted'] /\ OldestStands'
  BY <1>8, <1>9, <1>10, <1>11, MintKeeps
<1>13. Append(loser, x) \in Seq(Steps)
  BY <1>8, <1>9, AppendProperties
<1>14. IdemOK'
  BY <1>1, <1>2, <1>4, <1>10, <1>11, <1>12, <1>13 DEF IdemInv, IdemOK, PCs
<1>15. RivalInv'
  <2> SUFFICES ASSUME NEW s \in Tasks
               PROVE  /\ pc'[s] # "idle" => ev[s] \in minted'
                      /\ pc'[s] = "write" => other[s] = NoEvent \/ Rival(other[s], ev[s])
                      /\ pc'[s] \notin {"idle", "read", "write"} => Rival(other[s], ev[s])
                      /\ pc'[s] \in {"recvoid", "recrelease"} => mine'[s] \in minted'
    BY <1>4, <1>10 DEF RivalInv, Rival
  <2>1. CASE s = t
    BY <1>2, <1>4, <1>5, <1>10, <2>1 DEF IdemInv, IdemOK
  <2>2. CASE s # t
    BY <1>4, <1>10, <2>2 DEF IdemInv, IdemOK, RivalInv
  <2> QED BY <2>1, <2>2
<1> QED BY <1>12, <1>14, <1>15 DEF IdemInv

LEMMA RestartStep ==
  ASSUME IdemInv, NEW n \in Nodes, Restart(n)
  PROVE  IdemInv'
<1>1. NoEvent \in Seq(Steps) /\ "idle" \in PCs
  BY EmptySeq DEF NoEvent, PCs
<1>2. IdemOK'
  BY <1>1 DEF IdemInv, IdemOK, Restart
<1>3. UNCHANGED minted
  BY DEF Restart
<1>4. \A t \in Tasks : \/ pc'[t] = "idle"
                       \/ /\ pc'[t] = pc[t] /\ ev'[t] = ev[t] /\ other'[t] = other[t]
                          /\ mine'[t] = mine[t]
  BY DEF Restart, IdemInv, IdemOK
<1>5. RivalInv'
  BY <1>3, <1>4 DEF IdemInv, RivalInv, Rival
<1>6. OldestStands'
  BY <1>3 DEF IdemInv, OldestStands
<1> QED BY <1>2, <1>5, <1>6 DEF IdemInv

LEMMA PersistStep ==
  ASSUME IdemInv, NEW n \in Nodes, NEW e \in known[n], Persist(n, e)
  PROVE  IdemInv'
<1>1. /\ UNCHANGED <<minted, workerVars, known, cache>>
      /\ db' = [db EXCEPT ![n] = @ \cup {e}]
  BY DEF Persist
<1>2. db' \in [Nodes -> SUBSET minted] /\ known' \in [Nodes -> SUBSET minted]
      /\ cache' \in [Nodes -> SUBSET minted]
  BY <1>1 DEF IdemInv, IdemOK
<1> QED BY <1>1, <1>2, StorageStep

LEMMA IdemStep ==
  ASSUME IdemInv, [Next]_vars
  PROVE  IdemInv'
<1>1. CASE UNCHANGED vars
  BY <1>1, StorageStep DEF vars, workerVars, IdemInv, IdemOK
<1>2. ASSUME NEW n \in Nodes, NEW w \in Workers, WorkerStep(n, w)
      PROVE  IdemInv'
  BY <1>2, ReadStep, WriteStep, CheckStep, CorrectionStep, RecordStep DEF WorkerStep
<1> QED BY <1>1, <1>2, ClientStep, ClientApplyStep, ReceiveStep, RestartStep, PersistStep DEF Next

\* The nodes never correct the oldest event of a key, whatever number of them accepted the
\* request, and crashes, failed lookups and given-up corrections included
\* (check_idempotency_conflict, idempotency_winner, apply_correction_event).
THEOREM OldestIsSpared == Spec => []OldestStands
<1>1. IdemInv => OldestStands
  BY DEF IdemInv
<1>2. IdemInv /\ [Next]_vars => IdemInv'
  BY IdemStep
<1> QED BY <1>1, <1>2, IdemInitially, PTL DEF Spec

-----------------------------------------------------------------------------
(* Every duplicate but one is corrected                                    *)

Quiet == faults = 0 /\ crashes = 0

\* Where events come from.
LineInv ==
  /\ cpc \in [Nodes -> {"idle", "db", "apply"}] /\ IsFiniteSet(minted)
  /\ \A e \in minted : \/ Len(e) = 1 /\ Kind(e) = "create"
                       \/ Len(e) > 1 /\ Kind(e) \in {"void", "release"} /\ Target(e) \in minted
  /\ minted # {} => \E e \in minted : Kind(e) = "create"
  /\ ~plan.hold => /\ \A e \in minted : Corrections(e)
                   /\ \A t \in Tasks : pc[t] \notin {"release", "mintrelease", "recrelease"}

\* A task about to void has no void of the loser in its cache; what it inserts is known.
AloneAt(n, w) ==
  /\ pc[<<n, w>>] \in {"read", "write"} => ev[<<n, w>>] \in known[n]
  /\ pc[<<n, w>>] \in {"voiddb", "mintvoid", "recvoid"} => Cached(n, VoidKey(n, w)) = {}
  /\ pc[<<n, w>>] = "recvoid" => Key(mine[<<n, w>>]) = VoidKey(n, w)
  /\ pc[<<n, w>>] = "recrelease" => Key(mine[<<n, w>>]) = ReleaseKey(n, w)
AloneInv == \A n \in Nodes, w \in Workers : AloneAt(n, w)

\* Without crashes no event is lost.
HeldInv == \A e \in minted : \E n \in Nodes : e \in known[n]

Voided(e) == \E v \in minted : Key(v) = <<e, "void">>
Released(e) == \E f \in minted : Key(f) = <<e, "release">>

\* The node inserts e; it is about to void e.
InHand(n, e) == \E w \in Workers : pc[<<n, w>>] \in {"read", "write"} /\ ev[<<n, w>>] = e
Voiding(n, e) ==
  \E w \in Workers : pc[<<n, w>>] \in {"void", "voiddb", "mintvoid"} /\ LoserOf(n, w) = e

\* A node that watches key k remembers the oldest event c it has met of it, compares every
\* event it inserts with c, and has voided, or is about to void, every other one it knows.
Remembers(r, k, c) ==
  \/ Cached(r, k) = {c}
  \/ \E w \in Workers : pc[<<r, w>>] = "recvoid" /\ mine[<<r, w>>] = c
Meets(r, k, c) ==
  \A w \in Workers :
    pc[<<r, w>>] \in {"read", "write"} /\ Key(ev[<<r, w>>]) = k =>
      ev[<<r, w>>] # c /\ (pc[<<r, w>>] = "write" => other[<<r, w>>] = c)
Sorted(r, c, e) == e = c \/ InHand(r, e) \/ (Older(c, e) /\ (Voided(e) \/ Voiding(r, e)))
Watches(r, k, c) ==
  /\ c \in known[r] /\ Key(c) = k /\ Remembers(r, k, c) /\ Meets(r, k, c)
  /\ k = RequestKey => cpc[r] = "idle"
  /\ \A e \in known[r] : Key(e) = k => Sorted(r, c, e)

\* Some node watches, from the first event of the key on.
Watched(k) == \E r \in Nodes : \E c \in known[r] : Watches(r, k, c)
WatchInv == \A e \in minted : Kind(e) # "release" => Watched(Key(e))

\* A release follows the void of a reservation.
Releasing(e) ==
  \E n \in Nodes, w \in Workers :
    pc[<<n, w>>] \in {"recvoid", "release", "mintrelease"} /\ LoserOf(n, w) = e
ReleaseInv ==
  plan.hold =>
    \A v \in minted : Kind(v) = "void" /\ Kind(Target(v)) = "create" =>
      Released(Target(v)) \/ Releasing(Target(v))

Orderly == LineInv /\ AloneInv /\ HeldInv /\ WatchInv /\ ReleaseInv
DupInv == faults \in Nat /\ crashes \in Nat /\ (Quiet => Orderly)

\* One task of each node inserts events.
OneTask == \A v, w \in Workers : v = w

\* What a step of another node leaves alone.
Undisturbed(r) ==
  /\ known'[r] = known[r] /\ cache'[r] = cache[r] /\ cpc'[r] = cpc[r] /\ minted \subseteq minted'
  /\ \A w \in Workers : /\ pc'[<<r, w>>] = pc[<<r, w>>] /\ ev'[<<r, w>>] = ev[<<r, w>>]
                        /\ other'[<<r, w>>] = other[<<r, w>>] /\ mine'[<<r, w>>] = mine[<<r, w>>]

LEMMA AppendKind ==
  ASSUME NEW k \in Seq(Steps), NEW x \in Steps
  PROVE  /\ Kind(Append(k, x)) = x[1] /\ Rank(Append(k, x)) = x[2]
         /\ Key(Append(k, x)) = <<k, x[1]>>
<1>1. Len(Append(k, x)) = Len(k) + 1 /\ Append(k, x)[Len(k) + 1] = x
  BY AppendProperties
<1> QED BY <1>1, AppendParts DEF Kind, Rank, Key

\* A task with a correction in hand has two events to compare.
LEMMA RivalFacts ==
  ASSUME IdemInv, NEW n \in Nodes, NEW w \in Workers, pc[<<n, w>>] \notin {"idle", "read", "write"}
  PROVE  /\ LoserOf(n, w) \in minted /\ LoserOf(n, w) \in Events
         /\ LoserOf(n, w) = Loser(other[<<n, w>>], ev[<<n, w>>])
         /\ LoserOf(n, w) \in {other[<<n, w>>], ev[<<n, w>>]}
<1>1. <<n, w>> \in Tasks /\ minted \subseteq Events
  BY DEF Tasks, IdemInv, IdemOK
<1>2. ev[<<n, w>>] \in minted /\ Rival(other[<<n, w>>], ev[<<n, w>>])
  BY <1>1 DEF IdemInv, RivalInv
<1> QED BY <1>1, <1>2 DEF LoserOf, Loser, Rival

\* Task w of node n creates correction e of the loser, and goes to l.
Creates(n, w, e, kind, l) ==
  /\ e \notin minted /\ Key(e) = <<LoserOf(n, w), kind>> /\ Kind(e) = kind
  /\ Target(e) = LoserOf(n, w) /\ Len(e) > 1
  /\ (Corrections(LoserOf(n, w)) /\ kind = "void" => Corrections(e))
  /\ known' = [known EXCEPT ![n] = @ \cup {e}] /\ minted' = minted \cup {e}
  /\ mine' = [mine EXCEPT ![<<n, w>>] = e] /\ pc' = [pc EXCEPT ![<<n, w>>] = l]
  /\ mine'[<<n, w>>] = e /\ pc'[<<n, w>>] = l /\ LoserOf(n, w)' = LoserOf(n, w)
  /\ UNCHANGED <<db, cache, cpc, ev, other, crashes, faults>>

LEMMA MintFacts ==
  ASSUME IdemInv, NEW n \in Nodes, NEW w \in Workers, pc[<<n, w>>] \notin {"idle", "read", "write"},
         NEW kind \in {"void", "release"}, NEW l, Mint(n, w, <<LoserOf(n, w), kind>>, l)
  PROVE  \E e \in Events : Creates(n, w, e, kind, l)
<1> DEFINE loser == LoserOf(n, w)
<1>1. loser \in Events
  BY RivalFacts
<1>2. PICK r \in Ranks :
        /\ Fresh(<<loser, kind>>, Append(loser, <<kind, r>>))
        /\ known' = [known EXCEPT ![n] = @ \cup {Append(loser, <<kind, r>>)}]
        /\ minted' = minted \cup {Append(loser, <<kind, r>>)}
        /\ mine' = [mine EXCEPT ![<<n, w>>] = Append(loser, <<kind, r>>)]
  BY DEF Mint
<1> DEFINE x == <<kind, r>>
           e == Append(loser, x)
<1>3. x \in Steps /\ x[1] = kind
  BY DEF Steps, Kinds
<1>4. e \notin minted
  BY <1>2 DEF Fresh
<1>5. pc' = [pc EXCEPT ![<<n, w>>] = l] /\ UNCHANGED <<db, cache, cpc, ev, other, crashes, faults>>
  BY DEF Mint
<1>6. /\ known' = [known EXCEPT ![n] = @ \cup {e}] /\ minted' = minted \cup {e}
      /\ mine' = [mine EXCEPT ![<<n, w>>] = e]
  BY <1>2
<1> HIDE DEF x
<1>7. loser \in Seq(Steps) /\ Len(loser) \in Nat /\ Len(loser) >= 1
  BY <1>1, LenProperties DEF Events
<1> HIDE DEF loser
<1>8. /\ e \in Events /\ Len(e) = Len(loser) + 1 /\ Target(e) = loser
      /\ Kind(e) = kind /\ Key(e) = <<loser, kind>>
  BY <1>3, <1>7, AppendParts, AppendKind
<1>9. Corrections(loser) /\ kind = "void" => Corrections(e)
  <2>1. \A i \in 1..Len(loser) : e[i] = loser[i]
    BY <1>3, <1>7, AppendProperties
  <2>2. e[Len(loser) + 1] = x
    BY <1>3, <1>7, AppendProperties
  <2>3. \A i \in 1..(Len(loser) + 1) : i \in 1..Len(loser) \/ i = Len(loser) + 1
    BY <1>7
  <2> QED BY <1>3, <1>8, <2>1, <2>2, <2>3 DEF Corrections
<1> HIDE DEF e
<1>10. Len(e) > 1
  BY <1>7, <1>8
<1>11. /\ e \notin minted /\ Key(e) = <<LoserOf(n, w), kind>> /\ Kind(e) = kind
       /\ Target(e) = LoserOf(n, w)
       /\ (Corrections(LoserOf(n, w)) /\ kind = "void" => Corrections(e))
  BY <1>4, <1>8, <1>9 DEF loser
<1>12. mine'[<<n, w>>] = e /\ pc'[<<n, w>>] = l /\ LoserOf(n, w)' = LoserOf(n, w)
  BY <1>5, <1>6 DEF IdemInv, IdemOK, Tasks, LoserOf
<1> QED BY <1>5, <1>6, <1>8, <1>10, <1>11, <1>12 DEF Creates

\* A new event of the client.
LEMMA ApplyFacts ==
  ASSUME IdemInv, NEW n \in Nodes, ClientApply(n)
  PROVE  \E e \in Events :
           /\ Key(e) = RequestKey /\ Kind(e) = "create" /\ Len(e) = 1 /\ Corrections(e)
           /\ e \notin minted
           /\ known' = [known EXCEPT ![n] = @ \cup {e}] /\ minted' = minted \cup {e} /\ Put(n, e)
           /\ cpc' = [cpc EXCEPT ![n] = "idle"] /\ UNCHANGED <<workerVars, crashes, faults>>
<1>1. PICK r \in Ranks :
        /\ known' = [known EXCEPT ![n] = @ \cup {<<<<"create", r>>>>}]
        /\ minted' = minted \cup {<<<<"create", r>>>>}
        /\ Put(n, <<<<"create", r>>>>) /\ Fresh(RequestKey, <<<<"create", r>>>>)
  BY DEF ClientApply
<1> DEFINE x == <<"create", r>>
           e == Append(<<>>, x)
<1>2. e = <<x>> /\ x \in Steps /\ <<>> \in Seq(Steps) /\ x[1] = "create"
  BY EmptySeq DEF Steps, Kinds
<1>3. e \notin minted
  BY <1>1, <1>2 DEF Fresh
<1> HIDE DEF x
<1>4. /\ known' = [known EXCEPT ![n] = @ \cup {e}] /\ minted' = minted \cup {e} /\ Put(n, e)
  BY <1>1, <1>2 DEF x
<1>5. e \in Events /\ Key(e) = RequestKey /\ Kind(e) = "create"
  BY <1>2, AppendParts, AppendKind DEF RequestKey
<1>6. Len(e) = 1 /\ e[1] = x
  BY <1>2
<1>7. Corrections(e)
  BY <1>2, <1>6 DEF Corrections
<1> HIDE DEF e
<1>8. cpc' = [cpc EXCEPT ![n] = "idle"] /\ UNCHANGED <<workerVars, crashes, faults>>
  BY DEF ClientApply
<1> QED BY <1>3, <1>4, <1>5, <1>6, <1>7, <1>8

LEMMA PutFacts ==
  ASSUME IdemInv, NEW n \in Nodes, NEW e, Put(n, e)
  PROVE  /\ Cached(n, Key(e))' = {e}
         /\ \A k : k # Key(e) => Cached(n, k)' = Cached(n, k)
         /\ \A m \in Nodes \ {n} : cache'[m] = cache[m]
<1>1. cache'[n] = {c \in cache[n] : Key(c) # Key(e)} \cup {e}
  BY DEF Put, IdemInv, IdemOK
<1> QED BY <1>1 DEF Put, IdemInv, IdemOK, Cached

-----------------------------------------------------------------------------
(* Steps without failures                                                  *)

CalmClient(n) == ClientHit(n) \/ ClientMiss(n) \/ ClientDb(n) \/ ClientRefused(n)
CalmTask(n, w) ==
  \/ ReadCache(n, w) \/ WriteCache(n, w) \/ CheckVoidCache(n, w) \/ CheckVoidDb(n, w)
  \/ MintVoid(n, w) \/ RecordVoid(n, w) \/ CheckRelease(n, w) \/ MintRelease(n, w)
  \/ RecordRelease(n, w)

\* The lookups: the task goes on, or finds what it looks for in the cache or the database.
Lookup(n, w) == CheckVoidCache(n, w) \/ CheckVoidDb(n, w) \/ CheckRelease(n, w)
LookupKey(n, w) == IF pc[<<n, w>>] = "release" THEN ReleaseKey(n, w) ELSE VoidKey(n, w)

LEMMA GotoFacts ==
  ASSUME IdemInv, NEW n \in Nodes, NEW w \in Workers, NEW l, Goto(<<n, w>>, l)
  PROVE  /\ pc'[<<n, w>>] = l
         /\ l # "idle" => /\ ev'[<<n, w>>] = ev[<<n, w>>] /\ other'[<<n, w>>] = other[<<n, w>>]
                          /\ LoserOf(n, w)' = LoserOf(n, w)
         /\ \A s \in Tasks \ {<<n, w>>} : /\ pc'[s] = pc[s] /\ ev'[s] = ev[s]
                                          /\ other'[s] = other[s] /\ mine'[s] = mine[s]
<1>1. <<n, w>> \in Tasks
  BY DEF Tasks
<1>2. /\ pc'[<<n, w>>] = l
      /\ l # "idle" => ev'[<<n, w>>] = ev[<<n, w>>] /\ other'[<<n, w>>] = other[<<n, w>>]
      /\ \A s \in Tasks \ {<<n, w>>} : /\ pc'[s] = pc[s] /\ ev'[s] = ev[s]
                                       /\ other'[s] = other[s] /\ mine'[s] = mine[s]
  BY <1>1 DEF Goto, IdemInv, IdemOK
<1> QED BY <1>2 DEF LoserOf

LEMMA LookupFacts ==
  ASSUME IdemInv, NEW n \in Nodes, NEW w \in Workers, Lookup(n, w)
  PROVE  /\ UNCHANGED <<known, db, cache, minted, cpc>>
         /\ pc[<<n, w>>] \in {"void", "voiddb", "release"}
         /\ \/ Goto(<<n, w>>, "idle") /\ \E v \in minted : Key(v) = LookupKey(n, w)
            \/ pc[<<n, w>>] = "void" /\ Goto(<<n, w>>, "voiddb") /\ Cached(n, VoidKey(n, w)) = {}
            \/ pc[<<n, w>>] = "voiddb" /\ Goto(<<n, w>>, "mintvoid")
            \/ pc[<<n, w>>] = "release" /\ Goto(<<n, w>>, "mintrelease")
<1>1. cache[n] \subseteq minted /\ db[n] \subseteq minted
  BY DEF IdemInv, IdemOK
<1>2. CASE CheckVoidCache(n, w)
  <2>1. UNCHANGED <<known, db, cache, minted, cpc>> /\ pc[<<n, w>>] = "void"
    BY <1>2 DEF CheckVoidCache
  <2>2. CASE Cached(n, VoidKey(n, w)) = {}
    BY <1>2, <2>1, <2>2 DEF CheckVoidCache
  <2>3. CASE Cached(n, VoidKey(n, w)) # {}
    <3>1. \E v \in minted : Key(v) = LookupKey(n, w)
      BY <1>1, <2>1, <2>3 DEF Cached, LookupKey
    <3> QED BY <1>2, <2>1, <2>3, <3>1 DEF CheckVoidCache
  <2> QED BY <2>2, <2>3
<1>3. CASE CheckVoidDb(n, w)
  <2>1. UNCHANGED <<known, db, cache, minted, cpc>> /\ pc[<<n, w>>] = "voiddb"
    BY <1>3 DEF CheckVoidDb
  <2>2. CASE Stored(n, VoidKey(n, w)) = {}
    BY <1>3, <2>1, <2>2 DEF CheckVoidDb
  <2>3. CASE Stored(n, VoidKey(n, w)) # {}
    <3>1. \E v \in minted : Key(v) = LookupKey(n, w)
      BY <1>1, <2>1, <2>3 DEF Stored, LookupKey
    <3> QED BY <1>3, <2>1, <2>3, <3>1 DEF CheckVoidDb
  <2> QED BY <2>2, <2>3
<1>4. CASE CheckRelease(n, w)
  <2>1. UNCHANGED <<known, db, cache, minted, cpc>> /\ pc[<<n, w>>] = "release"
    BY <1>4 DEF CheckRelease
  <2>2. CASE Cached(n, ReleaseKey(n, w)) = {}
    BY <1>4, <2>1, <2>2 DEF CheckRelease
  <2>3. CASE Cached(n, ReleaseKey(n, w)) # {}
    <3>1. \E v \in minted : Key(v) = LookupKey(n, w)
      BY <1>1, <2>1, <2>3 DEF Cached, LookupKey
    <3> QED BY <1>4, <2>1, <2>3, <3>1 DEF CheckRelease
  <2> QED BY <2>2, <2>3
<1> QED BY <1>2, <1>3, <1>4 DEF Lookup

\* A client's step, apart from the one that creates: at most a stored event of the request
\* enters the node's cache.
LEMMA ClientFacts ==
  ASSUME IdemInv, NEW n \in Nodes, CalmClient(n)
  PROVE  /\ UNCHANGED <<known, db, minted, workerVars>>
         /\ \/ UNCHANGED <<cache, cpc>>
            \/ /\ UNCHANGED cache /\ cpc' = [cpc EXCEPT ![n] = "db"]
               /\ Cached(n, RequestKey) = {}
            \/ /\ UNCHANGED cache /\ cpc[n] # "idle"
               /\ \E l \in {"idle", "apply"} : cpc' = [cpc EXCEPT ![n] = l]
            \/ /\ cpc' = [cpc EXCEPT ![n] = "idle"] /\ cpc[n] # "idle"
               /\ \E e \in minted : Key(e) = RequestKey /\ Put(n, e)
<1>1. CASE ClientHit(n)
  BY <1>1 DEF ClientHit, vars, workerVars
<1>2. CASE ClientMiss(n)
  BY <1>2 DEF ClientMiss
<1>3. CASE ClientDb(n)
  <2>1. UNCHANGED <<known, db, minted, workerVars>> /\ cpc[n] = "db"
    BY <1>3 DEF ClientDb
  <2>2. CASE Stored(n, RequestKey) = {}
    BY <1>3, <2>1, <2>2 DEF ClientDb
  <2>3. CASE Stored(n, RequestKey) # {}
    <3>1. cpc' = [cpc EXCEPT ![n] = "idle"] /\ \E e \in Stored(n, RequestKey) : Put(n, e)
      BY <1>3, <2>3 DEF ClientDb
    <3>2. Stored(n, RequestKey) \subseteq {e \in minted : Key(e) = RequestKey}
      BY DEF Stored, IdemInv, IdemOK
    <3> QED BY <2>1, <3>1, <3>2
  <2> QED BY <2>2, <2>3
<1>4. CASE ClientRefused(n)
  BY <1>4 DEF ClientRefused
<1> QED BY <1>1, <1>2, <1>3, <1>4 DEF CalmClient

LEMMA LocalClient ==
  ASSUME Orderly, IdemInv, NEW n \in Nodes, CalmClient(n) \/ ClientApply(n), NEW r \in Nodes \ {n}
  PROVE  Undisturbed(r)
<1>0. cpc \in [Nodes -> {"idle", "db", "apply"}] /\ known \in [Nodes -> SUBSET minted]
  BY DEF Orderly, LineInv, IdemInv, IdemOK
<1>1. CASE CalmClient(n)
  <2>1. UNCHANGED <<known, minted, workerVars>> /\ cpc'[r] = cpc[r]
    BY <1>0, <1>1, ClientFacts
  <2>2. cache'[r] = cache[r]
    BY <1>1, ClientFacts, PutFacts
  <2> QED BY <2>1, <2>2 DEF Undisturbed, workerVars
<1>2. CASE ClientApply(n)
  <2>1. PICK e \in Events :
          /\ known' = [known EXCEPT ![n] = @ \cup {e}] /\ minted' = minted \cup {e} /\ Put(n, e)
          /\ cpc' = [cpc EXCEPT ![n] = "idle"] /\ UNCHANGED workerVars
    BY <1>2, ApplyFacts
  <2>2. cache'[r] = cache[r]
    BY <2>1, PutFacts
  <2> QED BY <1>0, <2>1, <2>2 DEF Undisturbed, workerVars
<1> QED BY <1>1, <1>2

LEMMA LocalTask ==
  ASSUME IdemInv, NEW n \in Nodes, NEW w \in Workers, NEW r \in Nodes \ {n},
         CalmTask(n, w) \/ \E e \in minted : Receive(n, w, e)
  PROVE  Undisturbed(r)
<1>0. /\ known \in [Nodes -> SUBSET minted]
      /\ \A v \in Workers : <<r, v>> \in Tasks \ {<<n, w>>}
      /\ pc \in [Tasks -> PCs] /\ ev \in [Tasks -> Seq(Steps)] /\ other \in [Tasks -> Seq(Steps)]
      /\ mine \in [Tasks -> Seq(Steps)]
  BY DEF IdemInv, IdemOK, Tasks
<1>1. ASSUME NEW l, Goto(<<n, w>>, l), UNCHANGED <<known, minted, cpc>>, cache'[r] = cache[r]
      PROVE  Undisturbed(r)
  BY <1>0, <1>1, GotoFacts DEF Undisturbed
<1>2. ASSUME NEW e \in minted, Receive(n, w, e) PROVE Undisturbed(r)
  BY <1>0, <1>2 DEF Receive, Undisturbed
<1>3. CASE ReadCache(n, w)
  BY <1>0, <1>3 DEF ReadCache, Undisturbed
<1>4. CASE WriteCache(n, w)
  <2>1. UNCHANGED <<known, minted, cpc>> /\ \E l : Goto(<<n, w>>, l) /\ \E e : Put(n, e)
    BY <1>4 DEF WriteCache
  <2>2. cache'[r] = cache[r]
    BY <2>1, PutFacts
  <2> QED BY <1>1, <2>1, <2>2
<1>5. CASE CheckVoidCache(n, w) \/ CheckVoidDb(n, w) \/ CheckRelease(n, w)
  <2>1. UNCHANGED <<known, cache, minted, cpc>> /\ \E l : Goto(<<n, w>>, l)
    BY <1>5, LookupFacts DEF Lookup
  <2> QED BY <1>1, <2>1
<1>6. CASE RecordVoid(n, w) \/ RecordRelease(n, w)
  <2>1. UNCHANGED <<known, minted, cpc>> /\ \E l : Goto(<<n, w>>, l) /\ \E e : Put(n, e)
    BY <1>6 DEF RecordVoid, RecordRelease, CacheOwn
  <2>2. cache'[r] = cache[r]
    BY <2>1, PutFacts
  <2> QED BY <1>1, <2>1, <2>2
<1>7. CASE MintVoid(n, w) \/ MintRelease(n, w)
  <2>1. PICK e, l : /\ known' = [known EXCEPT ![n] = @ \cup {e}] /\ minted' = minted \cup {e}
                    /\ mine' = [mine EXCEPT ![<<n, w>>] = e] /\ pc' = [pc EXCEPT ![<<n, w>>] = l]
    BY <1>7 DEF MintVoid, MintRelease, Mint
  <2>2. UNCHANGED <<cache, cpc, ev, other>>
    BY <1>7 DEF MintVoid, MintRelease, Mint
  <2> QED BY <1>0, <2>1, <2>2 DEF Undisturbed
<1> QED BY <1>2, <1>3, <1>4, <1>5, <1>6, <1>7 DEF CalmTask

LEMMA VoidFacts ==
  ASSUME IdemInv, NEW n \in Nodes, NEW w \in Workers, MintVoid(n, w)
  PROVE  pc[<<n, w>>] = "mintvoid" /\ \E e \in Events : Creates(n, w, e, "void", "recvoid")
<1> DEFINE kind == "void"
           l == "recvoid"
<1>1. /\ pc[<<n, w>>] \notin {"idle", "read", "write"} /\ kind \in {"void", "release"}
      /\ Mint(n, w, <<LoserOf(n, w), kind>>, l) /\ pc[<<n, w>>] = "mintvoid"
  BY DEF MintVoid, VoidKey
<1> HIDE DEF kind, l
<1>2. \E e \in Events : Creates(n, w, e, kind, l)
  BY <1>1, MintFacts
<1> QED BY <1>1, <1>2 DEF kind, l

LEMMA ReleaseFacts ==
  ASSUME IdemInv, NEW n \in Nodes, NEW w \in Workers, MintRelease(n, w)
  PROVE  pc[<<n, w>>] = "mintrelease" /\ \E e \in Events : Creates(n, w, e, "release", "recrelease")
<1> DEFINE kind == "release"
           l == "recrelease"
<1>1. /\ pc[<<n, w>>] \notin {"idle", "read", "write"} /\ kind \in {"void", "release"}
      /\ Mint(n, w, <<LoserOf(n, w), kind>>, l) /\ pc[<<n, w>>] = "mintrelease"
  BY DEF MintRelease, ReleaseKey
<1> HIDE DEF kind, l
<1>2. \E e \in Events : Creates(n, w, e, kind, l)
  BY <1>1, MintFacts
<1> QED BY <1>1, <1>2 DEF kind, l

-----------------------------------------------------------------------------
(* Where events come from                                                  *)

NoReleases == ~plan.hold => \A t \in Tasks : pc[t] \notin {"release", "mintrelease", "recrelease"}

LEMMA LineSame ==
  ASSUME LineInv, UNCHANGED <<minted, plan>>, NoReleases',
         cpc' \in [Nodes -> {"idle", "db", "apply"}]
  PROVE  LineInv'
BY DEF LineInv, NoReleases

LEMMA LineNew ==
  ASSUME LineInv, UNCHANGED plan, NoReleases', cpc' \in [Nodes -> {"idle", "db", "apply"}],
         NEW e, minted' = minted \cup {e}, ~plan.hold => Corrections(e),
         \/ Len(e) = 1 /\ Kind(e) = "create"
         \/ Len(e) > 1 /\ Kind(e) \in {"void", "release"} /\ Target(e) \in minted
  PROVE  LineInv'
<1>1. IsFiniteSet(minted')
  BY FS_AddElement DEF LineInv
<1>2. \A d \in minted' :
        \/ Len(d) = 1 /\ Kind(d) = "create"
        \/ Len(d) > 1 /\ Kind(d) \in {"void", "release"} /\ Target(d) \in minted'
  BY DEF LineInv
<1>3. \E d \in minted' : Kind(d) = "create"
  BY DEF LineInv
<1>4. ~plan.hold => \A d \in minted' : Corrections(d)
  BY DEF LineInv
<1> QED BY <1>1, <1>2, <1>3, <1>4 DEF LineInv, NoReleases

LEMMA NoReleasesStep ==
  ASSUME IdemInv, NoReleases, UNCHANGED plan, NEW n \in Nodes, NEW w \in Workers,
         NEW l, pc' = [pc EXCEPT ![<<n, w>>] = l],
         ~plan.hold => l \notin {"release", "mintrelease", "recrelease"}
  PROVE  NoReleases'
<1>1. \A t \in Tasks : pc'[t] \in {pc[t], l}
  BY DEF IdemInv, IdemOK
<1> QED BY <1>1 DEF NoReleases

LEMMA LineClient ==
  ASSUME Orderly, IdemInv, UNCHANGED plan, NEW n \in Nodes, CalmClient(n) \/ ClientApply(n)
  PROVE  LineInv'
<1>0. LineInv /\ NoReleases /\ cpc \in [Nodes -> {"idle", "db", "apply"}]
  BY DEF Orderly, LineInv, NoReleases
<1>1. CASE CalmClient(n)
  <2>1. UNCHANGED <<minted, workerVars>> /\ cpc' \in [Nodes -> {"idle", "db", "apply"}]
    BY <1>0, <1>1, ClientFacts
  <2>2. NoReleases'
    BY <1>0, <2>1 DEF NoReleases, workerVars
  <2> QED BY <1>0, <2>1, <2>2, LineSame
<1>2. CASE ClientApply(n)
  <2>1. PICK e \in Events :
          /\ Kind(e) = "create" /\ Len(e) = 1 /\ Corrections(e) /\ minted' = minted \cup {e}
          /\ cpc' = [cpc EXCEPT ![n] = "idle"] /\ UNCHANGED workerVars
    BY <1>2, ApplyFacts
  <2>2. NoReleases' /\ cpc' \in [Nodes -> {"idle", "db", "apply"}]
    BY <1>0, <2>1 DEF NoReleases, workerVars
  <2> QED BY <1>0, <2>1, <2>2, LineNew
<1> QED BY <1>1, <1>2

LEMMA LineTask ==
  ASSUME Orderly, IdemInv, UNCHANGED plan, NEW n \in Nodes, NEW w \in Workers,
         CalmTask(n, w) \/ \E e \in minted : Receive(n, w, e)
  PROVE  LineInv'
<1> DEFINE t == <<n, w>>
           Closing == {"release", "mintrelease", "recrelease"}
<1>0. /\ LineInv /\ NoReleases /\ cpc \in [Nodes -> {"idle", "db", "apply"}] /\ t \in Tasks
      /\ (~plan.hold => pc[t] \notin Closing)
  BY DEF Orderly, LineInv, NoReleases, Tasks
<1>1. ASSUME NEW l, pc' = [pc EXCEPT ![t] = l], ~plan.hold => l \notin Closing,
             UNCHANGED <<minted, cpc>>
      PROVE  LineInv'
  BY <1>0, <1>1, NoReleasesStep, LineSame
<1>2. ASSUME NEW e \in minted, Receive(n, w, e) PROVE LineInv'
  BY <1>1, <1>2 DEF Receive
<1>3. CASE ReadCache(n, w)
  BY <1>1, <1>3 DEF ReadCache
<1>4. CASE WriteCache(n, w)
  <2>1. UNCHANGED <<minted, cpc>> /\ \E l \in {"idle", "void"} : pc' = [pc EXCEPT ![t] = l]
    BY <1>4 DEF WriteCache, Goto
  <2> QED BY <1>1, <2>1
<1>5. CASE CheckVoidCache(n, w) \/ CheckVoidDb(n, w) \/ CheckRelease(n, w)
  <2>1. /\ UNCHANGED <<minted, cpc>>
        /\ \/ \E l \in {"idle", "voiddb", "mintvoid"} : pc' = [pc EXCEPT ![t] = l]
           \/ pc[t] = "release" /\ pc' = [pc EXCEPT ![t] = "mintrelease"]
    BY <1>5, LookupFacts DEF Lookup, Goto
  <2> QED BY <1>0, <1>1, <2>1
<1>6. CASE RecordVoid(n, w) \/ RecordRelease(n, w)
  <2>1. UNCHANGED <<minted, cpc>>
    BY <1>6 DEF RecordVoid, RecordRelease, CacheOwn
  <2>2. \/ pc' = [pc EXCEPT ![t] = "idle"]
        \/ plan.hold /\ pc' = [pc EXCEPT ![t] = "release"]
    <3>1. CASE plan.hold /\ Kind(LoserOf(n, w)) = "create"
      BY <1>6, <3>1 DEF RecordVoid, RecordRelease, CacheOwn, Goto
    <3>2. CASE ~(plan.hold /\ Kind(LoserOf(n, w)) = "create")
      BY <1>6, <3>2 DEF RecordVoid, RecordRelease, CacheOwn, Goto
    <3> QED BY <3>1, <3>2
  <2> QED BY <1>1, <2>1, <2>2
<1>7. CASE MintVoid(n, w) \/ MintRelease(n, w)
  <2>1. PICK e \in Events, kind \in {"void", "release"}, l \in {"recvoid", "recrelease"} :
          /\ Creates(n, w, e, kind, l) /\ pc[t] \in {"mintvoid", "mintrelease"}
          /\ (~plan.hold => kind = "void" /\ l = "recvoid")
    BY <1>0, <1>7, VoidFacts, ReleaseFacts
  <2>2. LoserOf(n, w) \in minted
    BY <2>1, RivalFacts
  <2>3. ~plan.hold => Corrections(e)
    BY <1>0, <2>1, <2>2 DEF LineInv, Creates
  <2>4. NoReleases'
    BY <1>0, <2>1, NoReleasesStep DEF Creates
  <2>5. /\ Kind(e) \in {"void", "release"} /\ Target(e) \in minted /\ Len(e) > 1
        /\ minted' = minted \cup {e} /\ UNCHANGED cpc
    BY <2>1, <2>2 DEF Creates
  <2> QED BY <1>0, <2>3, <2>4, <2>5, LineNew
<1> QED BY <1>2, <1>3, <1>4, <1>5, <1>6, <1>7 DEF CalmTask

\* Known events stay known, and new ones are known where they were created.
LEMMA HeldStep ==
  ASSUME Orderly, IdemInv, NEW n \in Nodes,
         \/ CalmClient(n) \/ ClientApply(n)
         \/ \E w \in Workers : CalmTask(n, w) \/ \E e \in minted : Receive(n, w, e)
  PROVE  HeldInv'
<1>0. HeldInv /\ known \in [Nodes -> SUBSET minted]
  BY DEF Orderly, IdemInv, IdemOK
<1>1. ASSUME UNCHANGED minted, \A m \in Nodes : known[m] \subseteq known'[m]
      PROVE  HeldInv'
  BY <1>0, <1>1 DEF HeldInv
<1>2. ASSUME NEW e, minted' = minted \cup {e}, known' = [known EXCEPT ![n] = @ \cup {e}]
      PROVE  HeldInv'
  <2>1. e \in known'[n] /\ \A m \in Nodes : known[m] \subseteq known'[m]
    BY <1>0, <1>2
  <2> QED BY <1>0, <1>2, <2>1 DEF HeldInv
<1>3. CASE CalmClient(n)
  BY <1>1, <1>3, ClientFacts
<1>4. CASE ClientApply(n)
  BY <1>2, <1>4, ApplyFacts
<1>5. ASSUME NEW w \in Workers, NEW e \in minted, Receive(n, w, e) PROVE HeldInv'
  <2>1. UNCHANGED minted /\ known' = [known EXCEPT ![n] = @ \cup {e}]
    BY <1>5 DEF Receive
  <2> QED BY <1>0, <1>1, <2>1
<1>6. ASSUME NEW w \in Workers, MintVoid(n, w) \/ MintRelease(n, w) PROVE HeldInv'
  BY <1>2, <1>6 DEF MintVoid, MintRelease, Mint
<1>7. ASSUME NEW w \in Workers, CalmTask(n, w), ~MintVoid(n, w), ~MintRelease(n, w) PROVE HeldInv'
  <2>1. UNCHANGED <<minted, known>>
    BY <1>7 DEF CalmTask, ReadCache, WriteCache, CheckVoidCache, CheckVoidDb, RecordVoid,
                CheckRelease, RecordRelease, CacheOwn
  <2> QED BY <1>1, <2>1
<1> QED BY <1>3, <1>4, <1>5, <1>6, <1>7

-----------------------------------------------------------------------------
(* Voids enter the cache one at a time                                     *)

LEMMA AloneElsewhere ==
  ASSUME AloneInv, NEW r \in Nodes, NEW w \in Workers, Undisturbed(r)
  PROVE  AloneAt(r, w)'
<1>1. AloneAt(r, w)
  BY DEF AloneInv
<1>2. LoserOf(r, w)' = LoserOf(r, w)
  BY DEF Undisturbed, LoserOf
<1> QED BY <1>1, <1>2 DEF AloneAt, Undisturbed, Cached, VoidKey, ReleaseKey

LEMMA AloneClient ==
  ASSUME Orderly, IdemInv, NEW n \in Nodes, CalmClient(n) \/ ClientApply(n)
  PROVE  AloneInv'
<1> SUFFICES ASSUME NEW r \in Nodes, NEW w \in Workers PROVE AloneAt(r, w)'
  BY DEF AloneInv
<1>0. AloneInv
  BY DEF Orderly
<1>1. CASE r # n
  BY <1>0, <1>1, LocalClient, AloneElsewhere
<1>2. CASE r = n
  <2>1. UNCHANGED workerVars /\ (UNCHANGED cache \/ \E e : Key(e) = RequestKey /\ Put(n, e))
    BY ClientFacts, ApplyFacts
  <2>2. LoserOf(n, w)' = LoserOf(n, w)
    BY <2>1 DEF LoserOf, workerVars
  <2>3. VoidKey(n, w) # RequestKey
    BY DEF VoidKey, RequestKey
  <2>4. Cached(n, VoidKey(n, w))' = Cached(n, VoidKey(n, w))
    <3>1. VoidKey(n, w)' = VoidKey(n, w)
      BY <2>2 DEF VoidKey
    <3>2. CASE UNCHANGED cache
      BY <3>1, <3>2 DEF Cached
    <3>3. ASSUME NEW e, Key(e) = RequestKey, Put(n, e)
          PROVE  Cached(n, VoidKey(n, w))' = Cached(n, VoidKey(n, w))
      <4> DEFINE k == VoidKey(n, w)
      <4>1. \A q : q # Key(e) => {c \in cache'[n] : Key(c) = q} = {c \in cache[n] : Key(c) = q}
        BY <3>3, PutFacts DEF Cached
      <4> QED BY <2>3, <3>1, <3>3, <4>1 DEF Cached
    <3> QED BY <2>1, <3>2, <3>3
  <2>5. known[n] \subseteq known'[n]
    BY ClientFacts, ApplyFacts DEF IdemInv, IdemOK
  <2>6. AloneAt(n, w)
    BY <1>0 DEF AloneInv
  <2> QED BY <1>2, <2>1, <2>2, <2>4, <2>5, <2>6 DEF AloneAt, workerVars, VoidKey, ReleaseKey
<1> QED BY <1>1, <1>2

LEMMA AloneTask ==
  ASSUME Orderly, IdemInv, OneTask, NEW n \in Nodes, NEW w \in Workers,
         CalmTask(n, w) \/ \E e \in minted : Receive(n, w, e)
  PROVE  AloneInv'
<1> SUFFICES ASSUME NEW r \in Nodes, NEW v \in Workers PROVE AloneAt(r, v)'
  BY DEF AloneInv
<1>0. AloneInv /\ v = w /\ <<n, w>> \in Tasks
  BY DEF Orderly, OneTask, Tasks
<1>1. CASE r # n
  BY <1>0, <1>1, LocalTask, AloneElsewhere
<1>2. CASE r = n
  <2>0. /\ AloneAt(n, w) /\ pc \in [Tasks -> PCs]
        /\ ((AloneAt(n, w)') => (AloneAt(r, v)'))
    BY <1>0, <1>2 DEF AloneInv, IdemInv, IdemOK
  <2>1. ASSUME pc'[<<n, w>>] \notin {"voiddb", "mintvoid", "recvoid", "recrelease"},
               pc'[<<n, w>>] \in {"read", "write"} => ev'[<<n, w>>] \in known'[n]
        PROVE  AloneAt(r, v)'
    BY <2>0, <2>1 DEF AloneAt
  <2>2. ASSUME NEW e \in minted, Receive(n, w, e) PROVE AloneAt(r, v)'
    <3>1. pc'[<<n, w>>] = "read" /\ ev'[<<n, w>>] = e /\ e \in known'[n]
      BY <1>0, <2>2 DEF Receive, IdemInv, IdemOK
    <3> QED BY <2>1, <3>1
  <2>3. CASE ReadCache(n, w)
    <3>1. /\ pc[<<n, w>>] = "read" /\ pc'[<<n, w>>] = "write" /\ ev'[<<n, w>>] = ev[<<n, w>>]
          /\ known' = known
      BY <1>0, <2>0, <2>3 DEF ReadCache
    <3> QED BY <2>0, <2>1, <3>1 DEF AloneAt
  <2>4. CASE WriteCache(n, w)
    <3>1. pc'[<<n, w>>] \in {"idle", "void"}
      BY <1>0, <2>0, <2>4 DEF WriteCache, Goto
    <3> QED BY <2>1, <3>1
  <2>5. CASE CheckVoidCache(n, w) \/ CheckVoidDb(n, w) \/ CheckRelease(n, w)
    <3>1. UNCHANGED cache
      BY <2>5, LookupFacts DEF Lookup
    <3>2. \/ pc'[<<n, w>>] \in {"idle", "mintrelease"}
          \/ /\ pc'[<<n, w>>] \in {"voiddb", "mintvoid"}
             /\ LoserOf(n, w)' = LoserOf(n, w) /\ Cached(n, VoidKey(n, w)) = {}
      <4>1. \/ Goto(<<n, w>>, "idle") \/ Goto(<<n, w>>, "mintrelease")
            \/ \E l \in {"voiddb", "mintvoid"} : Goto(<<n, w>>, l) /\ Cached(n, VoidKey(n, w)) = {}
        BY <2>0, <2>5, LookupFacts DEF Lookup, AloneAt
      <4> QED BY <4>1, GotoFacts
    <3>3. CASE pc'[<<n, w>>] \in {"idle", "mintrelease"}
      BY <2>1, <3>3
    <3>4. CASE /\ pc'[<<n, w>>] \in {"voiddb", "mintvoid"}
               /\ LoserOf(n, w)' = LoserOf(n, w) /\ Cached(n, VoidKey(n, w)) = {}
      BY <2>0, <3>1, <3>4 DEF AloneAt, Cached, VoidKey
    <3> QED BY <3>2, <3>3, <3>4
  <2>6. CASE RecordVoid(n, w) \/ RecordRelease(n, w)
    <3>1. pc'[<<n, w>>] \in {"idle", "release"}
      BY <1>0, <2>0, <2>6 DEF RecordVoid, RecordRelease, CacheOwn, Goto
    <3> QED BY <2>1, <3>1
  <2>7. CASE MintVoid(n, w)
    <3>1. PICK e \in Events : Creates(n, w, e, "void", "recvoid")
      BY <2>7, VoidFacts
    <3>2. Cached(n, VoidKey(n, w)) = {}
      BY <2>0, <2>7, VoidFacts DEF AloneAt
    <3> QED BY <2>0, <3>1, <3>2 DEF Creates, AloneAt, Cached, VoidKey
  <2>8. CASE MintRelease(n, w)
    <3>1. PICK e \in Events : Creates(n, w, e, "release", "recrelease")
      BY <2>8, ReleaseFacts
    <3> QED BY <2>0, <3>1 DEF Creates, AloneAt, ReleaseKey
  <2> QED BY <2>2, <2>3, <2>4, <2>5, <2>6, <2>7, <2>8 DEF CalmTask
<1> QED BY <1>1, <1>2

-----------------------------------------------------------------------------
(* Somebody watches every key                                              *)

LEMMA WatchFrame ==
  ASSUME NEW r \in Nodes, NEW k, NEW c, Watches(r, k, c), minted \subseteq minted',
         known[r] \subseteq known'[r], \A e \in known'[r] : Key(e) = k => e \in known[r],
         Cached(r, k)' = Cached(r, k), k = RequestKey => cpc'[r] = "idle",
         \A w \in Workers : /\ pc'[<<r, w>>] = pc[<<r, w>>] /\ ev'[<<r, w>>] = ev[<<r, w>>]
                            /\ other'[<<r, w>>] = other[<<r, w>>] /\ mine'[<<r, w>>] = mine[<<r, w>>]
  PROVE  Watches(r, k, c)'
<1>1. \A w \in Workers : LoserOf(r, w)' = LoserOf(r, w)
  BY DEF LoserOf
<1>2. \A e : InHand(r, e) => InHand(r, e)'
  BY DEF InHand
<1>3. \A e : Voiding(r, e) => Voiding(r, e)'
  BY <1>1 DEF Voiding
<1>4. \A e : Voided(e) => Voided(e)'
  BY DEF Voided
<1>5. \A e \in known'[r] : Key(e) = k => Sorted(r, c, e)'
  BY <1>2, <1>3, <1>4 DEF Watches, Sorted
<1>6. Remembers(r, k, c)' /\ Meets(r, k, c)'
  BY DEF Watches, Remembers, Meets
<1> QED BY <1>5, <1>6 DEF Watches

LEMMA WatchElsewhere ==
  ASSUME NEW r \in Nodes, NEW k, NEW c, Watches(r, k, c), Undisturbed(r)
  PROVE  Watches(r, k, c)'
<1>1. Cached(r, k)' = Cached(r, k)
  BY DEF Cached, Undisturbed
<1>2. k = RequestKey => cpc'[r] = "idle"
  BY DEF Watches, Undisturbed
<1> QED BY <1>1, <1>2, WatchFrame DEF Undisturbed

\* The node that watches remembers through its cache, but for the moment between the
\* creation of a void and its caching.
LEMMA RememberFacts ==
  ASSUME AloneInv, NEW r \in Nodes, NEW k, NEW c, Watches(r, k, c)
  PROVE  /\ Cached(r, k) = {c} \/ \E w \in Workers : /\ pc[<<r, w>>] = "recvoid"
                                                    /\ mine[<<r, w>>] = c /\ VoidKey(r, w) = k
         /\ k = RequestKey => Cached(r, k) = {c}
<1>1. \A w \in Workers : pc[<<r, w>>] = "recvoid" => Key(mine[<<r, w>>]) = VoidKey(r, w)
  BY DEF AloneInv, AloneAt
<1>2. \A w \in Workers : VoidKey(r, w) # RequestKey
  BY DEF VoidKey, RequestKey
<1> QED BY <1>1, <1>2 DEF Watches, Remembers

LEMMA WatchClient ==
  ASSUME Orderly, IdemInv, NEW n \in Nodes, CalmClient(n), NEW k, NEW c, Watches(n, k, c)
  PROVE  Watches(n, k, c)'
<1>0. AloneInv /\ cpc \in [Nodes -> {"idle", "db", "apply"}]
  BY DEF Orderly, LineInv
<1>1. UNCHANGED <<known, minted, workerVars>>
  BY ClientFacts
<1>2. CASE k = RequestKey
  <2>1. Cached(n, RequestKey) = {c} /\ cpc[n] = "idle"
    BY <1>0, <1>2, RememberFacts DEF Watches
  <2>2. UNCHANGED <<cache, cpc>>
    BY <2>1, ClientFacts
  <2>3. Cached(n, k)' = Cached(n, k) /\ cpc'[n] = "idle"
    BY <2>1, <2>2 DEF Cached
  <2> QED BY <1>1, <2>3, WatchFrame DEF workerVars
<1>3. CASE k # RequestKey
  <2>1. Cached(n, k)' = Cached(n, k)
    <3>1. UNCHANGED cache \/ \E e : Key(e) = RequestKey /\ Put(n, e)
      BY ClientFacts
    <3>2. CASE UNCHANGED cache
      BY <3>2 DEF Cached
    <3>3. ASSUME NEW e, Key(e) = RequestKey, Put(n, e) PROVE Cached(n, k)' = Cached(n, k)
      BY <1>3, <3>3, PutFacts
    <3> QED BY <3>1, <3>2, <3>3
  <2> QED BY <1>1, <1>3, <2>1, WatchFrame DEF workerVars
<1> QED BY <1>2, <1>3

\* A client's new event: of the request, which this node does not watch yet.
LEMMA WatchApply ==
  ASSUME Orderly, IdemInv, NEW n \in Nodes, ClientApply(n), NEW k, NEW c, Watches(n, k, c)
  PROVE  Watches(n, k, c)'
<1>1. k # RequestKey
  BY DEF Watches, ClientApply
<1>2. PICK e \in Events :
        /\ Key(e) = RequestKey /\ known' = [known EXCEPT ![n] = @ \cup {e}]
        /\ minted' = minted \cup {e} /\ Put(n, e) /\ UNCHANGED workerVars
  BY ApplyFacts
<1>3. Cached(n, k)' = Cached(n, k)
  BY <1>1, <1>2, PutFacts
<1>4. known'[n] = known[n] \cup {e}
  BY <1>2 DEF IdemInv, IdemOK
<1>5. known[n] \subseteq known'[n] /\ \A d \in known'[n] : Key(d) = k => d \in known[n]
  BY <1>1, <1>2, <1>4
<1> QED BY <1>1, <1>2, <1>3, <1>5, WatchFrame DEF workerVars

\* The first event of a request: the node it is created on watches from now on.
LEMMA WatchRequest ==
  ASSUME Orderly, IdemInv, NEW n \in Nodes, ClientApply(n), \A e \in minted : Key(e) # RequestKey
  PROVE  Watched(RequestKey)'
<1>1. PICK e \in Events :
        /\ Key(e) = RequestKey /\ known' = [known EXCEPT ![n] = @ \cup {e}] /\ Put(n, e)
        /\ cpc' = [cpc EXCEPT ![n] = "idle"] /\ UNCHANGED workerVars
  BY ApplyFacts
<1>2. known'[n] = known[n] \cup {e} /\ cpc'[n] = "idle" /\ known[n] \subseteq minted
  BY <1>1 DEF Orderly, LineInv, IdemInv, IdemOK
<1>3. Cached(n, RequestKey)' = {e}
  BY <1>1, PutFacts
<1>4. Remembers(n, RequestKey, e)'
  BY <1>3 DEF Remembers
<1>5. \A w \in Workers : pc[<<n, w>>] # "idle" => ev[<<n, w>>] \in minted
  BY DEF IdemInv, RivalInv, Tasks
<1>6. Meets(n, RequestKey, e)'
  BY <1>1, <1>5 DEF Meets, workerVars
<1>7. \A d \in known'[n] : Key(d) = RequestKey => Sorted(n, e, d)'
  BY <1>2 DEF Sorted
<1>8. Watches(n, RequestKey, e)'
  BY <1>1, <1>2, <1>4, <1>6, <1>7 DEF Watches
<1> QED BY <1>2, <1>8 DEF Watched

\* A step of the one task of the watching node, after the conflict was decided.
LEMMA WatchLater ==
  ASSUME OneTask, NEW n \in Nodes, NEW w \in Workers, NEW k, NEW c, Watches(n, k, c),
         pc[<<n, w>>] \notin {"read", "write"}, pc'[<<n, w>>] \notin {"read", "write"},
         known[n] \subseteq known'[n], \A e \in known'[n] : Key(e) = k => e \in known[n],
         minted \subseteq minted', cpc'[n] = cpc[n], Remembers(n, k, c)',
         \A e : Voiding(n, e) => Voided(e)' \/ Voiding(n, e)'
  PROVE  Watches(n, k, c)'
<1>1. Meets(n, k, c)'
  BY DEF Meets, OneTask
<1>2. \A e : Voided(e) => Voided(e)'
  BY DEF Voided
<1>3. \A e : ~InHand(n, e)
  BY DEF InHand, OneTask
<1>4. \A e \in known'[n] : Key(e) = k => Sorted(n, c, e)'
  BY <1>2, <1>3 DEF Watches, Sorted
<1> QED BY <1>1, <1>4 DEF Watches

LEMMA RememberCached ==
  ASSUME OneTask, AloneInv, NEW n \in Nodes, NEW w \in Workers, pc[<<n, w>>] # "recvoid",
         NEW k, NEW c, Watches(n, k, c)
  PROVE  Cached(n, k) = {c}
<1>1. \A v \in Workers : v = w
  BY DEF OneTask
<1>2. \A v \in Workers : pc[<<n, v>>] # "recvoid"
  BY <1>1
<1> QED BY <1>2 DEF Watches, Remembers

LEMMA WatchReceive ==
  ASSUME OneTask, IdemInv, AloneInv, NEW n \in Nodes, NEW w \in Workers, NEW e \in minted,
         Receive(n, w, e), NEW k, NEW c, Watches(n, k, c)
  PROVE  Watches(n, k, c)'
<1>1. /\ pc[<<n, w>>] = "idle" /\ pc'[<<n, w>>] = "read" /\ ev'[<<n, w>>] = e
      /\ e \notin known[n] /\ known'[n] = known[n] \cup {e} /\ UNCHANGED <<cache, minted, cpc>>
  BY DEF Receive, IdemInv, IdemOK, Tasks
<1>2. \A v \in Workers : v = w
  BY DEF OneTask
<1>3. Remembers(n, k, c)'
  <2>1. Cached(n, k) = {c}
    BY <1>1, RememberCached
  <2> QED BY <1>1, <2>1 DEF Remembers, Cached
<1>4. Meets(n, k, c)'
  BY <1>1, <1>2 DEF Meets, Watches
<1>5. \A d : Voided(d) => Voided(d)'
  BY <1>1 DEF Voided
<1>6. InHand(n, e)'
  BY <1>1 DEF InHand
<1>7. \A d : ~InHand(n, d) /\ ~Voiding(n, d)
  BY <1>1, <1>2 DEF InHand, Voiding
<1>8. \A d \in known'[n] : Key(d) = k => Sorted(n, c, d)'
  BY <1>1, <1>5, <1>6, <1>7 DEF Watches, Sorted
<1> QED BY <1>1, <1>3, <1>4, <1>8 DEF Watches

LEMMA WatchRead ==
  ASSUME OneTask, IdemInv, AloneInv, NEW n \in Nodes, NEW w \in Workers, ReadCache(n, w),
         NEW k, NEW c, Watches(n, k, c)
  PROVE  Watches(n, k, c)'
<1> DEFINE found == Cached(n, Key(ev[<<n, w>>])) \ {ev[<<n, w>>]}
<1>1. /\ pc[<<n, w>>] = "read" /\ pc'[<<n, w>>] = "write" /\ ev' = ev
      /\ UNCHANGED <<cache, minted, cpc, known>>
      /\ other'[<<n, w>>] = IF found = {} THEN NoEvent ELSE CHOOSE e \in found : TRUE
  BY DEF ReadCache, IdemInv, IdemOK, Tasks
<1>2. \A v \in Workers : v = w
  BY DEF OneTask
<1>3. Cached(n, k) = {c}
  BY <1>1, RememberCached
<1>4. Remembers(n, k, c)'
  BY <1>1, <1>3 DEF Remembers, Cached
<1>5. Meets(n, k, c)'
  <2> SUFFICES ASSUME Key(ev[<<n, w>>]) = k
               PROVE  ev[<<n, w>>] # c /\ other'[<<n, w>>] = c
    BY <1>1, <1>2 DEF Meets
  <2>1. ev[<<n, w>>] # c
    BY <1>1 DEF Watches, Meets
  <2>2. found = {c}
    BY <1>3, <2>1
  <2> QED BY <1>1, <2>1, <2>2
<1>6. \A d : Voided(d) => Voided(d)'
  BY <1>1 DEF Voided
<1>7. \A d : InHand(n, d) => InHand(n, d)'
  BY <1>1, <1>2 DEF InHand
<1>8. \A d : ~Voiding(n, d)
  BY <1>1, <1>2 DEF Voiding
<1>9. \A d \in known'[n] : Key(d) = k => Sorted(n, c, d)'
  BY <1>1, <1>6, <1>7, <1>8 DEF Watches, Sorted
<1> QED BY <1>1, <1>4, <1>5, <1>9 DEF Watches

\* The older of the two is remembered from now on, the other is about to be voided.
LEMMA WatchWrite ==
  ASSUME OneTask, IdemInv, AloneInv, NEW n \in Nodes, NEW w \in Workers, WriteCache(n, w),
         NEW k, NEW c, Watches(n, k, c)
  PROVE  \E d \in known'[n] : Watches(n, k, d)'
<1> DEFINE t == <<n, w>>
<1>1. /\ pc[t] = "write" /\ UNCHANGED <<minted, cpc, known>> /\ t \in Tasks
      /\ minted \subseteq Events /\ known[n] \subseteq minted
      /\ ev[t] \in minted /\ (other[t] = NoEvent \/ Rival(other[t], ev[t]))
  BY DEF WriteCache, Tasks, IdemInv, IdemOK, RivalInv
<1>2. \A v \in Workers : v = w
  BY DEF OneTask
<1>3. Cached(n, k) = {c}
  BY <1>1, RememberCached
<1>4. \A d : Voided(d) => Voided(d)'
  BY <1>1 DEF Voided
<1>5. /\ \A d : ~Voiding(n, d)
      /\ \A d : InHand(n, d) => d = ev[t]
  BY <1>1, <1>2 DEF Voiding, InHand
<1>6. CASE Key(ev[t]) # k
  <2>1. \E e \in {ev[t], Winner(other[t], ev[t])} : Put(n, e) /\ Key(e) = Key(ev[t])
    BY <1>1 DEF WriteCache, Winner, Rival
  <2>2. Cached(n, k)' = {c}
    BY <1>3, <1>6, <2>1, PutFacts
  <2>3. pc'[t] \in {"idle", "void"}
    BY <1>1 DEF WriteCache, Goto, IdemInv, IdemOK
  <2>4. Remembers(n, k, c)' /\ Meets(n, k, c)'
    BY <1>2, <2>2, <2>3 DEF Remembers, Meets
  <2>5. \A d \in known'[n] : Key(d) = k => Sorted(n, c, d)'
    BY <1>1, <1>4, <1>5, <1>6 DEF Watches, Sorted
  <2>6. Watches(n, k, c)'
    BY <1>1, <2>4, <2>5 DEF Watches
  <2> QED BY <1>1, <2>6 DEF Watches
<1>7. CASE Key(ev[t]) = k
  <2>1. other[t] = c /\ c \in known[n] /\ c # ev[t] /\ Key(c) = k
    BY <1>1, <1>7 DEF Watches, Meets
  <2>2. c # NoEvent
    <3>1. c \in Seq(Steps) /\ Len(c) >= 1
      BY <1>1, <2>1 DEF Events
    <3> QED BY <3>1 DEF NoEvent
  <2>3. Put(n, Winner(c, ev[t])) /\ Goto(t, "void")
    BY <2>1, <2>2 DEF WriteCache
  <2>4. pc'[t] = "void" /\ LoserOf(n, w)' = LoserOf(n, w)
    BY <2>3, GotoFacts
  <2>5. LoserOf(n, w) = Loser(c, ev[t])
    BY <2>1 DEF LoserOf
  <2> DEFINE e == ev[t]
  <2>6. /\ e \in Events /\ c \in Events /\ Key(c) = Key(e) /\ c # e
    BY <1>1, <1>7, <2>1
  <2>7. Rank(c) \in Nat /\ Rank(e) \in Nat /\ Rank(c) # Rank(e)
    BY <2>6, RanksAreNumbers, RankTellsApart
  <2>8. \A d \in Events : Rank(d) \in Nat
    BY RanksAreNumbers
  <2>10. PICK d : d = Winner(c, e)
    OBVIOUS
  <2>11. PICK f : f = Loser(c, e)
    OBVIOUS
  <2>12. /\ {d, f} = {c, e} /\ Older(d, f) /\ Rank(d) \in Nat /\ Rank(f) \in Nat
    BY <2>6, <2>7, <2>10, <2>11 DEF Winner, Loser, Older
  <2>13. Voiding(n, f)' /\ Put(n, d) /\ Key(d) = k
    BY <1>7, <2>1, <2>3, <2>4, <2>5, <2>10, <2>11, <2>12 DEF Voiding
  <2>14. Cached(n, k)' = {d}
    BY <2>13, PutFacts
  <2>15. Remembers(n, k, d)' /\ Meets(n, k, d)'
    BY <1>2, <2>4, <2>14 DEF Remembers, Meets
  <2>16. ASSUME NEW g \in known[n], Key(g) = k PROVE Sorted(n, d, g)'
    <3>1. g = c \/ g = e \/ (Older(c, g) /\ Voided(g))
      BY <1>5, <2>16 DEF Watches, Sorted
    <3>2. CASE g \in {d, f}
      BY <2>12, <2>13, <3>2 DEF Sorted
    <3>3. CASE Older(c, g) /\ Voided(g)
      <4>1. Rank(g) \in Nat
        BY <1>1, <2>8, <2>16
      <4>2. Older(d, g)
        BY <2>7, <2>10, <3>3, <4>1 DEF Older, Winner
      <4> QED BY <1>4, <3>3, <4>2 DEF Sorted
    <3> QED BY <2>12, <3>1, <3>2, <3>3
  <2>17. d \in known[n]
    <3>1. CASE d = c
      BY <2>1, <3>1
    <3>2. CASE d = e
      <4>1. AloneAt(n, w)
        BY DEF AloneInv
      <4> QED BY <1>1, <3>2, <4>1 DEF AloneAt
    <3> QED BY <2>12, <3>1, <3>2
  <2>18. Watches(n, k, d)'
    BY <1>1, <2>1, <2>13, <2>15, <2>16, <2>17 DEF Watches
  <2> QED BY <1>1, <2>17, <2>18
<1> QED BY <1>6, <1>7

LEMMA WatchLookup ==
  ASSUME OneTask, IdemInv, AloneInv, NEW n \in Nodes, NEW w \in Workers, Lookup(n, w),
         NEW k, NEW c, Watches(n, k, c)
  PROVE  Watches(n, k, c)'
<1>1. /\ UNCHANGED <<known, cache, minted, cpc>> /\ pc[<<n, w>>] \in {"void", "voiddb", "release"}
      /\ \/ Goto(<<n, w>>, "idle") /\ \E v \in minted : Key(v) = LookupKey(n, w)
         \/ pc[<<n, w>>] = "void" /\ Goto(<<n, w>>, "voiddb")
         \/ pc[<<n, w>>] = "voiddb" /\ Goto(<<n, w>>, "mintvoid")
         \/ pc[<<n, w>>] = "release" /\ Goto(<<n, w>>, "mintrelease")
  BY LookupFacts
<1>2. \/ pc'[<<n, w>>] = "idle" /\ \E v \in minted : Key(v) = LookupKey(n, w)
      \/ pc'[<<n, w>>] \in {"voiddb", "mintvoid"} /\ LoserOf(n, w)' = LoserOf(n, w)
      \/ pc[<<n, w>>] = "release" /\ pc'[<<n, w>>] = "mintrelease"
  BY <1>1, GotoFacts
<1>3. \A v \in Workers : v = w
  BY DEF OneTask
<1>4. Remembers(n, k, c)'
  <2>1. Cached(n, k) = {c}
    BY <1>1, RememberCached
  <2> QED BY <1>1, <2>1 DEF Remembers, Cached
<1>5. \A e : Voiding(n, e) => Voided(e)' \/ Voiding(n, e)'
  <2> SUFFICES ASSUME NEW e, Voiding(n, e) PROVE Voided(e)' \/ Voiding(n, e)'
    OBVIOUS
  <2>1. pc[<<n, w>>] \in {"void", "voiddb", "mintvoid"} /\ LoserOf(n, w) = e
    BY <1>3 DEF Voiding
  <2>2. LookupKey(n, w) = <<e, "void">>
    BY <2>1 DEF LookupKey, VoidKey
  <2>3. CASE \E v \in minted : Key(v) = LookupKey(n, w)
    BY <1>1, <2>2, <2>3 DEF Voided
  <2>4. CASE pc'[<<n, w>>] \in {"voiddb", "mintvoid"} /\ LoserOf(n, w)' = LoserOf(n, w)
    BY <2>1, <2>4 DEF Voiding
  <2> QED BY <1>2, <2>1, <2>3, <2>4
<1>6. pc[<<n, w>>] \notin {"read", "write"} /\ pc'[<<n, w>>] \notin {"read", "write"}
  BY <1>1, <1>2
<1> QED BY <1>1, <1>4, <1>5, <1>6, WatchLater

\* A new correction is of a key this node does not watch.
LEMMA WatchMint ==
  ASSUME OneTask, IdemInv, AloneInv, NEW n \in Nodes, NEW w \in Workers,
         MintVoid(n, w) \/ MintRelease(n, w), NEW k, NEW c, k[2] # "release", Watches(n, k, c)
  PROVE  Watches(n, k, c)' /\ (MintVoid(n, w) => VoidKey(n, w) # k)
<1>1. \A v \in Workers : v = w
  BY DEF OneTask
<1>2. pc[<<n, w>>] \in {"mintvoid", "mintrelease"}
  BY VoidFacts, ReleaseFacts
<1>3. Cached(n, k) = {c}
  BY <1>2, RememberCached
<1>4. MintVoid(n, w) => VoidKey(n, w) # k
  <2>1. pc[<<n, w>>] = "mintvoid" => Cached(n, VoidKey(n, w)) = {}
    BY DEF AloneInv, AloneAt
  <2> QED BY <1>3, <2>1, VoidFacts
<1>5. PICK e \in Events, kind \in {"void", "release"}, l \in {"recvoid", "recrelease"} :
        Creates(n, w, e, kind, l) /\ Key(e) # k /\ (kind = "void" \/ pc[<<n, w>>] = "mintrelease")
  <2>1. CASE MintVoid(n, w)
    <3>1. PICK e \in Events : Creates(n, w, e, "void", "recvoid")
      BY <2>1, VoidFacts
    <3>2. Key(e) # k
      BY <1>4, <2>1, <3>1 DEF Creates, VoidKey
    <3> QED BY <3>1, <3>2
  <2>2. CASE MintRelease(n, w)
    <3>1. PICK e \in Events : Creates(n, w, e, "release", "recrelease")
      BY <2>2, ReleaseFacts
    <3>2. Key(e) # k
      BY <3>1 DEF Creates
    <3> QED BY <2>2, <3>1, <3>2, ReleaseFacts
  <2> QED BY <2>1, <2>2
<1>6. known'[n] = known[n] \cup {e} /\ minted' = minted \cup {e} /\ pc'[<<n, w>>] = l
  BY <1>5 DEF Creates, IdemInv, IdemOK
<1>7. /\ known[n] \subseteq known'[n] /\ \A d \in known'[n] : Key(d) = k => d \in known[n]
      /\ minted \subseteq minted' /\ UNCHANGED <<cpc, cache>>
  BY <1>5, <1>6 DEF Creates
<1>8. Remembers(n, k, c)'
  BY <1>3, <1>7 DEF Remembers, Cached
<1>9. \A d : Voiding(n, d) => Voided(d)' \/ Voiding(n, d)'
  <2> SUFFICES ASSUME NEW d, Voiding(n, d) PROVE Voided(d)'
    OBVIOUS
  <2>1. pc[<<n, w>>] \in {"void", "voiddb", "mintvoid"} /\ LoserOf(n, w) = d
    BY <1>1 DEF Voiding
  <2>2. Key(e) = <<d, "void">>
    BY <1>5, <2>1 DEF Creates
  <2> QED BY <1>6, <2>2 DEF Voided
<1>10. pc[<<n, w>>] \notin {"read", "write"} /\ pc'[<<n, w>>] \notin {"read", "write"}
  BY <1>2, <1>6
<1> QED BY <1>4, <1>7, <1>8, <1>9, <1>10, WatchLater

LEMMA WatchRecord ==
  ASSUME OneTask, IdemInv, AloneInv, NEW n \in Nodes, NEW w \in Workers,
         RecordVoid(n, w) \/ RecordRelease(n, w), NEW k, NEW c, k[2] # "release", Watches(n, k, c)
  PROVE  Watches(n, k, c)'
<1>1. \A v \in Workers : v = w
  BY DEF OneTask
<1>2. /\ pc[<<n, w>>] \in {"recvoid", "recrelease"} /\ UNCHANGED <<known, minted, cpc>>
      /\ Put(n, mine[<<n, w>>]) /\ \E l \in {"idle", "release"} : Goto(<<n, w>>, l)
  BY DEF RecordVoid, RecordRelease, CacheOwn
<1>3. pc'[<<n, w>>] \in {"idle", "release"}
  BY <1>2, GotoFacts
<1>4. AloneAt(n, w)
  BY DEF AloneInv
<1>5. Cached(n, k)' = {c}
  <2>1. PICK m : m = mine[<<n, w>>]
    OBVIOUS
  <2>2. Cached(n, Key(m))' = {m} /\ (k # Key(m) => Cached(n, k)' = Cached(n, k))
    BY <1>2, <2>1, PutFacts
  <2>3. CASE pc[<<n, w>>] = "recrelease"
    <3>1. k # Key(m)
      BY <1>4, <2>1, <2>3 DEF AloneAt, ReleaseKey
    <3>2. Cached(n, k) = {c}
      BY <2>3, RememberCached
    <3> QED BY <2>2, <3>1, <3>2
  <2>4. CASE pc[<<n, w>>] = "recvoid" /\ k = Key(m)
    <3>1. Cached(n, k) = {}
      BY <1>4, <2>1, <2>4 DEF AloneAt
    <3>2. c = m
      BY <1>1, <2>1, <3>1 DEF Watches, Remembers
    <3> QED BY <2>2, <2>4, <3>2
  <2>5. CASE pc[<<n, w>>] = "recvoid" /\ k # Key(m)
    <3>1. c # m
      BY <2>5 DEF Watches
    <3>2. Cached(n, k) = {c}
      BY <1>1, <2>1, <3>1 DEF Watches, Remembers
    <3> QED BY <2>2, <2>5, <3>2
  <2> QED BY <1>2, <2>3, <2>4, <2>5
<1>6. Remembers(n, k, c)'
  BY <1>5 DEF Remembers
<1>7. \A e : ~Voiding(n, e)
  BY <1>1, <1>2 DEF Voiding
<1>8. pc[<<n, w>>] \notin {"read", "write"} /\ pc'[<<n, w>>] \notin {"read", "write"}
  BY <1>2, <1>3
<1> QED BY <1>2, <1>6, <1>7, <1>8, WatchLater

\* The first void of an event: the node it is created on watches from now on.
LEMMA WatchVoid ==
  ASSUME OneTask, IdemInv, Orderly, NEW n \in Nodes, NEW w \in Workers, NEW e \in Events,
         Creates(n, w, e, "void", "recvoid"), \A d \in minted : Key(d) # Key(e)
  PROVE  Watched(Key(e))'
<1>0. \A v \in Workers : v = w
  BY DEF OneTask
<1>1. /\ known'[n] = known[n] \cup {e} /\ known[n] \subseteq minted
      /\ pc'[<<n, w>>] = "recvoid" /\ mine'[<<n, w>>] = e
  BY DEF Creates, IdemInv, IdemOK
<1>2. PICK k : k = Key(e)
  OBVIOUS
<1>3. k # RequestKey
  BY <1>2 DEF Creates, RequestKey
<1>4. Remembers(n, k, e)'
  BY <1>1 DEF Remembers
<1>5. Meets(n, k, e)'
  BY <1>0, <1>1 DEF Meets
<1>6. \A d \in known'[n] : Key(d) = k => Sorted(n, e, d)'
  BY <1>1, <1>2 DEF Sorted
<1>7. Watches(n, k, e)'
  BY <1>1, <1>2, <1>3, <1>4, <1>5, <1>6 DEF Watches
<1> QED BY <1>1, <1>2, <1>7 DEF Watched

LEMMA WatchTask ==
  ASSUME OneTask, IdemInv, Orderly, NEW n \in Nodes, NEW w \in Workers,
         CalmTask(n, w) \/ \E e \in minted : Receive(n, w, e), NEW k, k[2] # "release", Watched(k)
  PROVE  Watched(k)'
<1>0. AloneInv
  BY DEF Orderly
<1>1. PICK r \in Nodes : \E d \in known[r] : Watches(r, k, d)
  BY DEF Watched
<1>2. PICK c \in known[r] : Watches(r, k, c)
  BY <1>1
<1>3. ASSUME NEW d, Watches(r, k, d)' PROVE Watched(k)'
  BY <1>3 DEF Watched, Watches
<1>4. CASE r # n
  <2>1. Undisturbed(r)
    BY <1>4, LocalTask
  <2> QED BY <1>2, <1>3, <2>1, WatchElsewhere
<1>5. CASE r = n
  <2>1. ASSUME NEW e \in minted, Receive(n, w, e) PROVE Watches(n, k, c)'
    BY <1>0, <1>2, <1>5, <2>1, WatchReceive
  <2>2. CASE ReadCache(n, w)
    BY <1>0, <1>2, <1>3, <1>5, <2>2, WatchRead
  <2>3. CASE WriteCache(n, w)
    BY <1>0, <1>2, <1>3, <1>5, <2>3, WatchWrite
  <2>4. CASE CheckVoidCache(n, w) \/ CheckVoidDb(n, w) \/ CheckRelease(n, w)
    BY <1>0, <1>2, <1>3, <1>5, <2>4, WatchLookup DEF Lookup
  <2>5. CASE MintVoid(n, w) \/ MintRelease(n, w)
    BY <1>0, <1>2, <1>3, <1>5, <2>5, WatchMint
  <2>6. CASE RecordVoid(n, w) \/ RecordRelease(n, w)
    BY <1>0, <1>2, <1>3, <1>5, <2>6, WatchRecord
  <2> QED BY <1>3, <1>5, <2>1, <2>2, <2>3, <2>4, <2>5, <2>6 DEF CalmTask
<1> QED BY <1>4, <1>5

LEMMA WatchClients ==
  ASSUME IdemInv, Orderly, NEW n \in Nodes, CalmClient(n) \/ ClientApply(n), NEW k, Watched(k)
  PROVE  Watched(k)'
<1>1. PICK r \in Nodes : \E d \in known[r] : Watches(r, k, d)
  BY DEF Watched
<1>2. PICK c \in known[r] : Watches(r, k, c)
  BY <1>1
<1>3. ASSUME NEW d, Watches(r, k, d)' PROVE Watched(k)'
  BY <1>3 DEF Watched, Watches
<1>4. CASE r # n
  <2>1. Undisturbed(r)
    BY <1>4, LocalClient
  <2> QED BY <1>2, <1>3, <2>1, WatchElsewhere
<1>5. CASE r = n
  BY <1>2, <1>3, <1>5, WatchClient, WatchApply
<1> QED BY <1>4, <1>5

\* From the keys watched before to the keys of the events there are now.
LEMMA WatchGrows ==
  ASSUME WatchInv, NEW S, \A k : k[2] # "release" /\ Watched(k) => Watched(k)',
         minted' \subseteq minted \cup S,
         \A e \in S : \/ Kind(e) = "release" \/ Watched(Key(e))'
                      \/ \E d \in minted : Key(d) = Key(e)
  PROVE  WatchInv'
<1> SUFFICES ASSUME NEW e \in minted', Kind(e) # "release" PROVE Watched(Key(e))'
  BY DEF WatchInv
<1>1. ASSUME NEW d \in minted, Key(d) = Key(e) PROVE Watched(Key(e))'
  <2>1. PICK k : k = Key(d)
    OBVIOUS
  <2>2. Kind(d) = k[2] /\ Kind(e) = k[2] /\ Key(e) = k
    BY <1>1, <2>1 DEF Key
  <2>3. Watched(k)
    BY <2>1, <2>2 DEF WatchInv
  <2>4. Watched(k)'
    BY <2>2, <2>3
  <2> QED BY <2>2, <2>4
<1> QED BY <1>1

LEMMA WatchClientInv ==
  ASSUME IdemInv, Orderly, NEW n \in Nodes, CalmClient(n) \/ ClientApply(n)
  PROVE  WatchInv'
<1>0. WatchInv
  BY DEF Orderly
<1>1. \A k : k[2] # "release" /\ Watched(k) => Watched(k)'
  BY WatchClients
<1>2. CASE CalmClient(n)
  BY <1>0, <1>1, <1>2, ClientFacts DEF WatchInv, Key
<1>3. CASE ClientApply(n)
  <2>1. PICK e \in Events : Key(e) = RequestKey /\ minted' = minted \cup {e}
    BY <1>3, ApplyFacts
  <2>2. CASE \E d \in minted : Key(d) = RequestKey
    BY <1>0, <1>1, <2>1, <2>2, WatchGrows
  <2>3. CASE \A d \in minted : Key(d) # RequestKey
    <3>1. Watched(RequestKey)'
      BY <1>3, <2>3, WatchRequest
    <3>2. Watched(Key(e))'
      BY <2>1, <3>1
    <3> QED BY <1>0, <1>1, <2>1, <3>2, WatchGrows
  <2> QED BY <2>2, <2>3
<1> QED BY <1>2, <1>3

LEMMA WatchTaskInv ==
  ASSUME OneTask, IdemInv, Orderly, NEW n \in Nodes, NEW w \in Workers,
         CalmTask(n, w) \/ \E e \in minted : Receive(n, w, e)
  PROVE  WatchInv'
<1>0. WatchInv
  BY DEF Orderly
<1>1. \A k : k[2] # "release" /\ Watched(k) => Watched(k)'
  BY WatchTask
<1>2. ASSUME minted' = minted PROVE WatchInv'
  BY <1>0, <1>1, <1>2 DEF WatchInv, Key
<1>3. CASE MintVoid(n, w)
  <2>1. PICK e \in Events : Creates(n, w, e, "void", "recvoid")
    BY <1>3, VoidFacts
  <2>2. minted' = minted \cup {e}
    BY <2>1 DEF Creates
  <2>3. Watched(Key(e))' \/ \E d \in minted : Key(d) = Key(e)
    BY <2>1, WatchVoid
  <2> QED BY <1>0, <1>1, <2>2, <2>3, WatchGrows
<1>4. CASE MintRelease(n, w)
  <2>1. PICK e \in Events : Creates(n, w, e, "release", "recrelease")
    BY <1>4, ReleaseFacts
  <2>2. minted' = minted \cup {e} /\ Kind(e) = "release"
    BY <2>1 DEF Creates
  <2> QED BY <1>0, <1>1, <2>2, WatchGrows
<1>5. CASE ~MintVoid(n, w) /\ ~MintRelease(n, w)
  <2>1. minted' = minted
    BY <1>5 DEF CalmTask, ReadCache, WriteCache, CheckVoidCache, CheckVoidDb, RecordVoid,
                CheckRelease, RecordRelease, CacheOwn, Receive
  <2> QED BY <1>2, <2>1
<1> QED BY <1>3, <1>4, <1>5

-----------------------------------------------------------------------------
(* A release follows the void of a reservation                             *)

LEMMA ReleaseGrows ==
  ASSUME ReleaseInv, UNCHANGED plan, minted' = minted,
         \A x : Kind(x) = "create" /\ plan.hold /\ Releasing(x) => Released(x)' \/ Releasing(x)'
  PROVE  ReleaseInv'
<1>1. \A x : Released(x) => Released(x)'
  BY DEF Released
<1> QED BY <1>1 DEF ReleaseInv, Released, Kind, Target

LEMMA ReleaseNew ==
  ASSUME ReleaseInv, UNCHANGED plan, NEW e, minted' = minted \cup {e},
         \A x : Kind(x) = "create" /\ plan.hold /\ Releasing(x) => Released(x)' \/ Releasing(x)',
         Kind(e) = "void" => Releasing(Target(e))'
  PROVE  ReleaseInv'
<1>1. \A x : Released(x) => Released(x)'
  BY DEF Released
<1> SUFFICES ASSUME plan.hold, NEW v \in minted', Kind(v) = "void", Kind(Target(v)) = "create"
             PROVE  (Released(Target(v)) \/ Releasing(Target(v)))'
  BY DEF ReleaseInv
<1>2. CASE v \in minted
  <2>1. PICK x : x = Target(v)
    OBVIOUS
  <2>2. Released(x) \/ Releasing(x)
    BY <1>2, <2>1 DEF ReleaseInv
  <2>3. Released(x)' \/ Releasing(x)'
    BY <1>1, <2>1, <2>2
  <2> QED BY <2>1, <2>3
<1> QED BY <1>2

LEMMA ReleasingKept ==
  ASSUME OneTask, NEW n \in Nodes, NEW w \in Workers, \A r \in Nodes \ {n} : Undisturbed(r),
         NEW x, Releasing(x),
         pc[<<n, w>>] \in {"recvoid", "release", "mintrelease"} /\ LoserOf(n, w) = x =>
           \/ Released(x)'
           \/ /\ pc'[<<n, w>>] \in {"recvoid", "release", "mintrelease"}
              /\ LoserOf(n, w)' = LoserOf(n, w)
  PROVE  Released(x)' \/ Releasing(x)'
<1>1. PICK m \in Nodes, v \in Workers :
        pc[<<m, v>>] \in {"recvoid", "release", "mintrelease"} /\ LoserOf(m, v) = x
  BY DEF Releasing
<1>2. CASE m = n
  <2>1. v = w
    BY DEF OneTask
  <2> QED BY <1>1, <1>2, <2>1 DEF Releasing
<1>3. CASE m # n
  <2>1. Undisturbed(m)
    BY <1>3
  <2>2. pc'[<<m, v>>] = pc[<<m, v>>] /\ LoserOf(m, v)' = LoserOf(m, v)
    BY <2>1 DEF Undisturbed, LoserOf
  <2> QED BY <1>1, <2>2 DEF Releasing
<1> QED BY <1>2, <1>3

LEMMA ReleaseClient ==
  ASSUME Orderly, IdemInv, UNCHANGED plan, NEW n \in Nodes, CalmClient(n) \/ ClientApply(n)
  PROVE  ReleaseInv'
<1>0. ReleaseInv
  BY DEF Orderly
<1>1. UNCHANGED workerVars
  BY ClientFacts, ApplyFacts
<1>2. \A x : Releasing(x) => Releasing(x)'
  BY <1>1 DEF Releasing, LoserOf, workerVars
<1>3. minted' = minted \/ \E e : Kind(e) = "create" /\ minted' = minted \cup {e}
  BY ClientFacts, ApplyFacts
<1> QED BY <1>0, <1>2, <1>3, ReleaseGrows, ReleaseNew

LEMMA ReleaseTask ==
  ASSUME OneTask, Orderly, IdemInv, UNCHANGED plan, NEW n \in Nodes, NEW w \in Workers,
         CalmTask(n, w) \/ \E e \in minted : Receive(n, w, e)
  PROVE  ReleaseInv'
<1> DEFINE After == {"recvoid", "release", "mintrelease"}
           Kept(x) == pc[<<n, w>>] \in After /\ LoserOf(n, w) = x =>
                        \/ Released(x)'
                        \/ pc'[<<n, w>>] \in After /\ LoserOf(n, w)' = LoserOf(n, w)
<1>0. ReleaseInv /\ \A r \in Nodes \ {n} : Undisturbed(r)
  BY LocalTask DEF Orderly
<1>1. ASSUME NEW x, Releasing(x), Kept(x) PROVE Released(x)' \/ Releasing(x)'
  BY <1>0, <1>1, ReleasingKept
<1>2. ASSUME minted' = minted, pc[<<n, w>>] \notin After PROVE ReleaseInv'
  BY <1>0, <1>1, <1>2, ReleaseGrows
<1>3. CASE (\E e \in minted : Receive(n, w, e)) \/ ReadCache(n, w) \/ WriteCache(n, w)
           \/ CheckVoidCache(n, w) \/ CheckVoidDb(n, w) \/ RecordRelease(n, w)
  BY <1>2, <1>3 DEF Receive, ReadCache, WriteCache, CheckVoidCache, CheckVoidDb, RecordRelease,
                    CacheOwn
<1>4. CASE MintVoid(n, w)
  <2>1. PICK e \in Events : Creates(n, w, e, "void", "recvoid")
    BY <1>4, VoidFacts
  <2>2. pc[<<n, w>>] = "mintvoid"
    BY <1>4, VoidFacts
  <2>3. \A x : Releasing(x) => Released(x)' \/ Releasing(x)'
    BY <1>1, <2>2
  <2>4. minted' = minted \cup {e} /\ Releasing(Target(e))'
    BY <2>1 DEF Creates, Releasing
  <2> QED BY <1>0, <2>3, <2>4, ReleaseNew
<1>5. CASE RecordVoid(n, w)
  <2>1. minted' = minted
    BY <1>5 DEF RecordVoid, CacheOwn
  <2>2. ASSUME NEW x, Kind(x) = "create", plan.hold, Releasing(x) PROVE Kept(x)
    <3> SUFFICES ASSUME LoserOf(n, w) = x
                 PROVE  pc'[<<n, w>>] \in After /\ LoserOf(n, w)' = LoserOf(n, w)
      OBVIOUS
    <3>1. Goto(<<n, w>>, "release")
      BY <1>5, <2>2 DEF RecordVoid, CacheOwn
    <3> QED BY <3>1, GotoFacts
  <2> QED BY <1>0, <1>1, <2>1, <2>2, ReleaseGrows
<1>6. CASE CheckRelease(n, w)
  <2>1. minted' = minted /\ pc[<<n, w>>] = "release"
    BY <1>6 DEF CheckRelease
  <2>2. ASSUME NEW x PROVE Kept(x)
    <3> SUFFICES ASSUME LoserOf(n, w) = x
                 PROVE  \/ Released(x)'
                        \/ pc'[<<n, w>>] \in After /\ LoserOf(n, w)' = LoserOf(n, w)
      OBVIOUS
    <3>1. CASE Goto(<<n, w>>, "mintrelease")
      BY <3>1, GotoFacts
    <3>2. CASE \E v \in minted : Key(v) = LookupKey(n, w)
      BY <2>1, <3>2 DEF Released, LookupKey, ReleaseKey
    <3> QED BY <1>6, <2>1, <3>1, <3>2, LookupFacts DEF Lookup
  <2> QED BY <1>0, <1>1, <2>1, <2>2, ReleaseGrows
<1>7. CASE MintRelease(n, w)
  <2>1. PICK e \in Events : Creates(n, w, e, "release", "recrelease")
    BY <1>7, ReleaseFacts
  <2>2. /\ minted' = minted \cup {e} /\ Kind(e) = "release"
        /\ Key(e) = <<LoserOf(n, w), "release">>
    BY <2>1 DEF Creates
  <2>3. \A x : Kept(x)
    BY <2>2 DEF Released
  <2> QED BY <1>0, <1>1, <2>2, <2>3, ReleaseNew
<1> QED BY <1>3, <1>4, <1>5, <1>6, <1>7 DEF CalmTask

-----------------------------------------------------------------------------
(* The invariant                                                           *)

LEMMA DupInitially == Init => DupInv
<1> SUFFICES ASSUME Init PROVE DupInv OBVIOUS
<1>1. LineInv
  BY FS_EmptySet DEF Init, LineInv, Tasks
<1>2. AloneInv
  BY DEF Init, AloneInv, AloneAt
<1>3. HeldInv /\ WatchInv /\ ReleaseInv
  BY DEF Init, HeldInv, WatchInv, ReleaseInv
<1>4. faults \in Nat /\ crashes \in Nat
  BY DEF Init
<1> QED BY <1>1, <1>2, <1>3, <1>4 DEF DupInv, Orderly

LEMMA OrderlyFrame ==
  ASSUME Orderly, IdemInv, UNCHANGED <<known, cache, minted, cpc, workerVars, plan>>
  PROVE  Orderly'
<1>1. LineInv'
  BY DEF Orderly, LineInv, workerVars, Kind, Target, Corrections
<1>2. \A r \in Nodes : Undisturbed(r)
  BY DEF Undisturbed, workerVars
<1>3. AloneInv'
  BY <1>2, AloneElsewhere DEF Orderly, AloneInv
<1>4. HeldInv'
  BY DEF Orderly, HeldInv
<1>5. WatchInv'
  <2>1. ASSUME NEW k, Watched(k) PROVE Watched(k)'
    <3>1. PICK r \in Nodes : \E d \in known[r] : Watches(r, k, d)
      BY <2>1 DEF Watched
    <3>2. PICK c \in known[r] : Watches(r, k, c)
      BY <3>1
    <3>3. Watches(r, k, c)'
      BY <1>2, <3>2, WatchElsewhere
    <3> QED BY <3>3 DEF Watched, Watches
  <2> QED BY <2>1 DEF Orderly, WatchInv, Key
<1>6. ReleaseInv'
  <2>1. \A x : Releasing(x) => Releasing(x)'
    BY DEF Releasing, LoserOf, workerVars
  <2> QED BY <2>1, ReleaseGrows DEF Orderly
<1> QED BY <1>1, <1>3, <1>4, <1>5, <1>6 DEF Orderly

LEMMA OrderlyClient ==
  ASSUME Orderly, IdemInv, UNCHANGED plan, NEW n \in Nodes, CalmClient(n) \/ ClientApply(n)
  PROVE  Orderly'
BY LineClient, AloneClient, HeldStep, WatchClientInv, ReleaseClient DEF Orderly

LEMMA OrderlyTask ==
  ASSUME OneTask, Orderly, IdemInv, UNCHANGED plan, NEW n \in Nodes, NEW w \in Workers,
         CalmTask(n, w) \/ \E e \in minted : Receive(n, w, e)
  PROVE  Orderly'
<1>1. LineInv' /\ HeldInv'
  BY LineTask, HeldStep
<1>2. AloneInv' /\ WatchInv' /\ ReleaseInv'
  BY AloneTask, WatchTaskInv, ReleaseTask
<1> QED BY <1>1, <1>2 DEF Orderly

\* A failure ends the promise; the other steps keep it.
LEMMA DupStep ==
  ASSUME OneTask, IdemInv, DupInv, [Next]_vars
  PROVE  DupInv'
<1>0. faults \in Nat /\ crashes \in Nat /\ (Quiet => Orderly)
  BY DEF DupInv
<1>1. ASSUME UNCHANGED <<faults, crashes>>, Quiet => Orderly' PROVE DupInv'
  BY <1>0, <1>1 DEF DupInv, Quiet
<1>2. ASSUME \/ faults' = faults + 1 /\ crashes' = crashes
             \/ faults' = faults /\ crashes' = crashes + 1
      PROVE  DupInv'
  BY <1>0, <1>2 DEF DupInv, Quiet
<1>3. CASE UNCHANGED vars
  BY <1>0, <1>1, <1>3, OrderlyFrame DEF vars
<1>4. CASE Next
  <2>0. UNCHANGED plan
    BY <1>4 DEF Next
  <2>1. ASSUME NEW n \in Nodes, CalmClient(n) PROVE DupInv'
    <3>1. UNCHANGED <<faults, crashes>>
      BY <2>1 DEF CalmClient, ClientHit, ClientMiss, ClientDb, ClientRefused, vars
    <3> QED BY <1>0, <1>1, <2>0, <2>1, <3>1, OrderlyClient
  <2>2. ASSUME NEW n \in Nodes, ClientApply(n) PROVE DupInv'
    <3>1. UNCHANGED <<faults, crashes>>
      BY <2>2 DEF ClientApply
    <3> QED BY <1>0, <1>1, <2>0, <2>2, <3>1, OrderlyClient
  <2>3. ASSUME NEW n \in Nodes, ClientDbFails(n) \/ Restart(n) PROVE DupInv'
    BY <1>2, <2>3 DEF ClientDbFails, Restart
  <2>4. ASSUME NEW n \in Nodes, NEW w \in Workers, VoidDbFails(n, w) \/ AllocFails(n, w)
        PROVE  DupInv'
    BY <1>2, <2>4 DEF VoidDbFails, AllocFails
  <2>5. ASSUME NEW n \in Nodes, NEW w \in Workers,
               CalmTask(n, w) \/ \E e \in minted : Receive(n, w, e)
        PROVE  DupInv'
    <3>1. UNCHANGED <<faults, crashes>>
      BY <2>5 DEF CalmTask, ReadCache, WriteCache, CheckVoidCache, CheckVoidDb, RecordVoid,
                  CheckRelease, RecordRelease, CacheOwn, Receive, MintVoid, MintRelease, Mint
    <3> QED BY <1>0, <1>1, <2>0, <2>5, <3>1, OrderlyTask
  <2>6. ASSUME NEW n \in Nodes, NEW e \in known[n], Persist(n, e) PROVE DupInv'
    <3>1. UNCHANGED <<faults, crashes, known, cache, minted, cpc, workerVars>>
      BY <2>6 DEF Persist
    <3> QED BY <1>0, <1>1, <2>0, <3>1, OrderlyFrame
  <2> QED BY <1>4, <2>1, <2>2, <2>3, <2>4, <2>5, <2>6
          DEF Next, WorkerStep, CalmClient, CalmTask
<1> QED BY <1>3, <1>4

-----------------------------------------------------------------------------
(* What is left when the nodes have exchanged everything                   *)

LEMMA RequestKeys ==
  ASSUME NEW e \in Events, Len(e) = 1, Kind(e) = "create"
  PROVE  Key(e) = RequestKey
<1>1. e \in Seq(Steps) /\ Len(e) \in Nat
  BY LenProperties DEF Events
<1>2. Target(e) = SubSeq(e, 1, 0)
  BY <1>1 DEF Target
<1>3. SubSeq(e, 1, 0) = <<>>
  BY <1>1
<1> QED BY <1>2, <1>3 DEF Key, RequestKey

LEMMA TargetLength ==
  ASSUME NEW e \in Events
  PROVE  Len(e) \in Nat /\ Len(Target(e)) = Len(e) - 1
<1>1. e \in Seq(Steps) /\ Len(e) \in Nat /\ Len(e) >= 1
  BY LenProperties DEF Events
<1> QED BY <1>1 DEF Target

\* Of the events of a key exactly one, c, is left.
Survives(c, k) ==
  /\ c \in minted /\ Key(c) = k
  /\ \A f \in minted : Len(f) > 1 => Target(f) # c
  /\ \A d \in minted : Key(d) = k /\ d # c => Voided(d)

LEMMA OneSurvives ==
  ASSUME IdemInv, Orderly, Settled, NEW e \in minted, Kind(e) # "release"
  PROVE  \E c \in minted : Survives(c, Key(e))
<1>0. /\ minted \subseteq Events /\ known \in [Nodes -> SUBSET minted]
      /\ \A n \in Nodes, w \in Workers : pc[<<n, w>>] = "idle"
  BY DEF IdemInv, IdemOK, Settled
<1>1. AllEvents = minted
  BY <1>0 DEF AllEvents, Orderly, HeldInv
<1>2. PICK r \in Nodes : \E d \in known[r] : Watches(r, Key(e), d)
  BY DEF Orderly, WatchInv, Watched
<1>3. PICK c \in known[r] : Watches(r, Key(e), c)
  BY <1>2
<1>4. known[r] = minted
  BY <1>1 DEF Settled
<1>5. \A d : ~InHand(r, d) /\ ~Voiding(r, d)
  BY <1>0 DEF InHand, Voiding
<1>6. \A d \in minted : Key(d) = Key(e) /\ d # c => Older(c, d) /\ Voided(d)
  BY <1>3, <1>4, <1>5 DEF Watches, Sorted
<1>7. ASSUME NEW f \in minted, Len(f) > 1, Target(f) = c PROVE FALSE
  <2>1. PICK g \in minted : Key(g) = Key(c) /\ Older(g, c)
    BY <1>7 DEF IdemInv, OldestStands
  <2>2. Rank(g) \in Nat /\ Rank(c) \in Nat
    BY <1>0, <1>3, <1>4, RanksAreNumbers
  <2>3. g # c
    BY <2>1, <2>2 DEF Older
  <2>4. Older(c, g)
    BY <1>3, <1>6, <2>1, <2>3 DEF Watches
  <2> QED BY <2>1, <2>2, <2>4 DEF Older
<1>8. Key(c) = Key(e) /\ c \in minted
  BY <1>3, <1>4 DEF Watches
<1> QED BY <1>6, <1>7, <1>8 DEF Survives

\* An event that was voided has a correction.
LEMMA VoidedFacts ==
  ASSUME IdemInv, Orderly, NEW e, Voided(e)
  PROVE  \E v \in minted : Key(v) = <<e, "void">> /\ Kind(v) = "void" /\ Target(v) = e /\ Len(v) > 1
<1>1. PICK v \in minted : Key(v) = <<e, "void">>
  BY DEF Voided
<1>2. Kind(v) = "void" /\ Target(v) = e
  BY <1>1 DEF Key
<1>3. Len(v) > 1
  BY <1>2 DEF Orderly, LineInv
<1> QED BY <1>1, <1>2, <1>3

LEMMA RequestLeft ==
  ASSUME IdemInv, Orderly, Settled, AllEvents # {}
  PROVE  /\ AllEvents = minted
         /\ \E c \in minted : Survives(c, RequestKey)
         /\ \A e \in minted : Kind(e) = "create" => Key(e) = RequestKey /\ Len(e) = 1
         /\ \A e \in minted : Key(e) = RequestKey => Kind(e) = "create"
<1>1. minted \subseteq Events /\ known \in [Nodes -> SUBSET minted]
  BY DEF IdemInv, IdemOK
<1>2. AllEvents = minted
  BY <1>1 DEF AllEvents, Orderly, HeldInv
<1>3. \A e \in minted : Kind(e) = "create" => Key(e) = RequestKey /\ Len(e) = 1
  <2> SUFFICES ASSUME NEW e \in minted, Kind(e) = "create"
               PROVE  Key(e) = RequestKey /\ Len(e) = 1
    OBVIOUS
  <2>1. Len(e) = 1
    BY DEF Orderly, LineInv
  <2> QED BY <1>1, <2>1, RequestKeys
<1>4. PICK e \in minted : Kind(e) = "create"
  BY <1>2 DEF Orderly, LineInv
<1>5. \E c \in minted : Survives(c, Key(e))
  BY <1>4, OneSurvives
<1>6. \A d \in minted : Key(d) = RequestKey => Kind(d) = "create"
  BY DEF Key, RequestKey
<1> QED BY <1>2, <1>3, <1>4, <1>5, <1>6

LEMMA LeftHold ==
  ASSUME IdemInv, DupInv
  PROVE  OneHoldLeft
<1> DEFINE Holding == {e \in AllEvents : Kind(e) = "create" /\
                         \A f \in AllEvents : Target(f) = e => Kind(f) # "release"}
<1> SUFFICES ASSUME Settled, AllEvents # {}, plan.hold, faults = 0, crashes = 0
             PROVE  Cardinality(Holding) = 1
  BY DEF OneHoldLeft
<1>1. Orderly
  BY DEF DupInv, Quiet
<1>2. /\ AllEvents = minted
      /\ \A e \in minted : Kind(e) = "create" => Key(e) = RequestKey /\ Len(e) = 1
      /\ \A e \in minted : Key(e) = RequestKey => Kind(e) = "create"
  BY <1>1, RequestLeft
<1>3. PICK c \in minted : Survives(c, RequestKey)
  BY <1>1, RequestLeft
<1>4. c \in Holding
  <2>1. Kind(c) = "create"
    BY <1>2, <1>3 DEF Survives
  <2>2. \A f \in minted : Kind(f) = "release" => Len(f) > 1
    BY <1>1 DEF Orderly, LineInv
  <2> QED BY <1>2, <1>3, <2>1, <2>2 DEF Survives
<1>5. ASSUME NEW e \in Holding PROVE e = c
  <2> SUFFICES ASSUME e # c PROVE FALSE
    OBVIOUS
  <2>1. e \in minted /\ Kind(e) = "create" /\ Voided(e)
    BY <1>2, <1>3, <1>5 DEF Survives
  <2>2. PICK v \in minted : Kind(v) = "void" /\ Target(v) = e
    BY <1>1, <2>1, VoidedFacts
  <2>3. Released(e) \/ Releasing(e)
    BY <1>1, <2>1, <2>2 DEF Orderly, ReleaseInv
  <2>4. ~Releasing(e)
    BY DEF Releasing, Settled
  <2>5. PICK f \in minted : Key(f) = <<e, "release">>
    BY <2>3, <2>4 DEF Released
  <2>6. Target(f) = e /\ Kind(f) = "release"
    BY <2>5 DEF Key
  <2> QED BY <1>2, <1>5, <2>6
<1>6. Holding = {c}
  BY <1>4, <1>5
<1> QED BY <1>6, FS_Singleton

\* Everything but the surviving request pairs off: a voided event with the void of it that
\* survives, a surviving void with its target.
Partner(e) == IF Voided(e) THEN CHOOSE v \in minted : Survives(v, <<e, "void">>) ELSE Target(e)

LEMMA PartnerOfVoided ==
  ASSUME IdemInv, Orderly, Settled, NEW e \in minted, Voided(e)
  PROVE  /\ Partner(e) \in minted /\ Kind(Partner(e)) = "void" /\ Target(Partner(e)) = e
         /\ ~Voided(Partner(e))
<1>1. PICK v \in minted : Key(v) = <<e, "void">> /\ Kind(v) = "void"
  BY VoidedFacts
<1>2. \E c \in minted : Survives(c, Key(v))
  BY <1>1, OneSurvives
<1>3. PICK p : p = Partner(e)
  OBVIOUS
<1>4. p \in minted /\ Survives(p, <<e, "void">>)
  BY <1>1, <1>2, <1>3 DEF Partner
<1>5. Kind(p) = "void" /\ Target(p) = e
  BY <1>4 DEF Survives, Key
<1>6. ~Voided(p)
  BY <1>4, VoidedFacts DEF Survives
<1> QED BY <1>3, <1>4, <1>5, <1>6

LEMMA PartnerOfVoid ==
  ASSUME IdemInv, Orderly, Settled, NEW e \in minted, Kind(e) = "void", ~Voided(e)
  PROVE  /\ Partner(e) = Target(e) /\ Target(e) \in minted /\ Voided(Target(e))
         /\ Partner(Target(e)) = e
<1>1. Target(e) \in minted /\ Partner(e) = Target(e)
  BY DEF Orderly, LineInv, Partner
<1>2. Key(e) = <<Target(e), "void">>
  BY DEF Key
<1>3. Voided(Target(e))
  BY <1>2 DEF Voided
<1>4. PICK t : t = Target(e)
  OBVIOUS
<1>5. \E c \in minted : Survives(c, Key(e))
  BY OneSurvives
<1>6. PICK p : p = Partner(t)
  OBVIOUS
<1>7. p \in minted /\ Survives(p, <<t, "void">>)
  BY <1>2, <1>3, <1>4, <1>5, <1>6 DEF Partner
<1>8. p = e
  BY <1>2, <1>4, <1>7 DEF Survives
<1> QED BY <1>1, <1>3, <1>4, <1>6, <1>8

LEMMA Parity ==
  ASSUME NEW i \in Nat
  PROVE  (i % 2 = 1 <=> (i + 1) % 2 = 0) /\ (i % 2 = 0 <=> (i + 1) % 2 = 1)
OBVIOUS

LEMMA ChargedNet ==
  ASSUME IdemInv, DupInv
  PROVE  ChargedOnce
<1> DEFINE Odd == {e \in AllEvents : Corrections(e) /\ Len(e) % 2 = 1}
           Even == {e \in AllEvents : Corrections(e) /\ Len(e) % 2 = 0}
<1> SUFFICES ASSUME Settled, AllEvents # {}, ~plan.hold, faults = 0, crashes = 0
             PROVE  Cardinality(Odd) - Cardinality(Even) = 1
  BY DEF ChargedOnce, Net
<1>1. Orderly
  BY DEF DupInv, Quiet
<1>2. /\ AllEvents = minted
      /\ \A e \in minted : Kind(e) = "create" => Key(e) = RequestKey /\ Len(e) = 1
      /\ \A e \in minted : Key(e) = RequestKey => Kind(e) = "create"
  BY <1>1, RequestLeft
<1>3. PICK c \in minted : Survives(c, RequestKey)
  BY <1>1, RequestLeft
<1>4. Kind(c) = "create" /\ Len(c) = 1
  BY <1>2, <1>3 DEF Survives
<1>5. ~Voided(c)
  BY <1>1, <1>3, VoidedFacts DEF Survives
<1>6. \A e \in minted : Corrections(e) /\ e \in Events
  BY <1>1 DEF Orderly, LineInv, IdemInv, IdemOK
<1>7. \A e \in minted : Kind(e) \in {"create", "void"}
  <2> SUFFICES ASSUME NEW e \in minted, Kind(e) = "release" PROVE FALSE
    BY <1>1 DEF Orderly, LineInv
  <2>1. Len(e) \in Nat /\ Len(e) >= 1 /\ Corrections(e)
    BY <1>6, LenProperties DEF Events
  <2> QED BY <2>1 DEF Corrections, Kind
<1>8. \A e \in minted : Kind(e) = "create" /\ ~Voided(e) => e = c
  BY <1>2, <1>3 DEF Survives
<1>9. /\ Odd = {e \in minted : Len(e) % 2 = 1} /\ Even = {e \in minted : Len(e) % 2 = 0}
  BY <1>2, <1>6
<1> HIDE DEF Odd, Even
\* Partners are of different parity, and each is the other's partner.
<1>10. ASSUME NEW e \in minted \ {c}
       PROVE  /\ Partner(e) \in minted \ {c} /\ Partner(Partner(e)) = e
              /\ (Len(e) % 2 = 1 <=> Len(Partner(e)) % 2 = 0)
              /\ (Len(e) % 2 = 0 <=> Len(Partner(e)) % 2 = 1)
  <2>1. CASE Voided(e)
    <3>1. PICK p : p = Partner(e)
      OBVIOUS
    <3>2. p \in minted /\ Kind(p) = "void" /\ Target(p) = e /\ ~Voided(p)
      BY <1>1, <2>1, <3>1, PartnerOfVoided
    <3>3. Partner(p) = e
      BY <1>1, <3>2, PartnerOfVoid
    <3>4. Len(p) \in Nat /\ Len(e) \in Nat /\ Len(p) = Len(e) + 1
      BY <1>6, <3>2, TargetLength
    <3>5. p # c
      BY <1>4, <3>2
    <3> QED BY <3>1, <3>2, <3>3, <3>4, <3>5, Parity
  <2>2. CASE ~Voided(e)
    <3>1. Kind(e) = "void"
      BY <1>7, <1>8, <2>2
    <3>2. PICK p : p = Target(e)
      OBVIOUS
    <3>3. Partner(e) = p /\ p \in minted /\ Voided(p) /\ Partner(p) = e
      BY <1>1, <2>2, <3>1, <3>2, PartnerOfVoid
    <3>4. Len(p) \in Nat /\ Len(e) \in Nat /\ Len(e) = Len(p) + 1
      BY <1>6, <3>2, <3>3, TargetLength
    <3>5. p # c
      BY <1>5, <3>3
    <3> QED BY <3>3, <3>4, <3>5, Parity
  <2> QED BY <2>1, <2>2
<1>11. c \in Odd /\ c \notin Even
  <2>1. Len(c) % 2 = 1
    BY <1>4
  <2> QED BY <1>9, <2>1
<1> DEFINE Rest == Odd \ {c}
           P == [e \in Rest |-> Partner(e)]
<1>12. P \in Bijection(Rest, Even)
  <2>1. \A e \in Rest : e \in minted \ {c} /\ Len(e) % 2 = 1
    BY <1>9
  <2>2. \A e \in Even : e \in minted \ {c} /\ Len(e) % 2 = 0
    BY <1>9, <1>11
  <2>3. \A e \in Rest : Partner(e) \in Even /\ Partner(Partner(e)) = e
    BY <1>9, <1>10, <2>1
  <2>4. \A e \in Even : Partner(e) \in Rest /\ Partner(Partner(e)) = e
    BY <1>9, <1>10, <2>2
  <2> HIDE DEF Rest
  <2>5. P \in [Rest -> Even]
    BY <2>3
  <2>6. \A a, b \in Rest : P[a] = P[b] => a = b
    BY <2>3
  <2>7. \A e \in Even : \E a \in Rest : P[a] = e
    BY <2>4
  <2> HIDE DEF P
  <2> QED BY <2>5, <2>6, <2>7, Fun_IsBij
<1>13. IsFiniteSet(Odd) /\ IsFiniteSet(Even)
  <2>1. IsFiniteSet(minted)
    BY <1>1 DEF Orderly, LineInv
  <2>2. Odd \in SUBSET minted /\ Even \in SUBSET minted
    BY <1>9
  <2> QED BY <2>1, <2>2, FS_Subset
<1>14. IsFiniteSet(Rest) /\ Cardinality(Rest) = Cardinality(Odd) - 1
  BY <1>11, <1>13, FS_RemoveElement
<1>15. Cardinality(Even) = Cardinality(Rest)
  <2>1. ExistsBijection(Rest, Even)
    BY <1>12 DEF ExistsBijection
  <2> HIDE DEF Rest
  <2> QED BY <1>14, <2>1, FS_Bijection
<1>16. Cardinality(Odd) \in Nat
  BY <1>13, FS_CardinalityType
<1> HIDE DEF Rest
<1> QED BY <1>14, <1>15, <1>16

\* Once the nodes have exchanged everything a charge counts exactly once, whatever number of
\* nodes accepted it and however deep the voids of voids went, as long as one task of each
\* node inserts events and neither a crash nor a failure stops a correction
\* (check_idempotency_conflict, apply_correction_event, create_local_events).
THEOREM CountsOnce ==
  ASSUME OneTask
  PROVE  Spec => []ChargedOnce
<1>1. Init => IdemInv /\ DupInv
  BY IdemInitially, DupInitially
<1>2. (IdemInv /\ DupInv) /\ [Next]_vars => (IdemInv /\ DupInv)'
  BY IdemStep, DupStep
<1>3. IdemInv /\ DupInv => ChargedOnce
  BY ChargedNet
<1> QED BY <1>1, <1>2, <1>3, PTL DEF Spec

\* Once the nodes have exchanged everything exactly one of the duplicate reservations holds
\* funds: every other one was voided and released, and the one that is left was not, under
\* the same conditions (check_idempotency_conflict, Event::has_hold).
THEOREM OneHoldRemains ==
  ASSUME OneTask
  PROVE  Spec => []OneHoldLeft
<1>1. Init => IdemInv /\ DupInv
  BY IdemInitially, DupInitially
<1>2. (IdemInv /\ DupInv) /\ [Next]_vars => (IdemInv /\ DupInv)'
  BY IdemStep, DupStep
<1>3. IdemInv /\ DupInv => OneHoldLeft
  BY LeftHold
<1> QED BY <1>1, <1>2, <1>3, PTL DEF Spec

=============================================================================
