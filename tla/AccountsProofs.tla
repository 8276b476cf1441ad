--------------------------- MODULE AccountsProofs ---------------------------
(***************************************************************************)
(* Proofs about Accounts: the books agree with the log, the node that      *)
(* serves an account's debits stays solvent, a reservation is captured     *)
(* once, an implicit hold never refuses a debit, and a transfer conserves. *)
(***************************************************************************)
EXTENDS Accounts, Sums, SequenceTheorems

Pcs == {"idle", "hold", "charge", "credit", "flush", "reserve", "settle", "release"}
EventSet ==
  [type : {"standard", "reservation", "release"},
   origin : Nodes \cup {CHOOSE n \in Nodes : TRUE}, account : Accounts, amount : Int,
   hold : Nat, expires : Nat, ref : Nat, to : Accounts \cup {NoAccount}]
TaskSet ==
  [pc : Pcs, account : Accounts \cup {NoAccount}, amount : Int, hold : Nat,
   expires : Nat, ref : Nat, to : Accounts \cup {NoAccount}, out : Seq(Nat)]

\* The shape of the state: everything a node keeps is about events that exist.
StateOK ==
  /\ plan \in Plans /\ now \in Nat /\ minted \in Seq(EventSet)
  /\ \A i \in Ids : /\ minted[i].ref \in Ids \cup {NoRef}
                    /\ minted[i].type = "release" => minted[i].ref \in Ids
  /\ have \in [Nodes -> SUBSET Ids] /\ db \in [Nodes -> SUBSET Ids]
  /\ queue \in [Nodes -> Seq(Nat)]
  /\ \A n \in Nodes : Range(queue[n]) \subseteq have[n] /\ db[n] \subseteq have[n]
  /\ balance \in [Nodes -> [Accounts -> Int]]
  /\ resv \in [Nodes -> SUBSET Ids] /\ released \in [Nodes -> SUBSET Ids]
  /\ task \in [Nodes -> TaskSet]
  /\ crashes \in Nat /\ faults \in Nat

\* A request under way, and the events it has created: nobody has them yet.
RequestOK(n) ==
  LET t == task[n]
  IN /\ t.pc # "idle" => t.account \in Accounts
     /\ t.pc = "credit" => t.to \in Accounts
     /\ t.pc \in {"hold", "reserve"} => t.hold > 0
     /\ t.pc \in {"settle", "release"} => t.ref \in Ids
     /\ t.pc \in {"idle", "hold", "reserve", "settle", "release"} => t.out = <<>>
     /\ Range(t.out) \subseteq Ids
     /\ \A i \in Range(t.out) : minted[i].origin = n /\ \A m \in Nodes : i \notin have[m]
RequestsOK == \A n \in Nodes : RequestOK(n)

-----------------------------------------------------------------------------
(* Sequences and extrema.                                                  *)

\* What an appended sequence contains.
LEMMA RangeAppend ==
  ASSUME NEW S, NEW s \in Seq(S), NEW e
  PROVE  Range(Append(s, e)) = Range(s) \cup {e}
<1>1. Len(s) \in Nat /\ DOMAIN s = 1..Len(s)
  BY LenProperties
<1>2. DOMAIN Append(s, e) = 1..(Len(s) + 1)
  OBVIOUS
<1>3. \A i \in 1..Len(s) : Append(s, e)[i] = s[i]
  BY <1>1
<1>4. Append(s, e)[Len(s) + 1] = e
  OBVIOUS
<1>5. 1..(Len(s) + 1) = (1..Len(s)) \cup {Len(s) + 1}
  BY <1>1
<1> HIDE <1>5
<1> QED BY <1>1, <1>2, <1>3, <1>4, <1>5 DEF Range

\* What a concatenation contains.
LEMMA RangeConcat ==
  ASSUME NEW S, NEW s \in Seq(S), NEW r \in Seq(S)
  PROVE  Range(s \o r) = Range(s) \cup Range(r)
<1>1. Len(s) \in Nat /\ DOMAIN s = 1..Len(s) /\ Len(r) \in Nat /\ DOMAIN r = 1..Len(r)
  BY LenProperties
<1>2. DOMAIN (s \o r) = 1..(Len(s) + Len(r))
  OBVIOUS
<1>3. \A i \in 1..Len(s) : (s \o r)[i] = s[i]
  BY <1>1
<1>4. \A i \in 1..Len(r) : (s \o r)[Len(s) + i] = r[i]
  BY <1>1
<1>5. \A i \in 1..(Len(s) + Len(r)) :
        i \in 1..Len(s) \/ \E j \in 1..Len(r) : i = Len(s) + j
  <2> TAKE i \in 1..(Len(s) + Len(r))
  <2>1. CASE i <= Len(s)
    BY <2>1, <1>1
  <2>2. CASE i > Len(s)
    <3>1. i - Len(s) \in 1..Len(r) /\ i = Len(s) + (i - Len(s))
      BY <2>2, <1>1
    <3> QED BY <3>1
  <2> QED BY <2>1, <2>2, <1>1
<1>6. Range(s \o r) \subseteq Range(s) \cup Range(r)
  BY <1>1, <1>2, <1>3, <1>4, <1>5 DEF Range
<1>7. Range(s) \subseteq Range(s \o r)
  BY <1>1, <1>2, <1>3 DEF Range
<1>8. Range(r) \subseteq Range(s \o r)
  <2>1. \A i \in 1..Len(r) : Len(s) + i \in DOMAIN (s \o r)
    BY <1>1, <1>2
  <2> QED BY <1>1, <1>4, <2>1 DEF Range
<1> QED BY <1>6, <1>7, <1>8

\* The larger and the smaller of two integers.
LEMMA MaxMin ==
  ASSUME NEW x \in Int, NEW y \in Int
  PROVE  /\ Max({x, y}) = IF x >= y THEN x ELSE y
         /\ Min({x, y}) = IF x <= y THEN x ELSE y
BY DEF Max, Min

-----------------------------------------------------------------------------
(* Events are never changed.                                               *)

\* The ids of an appended sequence of events.
LEMMA IdsAppend ==
  ASSUME StateOK, NEW e \in EventSet, minted' = Append(minted, e)
  PROVE  /\ minted' \in Seq(EventSet) /\ Ids' = Ids \cup {NewId} /\ NewId \notin Ids
         /\ NewId \in Nat \ {0} /\ minted'[NewId] = e
         /\ \A i \in Ids : minted'[i] = minted[i]
<1>1. minted \in Seq(EventSet) /\ Len(minted) \in Nat
  BY DEF StateOK
<1>2. Len(minted') = Len(minted) + 1 /\ minted' \in Seq(EventSet)
  BY <1>1
<1>3. minted'[NewId] = e /\ \A i \in Ids : minted'[i] = minted[i]
  BY <1>1 DEF Ids, NewId
<1> QED BY <1>1, <1>2, <1>3 DEF Ids, NewId

\* The ids after a settle's two events.
LEMMA IdsSettle ==
  ASSUME StateOK, NEW d \in EventSet, NEW e \in EventSet, minted' = minted \o <<d, e>>
  PROVE  /\ minted' \in Seq(EventSet) /\ Ids' = Ids \cup {NewId, NewId + 1}
         /\ NewId \notin Ids /\ NewId + 1 \notin Ids
         /\ NewId \in Nat \ {0} /\ minted'[NewId] = d /\ minted'[NewId + 1] = e
         /\ \A i \in Ids : minted'[i] = minted[i]
<1>1. minted \in Seq(EventSet) /\ Len(minted) \in Nat
  BY DEF StateOK
<1>2. <<d, e>> \in Seq(EventSet) /\ Len(<<d, e>>) = 2 /\ <<d, e>>[1] = d /\ <<d, e>>[2] = e
  OBVIOUS
<1> DEFINE s == <<d, e>>
<1> HIDE DEF s
<1>3. s \in Seq(EventSet) /\ Len(s) = 2 /\ s[1] = d /\ s[2] = e /\ minted' = minted \o s
  BY <1>2 DEF s
<1>4. Len(minted') = Len(minted) + 2 /\ minted' \in Seq(EventSet)
  BY <1>1, <1>3
<1>5. minted'[Len(minted) + 1] = s[1] /\ minted'[Len(minted) + 2] = s[2]
      /\ \A i \in 1..Len(minted) : minted'[i] = minted[i]
  BY <1>1, <1>3, ConcatProperties
<1> QED BY <1>1, <1>3, <1>4, <1>5 DEF Ids, NewId

-----------------------------------------------------------------------------
(* Sums over the events of a sequence m.                                   *)

Held(m, S) == SumFunctionOnSet([i \in 1..Len(m) |-> m[i].hold], S)
Amounts(m, S) == SumFunctionOnSet([i \in 1..Len(m) |-> m[i].amount], S)

\* Sets of ids are finite.
LEMMA FiniteIds ==
  ASSUME NEW m \in Seq(EventSet), NEW S, S \subseteq 1..Len(m)
  PROVE  IsFiniteSet(S)
<1>1. Len(m) \in Nat
  OBVIOUS
<1>2. IsFiniteSet(1..Len(m))
  BY <1>1, FS_Interval
<1> QED BY <1>2, FS_Subset

\* What is held by a set of events: a natural number, more with more events.
LEMMA HeldFacts ==
  ASSUME NEW m \in Seq(EventSet), NEW S, S \subseteq 1..Len(m)
  PROVE  /\ Held(m, S) \in Nat
         /\ \A R \in SUBSET S : Held(m, R) \in Nat /\ Held(m, R) <= Held(m, S)
         /\ \A e \in S : Held(m, S) = m[e].hold + Held(m, S \ {e})
<1> DEFINE w == [i \in 1..Len(m) |-> m[i].hold]
<1>1. \A i \in 1..Len(m) : w[i] = m[i].hold /\ w[i] \in Nat
  <2>1. \A i \in 1..Len(m) : m[i] \in EventSet
    OBVIOUS
  <2> QED BY <2>1 DEF EventSet
<1>2. \A R : Held(m, R) = SumFunctionOnSet(w, R)
  BY DEF Held
<1>3. IsFiniteSet(S)
  BY FiniteIds
<1>4. \A i \in S : w[i] \in Nat /\ w[i] \in Int
  BY <1>1
<1> HIDE DEF w
<1>5. SumFunctionOnSet(w, S) \in Nat
  BY <1>3, <1>4, SumNat
<1>6. \A R \in SUBSET S : SumFunctionOnSet(w, R) \in Nat
                          /\ SumFunctionOnSet(w, R) <= SumFunctionOnSet(w, S)
  <2> TAKE R \in SUBSET S
  <2>1. IsFiniteSet(R)
    BY <1>3, FS_Subset
  <2>2. \A i \in R : w[i] \in Nat
    BY <1>4
  <2>3. SumFunctionOnSet(w, R) \in Nat
    BY <2>1, <2>2, SumNat
  <2>4. SumFunctionOnSet(w, R) <= SumFunctionOnSet(w, S)
    BY <1>3, <1>4, SumPart
  <2> QED BY <2>3, <2>4
<1>7. \A e \in S : SumFunctionOnSet(w, S) = w[e] + SumFunctionOnSet(w, S \ {e})
  BY <1>3, <1>4, SumTake
<1> QED BY <1>1, <1>2, <1>5, <1>6, <1>7

\* The amounts of a set of events: an integer, an event at a time.
LEMMA AmountFacts ==
  ASSUME NEW m \in Seq(EventSet), NEW S, S \subseteq 1..Len(m)
  PROVE  /\ Amounts(m, S) \in Int
         /\ \A e \in S : Amounts(m, S) = m[e].amount + Amounts(m, S \ {e})
<1> DEFINE w == [i \in 1..Len(m) |-> m[i].amount]
<1>1. \A i \in 1..Len(m) : w[i] = m[i].amount /\ w[i] \in Int
  <2>1. \A i \in 1..Len(m) : m[i] \in EventSet
    OBVIOUS
  <2> QED BY <2>1 DEF EventSet
<1>2. \A R : Amounts(m, R) = SumFunctionOnSet(w, R)
  BY DEF Amounts
<1>3. IsFiniteSet(S)
  BY FiniteIds
<1>4. \A i \in S : w[i] \in Int
  BY <1>1
<1> HIDE DEF w
<1>5. SumFunctionOnSet(w, S) \in Int
  BY <1>3, <1>4, SumInt
<1>6. \A e \in S : SumFunctionOnSet(w, S) = w[e] + SumFunctionOnSet(w, S \ {e})
  BY <1>3, <1>4, SumTake
<1> QED BY <1>1, <1>2, <1>5, <1>6

\* One event more.
LEMMA AmountAdd ==
  ASSUME NEW m \in Seq(EventSet), NEW S, S \subseteq 1..Len(m), NEW e \in 1..Len(m), e \notin S
  PROVE  Amounts(m, S \cup {e}) = Amounts(m, S) + m[e].amount
<1> DEFINE T == S \cup {e}
<1>1. T \subseteq 1..Len(m) /\ e \in T /\ T \ {e} = S
  OBVIOUS
<1>2. m[e].amount \in Int
  <2>1. m[e] \in EventSet
    OBVIOUS
  <2> QED BY <2>1 DEF EventSet
<1> HIDE DEF T
<1>3. Amounts(m, T) = m[e].amount + Amounts(m, T \ {e})
  BY <1>1, AmountFacts
<1>4. Amounts(m, S) \in Int
  BY AmountFacts
<1>5. Amounts(m, T \ {e}) = Amounts(m, S)
  BY <1>1, Zenon
<1>6. Amounts(m, T) = Amounts(m, S) + m[e].amount
  BY <1>2, <1>3, <1>4, <1>5
<1> QED BY <1>6 DEF T

\* One hold more.
LEMMA HeldAdd ==
  ASSUME NEW m \in Seq(EventSet), NEW S, S \subseteq 1..Len(m), NEW e \in 1..Len(m), e \notin S
  PROVE  Held(m, S \cup {e}) = Held(m, S) + m[e].hold
<1> DEFINE T == S \cup {e}
<1>1. T \subseteq 1..Len(m) /\ e \in T /\ T \ {e} = S
  OBVIOUS
<1>2. m[e].hold \in Nat
  <2>1. m[e] \in EventSet
    OBVIOUS
  <2> QED BY <2>1 DEF EventSet
<1> HIDE DEF T
<1>3. Held(m, T) = m[e].hold + Held(m, T \ {e})
  BY <1>1, HeldFacts
<1>4. Held(m, S) \in Nat
  BY HeldFacts
<1>5. Held(m, T \ {e}) = Held(m, S)
  BY <1>1, Zenon
<1>6. Held(m, T) = Held(m, S) + m[e].hold
  BY <1>2, <1>3, <1>4, <1>5
<1> QED BY <1>6 DEF T

\* Later events change no sum over earlier ones.
LEMMA SumsKept ==
  ASSUME NEW m \in Seq(EventSet), NEW k \in Seq(EventSet), 1..Len(m) \subseteq 1..Len(k),
         \A i \in 1..Len(m) : k[i] = m[i], NEW S, S \subseteq 1..Len(m)
  PROVE  Held(k, S) = Held(m, S) /\ Amounts(k, S) = Amounts(m, S)
<1> DEFINE w == [i \in 1..Len(m) |-> m[i].hold]
           v == [i \in 1..Len(k) |-> k[i].hold]
           x == [i \in 1..Len(m) |-> m[i].amount]
           y == [i \in 1..Len(k) |-> k[i].amount]
<1>1. IsFiniteSet(S)
  BY FiniteIds
<1>2. \A i \in S : w[i] = v[i] /\ x[i] = y[i]
  OBVIOUS
<1>3. /\ Held(m, S) = SumFunctionOnSet(w, S) /\ Held(k, S) = SumFunctionOnSet(v, S)
      /\ Amounts(m, S) = SumFunctionOnSet(x, S) /\ Amounts(k, S) = SumFunctionOnSet(y, S)
  BY DEF Held, Amounts
<1> HIDE DEF w, v, x, y
<1>4. SumFunctionOnSet(w, S) = SumFunctionOnSet(v, S)
  BY <1>1, <1>2, SumSame
<1>5. SumFunctionOnSet(x, S) = SumFunctionOnSet(y, S)
  BY <1>1, <1>2, SumSame
<1> QED BY <1>3, <1>4, <1>5

\* The model's sums are these.
LEMMA AsSums ==
  /\ \A S : HoldSum(S) = Held(minted, S)
  /\ \A S, a : AmountSum(S, a) = Amounts(minted, {i \in S : minted[i].account = a})
  /\ \A n, a : AvailableBalance(n, a) = balance[n][a] - Held(minted, Active(n, a))
BY DEF HoldSum, AmountSum, AvailableBalance, Held, Amounts, Ids

-----------------------------------------------------------------------------
(* Starting a request.                                                     *)

\* Who may ask for what, of the plan of a run.
LEMMA PlanFacts ==
  ASSUME StateOK
  PROVE  /\ plan.nodes \subseteq Nodes /\ plan.spenders \subseteq Nodes
         /\ plan.accounts \subseteq Accounts
         /\ plan.transfers \subseteq plan.accounts \X plan.accounts \X {-1, 1}
         /\ plan.credits \subseteq Nat \ {0} /\ plan.debits \subseteq Nat \ {0}
         /\ plan.holds \subseteq Nat \ {0} /\ plan.times \subseteq Nat
         /\ Floor \in Int /\ Multiplier \in Nat /\ HoldDuration \in Nat
BY PlansAssumption, AmountsAssumption DEF StateOK, IsPlan, Floor

\* The balance that is left after the holds is an integer.
LEMMA AvailableInt ==
  ASSUME StateOK, NEW n \in Nodes, NEW a \in Accounts
  PROVE  /\ AvailableBalance(n, a) \in Int /\ OwnHold(n, a) \in Nat
         /\ Active(n, a) \subseteq Ids
<1>1. Active(n, a) \subseteq Ids
  BY DEF Active, StateOK
<1>2. minted \in Seq(EventSet) /\ balance[n][a] \in Int
  BY DEF StateOK
<1> DEFINE own == {i \in Active(n, a) : minted[i].origin = n
                                          /\ minted[i].expires - now >= RenewalWindow}
<1>3. OwnHold(n, a) = Held(minted, own)
  BY AsSums DEF OwnHold
<1>4. own \subseteq 1..Len(minted) /\ Active(n, a) \subseteq 1..Len(minted)
  BY <1>1 DEF Ids
<1> HIDE DEF own
<1>5. Held(minted, own) \in Nat /\ Held(minted, Active(n, a)) \in Nat
  BY <1>2, <1>4, HeldFacts
<1>6. AvailableBalance(n, a) = balance[n][a] - Held(minted, Active(n, a))
  BY AsSums
<1> QED BY <1>1, <1>2, <1>3, <1>5, <1>6

\* The hold of a debit is shrunk to what the bare debit leaves.
LEMMA HoldFits ==
  ASSUME StateOK, NEW n \in Nodes, NEW a \in Accounts, NEW x \in Nat
  PROVE  /\ ImplicitHold(n, a, x) \in Nat
         /\ Affords(n, a, x, 0) => Affords(n, a, x, ImplicitHold(n, a, x))
<1> DEFINE av == AvailableBalance(n, a)
           own == OwnHold(n, a)
           y == x * Multiplier
           room == av - x - Floor
           headroom == Max({0, room})
           most == Min({y, headroom})
<1>1. av \in Int /\ own \in Nat /\ Floor \in Int
  BY AvailableInt, PlanFacts
<1>2. y \in Nat
  BY PlanFacts
<1>3. ImplicitHold(n, a, x) = Max({0, most - own})
  BY DEF ImplicitHold
<1>4. Affords(n, a, x, 0) <=> av - x - 0 >= Floor
  BY DEF Affords
<1>5. \A h : Affords(n, a, x, h) <=> av - x - h >= Floor
  BY DEF Affords
<1> HIDE DEF av, own, y
<1>6. room \in Int
  BY <1>1
<1> HIDE DEF room
<1>7. headroom = IF 0 >= room THEN 0 ELSE room
  BY <1>6, MaxMin
<1>8. headroom \in Nat
  BY <1>6, <1>7
<1> HIDE DEF headroom
<1>9. most = IF y <= headroom THEN y ELSE headroom
  BY <1>2, <1>8, MaxMin
<1>10. most \in Nat
  BY <1>2, <1>8, <1>9
<1> HIDE DEF most
<1>11. Max({0, most - own}) = IF 0 >= most - own THEN 0 ELSE most - own
  BY <1>1, <1>10, MaxMin
<1> QED BY <1>1, <1>2, <1>3, <1>4, <1>5, <1>6, <1>7, <1>8, <1>9, <1>10, <1>11 DEF room

\* What a request is when it starts: checked, and with nothing created.
Begun(n, t) ==
  LET av == AvailableBalance(n, t.account)
  IN /\ t \in TaskSet /\ t.out = <<>> /\ t.account \in Accounts
     /\ t.pc \in {"hold", "charge", "reserve", "settle", "release"}
     /\ t.pc \in {"hold", "reserve"} => t.hold > 0
     /\ t.pc \in {"settle", "release"} => t.ref \in resv[n] /\ Open(n, t.ref)
     /\ t.pc # "charge" \/ t.amount < 0 \/ t.to # NoAccount => n \in plan.spenders
     /\ t.pc = "hold" => t.amount <= 0 /\ av + t.amount - t.hold >= Floor
     /\ t.pc = "charge" => t.amount >= 0 \/ av + t.amount >= Floor
     /\ t.pc = "reserve" => av - t.hold >= Floor
     /\ t.pc = "settle" => /\ t.account = minted[t.ref].account
                           /\ 0 - t.amount <= minted[t.ref].hold
     /\ t.to # NoAccount => /\ t.pc = "charge"
                            /\ t.amount < 0 \/ \E p \in plan.transfers : p[3] = 1

\* No request.
LEMMA IdleFacts ==
  /\ Idle \in TaskSet /\ Idle.pc = "idle" /\ Idle.out = <<>> /\ Idle.to = NoAccount
  /\ Idle.amount = 0 /\ Idle.hold = 0 /\ Idle.ref = NoRef
<1>1. <<>> \in Seq(Nat)
  OBVIOUS
<1> QED BY <1>1 DEF Idle, TaskSet, Pcs, NoRef

\* The fields of a charge.
LEMMA ChargeTaskFacts ==
  ASSUME NEW a \in Accounts, NEW x \in Int, NEW h \in Nat, NEW exp \in Nat,
         NEW to \in Accounts \cup {NoAccount}
  PROVE  LET t == ChargeTask(a, x, h, exp, to)
         IN /\ t \in TaskSet /\ t.out = <<>> /\ t.account = a /\ t.amount = x /\ t.hold = h
            /\ t.expires = exp /\ t.to = to
            /\ t.pc = IF h > 0 THEN "hold" ELSE "charge"
<1> DEFINE o == Idle
           l == IF h > 0 THEN "hold" ELSE "charge"
<1>1. o \in TaskSet /\ o.out = <<>> /\ l \in Pcs
  BY IdleFacts DEF Pcs
<1>2. ChargeTask(a, x, h, exp, to) =
        [o EXCEPT !.pc = l, !.account = a, !.amount = x, !.hold = h, !.expires = exp, !.to = to]
  BY DEF ChargeTask
<1> HIDE DEF o, l
<1>3. LET t == ChargeTask(a, x, h, exp, to)
      IN /\ t \in TaskSet /\ t.out = <<>> /\ t.account = a /\ t.amount = x /\ t.hold = h
         /\ t.expires = exp /\ t.to = to /\ t.pc = l
  BY <1>1, <1>2 DEF TaskSet
<1> QED BY <1>3 DEF l

Starts(n) == \/ StartCredit(n) \/ StartDebit(n) \/ StartTransfer(n)
             \/ StartReserve(n) \/ StartSettle(n) \/ StartRelease(n)

\* Every request passes its checks before it takes the lock.
LEMMA StartsBegun ==
  ASSUME StateOK, NEW n \in Nodes, Starts(n)
  PROVE  \E t : Begun(n, t) /\ Start(n, t)
<1>1. /\ now \in Nat /\ 0 \in Nat /\ 0 \in Int /\ NoAccount \in Accounts \cup {NoAccount}
      /\ resv[n] \subseteq Ids
  BY DEF StateOK
<1>2. CASE StartCredit(n)
  <2>1. PICK a \in plan.accounts, x \in plan.credits :
          Start(n, ChargeTask(a, x, 0, 0, NoAccount))
    BY <1>2 DEF StartCredit
  <2> DEFINE t == ChargeTask(a, x, 0, 0, NoAccount)
  <2>2. a \in Accounts /\ x \in Int /\ x > 0
    BY PlanFacts
  <2>3. t \in TaskSet /\ t.out = <<>> /\ t.account = a /\ t.amount = x /\ t.hold = 0
        /\ t.to = NoAccount /\ t.pc = "charge"
    BY <1>1, <2>2, ChargeTaskFacts
  <2>4. Start(n, t)
    BY <2>1
  <2> HIDE DEF t
  <2>5. Begun(n, t)
    BY <2>2, <2>3 DEF Begun
  <2> QED BY <2>4, <2>5
<1>3. CASE StartDebit(n)
  <2>1. n \in plan.spenders
    BY <1>3 DEF StartDebit
  <2>2. PICK a \in plan.accounts, x \in plan.debits :
       \/ /\ Affords(n, a, x, ImplicitHold(n, a, x))
          /\ Start(n, ChargeTask(a, 0 - x, ImplicitHold(n, a, x),
                     IF ImplicitHold(n, a, x) > 0 THEN now + HoldDuration ELSE 0, NoAccount))
       \/ \E h \in plan.holds, exp \in plan.times :
             /\ exp > now /\ Affords(n, a, x, h)
             /\ Start(n, ChargeTask(a, 0 - x, h, exp, NoAccount))
       \/ /\ Affords(n, a, x, 0)
          /\ Start(n, ChargeTask(a, 0 - x, 0, 0, NoAccount))
    BY <1>3 DEF StartDebit
  <2>3. a \in Accounts /\ x \in Nat /\ x > 0 /\ 0 - x \in Int
    BY PlanFacts
  <2>4. PICK h \in Nat, exp \in Nat :
          Affords(n, a, x, h) /\ Start(n, ChargeTask(a, 0 - x, h, exp, NoAccount))
    <3>1. CASE /\ Affords(n, a, x, ImplicitHold(n, a, x))
               /\ Start(n, ChargeTask(a, 0 - x, ImplicitHold(n, a, x),
                    IF ImplicitHold(n, a, x) > 0 THEN now + HoldDuration ELSE 0, NoAccount))
      <4> DEFINE h == ImplicitHold(n, a, x)
                 exp == IF h > 0 THEN now + HoldDuration ELSE 0
      <4>1. h \in Nat
        BY <2>3, HoldFits
      <4>2. exp \in Nat
        BY <1>1, PlanFacts
      <4>3. Affords(n, a, x, h) /\ Start(n, ChargeTask(a, 0 - x, h, exp, NoAccount))
        BY <3>1
      <4> HIDE DEF h, exp
      <4> QED BY <4>1, <4>2, <4>3
    <3>2. CASE \E h \in plan.holds, exp \in plan.times :
             /\ exp > now /\ Affords(n, a, x, h)
             /\ Start(n, ChargeTask(a, 0 - x, h, exp, NoAccount))
      <4>1. plan.holds \subseteq Nat /\ plan.times \subseteq Nat
        BY PlanFacts
      <4> QED BY <3>2, <4>1
    <3>3. CASE /\ Affords(n, a, x, 0)
               /\ Start(n, ChargeTask(a, 0 - x, 0, 0, NoAccount))
      BY <3>3
    <3> QED BY <2>2, <3>1, <3>2, <3>3
  <2> DEFINE y == 0 - x
             t == ChargeTask(a, y, h, exp, NoAccount)
  <2>5. y \in Int /\ y < 0 /\ y = 0 - x /\ Start(n, t)
    BY <2>3, <2>4
  <2> HIDE DEF y
  <2>6. t \in TaskSet /\ t.out = <<>> /\ t.account = a /\ t.amount = y /\ t.hold = h
        /\ t.to = NoAccount /\ t.pc = IF h > 0 THEN "hold" ELSE "charge"
    BY <1>1, <2>3, <2>5, ChargeTaskFacts
  <2>7. AvailableBalance(n, a) - x - h >= Floor
    BY <2>4 DEF Affords
  <2>8. AvailableBalance(n, a) \in Int /\ Floor \in Int
    BY <2>3, AvailableInt, PlanFacts
  <2> HIDE DEF t
  <2>9. Begun(n, t)
    BY <2>1, <2>3, <2>5, <2>6, <2>7, <2>8 DEF Begun
  <2> QED BY <2>5, <2>9
<1>4. CASE StartTransfer(n)
  <2>1. n \in plan.spenders
    BY <1>4 DEF StartTransfer
  <2>2. PICK p \in plan.transfers, x \in plan.debits :
          /\ p[3] < 0 => Affords(n, p[1], x, 0)
          /\ Start(n, ChargeTask(p[1], p[3] * x, 0, 0, p[2]))
    BY <1>4 DEF StartTransfer
  <2>3. p[1] \in Accounts /\ p[2] \in Accounts /\ p[3] \in {-1, 1} /\ x \in Nat /\ x > 0
    BY PlanFacts
  <2> DEFINE y == p[3] * x
             t == ChargeTask(p[1], y, 0, 0, p[2])
  <2>4. y \in Int /\ (p[3] = 1 => y = x) /\ (p[3] = -1 => y = 0 - x) /\ Start(n, t)
    BY <2>2, <2>3
  <2> HIDE DEF y
  <2>5. t \in TaskSet /\ t.out = <<>> /\ t.account = p[1] /\ t.amount = y /\ t.hold = 0
        /\ t.to = p[2] /\ t.pc = "charge"
    <3> DEFINE a == p[1]
               b == p[2]
    <3>1. a \in Accounts /\ b \in Accounts \cup {NoAccount} /\ t = ChargeTask(a, y, 0, 0, b)
      BY <2>3
    <3> HIDE DEF a, b, t
    <3> DEFINE z == 0
    <3>2. z \in Nat /\ y \in Int /\ t = ChargeTask(a, y, z, z, b)
      BY <2>4, <3>1
    <3> HIDE DEF z
    <3>3. t \in TaskSet /\ t.out = <<>> /\ t.account = a /\ t.amount = y /\ t.hold = z
          /\ t.to = b /\ t.pc = IF z > 0 THEN "hold" ELSE "charge"
      BY <3>1, <3>2, ChargeTaskFacts
    <3> QED BY <3>3 DEF a, b, z
  <2>6. p[3] = -1 => AvailableBalance(n, p[1]) - x - 0 >= Floor
    BY <2>2, <2>3 DEF Affords
  <2>7. AvailableBalance(n, p[1]) \in Int /\ Floor \in Int
    BY <2>3, AvailableInt, PlanFacts
  <2> HIDE DEF t
  <2>8. Begun(n, t)
    BY <2>1, <2>3, <2>4, <2>5, <2>6, <2>7 DEF Begun
  <2> QED BY <2>4, <2>8
<1>5. CASE StartReserve(n)
  <2>1. n \in plan.spenders
    BY <1>5 DEF StartReserve
  <2>2. PICK a \in plan.accounts, h \in plan.holds, exp \in plan.times :
          /\ Affords(n, a, 0, h)
          /\ Start(n, [Idle EXCEPT !.pc = "reserve", !.account = a, !.hold = h, !.expires = exp])
    BY <1>5 DEF StartReserve
  <2>3. a \in Accounts /\ h \in Nat /\ h > 0 /\ exp \in Nat
    BY PlanFacts
  <2> DEFINE t == [Idle EXCEPT !.pc = "reserve", !.account = a, !.hold = h, !.expires = exp]
  <2>4. "reserve" \in Pcs
    BY DEF Pcs
  <2>5. t \in TaskSet /\ t.out = <<>> /\ t.account = a /\ t.amount = 0 /\ t.hold = h
        /\ t.to = NoAccount /\ t.pc = "reserve"
    BY <2>3, <2>4, IdleFacts DEF TaskSet
  <2>6. AvailableBalance(n, a) - 0 - h >= Floor
    BY <2>2 DEF Affords
  <2>7. AvailableBalance(n, a) \in Int /\ Floor \in Int
    BY <2>3, AvailableInt, PlanFacts
  <2>8. Start(n, t)
    BY <2>2
  <2> HIDE DEF t
  <2>9. Begun(n, t)
    BY <2>1, <2>3, <2>5, <2>6, <2>7 DEF Begun
  <2> QED BY <2>8, <2>9
<1>6. CASE StartSettle(n)
  <2>1. n \in plan.spenders
    BY <1>6 DEF StartSettle
  <2>2. PICK i \in resv[n], x \in plan.debits :
          /\ Open(n, i) /\ x <= minted[i].hold
          /\ Start(n, [Idle EXCEPT !.pc = "settle", !.account = minted[i].account,
                                   !.amount = 0 - x, !.ref = i])
    BY <1>6 DEF StartSettle
  <2>3. i \in Ids /\ i \in Nat /\ minted[i] \in EventSet
    BY <1>1 DEF Ids, StateOK
  <2> DEFINE a == minted[i].account
             y == 0 - x
  <2>4. a \in Accounts /\ minted[i].hold \in Nat
    BY <2>3 DEF EventSet
  <2>5. y \in Int /\ 0 - y = x /\ x \in Nat
    BY PlanFacts
  <2> DEFINE t == [Idle EXCEPT !.pc = "settle", !.account = a, !.amount = y, !.ref = i]
  <2>6. Start(n, t)
    BY <2>2
  <2> HIDE DEF y
  <2> HIDE DEF a
  <2>7. "settle" \in Pcs
    BY DEF Pcs
  <2>8. t \in TaskSet /\ t.out = <<>> /\ t.account = a /\ t.amount = y /\ t.ref = i
        /\ t.to = NoAccount /\ t.pc = "settle"
    BY <2>3, <2>4, <2>5, <2>7, IdleFacts DEF TaskSet
  <2> HIDE DEF t
  <2>9. Begun(n, t)
    BY <2>1, <2>2, <2>4, <2>5, <2>8 DEF Begun, a
  <2> QED BY <2>6, <2>9
<1>7. CASE StartRelease(n)
  <2>1. n \in plan.spenders
    BY <1>7 DEF StartRelease
  <2>2. PICK i \in resv[n] :
          /\ Open(n, i)
          /\ Start(n, [Idle EXCEPT !.pc = "release", !.account = minted[i].account, !.ref = i])
    BY <1>7 DEF StartRelease
  <2>3. i \in Ids /\ i \in Nat /\ minted[i] \in EventSet
    BY <1>1 DEF Ids, StateOK
  <2> DEFINE a == minted[i].account
             t == [Idle EXCEPT !.pc = "release", !.account = a, !.ref = i]
  <2>4. a \in Accounts
    BY <2>3 DEF EventSet
  <2>5. "release" \in Pcs
    BY DEF Pcs
  <2>6. t \in TaskSet /\ t.out = <<>> /\ t.account = a /\ t.ref = i
        /\ t.to = NoAccount /\ t.pc = "release"
    BY <2>3, <2>4, <2>5, IdleFacts DEF TaskSet
  <2>7. Start(n, t)
    BY <2>2
  <2> HIDE DEF t, a
  <2>8. Begun(n, t)
    BY <2>1, <2>2, <2>4, <2>6 DEF Begun
  <2> QED BY <2>7, <2>8
<1> QED BY <1>2, <1>3, <1>4, <1>5, <1>6, <1>7 DEF Starts

-----------------------------------------------------------------------------
(* What the steps of a request do.                                         *)

EventIs(e, type, n, a, x, h, exp, ref, to) ==
  /\ e.type = type /\ e.origin = n /\ e.account = a /\ e.amount = x /\ e.hold = h
  /\ e.expires = exp /\ e.ref = ref /\ e.to = to

\* The fields of an event.
LEMMA EventFacts ==
  ASSUME NEW type \in {"standard", "reservation", "release"}, NEW n \in Nodes,
         NEW a \in Accounts, NEW x \in Int, NEW h \in Nat, NEW exp \in Nat, NEW ref \in Nat,
         NEW to \in Accounts \cup {NoAccount}
  PROVE  LET e == Event(type, n, a, x, h, exp, ref, to)
         IN e \in EventSet /\ EventIs(e, type, n, a, x, h, exp, ref, to)
BY DEF Event, EventSet, EventIs

\* The request is the same, but for where it is and what it has created.
SameRequest(t, u) ==
  /\ u.account = t.account /\ u.amount = t.amount /\ u.hold = t.hold
  /\ u.expires = t.expires /\ u.ref = t.ref /\ u.to = t.to

\* The task of n created one event and goes on at l.
Created(n, l) ==
  /\ minted' \in Seq(EventSet) /\ Ids' = Ids \cup {NewId} /\ NewId \notin Ids
  /\ NewId \in Nat \ {0} /\ \A i \in Ids : minted'[i] = minted[i]
  /\ task' \in [Nodes -> TaskSet] /\ \A m \in Nodes \ {n} : task'[m] = task[m]
  /\ task'[n].pc = l /\ Range(task'[n].out) = Range(task[n].out) \cup {NewId}
  /\ SameRequest(task[n], task'[n])
  /\ UNCHANGED <<now, have, queue, db, crashes, faults>>

\* Mint does what Created says.
LEMMA MintFacts ==
  ASSUME StateOK, NEW n \in Nodes, NEW e \in EventSet, NEW l \in Pcs, Mint(n, e, l)
  PROVE  Created(n, l) /\ minted'[NewId] = e
<1>1. /\ minted' \in Seq(EventSet) /\ Ids' = Ids \cup {NewId} /\ NewId \notin Ids
      /\ NewId \in Nat \ {0} /\ minted'[NewId] = e
      /\ \A i \in Ids : minted'[i] = minted[i]
  BY IdsAppend DEF Mint
<1> DEFINE o == Append(task[n].out, NewId)
<1>2. task[n] \in TaskSet /\ task \in [Nodes -> TaskSet]
  BY DEF StateOK
<1>3. task[n].out \in Seq(Nat)
  BY <1>2 DEF TaskSet
<1>4. o \in Seq(Nat) /\ Range(o) = Range(task[n].out) \cup {NewId}
  <2> DEFINE s == task[n].out
             k == NewId
  <2>1. s \in Seq(Nat) /\ k \in Nat
    BY <1>1, <1>3
  <2> HIDE DEF s, k
  <2>2. Append(s, k) \in Seq(Nat) /\ Range(Append(s, k)) = Range(s) \cup {k}
    BY <2>1, RangeAppend
  <2> QED BY <2>2 DEF s, k
<1>5. task' = [task EXCEPT ![n] = [task[n] EXCEPT !.pc = l, !.out = o]]
  BY <1>2 DEF Mint
<1> HIDE DEF o
<1>6. [task[n] EXCEPT !.pc = l, !.out = o] \in TaskSet
  BY <1>2, <1>4 DEF TaskSet
<1>7. task' \in [Nodes -> TaskSet] /\ \A m \in Nodes \ {n} : task'[m] = task[m]
  BY <1>2, <1>5, <1>6
<1>8. task'[n].pc = l /\ task'[n].out = o /\ SameRequest(task[n], task'[n])
  <2>1. task'[n] = [task[n] EXCEPT !.pc = l, !.out = o]
    BY <1>2, <1>5
  <2> DEFINE t == task[n]
             u == task'[n]
  <2>2. t \in TaskSet /\ u = [t EXCEPT !.pc = l, !.out = o]
    BY <1>2, <2>1
  <2> HIDE DEF t, u
  <2>3. u.pc = l /\ u.out = o /\ SameRequest(t, u)
    BY <2>2 DEF TaskSet, SameRequest
  <2> QED BY <2>3 DEF t, u
<1>9. UNCHANGED <<now, have, queue, db, crashes, faults>>
  BY DEF Mint
<1> QED BY <1>1, <1>4, <1>7, <1>8, <1>9 DEF Created

\* The balance of one account on one node.
LEMMA BalanceFacts ==
  ASSUME StateOK, NEW n \in Nodes, NEW a \in Accounts, NEW x \in Int, AddToBalance(n, a, x)
  PROVE  /\ balance' \in [Nodes -> [Accounts -> Int]] /\ balance'[n][a] = balance[n][a] + x
         /\ \A m \in Nodes \ {n} : balance'[m] = balance[m]
         /\ \A b \in Accounts \ {a} : balance'[n][b] = balance[n][b]
BY DEF AddToBalance, StateOK

\* What is known of a request under way.
LEMMA RequestFacts ==
  ASSUME StateOK, RequestsOK, NEW n \in Nodes
  PROVE  LET t == task[n]
         IN /\ t \in TaskSet /\ t.amount \in Int /\ t.hold \in Nat /\ t.expires \in Nat
            /\ t.ref \in Nat /\ t.to \in Accounts \cup {NoAccount} /\ t.pc \in Pcs
            /\ t.pc # "idle" => t.account \in Accounts
            /\ t.out \in Seq(Nat)
BY DEF StateOK, RequestsOK, RequestOK, TaskSet

\* MintHold and MintReserve: a reservation that is tracked at once.
LEMMA HoldMinted ==
  ASSUME StateOK, RequestsOK, NEW n \in Nodes, MintHold(n) \/ MintReserve(n)
  PROVE  LET t == task[n]
         IN /\ \/ t.pc = "hold" /\ Created(n, "charge")
               \/ t.pc = "reserve" /\ Created(n, "flush")
            /\ t.hold > 0 /\ t.account \in Accounts
            /\ EventIs(minted'[NewId], "reservation", n, t.account, 0, t.hold, t.expires, NoRef,
                       NoAccount)
            /\ resv' = [resv EXCEPT ![n] = @ \cup {NewId}] /\ UNCHANGED <<balance, released>>
<1> DEFINE t == task[n]
           z == 0
           e == Event("reservation", n, t.account, z, t.hold, t.expires, z, NoAccount)
<1>1. t.pc \in {"hold", "reserve"}
  BY DEF MintHold, MintReserve
<1>2. t.account \in Accounts /\ t.hold > 0 /\ t.hold \in Nat /\ t.expires \in Nat
  BY <1>1, RequestFacts DEF RequestsOK, RequestOK
<1>3. e \in EventSet
      /\ EventIs(e, "reservation", n, t.account, z, t.hold, t.expires, z, NoAccount)
  <2>1. z \in Nat /\ z \in Int /\ "reservation" \in {"standard", "reservation", "release"}
        /\ NoAccount \in Accounts \cup {NoAccount}
    OBVIOUS
  <2> HIDE DEF t, z
  <2> QED BY <1>2, <2>1, EventFacts
<1>4. \/ t.pc = "hold" /\ Mint(n, e, "charge")
      \/ t.pc = "reserve" /\ Mint(n, e, "flush")
  BY DEF MintHold, MintReserve, NoRef
<1>5. resv' = [resv EXCEPT ![n] = @ \cup {NewId}] /\ UNCHANGED <<balance, released>>
  BY DEF MintHold, MintReserve
<1> HIDE DEF e, t
<1>6. \A l \in Pcs : Mint(n, e, l) => Created(n, l) /\ minted'[NewId] = e
  BY <1>3, MintFacts
<1>7. "charge" \in Pcs /\ "flush" \in Pcs
  BY DEF Pcs
<1>8. CASE t.pc = "hold" /\ Mint(n, e, "charge")
  BY <1>2, <1>3, <1>5, <1>6, <1>7, <1>8 DEF t, NoRef
<1>9. CASE t.pc = "reserve" /\ Mint(n, e, "flush")
  BY <1>2, <1>3, <1>5, <1>6, <1>7, <1>9 DEF t, NoRef
<1> QED BY <1>4, <1>8, <1>9

\* MintCharge: the amount of the request.
LEMMA ChargeMinted ==
  ASSUME StateOK, RequestsOK, NEW n \in Nodes, MintCharge(n)
  PROVE  LET t == task[n]
         IN /\ t.pc = "charge" /\ t.account \in Accounts /\ t.amount \in Int
            /\ IF t.to = NoAccount THEN Created(n, "flush") ELSE Created(n, "credit")
            /\ EventIs(minted'[NewId], "standard", n, t.account, t.amount, 0, 0, NoRef, t.to)
            /\ AddToBalance(n, t.account, t.amount) /\ UNCHANGED <<resv, released>>
<1> DEFINE t == task[n]
           z == 0
           e == Event("standard", n, t.account, t.amount, z, z, z, t.to)
           l == IF t.to = NoAccount THEN "flush" ELSE "credit"
<1>1. t.pc = "charge"
  BY DEF MintCharge
<1>2. t.account \in Accounts /\ t.amount \in Int /\ t.to \in Accounts \cup {NoAccount}
  BY <1>1, RequestFacts
<1>3. e \in EventSet /\ EventIs(e, "standard", n, t.account, t.amount, z, z, z, t.to)
  <2>1. z \in Nat /\ "standard" \in {"standard", "reservation", "release"}
    OBVIOUS
  <2> HIDE DEF t, z
  <2> QED BY <1>2, <2>1, EventFacts
<1>4. Mint(n, e, l) /\ AddToBalance(n, t.account, t.amount) /\ UNCHANGED <<resv, released>>
  BY DEF MintCharge, NoRef
<1>5. l \in Pcs
  BY DEF Pcs
<1> HIDE DEF e
<1>6. Created(n, l) /\ minted'[NewId] = e
  BY <1>3, <1>4, <1>5, MintFacts
<1>7. IF t.to = NoAccount THEN Created(n, "flush") ELSE Created(n, "credit")
  <2>1. CASE t.to = NoAccount
    BY <1>6, <2>1
  <2>2. CASE t.to # NoAccount
    BY <1>6, <2>2
  <2> QED BY <2>1, <2>2
<1>8. EventIs(minted'[NewId], "standard", n, t.account, t.amount, 0, 0, NoRef, t.to)
  BY <1>3, <1>6 DEF NoRef
<1> QED BY <1>1, <1>2, <1>4, <1>7, <1>8

Magnitude(x) == IF x < 0 THEN 0 - x ELSE x

\* MintCredit: the other side of a transfer.
LEMMA CreditMinted ==
  ASSUME StateOK, RequestsOK, NEW n \in Nodes, MintCredit(n)
  PROVE  LET t == task[n]
             x == Magnitude(t.amount)
         IN /\ t.pc = "credit" /\ t.to \in Accounts /\ x \in Nat
            /\ Created(n, "flush")
            /\ EventIs(minted'[NewId], "standard", n, t.to, x, 0, 0, NoRef, NoAccount)
            /\ AddToBalance(n, t.to, x) /\ UNCHANGED <<resv, released>>
<1> DEFINE t == task[n]
           z == 0
           x == Magnitude(t.amount)
           e == Event("standard", n, t.to, x, z, z, z, NoAccount)
<1>1. t.pc = "credit"
  BY DEF MintCredit
<1>2. t.to \in Accounts /\ x \in Nat
  BY <1>1, RequestFacts DEF RequestsOK, RequestOK, Magnitude
<1>3. e \in EventSet /\ EventIs(e, "standard", n, t.to, x, z, z, z, NoAccount)
  <2>1. /\ z \in Nat /\ x \in Int /\ "standard" \in {"standard", "reservation", "release"}
        /\ NoAccount \in Accounts \cup {NoAccount}
    BY <1>2
  <2> HIDE DEF t, z, x
  <2> QED BY <1>2, <2>1, EventFacts
<1>4. Mint(n, e, "flush") /\ AddToBalance(n, t.to, x) /\ UNCHANGED <<resv, released>>
  BY DEF MintCredit, NoRef, Magnitude
<1>5. "flush" \in Pcs
  BY DEF Pcs
<1> HIDE DEF e
<1>6. Created(n, "flush") /\ minted'[NewId] = e
  BY <1>3, <1>4, <1>5, MintFacts
<1>7. EventIs(minted'[NewId], "standard", n, t.to, x, 0, 0, NoRef, NoAccount)
  BY <1>3, <1>6 DEF NoRef
<1> QED BY <1>1, <1>2, <1>4, <1>6, <1>7

\* MintRelease: the hold ends.
LEMMA ReleaseMinted ==
  ASSUME StateOK, RequestsOK, NEW n \in Nodes, MintRelease(n)
  PROVE  LET t == task[n]
         IN /\ t.pc = "release" /\ t.account \in Accounts /\ t.ref \in Ids
            /\ Created(n, "flush")
            /\ EventIs(minted'[NewId], "release", n, t.account, 0, 0, 0, t.ref, NoAccount)
            /\ released' = [released EXCEPT ![n] = @ \cup {t.ref}]
            /\ UNCHANGED <<balance, resv>>
<1> DEFINE t == task[n]
           z == 0
           e == Event("release", n, t.account, z, z, z, t.ref, NoAccount)
<1>1. t.pc = "release"
  BY DEF MintRelease
<1>2. t.account \in Accounts /\ t.ref \in Nat /\ t.ref \in Ids
  BY <1>1, RequestFacts DEF RequestsOK, RequestOK
<1>3. e \in EventSet /\ EventIs(e, "release", n, t.account, z, z, z, t.ref, NoAccount)
  <2>1. /\ z \in Nat /\ z \in Int /\ "release" \in {"standard", "reservation", "release"}
        /\ NoAccount \in Accounts \cup {NoAccount}
    OBVIOUS
  <2> HIDE DEF t, z
  <2> QED BY <1>2, <2>1, EventFacts
<1>4. Mint(n, e, "flush") /\ released' = [released EXCEPT ![n] = @ \cup {t.ref}]
      /\ UNCHANGED <<balance, resv>>
  BY DEF MintRelease
<1>5. "flush" \in Pcs
  BY DEF Pcs
<1> HIDE DEF e
<1>6. Created(n, "flush") /\ minted'[NewId] = e
  BY <1>3, <1>4, <1>5, MintFacts
<1> QED BY <1>1, <1>2, <1>3, <1>4, <1>6

\* The task of n created the two events of a settle.
Settled(n) ==
  /\ minted' \in Seq(EventSet) /\ Ids' = Ids \cup {NewId, NewId + 1} /\ NewId \notin Ids
  /\ NewId + 1 \notin Ids /\ NewId \in Nat \ {0} /\ \A i \in Ids : minted'[i] = minted[i]
  /\ task' \in [Nodes -> TaskSet] /\ \A m \in Nodes \ {n} : task'[m] = task[m]
  /\ task'[n].pc = "flush" /\ Range(task'[n].out) = {NewId, NewId + 1}
  /\ SameRequest(task[n], task'[n])
  /\ UNCHANGED <<now, have, queue, db, crashes, faults>>

\* MintSettle: a charge and the release of the hold it captures.
LEMMA SettleMinted ==
  ASSUME StateOK, RequestsOK, NEW n \in Nodes, MintSettle(n)
  PROVE  LET t == task[n]
         IN /\ t.pc = "settle" /\ t.account \in Accounts /\ t.ref \in Ids /\ t.amount \in Int
            /\ Settled(n)
            /\ EventIs(minted'[NewId], "standard", n, t.account, t.amount, 0, 0, t.ref, NoAccount)
            /\ EventIs(minted'[NewId + 1], "release", n, t.account, 0, 0, 0, t.ref, NoAccount)
            /\ AddToBalance(n, t.account, t.amount)
            /\ released' = [released EXCEPT ![n] = @ \cup {t.ref}] /\ UNCHANGED resv
<1> DEFINE t == task[n]
           z == 0
           d == Event("standard", n, t.account, t.amount, z, z, t.ref, NoAccount)
           e == Event("release", n, t.account, z, z, z, t.ref, NoAccount)
           o == <<NewId, NewId + 1>>
<1>1. t.pc = "settle"
  BY DEF MintSettle
<1>2. t.account \in Accounts /\ t.ref \in Nat /\ t.ref \in Ids /\ t.amount \in Int
      /\ t \in TaskSet
  BY <1>1, RequestFacts DEF RequestsOK, RequestOK
<1>3. /\ d \in EventSet /\ EventIs(d, "standard", n, t.account, t.amount, z, z, t.ref, NoAccount)
      /\ e \in EventSet /\ EventIs(e, "release", n, t.account, z, z, z, t.ref, NoAccount)
  <2>1. /\ z \in Nat /\ z \in Int /\ "release" \in {"standard", "reservation", "release"}
        /\ "standard" \in {"standard", "reservation", "release"}
        /\ NoAccount \in Accounts \cup {NoAccount}
    OBVIOUS
  <2> HIDE DEF t, z
  <2> QED BY <1>2, <2>1, EventFacts
<1>4. minted' = minted \o <<d, e>>
  BY DEF MintSettle
<1>5. task' = [task EXCEPT ![n].pc = "flush", ![n].out = o]
  BY DEF MintSettle
<1>6. /\ AddToBalance(n, t.account, t.amount)
      /\ released' = [released EXCEPT ![n] = @ \cup {t.ref}]
      /\ UNCHANGED <<now, have, queue, db, resv, crashes, faults>>
  BY DEF MintSettle
<1> HIDE DEF d, e
<1>7. /\ minted' \in Seq(EventSet) /\ Ids' = Ids \cup {NewId, NewId + 1}
      /\ NewId \notin Ids /\ NewId + 1 \notin Ids
      /\ NewId \in Nat \ {0} /\ minted'[NewId] = d /\ minted'[NewId + 1] = e
      /\ \A i \in Ids : minted'[i] = minted[i]
  BY <1>3, <1>4, IdsSettle
<1>8. o \in Seq(Nat) /\ Range(o) = {NewId, NewId + 1}
  <2> DEFINE k == NewId
             j == NewId + 1
  <2>1. k \in Nat /\ j \in Nat
    BY <1>7
  <2> HIDE DEF k, j
  <2>2. <<k, j>> \in Seq(Nat) /\ DOMAIN <<k, j>> = {1, 2}
    BY <2>1
  <2>3. Range(<<k, j>>) = {k, j}
    BY <2>2 DEF Range
  <2> QED BY <2>2, <2>3 DEF k, j
<1> HIDE DEF o
<1>9. task \in [Nodes -> TaskSet] /\ "flush" \in Pcs
  BY DEF StateOK, Pcs
<1>10. task' = [task EXCEPT ![n] = [task[n] EXCEPT !.pc = "flush", !.out = o]]
  BY <1>5, <1>9
<1>11. [task[n] EXCEPT !.pc = "flush", !.out = o] \in TaskSet
  BY <1>2, <1>8, <1>9 DEF TaskSet
<1>12. task' \in [Nodes -> TaskSet] /\ \A m \in Nodes \ {n} : task'[m] = task[m]
  BY <1>9, <1>10, <1>11
<1>13. task'[n].pc = "flush" /\ task'[n].out = o /\ SameRequest(task[n], task'[n])
  <2> DEFINE u == task'[n]
  <2>1. u = [t EXCEPT !.pc = "flush", !.out = o]
    BY <1>9, <1>10
  <2> HIDE DEF t, u
  <2>2. u.pc = "flush" /\ u.out = o /\ SameRequest(t, u)
    BY <1>2, <2>1 DEF TaskSet, SameRequest
  <2> QED BY <2>2 DEF t, u
<1>14. Settled(n)
  BY <1>6, <1>7, <1>8, <1>12, <1>13 DEF Settled
<1>15. EventIs(minted'[NewId], "standard", n, t.account, t.amount, 0, 0, t.ref, NoAccount)
  BY <1>3, <1>7
<1>16. EventIs(minted'[NewId + 1], "release", n, t.account, 0, 0, 0, t.ref, NoAccount)
  BY <1>3, <1>7
<1> QED BY <1>1, <1>2, <1>6, <1>14, <1>15, <1>16

-----------------------------------------------------------------------------
(* The shape of the state is kept.                                         *)

\* A request takes its node's task.
LEMMA StartFacts ==
  ASSUME StateOK, NEW n \in Nodes, NEW t \in TaskSet, Start(n, t)
  PROVE  /\ task[n].pc = "idle" /\ task' \in [Nodes -> TaskSet] /\ task'[n] = t
         /\ \A m \in Nodes \ {n} : task'[m] = task[m]
         /\ UNCHANGED <<now, minted, have, queue, db, balance, resv, released, crashes, faults>>
BY DEF Start, StateOK

\* One of the steps of the nodes or the clock, under the plan.
LEMMA NextCases ==
  ASSUME StateOK, [Next]_vars
  PROVE  /\ plan' = plan
         /\ \/ \E n \in Nodes :
                 \/ Starts(n) \/ Step(n) \/ AllocFails(n) \/ Sweep(n) \/ Persist(n) \/ Crash(n)
                 \/ \E i \in Ids : Receive(n, i)
            \/ Tick
            \/ UNCHANGED vars
<1>1. plan' = plan
  BY DEF Next, vars
<1>2. plan.nodes \subseteq Nodes
  BY PlanFacts
<1>3. CASE Next
  BY <1>1, <1>2, <1>3 DEF Next, Starts
<1> QED BY <1>1, <1>3

\* The shape of the initial state.
LEMMA StateInit == Init => StateOK /\ RequestsOK
<1> SUFFICES ASSUME Init PROVE StateOK /\ RequestsOK
  OBVIOUS
<1> DEFINE e == Event("standard", CHOOSE n \in Nodes : TRUE, FirstAccount, Seed, 0, 0, NoRef,
                      NoAccount)
<1>1. e \in EventSet /\ e.ref = NoRef /\ e.type = "standard"
  BY AccountsAssumption, AmountsAssumption DEF Event, EventSet, NoRef
<1>2. minted = <<e>>
  BY DEF Init
<1> HIDE DEF e
<1>3. minted \in Seq(EventSet) /\ Len(minted) = 1 /\ minted[1] = e
  BY <1>1, <1>2
<1>4. Ids = {1}
  BY <1>3 DEF Ids
<1>5. plan \in Plans /\ now \in Nat /\ crashes \in Nat /\ faults \in Nat
  BY DEF Init
<1>6. have \in [Nodes -> SUBSET Ids] /\ db \in [Nodes -> SUBSET Ids]
      /\ resv \in [Nodes -> SUBSET Ids] /\ released \in [Nodes -> SUBSET Ids]
      /\ \A n \in Nodes : db[n] \subseteq have[n]
  BY <1>4 DEF Init
<1>7. balance \in [Nodes -> [Accounts -> Int]]
  BY AmountsAssumption DEF Init
<1>8. <<>> \in Seq(Nat) /\ Range(<<>>) = {}
  BY DEF Range
<1>9. queue \in [Nodes -> Seq(Nat)] /\ \A n \in Nodes : Range(queue[n]) \subseteq have[n]
  <2>1. queue = [n \in Nodes |-> <<>>]
    BY DEF Init
  <2> QED BY <1>8, <2>1
<1>10. task \in [Nodes -> TaskSet] /\ \A n \in Nodes : task[n] = Idle
  BY IdleFacts DEF Init
<1>11. StateOK
  BY <1>1, <1>3, <1>4, <1>5, <1>6, <1>7, <1>9, <1>10 DEF StateOK
<1>12. RequestsOK
  BY <1>8, <1>10, IdleFacts DEF RequestsOK, RequestOK
<1> QED BY <1>11, <1>12

\* A created event leaves the other requests as they were.
LEMMA CreatedKeeps ==
  ASSUME StateOK, RequestsOK, NEW n \in Nodes, NEW l \in Pcs \ {"hold", "reserve", "settle",
         "release", "idle"}, Created(n, l), minted'[NewId].origin = n,
         task[n].account \in Accounts, l = "credit" => task[n].to \in Accounts
  PROVE  RequestsOK'
<1> SUFFICES ASSUME NEW m \in Nodes PROVE RequestOK(m)'
  BY DEF RequestsOK
<1>1. /\ Ids \subseteq Ids' /\ NewId \in Ids' /\ NewId \notin Ids
      /\ \A i \in Ids : minted'[i] = minted[i]
      /\ have' = have /\ \A k \in Nodes : have[k] \subseteq Ids
  BY DEF Created, StateOK
<1>2. RequestOK(m) /\ RequestOK(n)
  BY DEF RequestsOK
<1>3. CASE m = n
  <2>1. /\ task'[n].pc = l /\ Range(task'[n].out) = Range(task[n].out) \cup {NewId}
        /\ task'[n].account = task[n].account /\ task'[n].to = task[n].to
    BY DEF Created, SameRequest
  <2>2. l \notin {"hold", "reserve", "settle", "release", "idle"}
    OBVIOUS
  <2>3. Range(task'[n].out) \subseteq Ids'
        /\ \A i \in Range(task'[n].out) : minted'[i].origin = n /\ \A k \in Nodes : i \notin have'[k]
    BY <1>1, <1>2, <2>1 DEF RequestOK
  <2> QED BY <1>3, <2>1, <2>2, <2>3 DEF RequestOK
<1>4. CASE m # n
  <2>1. task'[m] = task[m]
    BY <1>4 DEF Created
  <2> QED BY <1>1, <1>2, <2>1 DEF RequestOK
<1> QED BY <1>3, <1>4

\* Requests keep their shape when no event is created and only what is not of
\* a request under way reaches the logs.
LEMMA RequestKept ==
  ASSUME StateOK, RequestsOK, NEW m \in Nodes, task'[m] = task[m], minted' = minted,
         \A k \in Nodes : \A i \in have'[k] : i \in have[k] \/ i \notin Range(task[m].out)
  PROVE  RequestOK(m)'
<1>1. RequestOK(m) /\ Ids' = Ids
  BY DEF RequestsOK, Ids
<1> QED BY <1>1 DEF RequestOK

\* The shape of the state is kept by the steps of a request.
LEMMA StateStep ==
  ASSUME StateOK, RequestsOK, NEW n \in Nodes, Step(n), plan' = plan
  PROVE  StateOK' /\ RequestsOK'
<1>1. /\ plan \in Plans /\ now \in Nat /\ have \in [Nodes -> SUBSET Ids]
      /\ db \in [Nodes -> SUBSET Ids] /\ queue \in [Nodes -> Seq(Nat)]
      /\ \A m \in Nodes : Range(queue[m]) \subseteq have[m] /\ db[m] \subseteq have[m]
      /\ resv \in [Nodes -> SUBSET Ids] /\ released \in [Nodes -> SUBSET Ids]
      /\ crashes \in Nat /\ faults \in Nat /\ balance \in [Nodes -> [Accounts -> Int]]
      /\ \A i \in Ids : /\ minted[i].ref \in Ids \cup {NoRef}
                        /\ minted[i].type = "release" => minted[i].ref \in Ids
  BY DEF StateOK
<1>2. CASE MintHold(n) \/ MintReserve(n)
  <2>1. /\ \/ Created(n, "charge") \/ Created(n, "flush")
        /\ task[n].account \in Accounts
        /\ minted'[NewId].origin = n /\ minted'[NewId].ref = NoRef
        /\ minted'[NewId].type # "release"
        /\ resv' = [resv EXCEPT ![n] = @ \cup {NewId}] /\ UNCHANGED <<balance, released>>
    BY <1>2, HoldMinted DEF EventIs
  <2>2. /\ minted' \in Seq(EventSet) /\ Ids' = Ids \cup {NewId} /\ NewId \notin Ids
        /\ \A i \in Ids : minted'[i] = minted[i]
        /\ task' \in [Nodes -> TaskSet]
        /\ UNCHANGED <<now, have, queue, db, crashes, faults>>
    BY <2>1 DEF Created
  <2>3. StateOK'
    <3>1. \A i \in Ids' : /\ minted'[i].ref \in Ids' \cup {NoRef}
                          /\ minted'[i].type = "release" => minted'[i].ref \in Ids'
      BY <1>1, <2>1, <2>2
    <3>2. resv' \in [Nodes -> SUBSET Ids'] /\ released' \in [Nodes -> SUBSET Ids']
      BY <1>1, <2>1, <2>2
    <3>3. have' \in [Nodes -> SUBSET Ids'] /\ db' \in [Nodes -> SUBSET Ids']
      BY <1>1, <2>2
    <3> QED BY <1>1, <2>1, <2>2, <3>1, <3>2, <3>3 DEF StateOK
  <2>4. RequestsOK'
    <3>1. "charge" \in Pcs \ {"hold", "reserve", "settle", "release", "idle"}
          /\ "flush" \in Pcs \ {"hold", "reserve", "settle", "release", "idle"}
      BY DEF Pcs
    <3> QED BY <2>1, <3>1, CreatedKeeps
  <2> QED BY <2>3, <2>4
<1>3. CASE MintCharge(n)
  <2>1. /\ task[n].pc = "charge" /\ task[n].account \in Accounts /\ task[n].amount \in Int
        /\ IF task[n].to = NoAccount THEN Created(n, "flush") ELSE Created(n, "credit")
        /\ minted'[NewId].origin = n /\ minted'[NewId].ref = NoRef
        /\ minted'[NewId].type # "release"
        /\ AddToBalance(n, task[n].account, task[n].amount) /\ UNCHANGED <<resv, released>>
    BY <1>3, ChargeMinted DEF EventIs
  <2>2. /\ minted' \in Seq(EventSet) /\ Ids' = Ids \cup {NewId} /\ NewId \notin Ids
        /\ \A i \in Ids : minted'[i] = minted[i]
        /\ task' \in [Nodes -> TaskSet]
        /\ UNCHANGED <<now, have, queue, db, crashes, faults>>
    BY <2>1 DEF Created
  <2>3. StateOK'
    <3>1. \A i \in Ids' : /\ minted'[i].ref \in Ids' \cup {NoRef}
                          /\ minted'[i].type = "release" => minted'[i].ref \in Ids'
      BY <1>1, <2>1, <2>2
    <3>2. resv' \in [Nodes -> SUBSET Ids'] /\ released' \in [Nodes -> SUBSET Ids']
      BY <1>1, <2>1, <2>2
    <3>3. have' \in [Nodes -> SUBSET Ids'] /\ db' \in [Nodes -> SUBSET Ids']
      BY <1>1, <2>2
    <3>4. balance' \in [Nodes -> [Accounts -> Int]]
      BY <2>1, BalanceFacts
    <3> QED BY <1>1, <2>1, <2>2, <3>1, <3>2, <3>3, <3>4 DEF StateOK
  <2>4. RequestsOK'
    <3>1. "credit" \in Pcs \ {"hold", "reserve", "settle", "release", "idle"}
          /\ "flush" \in Pcs \ {"hold", "reserve", "settle", "release", "idle"}
      BY DEF Pcs
    <3>2. task[n].to \in Accounts \cup {NoAccount}
      BY RequestFacts
    <3>3. CASE task[n].to = NoAccount
      BY <2>1, <3>1, <3>3, CreatedKeeps
    <3>4. CASE task[n].to # NoAccount
      BY <2>1, <3>1, <3>2, <3>4, CreatedKeeps
    <3> QED BY <3>3, <3>4
  <2> QED BY <2>3, <2>4
<1>4. CASE MintCredit(n)
  <2> DEFINE x == Magnitude(task[n].amount)
  <2>1. /\ task[n].pc = "credit" /\ task[n].to \in Accounts /\ x \in Int
        /\ Created(n, "flush")
        /\ minted'[NewId].origin = n /\ minted'[NewId].ref = NoRef
        /\ minted'[NewId].type # "release"
        /\ AddToBalance(n, task[n].to, x) /\ UNCHANGED <<resv, released>>
    BY <1>4, CreditMinted DEF EventIs
  <2> HIDE DEF x
  <2>2. /\ minted' \in Seq(EventSet) /\ Ids' = Ids \cup {NewId} /\ NewId \notin Ids
        /\ \A i \in Ids : minted'[i] = minted[i]
        /\ task' \in [Nodes -> TaskSet]
        /\ UNCHANGED <<now, have, queue, db, crashes, faults>>
    BY <2>1 DEF Created
  <2>3. StateOK'
    <3>1. \A i \in Ids' : /\ minted'[i].ref \in Ids' \cup {NoRef}
                          /\ minted'[i].type = "release" => minted'[i].ref \in Ids'
      BY <1>1, <2>1, <2>2
    <3>2. resv' \in [Nodes -> SUBSET Ids'] /\ released' \in [Nodes -> SUBSET Ids']
      BY <1>1, <2>1, <2>2
    <3>3. have' \in [Nodes -> SUBSET Ids'] /\ db' \in [Nodes -> SUBSET Ids']
      BY <1>1, <2>2
    <3>4. balance' \in [Nodes -> [Accounts -> Int]]
      BY <2>1, BalanceFacts
    <3> QED BY <1>1, <2>1, <2>2, <3>1, <3>2, <3>3, <3>4 DEF StateOK
  <2>4. RequestsOK'
    <3>1. "flush" \in Pcs \ {"hold", "reserve", "settle", "release", "idle"}
      BY DEF Pcs
    <3>2. task[n].account \in Accounts
      BY <2>1, RequestFacts
    <3> QED BY <2>1, <3>1, <3>2, CreatedKeeps
  <2> QED BY <2>3, <2>4
<1>5. CASE Flush(n)
  <2>1. /\ have' = [have EXCEPT ![n] = @ \cup Range(task[n].out)]
        /\ queue' = [queue EXCEPT ![n] = @ \o task[n].out]
        /\ task' = [task EXCEPT ![n] = Idle]
        /\ UNCHANGED <<now, minted, db, balance, resv, released, crashes, faults>>
    BY <1>5 DEF Flush
  <2>2. Ids' = Ids /\ task[n].out \in Seq(Nat) /\ Range(task[n].out) \subseteq Ids
    BY <2>1, RequestFacts DEF Ids, RequestsOK, RequestOK
  <2>3. /\ task' \in [Nodes -> TaskSet] /\ task'[n] = Idle
        /\ \A m \in Nodes \ {n} : task'[m] = task[m]
    BY <2>1, IdleFacts DEF StateOK
  <2>4. StateOK'
    <3>1. have' \in [Nodes -> SUBSET Ids'] /\ db' \in [Nodes -> SUBSET Ids']
      BY <1>1, <2>1, <2>2
    <3>2. Range(queue[n] \o task[n].out) = Range(queue[n]) \cup Range(task[n].out)
          /\ queue[n] \o task[n].out \in Seq(Nat)
      <4> DEFINE s == queue[n]
                 r == task[n].out
      <4>1. s \in Seq(Nat) /\ r \in Seq(Nat)
        BY <1>1, <2>2
      <4> HIDE DEF s, r
      <4>2. Range(s \o r) = Range(s) \cup Range(r) /\ s \o r \in Seq(Nat)
        BY <4>1, RangeConcat
      <4> QED BY <4>2 DEF s, r
    <3>3. /\ queue' \in [Nodes -> Seq(Nat)]
          /\ \A m \in Nodes : Range(queue'[m]) \subseteq have'[m] /\ db'[m] \subseteq have'[m]
      <4> DEFINE q == queue[n] \o task[n].out
      <4>1. q \in Seq(Nat) /\ queue' = [queue EXCEPT ![n] = q]
            /\ Range(q) \subseteq have[n] \cup Range(task[n].out)
        BY <1>1, <2>1, <3>2
      <4> HIDE DEF q
      <4> QED BY <1>1, <2>1, <4>1
    <3> QED BY <1>1, <2>1, <2>2, <2>3, <3>1, <3>3 DEF StateOK
  <2>5. RequestsOK'
    <3> SUFFICES ASSUME NEW m \in Nodes PROVE RequestOK(m)'
      BY DEF RequestsOK
    <3>1. CASE m = n
      <4>1. Range(<<>>) = {}
        BY DEF Range
      <4> QED BY <2>3, <3>1, <4>1, IdleFacts DEF RequestOK
    <3>2. CASE m # n
      <4>1. \A i \in Range(task[n].out) : i \notin Range(task[m].out)
        BY <3>2 DEF RequestsOK, RequestOK
      <4>2. \A k \in Nodes : \A i \in have'[k] : i \in have[k] \/ i \notin Range(task[m].out)
        BY <1>1, <2>1, <4>1
      <4> QED BY <2>1, <2>3, <3>2, <4>2, RequestKept
    <3> QED BY <3>1, <3>2
  <2> QED BY <2>4, <2>5
<1>6. CASE MintSettle(n)
  <2>1. /\ task[n].account \in Accounts /\ task[n].amount \in Int /\ task[n].ref \in Ids
        /\ Settled(n)
        /\ minted'[NewId].origin = n /\ minted'[NewId].ref = task[n].ref
        /\ minted'[NewId + 1].origin = n /\ minted'[NewId + 1].ref = task[n].ref
        /\ AddToBalance(n, task[n].account, task[n].amount)
        /\ released' = [released EXCEPT ![n] = @ \cup {task[n].ref}] /\ UNCHANGED resv
    BY <1>6, SettleMinted DEF EventIs
  <2>2. /\ minted' \in Seq(EventSet) /\ Ids' = Ids \cup {NewId, NewId + 1} /\ NewId \notin Ids
        /\ NewId + 1 \notin Ids
        /\ \A i \in Ids : minted'[i] = minted[i]
        /\ task' \in [Nodes -> TaskSet]
        /\ \A m \in Nodes \ {n} : task'[m] = task[m]
        /\ task'[n].pc = "flush" /\ Range(task'[n].out) = {NewId, NewId + 1}
        /\ task'[n].account = task[n].account
        /\ UNCHANGED <<now, have, queue, db, crashes, faults>>
    BY <2>1 DEF Settled, SameRequest
  <2>3. StateOK'
    <3>1. \A i \in Ids' : /\ minted'[i].ref \in Ids' \cup {NoRef}
                          /\ minted'[i].type = "release" => minted'[i].ref \in Ids'
      BY <1>1, <2>1, <2>2
    <3>2. resv' \in [Nodes -> SUBSET Ids'] /\ released' \in [Nodes -> SUBSET Ids']
      BY <1>1, <2>1, <2>2
    <3>3. have' \in [Nodes -> SUBSET Ids'] /\ db' \in [Nodes -> SUBSET Ids']
      BY <1>1, <2>2
    <3>4. balance' \in [Nodes -> [Accounts -> Int]]
      BY <2>1, BalanceFacts
    <3> QED BY <1>1, <2>1, <2>2, <3>1, <3>2, <3>3, <3>4 DEF StateOK
  <2>4. RequestsOK'
    <3> SUFFICES ASSUME NEW m \in Nodes PROVE RequestOK(m)'
      BY DEF RequestsOK
    <3>1. CASE m = n
      <4>1. \A i \in {NewId, NewId + 1} : minted'[i].origin = n
                                          /\ \A k \in Nodes : i \notin have'[k]
        BY <1>1, <2>1, <2>2
      <4> QED BY <2>1, <2>2, <3>1, <4>1 DEF RequestOK
    <3>2. CASE m # n
      <4>1. RequestOK(m) /\ task'[m] = task[m] /\ Ids \subseteq Ids' /\ have' = have
        BY <2>2, <3>2 DEF RequestsOK
      <4>2. \A i \in Ids : minted'[i] = minted[i]
        BY <2>2
      <4> QED BY <4>1, <4>2 DEF RequestOK
    <3> QED BY <3>1, <3>2
  <2> QED BY <2>3, <2>4
<1>7. CASE MintRelease(n)
  <2>1. /\ task[n].account \in Accounts /\ task[n].ref \in Ids /\ Created(n, "flush")
        /\ minted'[NewId].origin = n /\ minted'[NewId].ref = task[n].ref
        /\ released' = [released EXCEPT ![n] = @ \cup {task[n].ref}]
        /\ UNCHANGED <<balance, resv>>
    BY <1>7, ReleaseMinted DEF EventIs
  <2>2. /\ minted' \in Seq(EventSet) /\ Ids' = Ids \cup {NewId} /\ NewId \notin Ids
        /\ \A i \in Ids : minted'[i] = minted[i]
        /\ task' \in [Nodes -> TaskSet]
        /\ UNCHANGED <<now, have, queue, db, crashes, faults>>
    BY <2>1 DEF Created
  <2>3. StateOK'
    <3>1. \A i \in Ids' : /\ minted'[i].ref \in Ids' \cup {NoRef}
                          /\ minted'[i].type = "release" => minted'[i].ref \in Ids'
      BY <1>1, <2>1, <2>2
    <3>2. resv' \in [Nodes -> SUBSET Ids'] /\ released' \in [Nodes -> SUBSET Ids']
      BY <1>1, <2>1, <2>2
    <3>3. have' \in [Nodes -> SUBSET Ids'] /\ db' \in [Nodes -> SUBSET Ids']
      BY <1>1, <2>2
    <3> QED BY <1>1, <2>1, <2>2, <3>1, <3>2, <3>3 DEF StateOK
  <2>4. RequestsOK'
    <3>1. "flush" \in Pcs \ {"hold", "reserve", "settle", "release", "idle"}
      BY DEF Pcs
    <3> QED BY <2>1, <3>1, CreatedKeeps
  <2> QED BY <2>3, <2>4
<1> QED BY <1>2, <1>3, <1>4, <1>5, <1>6, <1>7 DEF Step

\* A started request has the shape of one.
LEMMA StateStart ==
  ASSUME StateOK, RequestsOK, NEW n \in Nodes, NEW t, Begun(n, t), Start(n, t), plan' = plan
  PROVE  StateOK' /\ RequestsOK'
<1>1. t \in TaskSet
  BY DEF Begun
<1>2. /\ task' \in [Nodes -> TaskSet] /\ task'[n] = t
      /\ \A m \in Nodes \ {n} : task'[m] = task[m]
      /\ UNCHANGED <<now, minted, have, queue, db, balance, resv, released, crashes, faults>>
  BY <1>1, StartFacts
<1>3. Ids' = Ids
  BY <1>2 DEF Ids
<1>4. StateOK'
  BY <1>2, <1>3 DEF StateOK
<1>5. RequestsOK'
  <2> SUFFICES ASSUME NEW m \in Nodes PROVE RequestOK(m)'
    BY DEF RequestsOK
  <2>1. CASE m = n
    <3>1. Range(<<>>) = {}
      BY DEF Range
    <3>2. t.pc \in {"settle", "release"} => t.ref \in Ids
      BY DEF Begun, StateOK
    <3> QED BY <1>2, <1>3, <2>1, <3>1, <3>2 DEF RequestOK, Begun
  <2>2. CASE m # n
    BY <1>2, <2>2, RequestKept
  <2> QED BY <2>1, <2>2
<1> QED BY <1>4, <1>5

\* The shape of the state is kept by what else a node does.
LEMMA StateRest ==
  ASSUME StateOK, RequestsOK, plan' = plan, NEW n \in Nodes,
         \/ AllocFails(n) \/ Sweep(n) \/ Persist(n) \/ Crash(n)
         \/ \E i \in Ids : Receive(n, i)
  PROVE  StateOK' /\ RequestsOK'
<1>1. /\ plan \in Plans /\ now \in Nat /\ have \in [Nodes -> SUBSET Ids]
      /\ db \in [Nodes -> SUBSET Ids] /\ queue \in [Nodes -> Seq(Nat)]
      /\ \A m \in Nodes : Range(queue[m]) \subseteq have[m] /\ db[m] \subseteq have[m]
      /\ resv \in [Nodes -> SUBSET Ids] /\ released \in [Nodes -> SUBSET Ids]
      /\ crashes \in Nat /\ faults \in Nat /\ balance \in [Nodes -> [Accounts -> Int]]
      /\ \A i \in Ids : /\ minted[i].ref \in Ids \cup {NoRef}
                        /\ minted[i].type = "release" => minted[i].ref \in Ids
      /\ minted \in Seq(EventSet) /\ task \in [Nodes -> TaskSet]
  BY DEF StateOK
<1>2. minted' = minted /\ Ids' = Ids
  BY DEF AllocFails, Sweep, Persist, Crash, Receive, Ids
<1>3. CASE AllocFails(n)
  <2>1. /\ faults' = faults + 1 /\ task' = [task EXCEPT ![n] = Idle]
        /\ UNCHANGED <<now, minted, have, queue, db, balance, resv, released, crashes>>
    BY <1>3 DEF AllocFails
  <2>2. StateOK'
    BY <1>1, <1>2, <2>1, IdleFacts DEF StateOK
  <2>3. RequestsOK'
    <3> SUFFICES ASSUME NEW m \in Nodes PROVE RequestOK(m)'
      BY DEF RequestsOK
    <3>1. CASE m = n
      <4>1. Range(<<>>) = {} /\ task'[n] = Idle
        BY <1>1, <2>1 DEF Range
      <4> QED BY <3>1, <4>1, IdleFacts DEF RequestOK
    <3>2. CASE m # n
      BY <1>1, <2>1, <3>2, RequestKept
    <3> QED BY <3>1, <3>2
  <2> QED BY <2>2, <2>3
<1>4. CASE Sweep(n)
  <2> DEFINE expired == {i \in resv[n] : minted[i].expires <= now /\ ~Locked(n, minted[i].account)}
  <2>1. /\ resv' = [resv EXCEPT ![n] = @ \ expired]
        /\ released' = [released EXCEPT ![n] = @ \ expired]
        /\ UNCHANGED <<now, minted, have, queue, db, balance, task, crashes, faults>>
    BY <1>4 DEF Sweep
  <2> HIDE DEF expired
  <2>2. resv' \in [Nodes -> SUBSET Ids] /\ released' \in [Nodes -> SUBSET Ids]
    BY <1>1, <2>1
  <2>3. StateOK'
    BY <1>1, <1>2, <2>1, <2>2 DEF StateOK
  <2>4. RequestsOK'
    BY <1>1, <2>1, RequestKept DEF RequestsOK
  <2> QED BY <2>3, <2>4
<1>5. CASE Persist(n)
  <2>1. /\ queue[n] # <<>>
        /\ db' = [db EXCEPT ![n] = @ \cup {Head(queue[n])}]
        /\ queue' = [queue EXCEPT ![n] = Tail(@)]
        /\ UNCHANGED <<now, minted, have, balance, resv, released, task, crashes, faults>>
    BY <1>5 DEF Persist
  <2>2. /\ Head(queue[n]) \in have[n] /\ Tail(queue[n]) \in Seq(Nat)
        /\ Range(Tail(queue[n])) \subseteq have[n]
    <3> DEFINE s == queue[n]
    <3>1. s \in Seq(Nat) /\ s # <<>> /\ Range(s) \subseteq have[n]
      BY <1>1, <2>1
    <3> HIDE DEF s
    <3>2. Len(s) \in Nat /\ Len(s) > 0 /\ DOMAIN s = 1..Len(s) /\ Head(s) = s[1]
      BY <3>1
    <3>3. Tail(s) \in Seq(Nat) /\ Len(Tail(s)) = Len(s) - 1
          /\ \A i \in 1..(Len(s) - 1) : Tail(s)[i] = s[i + 1]
      BY <3>1, <3>2
    <3>4. DOMAIN Tail(s) = 1..(Len(s) - 1)
      BY <3>2, <3>3
    <3>5. 1 \in DOMAIN s /\ \A i \in 1..(Len(s) - 1) : i + 1 \in DOMAIN s
      BY <3>2
    <3>6. Head(s) \in have[n]
      BY <3>1, <3>2, <3>5 DEF Range
    <3>7. Range(Tail(s)) \subseteq have[n]
      BY <3>1, <3>3, <3>4, <3>5 DEF Range
    <3> QED BY <3>3, <3>6, <3>7 DEF s
  <2>3. /\ db' \in [Nodes -> SUBSET Ids] /\ queue' \in [Nodes -> Seq(Nat)]
        /\ \A m \in Nodes : Range(queue'[m]) \subseteq have[m] /\ db'[m] \subseteq have[m]
    BY <1>1, <2>1, <2>2
  <2>4. StateOK'
    BY <1>1, <1>2, <2>1, <2>3 DEF StateOK
  <2>5. RequestsOK'
    BY <1>1, <2>1, RequestKept DEF RequestsOK
  <2> QED BY <2>4, <2>5
<1>6. CASE Crash(n)
  <2> DEFINE open == {i \in db[n] : minted[i].hold > 0 /\ minted[i].expires > now}
             done == {minted[i].ref : i \in {j \in db[n] : minted[j].type = "release"}}
             books == [a \in Accounts |-> AmountSum(db[n], a)]
  <2>1. /\ crashes' = crashes + 1 /\ have' = [have EXCEPT ![n] = db[n]]
        /\ queue' = [queue EXCEPT ![n] = <<>>] /\ task' = [task EXCEPT ![n] = Idle]
        /\ balance' = [balance EXCEPT ![n] = books]
        /\ resv' = [resv EXCEPT ![n] = open] /\ released' = [released EXCEPT ![n] = done]
        /\ UNCHANGED <<now, minted, db, faults>>
    BY <1>6 DEF Crash
  <2>2. open \subseteq Ids
    BY <1>1
  <2>3. done \subseteq Ids
    BY <1>1
  <2>4. books \in [Accounts -> Int]
    <3> SUFFICES ASSUME NEW a \in Accounts PROVE AmountSum(db[n], a) \in Int
      OBVIOUS
    <3> DEFINE S == {i \in db[n] : minted[i].account = a}
    <3>1. AmountSum(db[n], a) = Amounts(minted, S)
      BY AsSums
    <3>2. S \subseteq 1..Len(minted)
      BY <1>1 DEF Ids
    <3> HIDE DEF S
    <3>3. Amounts(minted, S) \in Int
      BY <1>1, <3>2, AmountFacts
    <3> QED BY <3>1, <3>3
  <2> HIDE DEF open, done, books
  <2>5. Range(<<>>) = {} /\ <<>> \in Seq(Nat)
    BY DEF Range
  <2>6. /\ queue' \in [Nodes -> Seq(Nat)]
        /\ \A m \in Nodes : Range(queue'[m]) \subseteq have'[m] /\ db'[m] \subseteq have'[m]
    <3> DEFINE e == <<>>
    <3>1. e \in Seq(Nat) /\ Range(e) = {} /\ queue' = [queue EXCEPT ![n] = e]
      BY <2>1, <2>5
    <3> HIDE DEF e
    <3> QED BY <1>1, <2>1, <3>1
  <2>7. /\ have' \in [Nodes -> SUBSET Ids] /\ balance' \in [Nodes -> [Accounts -> Int]]
        /\ resv' \in [Nodes -> SUBSET Ids] /\ released' \in [Nodes -> SUBSET Ids]
        /\ task' \in [Nodes -> TaskSet] /\ task'[n] = Idle
        /\ \A m \in Nodes \ {n} : task'[m] = task[m]
    BY <1>1, <2>1, <2>2, <2>3, <2>4, IdleFacts
  <2>8. StateOK'
    BY <1>1, <1>2, <2>1, <2>6, <2>7 DEF StateOK
  <2>9. RequestsOK'
    <3> SUFFICES ASSUME NEW m \in Nodes PROVE RequestOK(m)'
      BY DEF RequestsOK
    <3>1. RequestOK(m)
      BY DEF RequestsOK
    <3>2. \A i \in db[n] : i \in have[n]
      BY <1>1
    <3>3. CASE m = n
      BY <2>5, <2>7, <3>3, IdleFacts DEF RequestOK
    <3>4. CASE m # n
      <4>1. \A k \in Nodes : \A i \in have'[k] : i \in have[k] \/ i \notin Range(task[m].out)
        BY <1>1, <2>1, <3>2
      <4> QED BY <2>1, <2>7, <3>4, <4>1, RequestKept
    <3> QED BY <3>3, <3>4
  <2> QED BY <2>8, <2>9
<1>7. ASSUME NEW i \in Ids, Receive(n, i) PROVE StateOK' /\ RequestsOK'
  <2> DEFINE new == {j \in {i} : minted[j].hold > 0}
             done == {minted[j].ref : j \in {k \in {i} : minted[k].type = "release"}}
  <2>1. /\ i \notin have[n] /\ have' = [have EXCEPT ![n] = @ \cup {i}]
        /\ queue' = [queue EXCEPT ![n] = Append(@, i)]
        /\ AddToBalance(n, minted[i].account, minted[i].amount)
        /\ resv' = [resv EXCEPT ![n] = @ \cup new]
        /\ released' = [released EXCEPT ![n] = @ \cup done]
        /\ UNCHANGED <<now, minted, db, task, crashes, faults>>
    BY <1>7 DEF Receive
  <2>2. PICK m \in Nodes : i \in have[m]
    BY <1>7 DEF Receive
  <2>3. new \subseteq Ids /\ done \subseteq Ids
    BY <1>1
  <2> HIDE DEF new, done
  <2>4. i \in Nat /\ minted[i] \in EventSet
    BY <1>1 DEF Ids
  <2>5. balance' \in [Nodes -> [Accounts -> Int]]
    <3> DEFINE a == minted[i].account
               x == minted[i].amount
    <3>1. a \in Accounts /\ x \in Int /\ AddToBalance(n, a, x)
      BY <2>1, <2>4 DEF EventSet
    <3> HIDE DEF a, x
    <3> QED BY <3>1, BalanceFacts
  <2>6. Append(queue[n], i) \in Seq(Nat) /\ Range(Append(queue[n], i)) = Range(queue[n]) \cup {i}
    <3> DEFINE s == queue[n]
    <3>1. s \in Seq(Nat)
      BY <1>1
    <3> HIDE DEF s
    <3>2. Append(s, i) \in Seq(Nat) /\ Range(Append(s, i)) = Range(s) \cup {i}
      BY <2>4, <3>1, RangeAppend
    <3> QED BY <3>2 DEF s
  <2>7. /\ queue' \in [Nodes -> Seq(Nat)]
        /\ \A k \in Nodes : Range(queue'[k]) \subseteq have'[k] /\ db'[k] \subseteq have'[k]
    <3> DEFINE q == Append(queue[n], i)
    <3>1. q \in Seq(Nat) /\ Range(q) = Range(queue[n]) \cup {i}
          /\ queue' = [queue EXCEPT ![n] = q]
      BY <1>1, <2>1, <2>6
    <3> HIDE DEF q
    <3> QED BY <1>1, <2>1, <3>1
  <2>8. /\ have' \in [Nodes -> SUBSET Ids] /\ resv' \in [Nodes -> SUBSET Ids]
        /\ released' \in [Nodes -> SUBSET Ids]
    BY <1>1, <2>1, <2>3
  <2>9. StateOK'
    BY <1>1, <1>2, <2>1, <2>5, <2>7, <2>8 DEF StateOK
  <2>10. \A k \in Nodes : i \notin Range(task[k].out)
    BY <2>2 DEF RequestsOK, RequestOK
  <2>11. RequestsOK'
    BY <1>1, <2>1, <2>10, RequestKept DEF RequestsOK
  <2> QED BY <2>9, <2>11
<1> QED BY <1>3, <1>4, <1>5, <1>6, <1>7

\* The shape of the state is an invariant.
LEMMA StateNext ==
  ASSUME StateOK, RequestsOK, [Next]_vars
  PROVE  StateOK' /\ RequestsOK'
<1>1. plan' = plan
  BY NextCases
<1>2. ASSUME NEW n \in Nodes, Starts(n) PROVE StateOK' /\ RequestsOK'
  BY <1>1, <1>2, StartsBegun, StateStart
<1>3. ASSUME NEW n \in Nodes, Step(n) PROVE StateOK' /\ RequestsOK'
  BY <1>1, <1>3, StateStep
<1>4. ASSUME NEW n \in Nodes,
             \/ AllocFails(n) \/ Sweep(n) \/ Persist(n) \/ Crash(n)
             \/ \E i \in Ids : Receive(n, i)
      PROVE  StateOK' /\ RequestsOK'
  BY <1>1, <1>4, StateRest
<1>5. CASE Tick
  <2>1. now' \in plan.times /\ plan.times \subseteq Nat
        /\ UNCHANGED <<minted, have, queue, db, balance, resv, released, task, crashes, faults>>
    BY <1>5, PlanFacts DEF Tick
  <2>2. Ids' = Ids
    BY <2>1 DEF Ids
  <2>3. StateOK'
    BY <1>1, <2>1, <2>2 DEF StateOK
  <2>4. RequestsOK'
    BY <2>1, <2>2 DEF RequestsOK, RequestOK
  <2> QED BY <2>3, <2>4
<1>6. CASE UNCHANGED vars
  <2>1. UNCHANGED <<now, minted, have, queue, db, balance, resv, released, task, crashes, faults>>
    BY <1>6 DEF vars, accountVars
  <2>2. Ids' = Ids
    BY <2>1 DEF Ids
  <2>3. StateOK'
    BY <1>1, <2>1, <2>2 DEF StateOK
  <2>4. RequestsOK'
    BY <2>1, <2>2 DEF RequestsOK, RequestOK
  <2> QED BY <2>3, <2>4
<1> QED BY <1>2, <1>3, <1>4, <1>5, <1>6, NextCases

\* A debit that the available balance covers is never refused for the hold
\* that the node adds to it, whatever the multiplier and the holds in force
\* (ImplicitHold: the headroom, and the saturating difference).
THEOREM HoldsFit == Spec => []ImplicitHoldFits
<1>1. StateOK => ImplicitHoldFits
  <2> SUFFICES ASSUME StateOK, NEW n \in Nodes, NEW a \in Accounts, NEW x \in plan.debits,
                      Affords(n, a, x, 0)
               PROVE  Affords(n, a, x, ImplicitHold(n, a, x))
    BY DEF ImplicitHoldFits
  <2>1. x \in Nat
    BY PlanFacts
  <2> QED BY <2>1, HoldFits
<1>2. Spec => [](StateOK /\ RequestsOK)
  BY StateInit, StateNext, PTL DEF Spec
<1> QED BY <1>1, <1>2, PTL

-----------------------------------------------------------------------------
(* The books.                                                              *)

\* The amounts that the events L give to an account.
OfAccount(m, L, a) == Amounts(m, {i \in L : m[i].account = a})

\* The balances b, the reservations rs and the released ids rl are what the
\* events L say at time t, of the reservations that have not expired.
Book(m, L, b, rs, rl, t) ==
  /\ \A a \in Accounts : b[a] = OfAccount(m, L, a)
  /\ \A i \in 1..Len(m) : m[i].expires > t =>
       /\ i \in rs <=> i \in L /\ m[i].hold > 0
       /\ i \in rl <=> \E j \in L : m[j].type = "release" /\ m[j].ref = i

\* What a node knows, with what its request has created.
Log(n) == have[n] \cup Range(task[n].out)
BookOK(n) == Book(minted, Log(n), balance[n], resv[n], released[n], now)
BooksInv == faults = 0 => \A n \in Nodes : BookOK(n)

\* Later events and a later time leave a book right.
LEMMA BookLater ==
  ASSUME NEW m \in Seq(EventSet), NEW k \in Seq(EventSet), 1..Len(m) \subseteq 1..Len(k),
         \A i \in 1..Len(m) : k[i] = m[i],
         NEW L, NEW b, NEW rs, NEW rl, NEW t \in Nat, NEW u \in Nat, t <= u,
         L \subseteq 1..Len(m), rs \subseteq 1..Len(m), rl \subseteq 1..Len(m),
         \A j \in 1..Len(m) : m[j].ref \in 1..Len(m) \/ m[j].ref = 0,
         Book(m, L, b, rs, rl, t)
  PROVE  Book(k, L, b, rs, rl, u)
<1>1. ASSUME NEW a \in Accounts PROVE b[a] = OfAccount(k, L, a)
  <2> DEFINE S == {i \in L : m[i].account = a}
  <2>1. {i \in L : k[i].account = a} = S /\ S \subseteq 1..Len(m)
    OBVIOUS
  <2>2. OfAccount(m, L, a) = Amounts(m, S)
    BY DEF OfAccount
  <2>3. OfAccount(k, L, a) = Amounts(k, S)
    <3>1. Amounts(k, {i \in L : k[i].account = a}) = Amounts(k, S)
      BY <2>1, Zenon
    <3> QED BY <3>1 DEF OfAccount
  <2> HIDE DEF S
  <2>4. Amounts(k, S) = Amounts(m, S)
    BY <2>1, SumsKept
  <2>5. b[a] = OfAccount(m, L, a)
    BY DEF Book
  <2> QED BY <2>2, <2>3, <2>4, <2>5
<1>2. ASSUME NEW i \in 1..Len(k), k[i].expires > u
      PROVE  /\ i \in rs <=> i \in L /\ k[i].hold > 0
             /\ i \in rl <=> \E j \in L : k[j].type = "release" /\ k[j].ref = i
  <2>1. CASE i \in 1..Len(m)
    <3>1. m[i] \in EventSet /\ k[i] = m[i]
      BY <2>1
    <3> DEFINE x == m[i].expires
    <3>2. x > t
      <4>1. x \in Nat /\ x > u
        BY <1>2, <3>1 DEF EventSet
      <4> HIDE DEF x
      <4> QED BY <4>1
    <3> QED BY <2>1, <3>2 DEF Book
  <2>2. CASE i \notin 1..Len(m)
    <3>1. i # 0
      BY <1>2
    <3>2. \A j \in L : k[j].ref # i
      BY <2>2, <3>1
    <3> QED BY <2>2, <3>2
  <2> QED BY <2>1, <2>2
<1> QED BY <1>1, <1>2 DEF Book

\* Entering an event keeps a book right.
LEMMA BookEnter ==
  ASSUME NEW m \in Seq(EventSet), NEW L, L \subseteq 1..Len(m), NEW e \in 1..Len(m), e \notin L,
         NEW b, NEW c, NEW rs, NEW qs, NEW rl, NEW ql, NEW t, Book(m, L, b, rs, rl, t),
         c[m[e].account] = b[m[e].account] + m[e].amount,
         \A a \in Accounts \ {m[e].account} : c[a] = b[a],
         \A i : i \in qs <=> (i \in rs \/ (i = e /\ m[e].hold > 0)),
         \A i : i \in ql <=> (i \in rl \/ (m[e].type = "release" /\ m[e].ref = i))
  PROVE  Book(m, L \cup {e}, c, qs, ql, t)
<1>1. ASSUME NEW a \in Accounts PROVE c[a] = OfAccount(m, L \cup {e}, a)
  <2> DEFINE S == {i \in L : m[i].account = a}
             T == {i \in L \cup {e} : m[i].account = a}
  <2>1. b[a] = Amounts(m, S)
    BY DEF Book, OfAccount
  <2>2. S \subseteq 1..Len(m) /\ e \notin S
    OBVIOUS
  <2>3. CASE m[e].account = a
    <3>1. T = S \cup {e}
      BY <2>3
    <3> HIDE DEF S, T
    <3>2. Amounts(m, S \cup {e}) = Amounts(m, S) + m[e].amount
      BY <2>2, AmountAdd
    <3>3. Amounts(m, T) = Amounts(m, S) + m[e].amount
      BY <3>1, <3>2, Zenon
    <3> QED BY <2>1, <2>3, <3>3 DEF OfAccount, T
  <2>4. CASE m[e].account # a
    <3>1. T = S
      BY <2>4
    <3>2. c[a] = b[a]
      BY <2>4
    <3> HIDE DEF S, T
    <3>3. Amounts(m, T) = Amounts(m, S)
      BY <3>1, Zenon
    <3> QED BY <2>1, <3>2, <3>3 DEF OfAccount, T
  <2> QED BY <2>3, <2>4
<1>2. ASSUME NEW i \in 1..Len(m), m[i].expires > t
      PROVE  /\ i \in qs <=> i \in L \cup {e} /\ m[i].hold > 0
             /\ i \in ql <=> \E j \in L \cup {e} : m[j].type = "release" /\ m[j].ref = i
  <2>1. /\ i \in rs <=> i \in L /\ m[i].hold > 0
        /\ i \in rl <=> \E j \in L : m[j].type = "release" /\ m[j].ref = i
    BY <1>2 DEF Book
  <2> QED BY <2>1
<1> QED BY <1>1, <1>2 DEF Book

\* The book of a node to which nothing happened but time and others' events.
LEMMA BookKept ==
  ASSUME StateOK, StateOK', RequestsOK, NEW n \in Nodes, BookOK(n),
         Ids \subseteq Ids', \A i \in Ids : minted'[i] = minted[i], now <= now',
         Log(n)' = Log(n), balance'[n] = balance[n], resv'[n] = resv[n],
         released'[n] = released[n]
  PROVE  BookOK(n)'
<1>1. /\ minted \in Seq(EventSet) /\ minted' \in Seq(EventSet) /\ now \in Nat /\ now' \in Nat
      /\ resv[n] \subseteq Ids /\ released[n] \subseteq Ids
      /\ \A j \in Ids : minted[j].ref \in Ids \/ minted[j].ref = 0
  BY DEF StateOK, NoRef
<1>2. Log(n) \subseteq Ids
  BY DEF Log, StateOK, RequestsOK, RequestOK
<1>3. Ids = 1..Len(minted) /\ Ids' = 1..Len(minted')
  BY DEF Ids
<1> DEFINE m == minted
           k == minted'
           L == Log(n)
           b == balance[n]
           rs == resv[n]
           rl == released[n]
           t == now
           u == now'
<1>4. /\ m \in Seq(EventSet) /\ k \in Seq(EventSet) /\ 1..Len(m) \subseteq 1..Len(k)
      /\ \A i \in 1..Len(m) : k[i] = m[i]
      /\ t \in Nat /\ u \in Nat /\ t <= u
      /\ L \subseteq 1..Len(m) /\ rs \subseteq 1..Len(m) /\ rl \subseteq 1..Len(m)
      /\ \A j \in 1..Len(m) : m[j].ref \in 1..Len(m) \/ m[j].ref = 0
      /\ Book(m, L, b, rs, rl, t)
  BY <1>1, <1>2, <1>3 DEF BookOK
<1> HIDE DEF m, k, L, b, rs, rl, t, u
<1>5. Book(k, L, b, rs, rl, u)
  BY <1>4, BookLater
<1> QED BY <1>5 DEF BookOK, m, k, L, b, rs, rl, t, u

\* The book of a node that enters the event e.
LEMMA BookGains ==
  ASSUME StateOK, StateOK', RequestsOK, NEW n \in Nodes, BookOK(n),
         Ids \subseteq Ids', \A i \in Ids : minted'[i] = minted[i], now' = now,
         NEW e, e \in Ids', e \notin Log(n), Log(n)' = Log(n) \cup {e},
         balance'[n][minted'[e].account] = balance[n][minted'[e].account] + minted'[e].amount,
         \A a \in Accounts \ {minted'[e].account} : balance'[n][a] = balance[n][a],
         \A i : i \in resv'[n] <=> (i \in resv[n] \/ (i = e /\ minted'[e].hold > 0)),
         \A i : i \in released'[n] <=>
                  (i \in released[n] \/ (minted'[e].type = "release" /\ minted'[e].ref = i))
  PROVE  BookOK(n)'
<1>1. /\ minted \in Seq(EventSet) /\ minted' \in Seq(EventSet) /\ now \in Nat /\ now' \in Nat
      /\ resv[n] \subseteq Ids /\ released[n] \subseteq Ids
      /\ \A j \in Ids : minted[j].ref \in Ids \/ minted[j].ref = 0
  BY DEF StateOK, NoRef
<1>2. Log(n) \subseteq Ids
  BY DEF Log, StateOK, RequestsOK, RequestOK
<1>3. Ids = 1..Len(minted) /\ Ids' = 1..Len(minted')
  BY DEF Ids
<1> DEFINE m == minted
           k == minted'
           L == Log(n)
           b == balance[n]
           c == balance'[n]
           rs == resv[n]
           qs == resv'[n]
           rl == released[n]
           ql == released'[n]
           t == now
<1>4. /\ m \in Seq(EventSet) /\ k \in Seq(EventSet) /\ 1..Len(m) \subseteq 1..Len(k)
      /\ \A i \in 1..Len(m) : k[i] = m[i]
      /\ t \in Nat /\ t <= t
      /\ L \subseteq 1..Len(m) /\ rs \subseteq 1..Len(m) /\ rl \subseteq 1..Len(m)
      /\ \A j \in 1..Len(m) : m[j].ref \in 1..Len(m) \/ m[j].ref = 0
      /\ Book(m, L, b, rs, rl, t)
  BY <1>1, <1>2, <1>3 DEF BookOK
<1>5. /\ e \in 1..Len(k) /\ e \notin L /\ L \subseteq 1..Len(k)
      /\ c[k[e].account] = b[k[e].account] + k[e].amount
      /\ \A a \in Accounts \ {k[e].account} : c[a] = b[a]
  BY <1>2, <1>3
<1>6. /\ \A i : i \in qs <=> (i \in rs \/ (i = e /\ k[e].hold > 0))
      /\ \A i : i \in ql <=> (i \in rl \/ (k[e].type = "release" /\ k[e].ref = i))
  OBVIOUS
<1>7. BookOK(n)' <=> Book(k, L \cup {e}, c, qs, ql, t)
  BY DEF BookOK
<1> HIDE DEF m, k, L, b, c, rs, qs, rl, ql, t
<1>8. Book(k, L, b, rs, rl, t)
  BY <1>4, BookLater
<1>9. Book(k, L \cup {e}, c, qs, ql, t)
  BY <1>4, <1>5, <1>6, <1>8, BookEnter
<1> QED BY <1>7, <1>9

\* The book of a node whose request creates an event.
LEMMA BookCreated ==
  ASSUME StateOK, StateOK', RequestsOK, NEW n \in Nodes, BookOK(n), NEW l, Created(n, l),
         balance'[n][minted'[NewId].account]
           = balance[n][minted'[NewId].account] + minted'[NewId].amount,
         \A a \in Accounts \ {minted'[NewId].account} : balance'[n][a] = balance[n][a],
         \A i : i \in resv'[n] <=> (i \in resv[n] \/ (i = NewId /\ minted'[NewId].hold > 0)),
         \A i : i \in released'[n] <=>
                  (i \in released[n]
                     \/ (minted'[NewId].type = "release" /\ minted'[NewId].ref = i))
  PROVE  BookOK(n)'
<1> DEFINE e == NewId
<1>1. /\ Ids \subseteq Ids' /\ \A i \in Ids : minted'[i] = minted[i] /\ now' = now
      /\ e \in Ids' /\ e \notin Ids /\ have' = have
      /\ Range(task'[n].out) = Range(task[n].out) \cup {e}
  BY DEF Created
<1>2. now' = now
  BY DEF Created
<1>3. Log(n) \subseteq Ids
  BY DEF Log, StateOK, RequestsOK, RequestOK
<1>4. Log(n)' = Log(n) \cup {e} /\ e \notin Log(n)
  BY <1>1, <1>3 DEF Log
<1> HIDE DEF e
<1>5. /\ balance'[n][minted'[e].account] = balance[n][minted'[e].account] + minted'[e].amount
      /\ \A a \in Accounts \ {minted'[e].account} : balance'[n][a] = balance[n][a]
      /\ \A i : i \in resv'[n] <=> (i \in resv[n] \/ (i = e /\ minted'[e].hold > 0))
      /\ \A i : i \in released'[n] <=>
                  (i \in released[n] \/ (minted'[e].type = "release" /\ minted'[e].ref = i))
  BY DEF e
<1> QED BY <1>1, <1>2, <1>4, <1>5, BookGains

\* The book of a node whose request settles a reservation.
LEMMA BookSettled ==
  ASSUME StateOK, StateOK', RequestsOK, NEW n \in Nodes, BookOK(n), MintSettle(n)
  PROVE  BookOK(n)'
<1> DEFINE x == task[n]
<1>1. /\ x.pc = "settle" /\ x.account \in Accounts /\ x.ref \in Ids /\ x.amount \in Int
      /\ Settled(n)
      /\ EventIs(minted'[NewId], "standard", n, x.account, x.amount, 0, 0, x.ref, NoAccount)
      /\ EventIs(minted'[NewId + 1], "release", n, x.account, 0, 0, 0, x.ref, NoAccount)
      /\ AddToBalance(n, x.account, x.amount)
      /\ released' = [released EXCEPT ![n] = @ \cup {x.ref}] /\ UNCHANGED resv
  BY SettleMinted
<1>2. /\ minted \in Seq(EventSet) /\ minted' \in Seq(EventSet) /\ now \in Nat
      /\ resv[n] \subseteq Ids /\ released[n] \subseteq Ids
      /\ \A j \in Ids : minted[j].ref \in Ids \/ minted[j].ref = 0
  BY DEF StateOK, NoRef
<1>3. Log(n) \subseteq Ids
  BY DEF Log, StateOK, RequestsOK, RequestOK
<1>4. Ids = 1..Len(minted) /\ Ids' = 1..Len(minted')
  BY DEF Ids
<1>5. /\ Ids' = Ids \cup {NewId, NewId + 1} /\ NewId \notin Ids /\ NewId + 1 \notin Ids
      /\ NewId \in Nat \ {0} /\ \A i \in Ids : minted'[i] = minted[i]
  BY <1>1 DEF Settled
<1>6. have' = have /\ Range(task'[n].out) = {NewId, NewId + 1} /\ now' = now
  BY <1>1 DEF Settled
<1>7. Range(task[n].out) = {}
  <2>1. task[n].out = <<>>
    BY <1>1 DEF RequestsOK, RequestOK
  <2> QED BY <2>1 DEF Range
<1>8. Log(n)' = (Log(n) \cup {NewId}) \cup {NewId + 1}
  BY <1>6, <1>7 DEF Log
<1>9. /\ balance'[n][x.account] = balance[n][x.account] + x.amount
      /\ \A a \in Accounts \ {x.account} : balance'[n][a] = balance[n][a]
      /\ balance'[n][x.account] \in Int
  BY <1>1, BalanceFacts
<1>10. resv'[n] = resv[n] /\ released'[n] = released[n] \cup {x.ref}
  BY <1>1 DEF StateOK
<1> DEFINE m == minted
           k == minted'
           L == Log(n)
           b == balance[n]
           c == balance'[n]
           rs == resv[n]
           rl == released[n]
           ql == released'[n]
           t == now
           d == NewId
           e == NewId + 1
           M == L \cup {d}
<1>11. /\ m \in Seq(EventSet) /\ k \in Seq(EventSet) /\ 1..Len(m) \subseteq 1..Len(k)
       /\ \A i \in 1..Len(m) : k[i] = m[i]
       /\ t \in Nat /\ t <= t
       /\ L \subseteq 1..Len(m) /\ rs \subseteq 1..Len(m) /\ rl \subseteq 1..Len(m)
       /\ \A j \in 1..Len(m) : m[j].ref \in 1..Len(m) \/ m[j].ref = 0
       /\ Book(m, L, b, rs, rl, t)
  BY <1>2, <1>3, <1>4, <1>5 DEF BookOK
<1>12. /\ d \in 1..Len(k) /\ d \notin L /\ L \subseteq 1..Len(k)
       /\ e \in 1..Len(k) /\ e \notin M /\ M \subseteq 1..Len(k)
  BY <1>3, <1>4, <1>5
<1>13. /\ k[d].account = x.account /\ k[d].amount = x.amount /\ k[d].hold = 0
       /\ k[d].type = "standard"
       /\ k[e].account = x.account /\ k[e].amount = 0 /\ k[e].hold = 0
       /\ k[e].type = "release" /\ k[e].ref = x.ref
  BY <1>1 DEF EventIs
<1>14. BookOK(n)' <=> Book(k, M \cup {e}, c, rs, ql, t)
  BY <1>6, <1>8, <1>10 DEF BookOK
<1>15. /\ c[x.account] = b[x.account] + x.amount
       /\ \A a \in Accounts \ {x.account} : c[a] = b[a]
       /\ c[x.account] = c[x.account] + 0
       /\ ql = rl \cup {x.ref}
  BY <1>9, <1>10
<1> HIDE DEF m, k, L, b, c, rs, rl, ql, t, d, e, M, x
<1>16. Book(k, L, b, rs, rl, t)
  BY <1>11, BookLater
<1>17. Book(k, L \cup {d}, c, rs, rl, t)
  <2>1. /\ c[k[d].account] = b[k[d].account] + k[d].amount
        /\ \A a \in Accounts \ {k[d].account} : c[a] = b[a]
    BY <1>13, <1>15
  <2>2. /\ \A i : i \in rs <=> (i \in rs \/ (i = d /\ k[d].hold > 0))
        /\ \A i : i \in rl <=> (i \in rl \/ (k[d].type = "release" /\ k[d].ref = i))
    BY <1>13
  <2> QED BY <1>11, <1>12, <1>16, <2>1, <2>2, BookEnter
<1>18. Book(k, M, c, rs, rl, t)
  BY <1>17 DEF M
<1>19. Book(k, M \cup {e}, c, rs, ql, t)
  <2>1. /\ c[k[e].account] = c[k[e].account] + k[e].amount
        /\ \A a \in Accounts \ {k[e].account} : c[a] = c[a]
    BY <1>13, <1>15
  <2>2. /\ \A i : i \in rs <=> (i \in rs \/ (i = e /\ k[e].hold > 0))
        /\ \A i : i \in ql <=> (i \in rl \/ (k[e].type = "release" /\ k[e].ref = i))
    BY <1>13, <1>15
  <2> QED BY <1>11, <1>12, <1>18, <2>1, <2>2, BookEnter
<1> QED BY <1>14, <1>19

\* The books of the other nodes.
LEMMA BookOfOthers ==
  ASSUME StateOK, StateOK', RequestsOK, NEW n \in Nodes, BookOK(n), now' = now,
         Ids \subseteq Ids', \A i \in Ids : minted'[i] = minted[i],
         have'[n] = have[n], task'[n] = task[n], balance'[n] = balance[n],
         resv'[n] = resv[n], released'[n] = released[n]
  PROVE  BookOK(n)'
<1>1. Log(n)' = Log(n)
  BY DEF Log
<1>2. now <= now'
  BY DEF StateOK
<1> QED BY <1>1, <1>2, BookKept

\* The books stay right while no allocation fails.
LEMMA BooksNext ==
  ASSUME StateOK, StateOK', RequestsOK, BooksInv, [Next]_vars
  PROVE  BooksInv'
<1>1. /\ now \in Nat /\ faults \in Nat /\ balance \in [Nodes -> [Accounts -> Int]]
      /\ resv \in [Nodes -> SUBSET Ids] /\ released \in [Nodes -> SUBSET Ids]
      /\ have \in [Nodes -> SUBSET Ids] /\ task \in [Nodes -> TaskSet]
      /\ minted \in Seq(EventSet)
  BY DEF StateOK
<1>2. \A n \in Nodes : Log(n) \subseteq Ids
  BY DEF Log, StateOK, RequestsOK, RequestOK
<1>3. ASSUME NEW n \in Nodes, Starts(n) PROVE BooksInv'
  <2>1. PICK t : Begun(n, t) /\ Start(n, t)
    BY <1>3, StartsBegun
  <2>2. t \in TaskSet /\ t.out = <<>>
    BY <2>1 DEF Begun
  <2>3. /\ task[n].pc = "idle" /\ task'[n] = t /\ \A k \in Nodes \ {n} : task'[k] = task[k]
        /\ UNCHANGED <<now, minted, have, queue, db, balance, resv, released, crashes, faults>>
    BY <2>1, <2>2, StartFacts
  <2>4. task[n].out = <<>>
    BY <2>3 DEF RequestsOK, RequestOK
  <2>5. \A k \in Nodes : Log(k)' = Log(k)
    BY <2>2, <2>3, <2>4 DEF Log
  <2>6. Ids' = Ids /\ now <= now'
    BY <1>1, <2>3 DEF Ids
  <2> QED BY <2>3, <2>5, <2>6, BookKept DEF BooksInv
<1>4. ASSUME NEW n \in Nodes, MintHold(n) \/ MintReserve(n) PROVE BooksInv'
  <2> DEFINE t == task[n]
  <2>1. /\ Created(n, "charge") \/ Created(n, "flush")
        /\ t.hold > 0 /\ t.account \in Accounts
        /\ EventIs(minted'[NewId], "reservation", n, t.account, 0, t.hold, t.expires, NoRef,
                   NoAccount)
        /\ resv' = [resv EXCEPT ![n] = @ \cup {NewId}] /\ UNCHANGED <<balance, released>>
    BY <1>4, HoldMinted
  <2>2. /\ faults' = faults /\ now' = now /\ have' = have /\ Ids \subseteq Ids'
        /\ \A k \in Nodes \ {n} : task'[k] = task[k]
    BY <2>1 DEF Created
  <2>3. \A i \in Ids : minted'[i] = minted[i]
    BY <2>1 DEF Created
  <2>4. ASSUME BookOK(n) PROVE BookOK(n)'
    <3>1. /\ minted'[NewId].account = t.account /\ minted'[NewId].amount = 0
          /\ minted'[NewId].hold = t.hold /\ minted'[NewId].type = "reservation"
      BY <2>1 DEF EventIs
    <3>2. balance[n][t.account] \in Int
      BY <1>1, <2>1
    <3>3. resv'[n] = resv[n] \cup {NewId} /\ released'[n] = released[n] /\ balance'[n] = balance[n]
      BY <1>1, <2>1
    <3>4. /\ balance'[n][minted'[NewId].account]
               = balance[n][minted'[NewId].account] + minted'[NewId].amount
          /\ \A a \in Accounts \ {minted'[NewId].account} : balance'[n][a] = balance[n][a]
      BY <3>1, <3>2, <3>3
    <3>5. /\ \A i : i \in resv'[n] <=> (i \in resv[n] \/ (i = NewId /\ minted'[NewId].hold > 0))
          /\ \A i : i \in released'[n] <=>
               (i \in released[n] \/ (minted'[NewId].type = "release" /\ minted'[NewId].ref = i))
      BY <2>1, <3>1, <3>3
    <3> QED BY <2>1, <2>4, <3>4, <3>5, BookCreated
  <2>5. ASSUME NEW k \in Nodes, k # n, BookOK(k) PROVE BookOK(k)'
    BY <1>1, <2>1, <2>2, <2>3, <2>5, BookOfOthers
  <2> QED BY <2>2, <2>4, <2>5 DEF BooksInv
<1>5. ASSUME NEW n \in Nodes, MintCharge(n) \/ MintCredit(n) PROVE BooksInv'
  <2> DEFINE e == minted'[NewId]
  <2>1. PICK a \in Accounts, x \in Int :
          /\ Created(n, "credit") \/ Created(n, "flush")
          /\ e.account = a /\ e.amount = x /\ e.hold = 0 /\ e.type = "standard"
          /\ AddToBalance(n, a, x) /\ UNCHANGED <<resv, released>>
    <3>1. CASE MintCharge(n)
      BY <3>1, ChargeMinted DEF EventIs
    <3>2. CASE MintCredit(n)
      <4>1. Magnitude(task[n].amount) \in Int
        BY <3>2, CreditMinted
      <4> QED BY <3>2, <4>1, CreditMinted DEF EventIs
    <3> QED BY <1>5, <3>1, <3>2
  <2>2. /\ faults' = faults /\ now' = now /\ have' = have /\ Ids \subseteq Ids'
        /\ \A k \in Nodes \ {n} : task'[k] = task[k]
    BY <2>1 DEF Created
  <2>3. \A i \in Ids : minted'[i] = minted[i]
    BY <2>1 DEF Created
  <2>4. /\ balance'[n][a] = balance[n][a] + x
        /\ \A k \in Nodes \ {n} : balance'[k] = balance[k]
        /\ \A b \in Accounts \ {a} : balance'[n][b] = balance[n][b]
    BY <2>1, BalanceFacts
  <2>5. ASSUME BookOK(n) PROVE BookOK(n)'
    <3>1. /\ balance'[n][minted'[NewId].account]
               = balance[n][minted'[NewId].account] + minted'[NewId].amount
          /\ \A b \in Accounts \ {minted'[NewId].account} : balance'[n][b] = balance[n][b]
      BY <2>1, <2>4
    <3>2. /\ \A i : i \in resv'[n] <=> (i \in resv[n] \/ (i = NewId /\ minted'[NewId].hold > 0))
          /\ \A i : i \in released'[n] <=>
               (i \in released[n] \/ (minted'[NewId].type = "release" /\ minted'[NewId].ref = i))
      BY <2>1
    <3> QED BY <2>1, <2>5, <3>1, <3>2, BookCreated
  <2>6. ASSUME NEW k \in Nodes, k # n, BookOK(k) PROVE BookOK(k)'
    BY <2>1, <2>2, <2>3, <2>4, <2>6, BookOfOthers
  <2> QED BY <2>2, <2>5, <2>6 DEF BooksInv
<1>6. ASSUME NEW n \in Nodes, Flush(n) PROVE BooksInv'
  <2>1. /\ have' = [have EXCEPT ![n] = @ \cup Range(task[n].out)]
        /\ task' = [task EXCEPT ![n] = Idle]
        /\ UNCHANGED <<now, minted, db, balance, resv, released, crashes, faults>>
    BY <1>6 DEF Flush
  <2>2. \A k \in Nodes : Log(k)' = Log(k)
    <3>1. Range(<<>>) = {}
      BY DEF Range
    <3>2. task'[n] = Idle /\ have'[n] = have[n] \cup Range(task[n].out)
          /\ \A k \in Nodes \ {n} : task'[k] = task[k] /\ have'[k] = have[k]
      BY <1>1, <2>1
    <3>3. Range(task'[n].out) = {}
      BY <3>1, <3>2, IdleFacts
    <3> QED BY <3>2, <3>3 DEF Log
  <2>3. Ids' = Ids /\ now <= now'
    BY <1>1, <2>1 DEF Ids
  <2> QED BY <2>1, <2>2, <2>3, BookKept DEF BooksInv
<1>7. ASSUME NEW n \in Nodes, MintSettle(n) PROVE BooksInv'
  <2>1. /\ Settled(n) /\ task[n].account \in Accounts /\ task[n].amount \in Int
        /\ AddToBalance(n, task[n].account, task[n].amount)
        /\ released' = [released EXCEPT ![n] = @ \cup {task[n].ref}] /\ UNCHANGED resv
    BY <1>7, SettleMinted
  <2>2. /\ faults' = faults /\ now' = now /\ have' = have /\ Ids \subseteq Ids'
        /\ \A k \in Nodes \ {n} : task'[k] = task[k]
    BY <2>1 DEF Settled
  <2>3. \A i \in Ids : minted'[i] = minted[i]
    BY <2>1 DEF Settled
  <2>4. \A k \in Nodes \ {n} : balance'[k] = balance[k] /\ released'[k] = released[k]
    BY <1>1, <2>1, BalanceFacts
  <2>5. ASSUME BookOK(n) PROVE BookOK(n)'
    BY <1>7, <2>5, BookSettled
  <2>6. ASSUME NEW k \in Nodes, k # n, BookOK(k) PROVE BookOK(k)'
    BY <2>1, <2>2, <2>3, <2>4, <2>6, BookOfOthers
  <2> QED BY <2>2, <2>5, <2>6 DEF BooksInv
<1>8. ASSUME NEW n \in Nodes, MintRelease(n) PROVE BooksInv'
  <2> DEFINE t == task[n]
  <2>1. /\ t.account \in Accounts /\ t.ref \in Ids /\ Created(n, "flush")
        /\ EventIs(minted'[NewId], "release", n, t.account, 0, 0, 0, t.ref, NoAccount)
        /\ released' = [released EXCEPT ![n] = @ \cup {t.ref}]
        /\ UNCHANGED <<balance, resv>>
    BY <1>8, ReleaseMinted
  <2>2. /\ faults' = faults /\ now' = now /\ have' = have /\ Ids \subseteq Ids'
        /\ \A k \in Nodes \ {n} : task'[k] = task[k]
    BY <2>1 DEF Created
  <2>3. \A i \in Ids : minted'[i] = minted[i]
    BY <2>1 DEF Created
  <2>4. ASSUME BookOK(n) PROVE BookOK(n)'
    <3>1. /\ minted'[NewId].account = t.account /\ minted'[NewId].amount = 0
          /\ minted'[NewId].hold = 0 /\ minted'[NewId].type = "release"
          /\ minted'[NewId].ref = t.ref
      BY <2>1 DEF EventIs
    <3>2. balance[n][t.account] \in Int
      BY <1>1, <2>1
    <3>3. released'[n] = released[n] \cup {t.ref} /\ resv'[n] = resv[n] /\ balance'[n] = balance[n]
      BY <1>1, <2>1
    <3>4. /\ balance'[n][minted'[NewId].account]
               = balance[n][minted'[NewId].account] + minted'[NewId].amount
          /\ \A a \in Accounts \ {minted'[NewId].account} : balance'[n][a] = balance[n][a]
      BY <3>1, <3>2, <3>3
    <3>5. /\ \A i : i \in resv'[n] <=> (i \in resv[n] \/ (i = NewId /\ minted'[NewId].hold > 0))
          /\ \A i : i \in released'[n] <=>
               (i \in released[n] \/ (minted'[NewId].type = "release" /\ minted'[NewId].ref = i))
      BY <3>1, <3>3
    <3> QED BY <2>1, <2>4, <3>4, <3>5, BookCreated
  <2>5. ASSUME NEW k \in Nodes, k # n, BookOK(k) PROVE BookOK(k)'
    BY <1>1, <2>1, <2>2, <2>3, <2>5, BookOfOthers
  <2> QED BY <2>2, <2>4, <2>5 DEF BooksInv
<1>9. ASSUME NEW n \in Nodes, AllocFails(n) PROVE BooksInv'
  <2>1. faults' = faults + 1
    BY <1>9 DEF AllocFails
  <2> QED BY <1>1, <2>1 DEF BooksInv
<1>10. ASSUME NEW n \in Nodes, Sweep(n) PROVE BooksInv'
  <2> DEFINE expired == {i \in resv[n] : minted[i].expires <= now /\ ~Locked(n, minted[i].account)}
  <2>1. /\ resv' = [resv EXCEPT ![n] = @ \ expired]
        /\ released' = [released EXCEPT ![n] = @ \ expired]
        /\ UNCHANGED <<now, minted, have, queue, db, balance, task, crashes, faults>>
    BY <1>10 DEF Sweep
  <2>2. ASSUME NEW i \in Ids, minted[i].expires > now PROVE i \notin expired
    <3>1. minted[i] \in EventSet
      BY <1>1 DEF Ids
    <3>2. minted[i].expires \in Nat
      BY <3>1 DEF EventSet
    <3> QED BY <1>1, <2>2, <3>2
  <2> HIDE DEF expired
  <2>3. ASSUME NEW k \in Nodes, BookOK(k) PROVE BookOK(k)'
    <3>1. Log(k)' = Log(k)
      BY <2>1 DEF Log
    <3>2. \A i \in Ids : minted[i].expires > now =>
            /\ i \in resv'[k] <=> i \in resv[k]
            /\ i \in released'[k] <=> i \in released[k]
      BY <1>1, <2>1, <2>2
    <3> QED BY <2>1, <2>3, <3>1, <3>2 DEF BookOK, Book, Ids
  <2> QED BY <2>1, <2>3 DEF BooksInv
<1>11. ASSUME NEW n \in Nodes, Persist(n) PROVE BooksInv'
  <2>1. UNCHANGED <<now, minted, have, balance, resv, released, task, crashes, faults>>
    BY <1>11 DEF Persist
  <2> QED BY <2>1 DEF BooksInv, BookOK, Log
<1>12. ASSUME NEW n \in Nodes, Crash(n) PROVE BooksInv'
  <2>1. /\ have' = [have EXCEPT ![n] = db[n]] /\ task' = [task EXCEPT ![n] = Idle]
        /\ balance' = [balance EXCEPT ![n] = [a \in Accounts |-> AmountSum(db[n], a)]]
        /\ resv' = [resv EXCEPT ![n] =
                      {i \in db[n] : minted[i].hold > 0 /\ minted[i].expires > now}]
        /\ released' = [released EXCEPT ![n] =
                          {minted[i].ref : i \in {j \in db[n] : minted[j].type = "release"}}]
        /\ UNCHANGED <<now, minted, db, faults>>
    BY <1>12 DEF Crash
  <2>2. Log(n)' = db[n]
    <3>1. Range(<<>>) = {}
      BY DEF Range
    <3>2. task'[n] = Idle /\ have'[n] = db[n]
      BY <1>1, <2>1
    <3>3. Range(task'[n].out) = {}
      BY <3>1, <3>2, IdleFacts
    <3> QED BY <3>2, <3>3 DEF Log
  <2>3. BookOK(n)'
    <3>1. \A a \in Accounts : balance'[n][a] = OfAccount(minted, db[n], a)
      <4>1. \A a \in Accounts : balance'[n][a] = AmountSum(db[n], a)
        BY <1>1, <2>1
      <4> QED BY <4>1, AsSums DEF OfAccount
    <3>2. /\ resv'[n] = {i \in db[n] : minted[i].hold > 0 /\ minted[i].expires > now}
          /\ released'[n] = {minted[i].ref : i \in {j \in db[n] : minted[j].type = "release"}}
      BY <1>1, <2>1
    <3>3. Book(minted, db[n], balance'[n], resv'[n], released'[n], now)
      BY <3>1, <3>2 DEF Book
    <3> QED BY <2>1, <2>2, <3>3 DEF BookOK
  <2>4. ASSUME NEW k \in Nodes, k # n, BookOK(k) PROVE BookOK(k)'
    <3>1. /\ task'[k] = task[k] /\ have'[k] = have[k] /\ balance'[k] = balance[k]
          /\ resv'[k] = resv[k] /\ released'[k] = released[k]
      BY <1>1, <2>1, <2>4
    <3> QED BY <2>1, <2>4, <3>1 DEF BookOK, Log
  <2> QED BY <2>1, <2>3, <2>4 DEF BooksInv
<1>13. ASSUME NEW n \in Nodes, NEW i \in Ids, Receive(n, i) PROVE BooksInv'
  <2>1. /\ i \notin have[n] /\ have' = [have EXCEPT ![n] = @ \cup {i}]
        /\ AddToBalance(n, minted[i].account, minted[i].amount)
        /\ resv' = [resv EXCEPT ![n] = @ \cup {j \in {i} : minted[j].hold > 0}]
        /\ released' = [released EXCEPT ![n] =
                    @ \cup {minted[j].ref : j \in {k \in {i} : minted[k].type = "release"}}]
        /\ UNCHANGED <<now, minted, db, task, crashes, faults>>
    BY <1>13 DEF Receive
  <2>2. PICK m \in Nodes : i \in have[m]
    BY <1>13 DEF Receive
  <2>3. i \notin Log(n)
    BY <2>1, <2>2 DEF Log, RequestsOK, RequestOK
  <2>4. Log(n)' = Log(n) \cup {i}
    BY <1>1, <2>1 DEF Log
  <2>5. Ids' = Ids
    BY <2>1 DEF Ids
  <2>6. minted[i].account \in Accounts /\ minted[i].amount \in Int
    <3>1. minted[i] \in EventSet
      BY <1>1 DEF Ids
    <3> QED BY <3>1 DEF EventSet
  <2>7. /\ balance'[n][minted[i].account] = balance[n][minted[i].account] + minted[i].amount
        /\ \A k \in Nodes \ {n} : balance'[k] = balance[k]
        /\ \A b \in Accounts \ {minted[i].account} : balance'[n][b] = balance[n][b]
    <3> DEFINE a == minted[i].account
               x == minted[i].amount
    <3>1. a \in Accounts /\ x \in Int /\ AddToBalance(n, a, x)
      BY <2>1, <2>6
    <3> HIDE DEF a, x
    <3>2. /\ balance'[n][a] = balance[n][a] + x
          /\ \A k \in Nodes \ {n} : balance'[k] = balance[k]
          /\ \A b \in Accounts \ {a} : balance'[n][b] = balance[n][b]
      BY <3>1, BalanceFacts
    <3> QED BY <3>2 DEF a, x
  <2>8. ASSUME BookOK(n) PROVE BookOK(n)'
    <3>1. /\ resv'[n] = resv[n] \cup {j \in {i} : minted[j].hold > 0}
          /\ released'[n] =
               released[n] \cup {minted[j].ref : j \in {k \in {i} : minted[k].type = "release"}}
      BY <1>1, <2>1
    <3>2. /\ \A j : j \in resv'[n] <=> (j \in resv[n] \/ (j = i /\ minted[i].hold > 0))
          /\ \A j : j \in released'[n] <=>
                      (j \in released[n] \/ (minted[i].type = "release" /\ minted[i].ref = j))
      BY <3>1
    <3>3. minted' = minted /\ now' = now
      BY <2>1
    <3> QED BY <2>3, <2>4, <2>5, <2>7, <2>8, <3>2, <3>3, BookGains
  <2>9. ASSUME NEW k \in Nodes, k # n, BookOK(k) PROVE BookOK(k)'
    <3>1. have'[k] = have[k] /\ resv'[k] = resv[k] /\ released'[k] = released[k]
      BY <1>1, <2>1, <2>9
    <3> QED BY <2>1, <2>7, <2>9, <3>1 DEF BookOK, Log
  <2> QED BY <2>1, <2>8, <2>9 DEF BooksInv
<1>14. CASE Tick
  <2>1. now' \in plan.times /\ now' > now /\ plan.times \subseteq Nat
        /\ UNCHANGED <<minted, have, queue, db, balance, resv, released, task, crashes, faults>>
    BY <1>14, PlanFacts DEF Tick
  <2>2. Ids' = Ids /\ now <= now' /\ \A k \in Nodes : Log(k)' = Log(k)
    BY <1>1, <2>1 DEF Ids, Log
  <2> QED BY <2>1, <2>2, BookKept DEF BooksInv
<1>15. CASE UNCHANGED vars
  <2>1. UNCHANGED <<now, minted, have, balance, resv, released, task, faults>>
    BY <1>15 DEF vars, accountVars
  <2> QED BY <2>1 DEF BooksInv, BookOK, Log
<1>16. ASSUME NEW n \in Nodes, Step(n) PROVE BooksInv'
  BY <1>4, <1>5, <1>6, <1>7, <1>8, <1>16 DEF Step
<1> QED BY <1>3, <1>9, <1>10, <1>11, <1>12, <1>13, <1>14, <1>15, <1>16, NextCases

\* The books are right at first: one credit is known everywhere.
LEMMA BooksInit == Init => BooksInv
<1> SUFFICES ASSUME Init, NEW n \in Nodes PROVE BookOK(n)
  BY DEF BooksInv
<1> DEFINE e == Event("standard", CHOOSE k \in Nodes : TRUE, FirstAccount, Seed, 0, 0, NoRef,
                      NoAccount)
<1>1. e \in EventSet /\ e.account = FirstAccount /\ e.amount = Seed /\ e.hold = 0
      /\ e.type = "standard"
  BY AccountsAssumption, AmountsAssumption DEF Event, EventSet, NoRef
<1>2. minted = <<e>>
  BY DEF Init
<1> HIDE DEF e
<1>3. minted \in Seq(EventSet) /\ Len(minted) = 1 /\ minted[1] = e /\ 1..Len(minted) = {1}
  BY <1>1, <1>2
<1>4. Log(n) = {1}
  <2>1. task[n] = Idle /\ have[n] = {1}
    BY DEF Init
  <2>2. Range(<<>>) = {}
    BY DEF Range
  <2> QED BY <2>1, <2>2, IdleFacts DEF Log
<1>5. Amounts(minted, {}) = 0
  <2>1. IsFiniteSet({})
    BY FS_EmptySet
  <2> QED BY <2>1, SumPick DEF Amounts
<1>6. Amounts(minted, {1}) = Seed
  <2> DEFINE S == {}
             one == 1
  <2>1. S \subseteq 1..Len(minted) /\ one \in 1..Len(minted) /\ one \notin S
        /\ Amounts(minted, S) = 0 /\ minted[one].amount = Seed
    BY <1>1, <1>3, <1>5
  <2>2. S \cup {one} = {1}
    OBVIOUS
  <2> HIDE DEF S, one
  <2>3. Amounts(minted, S \cup {one}) = Amounts(minted, S) + minted[one].amount
    BY <1>3, <2>1, AmountAdd
  <2>4. Amounts(minted, S \cup {one}) = Amounts(minted, {1})
    BY <2>2, Zenon
  <2> QED BY <2>1, <2>3, <2>4, AmountsAssumption
<1>7. \A a \in Accounts : balance[n][a] = OfAccount(minted, {1}, a)
  <2> SUFFICES ASSUME NEW a \in Accounts PROVE balance[n][a] = OfAccount(minted, {1}, a)
    OBVIOUS
  <2> DEFINE T == {i \in {1} : minted[i].account = a}
  <2>1. OfAccount(minted, {1}, a) = Amounts(minted, T)
    BY DEF OfAccount
  <2>2. balance[n][a] = IF a = FirstAccount THEN Seed ELSE 0
    BY DEF Init
  <2>3. CASE a = FirstAccount
    <3>1. T = {1}
      BY <1>1, <1>3, <2>3
    <3> HIDE DEF T
    <3> QED BY <1>6, <2>1, <2>2, <2>3, <3>1
  <2>4. CASE a # FirstAccount
    <3>1. T = {}
      BY <1>1, <1>3, <2>4
    <3> HIDE DEF T
    <3> QED BY <1>5, <2>1, <2>2, <2>4, <3>1
  <2> QED BY <2>3, <2>4
<1>8. resv[n] = {} /\ released[n] = {}
  BY DEF Init
<1> QED BY <1>1, <1>3, <1>4, <1>7, <1>8 DEF BookOK, Book

\* While no allocation has failed, what a node answers about an account is what
\* its log says, in every order of events, sweeps, expiries, crashes and
\* rebuilds: the balance is the sum of the amounts and the held funds are the
\* reservations that are neither expired nor released (AccountState; the
\* rebuild of SharedState::new).
THEOREM BooksAgree == Spec => []BooksBalance
<1> DEFINE Inv == StateOK /\ RequestsOK /\ BooksInv
<1>1. Init => Inv
  BY StateInit, BooksInit
<1>2. Inv /\ [Next]_vars => Inv'
  BY StateNext, BooksNext
<1>3. Inv => BooksBalance
  <2> SUFFICES ASSUME StateOK, RequestsOK, BooksInv, faults = 0, NEW n \in Nodes,
                      NEW a \in Accounts
               PROVE  /\ balance[n][a] = AmountSum(Log(n), a)
                      /\ Active(n, a) = {i \in Log(n) :
                           /\ minted[i].account = a
                           /\ minted[i].hold > 0 /\ minted[i].expires > now
                           /\ \A j \in Log(n) : minted[j].type = "release" => minted[j].ref # i}
    BY DEF BooksBalance, Log
  <2>1. Book(minted, Log(n), balance[n], resv[n], released[n], now)
    BY DEF BooksInv, BookOK
  <2>2. balance[n][a] = AmountSum(Log(n), a)
    BY <2>1, AsSums DEF Book, OfAccount
  <2>3. Log(n) \subseteq Ids /\ resv[n] \subseteq Ids
    BY DEF Log, StateOK, RequestsOK, RequestOK
  <2>4. \A i \in Ids : minted[i].expires > now =>
          /\ i \in resv[n] <=> i \in Log(n) /\ minted[i].hold > 0
          /\ i \in released[n] <=> \E j \in Log(n) : minted[j].type = "release"
                                                       /\ minted[j].ref = i
    BY <2>1 DEF Book, Ids
  <2> QED BY <2>2, <2>3, <2>4 DEF Active
<1>4. Spec => []Inv
  BY <1>1, <1>2, PTL DEF Spec
<1> QED BY <1>3, <1>4, PTL

-----------------------------------------------------------------------------
(* Who spends.                                                             *)

\* An event, and a request, that takes, holds, releases or transfers.
Spends(e) ==
  e.amount < 0 \/ e.hold > 0 \/ e.type # "standard" \/ e.ref # NoRef \/ e.to # NoAccount
Asks(t) ==
  \/ t.pc \in {"hold", "reserve", "settle", "release", "credit"}
  \/ t.amount < 0 \/ t.to # NoAccount

\* Only the plan's spenders take, and without crashes a node knows its own
\* events when anybody does.
OriginInv ==
  /\ \A i \in Ids : Spends(minted[i]) => minted[i].origin \in plan.spenders
  /\ \A n \in Nodes : Asks(task[n]) => n \in plan.spenders
  /\ crashes = 0 => \A n, m \in Nodes : \A i \in have[m] : minted[i].origin = n => i \in have[n]

\* At first there is one credit.
LEMMA OriginInit == Init => OriginInv
<1> SUFFICES ASSUME Init PROVE OriginInv
  OBVIOUS
<1> DEFINE e == Event("standard", CHOOSE k \in Nodes : TRUE, FirstAccount, Seed, 0, 0, NoRef,
                      NoAccount)
<1>1. e \in EventSet /\ ~Spends(e)
  BY AccountsAssumption, AmountsAssumption DEF Event, EventSet, NoRef, Spends
<1>2. minted = <<e>>
  BY DEF Init
<1> HIDE DEF e
<1>3. Ids = {1} /\ minted[1] = e
  BY <1>1, <1>2 DEF Ids
<1>4. \A n \in Nodes : task[n] = Idle /\ have[n] = {1}
  BY DEF Init
<1>5. ~Asks(Idle)
  BY IdleFacts DEF Asks
<1> QED BY <1>1, <1>3, <1>4, <1>5 DEF OriginInv

\* An event created by n, or two, by one who may.
LEMMA OriginCreated ==
  ASSUME StateOK, OriginInv, plan' = plan, NEW n \in Nodes,
         \A i \in Ids' : i \in Ids \/ (minted'[i].origin = n
                                       /\ (Spends(minted'[i]) => n \in plan.spenders)),
         \A i \in Ids : minted'[i] = minted[i], UNCHANGED <<have, crashes>>,
         \A m \in Nodes \ {n} : task'[m] = task[m], Asks(task'[n]) => n \in plan.spenders
  PROVE  OriginInv'
<1>1. \A i \in Ids' : Spends(minted'[i]) => minted'[i].origin \in plan'.spenders
  BY DEF OriginInv
<1>2. \A m \in Nodes : Asks(task'[m]) => m \in plan'.spenders
  BY DEF OriginInv
<1>3. \A m \in Nodes : have[m] \subseteq Ids
  BY DEF StateOK
<1> QED BY <1>1, <1>2, <1>3 DEF OriginInv

\* Who spends is an invariant.
LEMMA OriginNext ==
  ASSUME StateOK, RequestsOK, OriginInv, [Next]_vars
  PROVE  OriginInv'
<1>1. /\ plan' = plan /\ task \in [Nodes -> TaskSet] /\ have \in [Nodes -> SUBSET Ids]
      /\ crashes \in Nat
  BY NextCases DEF StateOK
<1>2. \A m \in Nodes : Asks(task[m]) => m \in plan.spenders
  BY DEF OriginInv
<1>3. ASSUME NEW n \in Nodes, Starts(n) PROVE OriginInv'
  <2>1. PICK t : Begun(n, t) /\ Start(n, t)
    BY <1>3, StartsBegun
  <2>2. t \in TaskSet /\ (Asks(t) => n \in plan.spenders)
    BY <2>1 DEF Begun, Asks
  <2>3. /\ task'[n] = t /\ \A k \in Nodes \ {n} : task'[k] = task[k]
        /\ UNCHANGED <<now, minted, have, queue, db, balance, resv, released, crashes, faults>>
    BY <2>1, <2>2, StartFacts
  <2>4. Ids' = Ids
    BY <2>3 DEF Ids
  <2> QED BY <1>1, <2>2, <2>3, <2>4, OriginCreated
<1>4. ASSUME NEW n \in Nodes, NEW l, Created(n, l), Asks(task[n]) \/ l # "credit",
             minted'[NewId].origin = n, Spends(minted'[NewId]) => n \in plan.spenders,
             l \in {"charge", "flush", "credit"}
      PROVE  OriginInv'
  <2>1. /\ Ids' = Ids \cup {NewId} /\ UNCHANGED <<have, crashes>>
        /\ \A m \in Nodes \ {n} : task'[m] = task[m]
    BY <1>4 DEF Created
  <2>2. \A i \in Ids : minted'[i] = minted[i]
    BY <1>4 DEF Created
  <2>3. task'[n].pc = l /\ task'[n].amount = task[n].amount /\ task'[n].to = task[n].to
    BY <1>4 DEF Created, SameRequest
  <2>4. Asks(task'[n]) => n \in plan.spenders
    BY <1>2, <1>4, <2>3 DEF Asks
  <2> QED BY <1>1, <1>4, <2>1, <2>2, <2>4, OriginCreated
<1>5. ASSUME NEW n \in Nodes, MintHold(n) \/ MintReserve(n) PROVE OriginInv'
  <2>1. /\ task[n].pc \in {"hold", "reserve"}
        /\ Created(n, "charge") \/ Created(n, "flush")
        /\ minted'[NewId].origin = n
    BY <1>5, HoldMinted DEF EventIs
  <2>2. n \in plan.spenders
    BY <1>2, <2>1 DEF Asks
  <2> QED BY <1>4, <2>1, <2>2
<1>6. ASSUME NEW n \in Nodes, MintCharge(n) PROVE OriginInv'
  <2>1. /\ IF task[n].to = NoAccount THEN Created(n, "flush") ELSE Created(n, "credit")
        /\ EventIs(minted'[NewId], "standard", n, task[n].account, task[n].amount, 0, 0, NoRef,
                   task[n].to)
    BY <1>6, ChargeMinted
  <2>2. minted'[NewId].origin = n /\ (Spends(minted'[NewId]) => n \in plan.spenders)
    BY <1>2, <2>1 DEF EventIs, Spends, Asks
  <2>3. CASE task[n].to = NoAccount
    BY <1>4, <2>1, <2>2, <2>3
  <2>4. CASE task[n].to # NoAccount
    <3>1. Asks(task[n])
      BY <2>4 DEF Asks
    <3> QED BY <1>4, <2>1, <2>2, <2>4, <3>1
  <2> QED BY <2>3, <2>4
<1>7. ASSUME NEW n \in Nodes, MintCredit(n) PROVE OriginInv'
  <2>1. task[n].pc = "credit" /\ Created(n, "flush") /\ minted'[NewId].origin = n
    BY <1>7, CreditMinted DEF EventIs
  <2>2. n \in plan.spenders
    BY <1>2, <2>1 DEF Asks
  <2> QED BY <1>4, <2>1, <2>2
<1>8. ASSUME NEW n \in Nodes, MintRelease(n) PROVE OriginInv'
  <2>1. task[n].pc = "release" /\ Created(n, "flush") /\ minted'[NewId].origin = n
    BY <1>8, ReleaseMinted DEF EventIs
  <2>2. n \in plan.spenders
    BY <1>2, <2>1 DEF Asks
  <2> QED BY <1>4, <2>1, <2>2
<1>9. ASSUME NEW n \in Nodes, MintSettle(n) PROVE OriginInv'
  <2>1. task[n].pc = "settle" /\ Settled(n)
        /\ minted'[NewId].origin = n /\ minted'[NewId + 1].origin = n
    BY <1>9, SettleMinted DEF EventIs
  <2>2. n \in plan.spenders
    BY <1>2, <2>1 DEF Asks
  <2>3. /\ Ids' = Ids \cup {NewId, NewId + 1} /\ UNCHANGED <<have, crashes>>
        /\ \A m \in Nodes \ {n} : task'[m] = task[m]
    BY <2>1 DEF Settled
  <2>4. \A i \in Ids : minted'[i] = minted[i]
    BY <2>1 DEF Settled
  <2> QED BY <1>1, <2>1, <2>2, <2>3, <2>4, OriginCreated
<1>10. ASSUME NEW n \in Nodes, Flush(n) PROVE OriginInv'
  <2>1. /\ have' = [have EXCEPT ![n] = @ \cup Range(task[n].out)]
        /\ task' = [task EXCEPT ![n] = Idle] /\ UNCHANGED <<minted, crashes>>
    BY <1>10 DEF Flush
  <2>2. \A i \in Range(task[n].out) : minted[i].origin = n
    BY DEF RequestsOK, RequestOK
  <2>3. ~Asks(Idle)
    BY IdleFacts DEF Asks
  <2>4. \A m \in Nodes : Asks(task'[m]) => m \in plan'.spenders
    BY <1>1, <1>2, <2>1, <2>3
  <2>5. have'[n] = have[n] \cup Range(task[n].out) /\ \A k \in Nodes \ {n} : have'[k] = have[k]
    BY <1>1, <2>1
  <2>6. \A k, m \in Nodes : \A i \in have'[m] :
          crashes = 0 /\ minted[i].origin = k => i \in have'[k]
    BY <2>2, <2>5 DEF OriginInv
  <2> QED BY <1>1, <2>1, <2>4, <2>6 DEF OriginInv, Ids
<1>11. ASSUME NEW n \in Nodes, AllocFails(n) \/ Crash(n) PROVE OriginInv'
  <2>1. /\ task' = [task EXCEPT ![n] = Idle] /\ minted' = minted
        /\ UNCHANGED <<have, crashes>> \/ crashes' = crashes + 1
    BY <1>11 DEF AllocFails, Crash
  <2>2. ~Asks(Idle)
    BY IdleFacts DEF Asks
  <2>3. \A m \in Nodes : Asks(task'[m]) => m \in plan'.spenders
    BY <1>1, <1>2, <2>1, <2>2
  <2>4. \A i \in Ids' : Spends(minted'[i]) => minted'[i].origin \in plan'.spenders
    BY <1>1, <2>1 DEF OriginInv, Ids
  <2>5. crashes' = 0 => crashes = 0 /\ have' = have
    BY <1>1, <2>1
  <2> QED BY <2>1, <2>3, <2>4, <2>5 DEF OriginInv
<1>12. ASSUME NEW n \in Nodes, NEW i \in Ids, Receive(n, i) PROVE OriginInv'
  <2>1. /\ have' = [have EXCEPT ![n] = @ \cup {i}] /\ UNCHANGED <<minted, task, crashes>>
    BY <1>12 DEF Receive
  <2>2. PICK m \in Nodes : i \in have[m]
    BY <1>12 DEF Receive
  <2>3. have'[n] = have[n] \cup {i} /\ \A k \in Nodes \ {n} : have'[k] = have[k]
    BY <1>1, <2>1
  <2>4. \A k, l \in Nodes : \A j \in have'[l] :
          crashes = 0 /\ minted[j].origin = k => j \in have'[k]
    BY <2>2, <2>3 DEF OriginInv
  <2> QED BY <1>1, <2>1, <2>4 DEF OriginInv, Ids
<1>13. ASSUME UNCHANGED <<minted, have, task, crashes>> PROVE OriginInv'
  BY <1>1, <1>13 DEF OriginInv, Ids
<1>14. ASSUME NEW n \in Nodes, Sweep(n) \/ Persist(n) PROVE OriginInv'
  <2>1. UNCHANGED <<minted, have, task, crashes>>
    BY <1>14 DEF Sweep, Persist
  <2> QED BY <1>13, <2>1
<1>15. CASE Tick \/ UNCHANGED vars
  <2>1. UNCHANGED <<minted, have, task, crashes>>
    BY <1>15 DEF Tick, vars, accountVars
  <2> QED BY <1>13, <2>1
<1>16. ASSUME NEW n \in Nodes, Step(n) PROVE OriginInv'
  BY <1>5, <1>6, <1>7, <1>8, <1>9, <1>10, <1>16 DEF Step
<1> QED BY <1>3, <1>11, <1>12, <1>14, <1>15, <1>16, NextCases

-----------------------------------------------------------------------------
(* Solvency.                                                               *)

\* One node serves all debits of a run.
OneSpender == \A p \in Plans : \A m, n \in p.spenders : m = n

\* The floor holds at every step of a request, and what the request has still
\* to take is covered: a settle counts without the hold it captures, which may
\* expire before it is charged.
SolvOK(n) ==
  LET t == task[n]
      b == balance[n][t.account]
      A == Active(n, t.account)
  IN /\ \A a \in Accounts : balance[n][a] - Held(minted, Active(n, a)) >= Floor
     /\ t.pc = "hold" => t.amount <= 0 /\ b - Held(minted, A) + t.amount - t.hold >= Floor
     /\ t.pc = "charge" => b - Held(minted, A) + t.amount >= Floor
     /\ t.pc = "reserve" => b - Held(minted, A) - t.hold >= Floor
     /\ t.pc = "settle" => b - Held(minted, A \ {t.ref}) + t.amount >= Floor
SolvInv == crashes = 0 => \A n \in plan.spenders : SolvOK(n)

\* Fewer holds of a longer sequence of events.
LEMMA HeldShrinks ==
  ASSUME NEW m \in Seq(EventSet), NEW k \in Seq(EventSet), 1..Len(m) \subseteq 1..Len(k),
         \A i \in 1..Len(m) : k[i] = m[i], NEW S, S \subseteq 1..Len(m), NEW T, T \subseteq S
  PROVE  Held(k, T) \in Nat /\ Held(m, S) \in Nat /\ Held(k, T) <= Held(m, S)
<1>1. Held(k, T) = Held(m, T)
  BY SumsKept
<1>2. Held(m, S) \in Nat /\ Held(m, T) \in Nat /\ Held(m, T) <= Held(m, S)
  BY HeldFacts
<1> QED BY <1>1, <1>2

\* What stays active when time passes and others create events.
LEMMA ActiveShrinks ==
  ASSUME StateOK, StateOK', NEW n \in Nodes, NEW a \in Accounts, now <= now',
         \A i \in Ids : minted'[i] = minted[i],
         \A i \in resv'[n] \ released'[n] :
            i \in resv[n] /\ (i \in released[n] => minted[i].expires <= now)
  PROVE  Active(n, a)' \subseteq Active(n, a)
<1> SUFFICES ASSUME NEW i \in resv'[n] \ released'[n], minted'[i].account = a,
                    minted'[i].expires > now'
             PROVE  i \in Active(n, a)
  BY DEF Active
<1>1. i \in Ids /\ i \in resv[n] /\ minted \in Seq(EventSet) /\ now \in Nat /\ now' \in Nat
  BY DEF StateOK
<1>2. minted'[i] = minted[i] /\ minted[i] \in EventSet
  BY <1>1 DEF Ids
<1>3. minted[i].expires \in Nat
  BY <1>2 DEF EventSet
<1>4. minted[i].expires > now
  BY <1>1, <1>2, <1>3
<1>5. i \notin released[n]
  BY <1>1, <1>3, <1>4
<1> QED BY <1>1, <1>2, <1>4, <1>5 DEF Active

\* The room of an account grows when holds end and money comes.
LEMMA RoomGrows ==
  ASSUME StateOK, StateOK', NEW n \in Nodes, NEW a \in Accounts, Ids \subseteq Ids',
         \A i \in Ids : minted'[i] = minted[i],
         Active(n, a)' \subseteq Active(n, a), NEW x \in Int, balance'[n][a] >= balance[n][a] + x
  PROVE  /\ Held(minted', Active(n, a)') \in Nat /\ Held(minted, Active(n, a)) \in Nat
         /\ balance'[n][a] - Held(minted', Active(n, a)')
              >= balance[n][a] - Held(minted, Active(n, a)) + x
         /\ \A r : /\ Held(minted', Active(n, a)' \ {r}) \in Nat
                   /\ Held(minted, Active(n, a) \ {r}) \in Nat
                   /\ balance'[n][a] - Held(minted', Active(n, a)' \ {r})
                        >= balance[n][a] - Held(minted, Active(n, a) \ {r}) + x
<1>1. /\ minted \in Seq(EventSet) /\ minted' \in Seq(EventSet)
      /\ balance[n][a] \in Int /\ balance'[n][a] \in Int
  BY DEF StateOK
<1>2. Ids = 1..Len(minted) /\ Ids' = 1..Len(minted')
  BY DEF Ids
<1>3. Active(n, a) \subseteq Ids
  BY AvailableInt
<1> DEFINE m == minted
           k == minted'
           S == Active(n, a)
           T == Active(n, a)'
           b == balance[n][a]
           c == balance'[n][a]
<1>4. /\ m \in Seq(EventSet) /\ k \in Seq(EventSet) /\ 1..Len(m) \subseteq 1..Len(k)
      /\ \A i \in 1..Len(m) : k[i] = m[i]
      /\ S \subseteq 1..Len(m) /\ T \subseteq S /\ b \in Int /\ c \in Int /\ c >= b + x
  BY <1>1, <1>2, <1>3
<1> HIDE DEF m, k, S, T, b, c
<1>5. Held(k, T) \in Nat /\ Held(m, S) \in Nat /\ Held(k, T) <= Held(m, S)
  BY <1>4, HeldShrinks
<1>6. \A r : /\ Held(k, T \ {r}) \in Nat /\ Held(m, S \ {r}) \in Nat
             /\ Held(k, T \ {r}) <= Held(m, S \ {r})
  <2> TAKE r
  <2>1. S \ {r} \subseteq 1..Len(m) /\ T \ {r} \subseteq S \ {r}
    BY <1>4
  <2> DEFINE U == S \ {r}
             V == T \ {r}
  <2> HIDE DEF U, V
  <2>2. U \subseteq 1..Len(m) /\ V \subseteq U
    BY <2>1 DEF U, V
  <2>3. Held(k, V) \in Nat /\ Held(m, U) \in Nat /\ Held(k, V) <= Held(m, U)
    BY <1>4, <2>2, HeldShrinks
  <2> QED BY <2>3 DEF U, V
<1>7. c - Held(k, T) >= b - Held(m, S) + x
  BY <1>4, <1>5
<1>8. \A r : c - Held(k, T \ {r}) >= b - Held(m, S \ {r}) + x
  <2> TAKE r
  <2> DEFINE u == Held(k, T \ {r})
             v == Held(m, S \ {r})
  <2>1. u \in Nat /\ v \in Nat /\ u <= v
    BY <1>6, Zenon
  <2> HIDE DEF u, v
  <2>2. c - u >= b - v + x
    BY <1>4, <2>1
  <2> QED BY <2>2 DEF u, v
<1>9. \A r : /\ Held(k, T \ {r}) \in Nat
             /\ Held(m, S \ {r}) \in Nat
             /\ c - Held(k, T \ {r}) >= b - Held(m, S \ {r}) + x
  BY <1>6, <1>8, Zenon
<1>10. Held(k, T) \in Nat /\ Held(m, S) \in Nat
  BY <1>5
<1> QED BY <1>7, <1>9, <1>10, Zenon DEF m, k, S, T, b, c

\* A spender to whom nothing happens but time, others' events and money.
LEMMA SolvKept ==
  ASSUME StateOK, StateOK', RequestsOK, NEW n \in Nodes, SolvOK(n), Ids \subseteq Ids',
         \A i \in Ids : minted'[i] = minted[i], task'[n] = task[n],
         \A a \in Accounts : Active(n, a)' \subseteq Active(n, a)
                             /\ balance'[n][a] >= balance[n][a]
  PROVE  SolvOK(n)'
<1>1. \A a \in Accounts : balance[n][a] \in Int /\ balance'[n][a] \in Int
  BY DEF StateOK
<1>2. Floor \in Int
  BY PlanFacts
<1>3. \A a \in Accounts :
        /\ Held(minted', Active(n, a)') \in Nat /\ Held(minted, Active(n, a)) \in Nat
        /\ balance'[n][a] - Held(minted', Active(n, a)')
             >= balance[n][a] - Held(minted, Active(n, a))
        /\ \A r : /\ Held(minted', Active(n, a)' \ {r}) \in Nat
                  /\ Held(minted, Active(n, a) \ {r}) \in Nat
                  /\ balance'[n][a] - Held(minted', Active(n, a)' \ {r})
                       >= balance[n][a] - Held(minted, Active(n, a) \ {r})
  <2> TAKE a \in Accounts
  <2> DEFINE z == 0
  <2>1. z \in Int /\ balance'[n][a] >= balance[n][a] + z
    BY <1>1
  <2> HIDE DEF z
  <2>2. /\ Held(minted', Active(n, a)') \in Nat /\ Held(minted, Active(n, a)) \in Nat
        /\ balance'[n][a] - Held(minted', Active(n, a)')
             >= balance[n][a] - Held(minted, Active(n, a)) + z
        /\ \A r : /\ Held(minted', Active(n, a)' \ {r}) \in Nat
                  /\ Held(minted, Active(n, a) \ {r}) \in Nat
                  /\ balance'[n][a] - Held(minted', Active(n, a)' \ {r})
                       >= balance[n][a] - Held(minted, Active(n, a) \ {r}) + z
    BY <2>1, RoomGrows
  <2> DEFINE b == balance[n][a]
             c == balance'[n][a]
             g == Held(minted, Active(n, a))
             h == Held(minted', Active(n, a)')
             p(r) == Held(minted, Active(n, a) \ {r})
             q(r) == Held(minted', Active(n, a)' \ {r})
  <2>3. /\ b \in Int /\ c \in Int /\ g \in Nat /\ h \in Nat /\ c - h >= b - g + z
        /\ \A r : p(r) \in Nat /\ q(r) \in Nat /\ c - q(r) >= b - p(r) + z
    BY <1>1, <2>2, Zenon
  <2> HIDE DEF b, c, g, h, p, q
  <2>4. c - h >= b - g
    BY <2>3 DEF z
  <2>5. \A r : p(r) \in Nat /\ q(r) \in Nat /\ c - q(r) >= b - p(r)
    BY <2>3 DEF z
  <2> QED BY <2>3, <2>4, <2>5, Zenon DEF b, c, g, h, p, q
<1>4. \A a \in Accounts : balance[n][a] - Held(minted, Active(n, a)) >= Floor
  BY DEF SolvOK
<1>5. \A a \in Accounts : balance'[n][a] - Held(minted', Active(n, a)') >= Floor
  BY <1>1, <1>2, <1>3, <1>4
<1>6. CASE task[n].pc \notin {"hold", "charge", "reserve", "settle"}
  BY <1>5, <1>6 DEF SolvOK, Floor
<1>7. CASE task[n].pc \in {"hold", "charge", "reserve", "settle"}
  <2> DEFINE t == task[n]
             a == t.account
             b == balance[n][a]
             c == balance'[n][a]
             g == Held(minted, Active(n, a))
             h == Held(minted', Active(n, a)')
             p == Held(minted, Active(n, a) \ {t.ref})
             q == Held(minted', Active(n, a)' \ {t.ref})
  <2>1. a \in Accounts /\ t.amount \in Int /\ t.hold \in Nat
    BY <1>7, RequestFacts
  <2>2. /\ b \in Int /\ c \in Int /\ g \in Nat /\ h \in Nat /\ p \in Nat /\ q \in Nat
        /\ c - h >= b - g /\ c - q >= b - p
    BY <1>1, <1>3, <2>1
  <2>3. /\ t.pc = "hold" => t.amount <= 0 /\ b - g + t.amount - t.hold >= Floor
        /\ t.pc = "charge" => b - g + t.amount >= Floor
        /\ t.pc = "reserve" => b - g - t.hold >= Floor
        /\ t.pc = "settle" => b - p + t.amount >= Floor
    BY DEF SolvOK
  <2>4. (/\ t.pc = "hold" => t.amount <= 0 /\ c - h + t.amount - t.hold >= Floor
         /\ t.pc = "charge" => c - h + t.amount >= Floor
         /\ t.pc = "reserve" => c - h - t.hold >= Floor
         /\ t.pc = "settle" => c - q + t.amount >= Floor)
        => SolvOK(n)'
    BY <1>5 DEF SolvOK, Floor
  <2> DEFINE x == t.amount
             y == t.hold
  <2>5. x \in Int /\ y \in Nat
    BY <2>1
  <2> HIDE DEF b, c, g, h, p, q, x, y
  <2>6. /\ b - g + x - y >= Floor => c - h + x - y >= Floor
        /\ b - g + x >= Floor => c - h + x >= Floor
        /\ b - g - y >= Floor => c - h - y >= Floor
        /\ b - p + x >= Floor => c - q + x >= Floor
    BY <1>2, <2>2, <2>5
  <2> QED BY <2>3, <2>4, <2>6 DEF x, y
<1> QED BY <1>6, <1>7

\* A spender that nothing happens to: others' steps.
LEMMA SolvOthers ==
  ASSUME StateOK, StateOK', RequestsOK, NEW n \in Nodes, SolvOK(n), Ids \subseteq Ids',
         \A i \in Ids : minted'[i] = minted[i], now <= now', task'[n] = task[n],
         balance'[n] = balance[n], resv'[n] = resv[n], released'[n] = released[n]
  PROVE  SolvOK(n)'
<1>1. \A a \in Accounts : Active(n, a)' \subseteq Active(n, a)
  BY ActiveShrinks
<1>2. \A a \in Accounts : balance'[n][a] >= balance[n][a]
  BY DEF StateOK
<1> QED BY <1>1, <1>2, SolvKept

\* A request with nothing left to take.
LEMMA SolvEnds ==
  ASSUME NEW n \in Nodes, task'[n].pc \notin {"hold", "charge", "reserve", "settle"},
         \A a \in Accounts : balance'[n][a] - Held(minted', Active(n, a)') >= Floor
  PROVE  SolvOK(n)'
BY DEF SolvOK, Floor

\* The room of every account of a spender.
LEMMA RoomLeft ==
  ASSUME StateOK, NEW n \in Nodes, SolvOK(n), NEW a \in Accounts
  PROVE  /\ balance[n][a] \in Int /\ Held(minted, Active(n, a)) \in Nat
         /\ balance[n][a] - Held(minted, Active(n, a)) >= Floor
         /\ AvailableBalance(n, a) = balance[n][a] - Held(minted, Active(n, a))
<1>1. balance[n][a] \in Int /\ minted \in Seq(EventSet)
  BY DEF StateOK
<1>2. Active(n, a) \subseteq 1..Len(minted)
  BY AvailableInt DEF Ids
<1>3. Held(minted, Active(n, a)) \in Nat
  BY <1>1, <1>2, HeldFacts
<1> QED BY <1>1, <1>3, AsSums DEF SolvOK

\* A request starts: the guard has seen to it.
LEMMA SolvStart ==
  ASSUME StateOK, NEW n \in Nodes, SolvOK(n), NEW t, Begun(n, t), Start(n, t)
  PROVE  SolvOK(n)'
<1> DEFINE a == t.account
           b == balance[n][a]
           A == Active(n, a)
           g == Held(minted, A)
           p == Held(minted, A \ {t.ref})
           x == t.amount
           y == t.hold
<1>1. t \in TaskSet /\ a \in Accounts
  BY DEF Begun
<1>2. x \in Int /\ y \in Nat
  BY <1>1 DEF TaskSet
<1>3. /\ task'[n] = t
      /\ UNCHANGED <<now, minted, have, queue, db, balance, resv, released, crashes, faults>>
  BY <1>1, StartFacts
<1>4. \A c \in Accounts : Active(n, c)' = Active(n, c) /\ balance'[n][c] = balance[n][c]
  BY <1>3 DEF Active
<1>5. /\ b \in Int /\ g \in Nat /\ b - g >= Floor /\ AvailableBalance(n, a) = b - g
  BY <1>1, RoomLeft
<1>6. Floor \in Int
  BY PlanFacts
<1>7. /\ t.pc = "hold" => x <= 0 /\ b - g + x - y >= Floor
      /\ t.pc = "charge" => x >= 0 \/ b - g + x >= Floor
      /\ t.pc = "reserve" => b - g - y >= Floor
  BY <1>5 DEF Begun
<1>8. t.pc = "settle" => b - p + x >= Floor
  <2> SUFFICES ASSUME t.pc = "settle" PROVE b - p + x >= Floor
    OBVIOUS
  <2> DEFINE h == minted[t.ref].hold
  <2>1. t.ref \in A /\ 0 - x <= h
    BY DEF Begun, Open, Active
  <2>2. minted \in Seq(EventSet) /\ A \subseteq 1..Len(minted)
    BY <1>1, AvailableInt DEF StateOK, Ids
  <2>3. h \in Nat
    <3>1. minted[t.ref] \in EventSet
      BY <2>1, <2>2
    <3> QED BY <3>1 DEF EventSet
  <2> DEFINE r == t.ref
  <2>4. g = minted[r].hold + Held(minted, A \ {r}) /\ Held(minted, A \ {r}) \in Nat
    <3>1. A \ {r} \in SUBSET A
      OBVIOUS
    <3> HIDE DEF A, r
    <3>2. /\ \A R \in SUBSET A : Held(minted, R) \in Nat
          /\ \A e \in A : Held(minted, A) = minted[e].hold + Held(minted, A \ {e})
      BY <2>2, HeldFacts
    <3> QED BY <2>1, <3>1, <3>2 DEF r
  <2>5. g = h + p /\ p \in Nat
    BY <2>4
  <2> HIDE DEF b, g, p, h, x
  <2> QED BY <1>2, <1>5, <1>6, <2>1, <2>3, <2>5
<1>9. t.pc = "charge" => b - g + x >= Floor
  <2> HIDE DEF b, g, x
  <2> QED BY <1>2, <1>5, <1>6, <1>7
<1>10. \A c \in Accounts : balance'[n][c] - Held(minted', Active(n, c)') >= Floor
  BY <1>3, <1>4, RoomLeft
<1>11. /\ balance'[n][t.account] = b /\ minted' = minted
       /\ Active(n, t.account)' = A /\ task'[n] = t
  <2>1. balance'[n][t.account] = b /\ minted' = minted /\ task'[n] = t
    BY <1>1, <1>3, <1>4
  <2>2. Active(n, t.account)' = A
    BY <1>3 DEF Active
  <2> QED BY <2>1, <2>2
<1> QED BY <1>7, <1>8, <1>9, <1>10, <1>11 DEF SolvOK, Floor

\* Nothing becomes active when events are created and no hold is among them.
LEMMA ActiveCreated ==
  ASSUME StateOK, StateOK', NEW n \in Nodes, NEW a \in Accounts, now' = now,
         \A i \in Ids : minted'[i] = minted[i],
         resv'[n] = resv[n], released[n] \subseteq released'[n]
  PROVE  Active(n, a)' \subseteq Active(n, a)
<1>1. now <= now'
  BY DEF StateOK
<1> QED BY <1>1, ActiveShrinks

\* A hold is created: the guard has kept room for it.
LEMMA SolvHold ==
  ASSUME StateOK, StateOK', RequestsOK, NEW n \in Nodes, SolvOK(n), MintHold(n) \/ MintReserve(n)
  PROVE  SolvOK(n)'
<1>a. PICK a : a = task[n].account
  OBVIOUS
<1> DEFINE t == task[n]
           b == balance[n][a]
           g == Held(minted, Active(n, a))
           h == Held(minted', Active(n, a)')
           x == t.amount
           y == t.hold
<1>1. /\ \/ t.pc = "hold" /\ Created(n, "charge")
         \/ t.pc = "reserve" /\ Created(n, "flush")
      /\ t.hold > 0 /\ a \in Accounts
      /\ EventIs(minted'[NewId], "reservation", n, a, 0, y, t.expires, NoRef, NoAccount)
      /\ resv' = [resv EXCEPT ![n] = @ \cup {NewId}] /\ UNCHANGED <<balance, released>>
  BY <1>a, HoldMinted
<1>2. /\ minted' \in Seq(EventSet) /\ Ids' = Ids \cup {NewId} /\ NewId \notin Ids
      /\ SameRequest(task[n], task'[n]) /\ now' = now
      /\ \/ t.pc = "hold" /\ task'[n].pc = "charge"
         \/ t.pc = "reserve" /\ task'[n].pc = "flush"
  BY <1>1 DEF Created
<1>3. \A i \in Ids : minted'[i] = minted[i]
  BY <1>1 DEF Created
<1>4. /\ minted \in Seq(EventSet) /\ x \in Int /\ y \in Nat /\ resv'[n] = resv[n] \cup {NewId}
      /\ released' = released /\ balance' = balance /\ resv[n] \subseteq Ids
  BY <1>1, RequestFacts DEF StateOK
<1>5. minted'[NewId].hold = y /\ minted'[NewId].account = a
  BY <1>1 DEF EventIs
<1>6. \A c \in Accounts : Active(n, c)' \subseteq Active(n, c) \cup {NewId}
                           /\ (c # a => Active(n, c)' \subseteq Active(n, c))
  BY <1>2, <1>3, <1>4, <1>5 DEF Active
<1>7. h <= g + y /\ h \in Nat
  <2> DEFINE m == minted
             k == minted'
             S == Active(n, a)
             T == Active(n, a)'
             e == NewId
  <2>1. /\ m \in Seq(EventSet) /\ k \in Seq(EventSet) /\ 1..Len(m) \subseteq 1..Len(k)
        /\ \A i \in 1..Len(m) : k[i] = m[i]
        /\ S \subseteq 1..Len(m) /\ S \subseteq 1..Len(k) /\ e \in 1..Len(k) /\ e \notin S
        /\ T \subseteq S \cup {e} /\ k[e].hold = y
    <3>1. Ids = 1..Len(minted) /\ Ids' = 1..Len(minted')
      BY DEF Ids
    <3>2. S \subseteq Ids
      BY <1>1, AvailableInt
    <3> QED BY <1>1, <1>2, <1>3, <1>4, <1>5, <1>6, <3>1, <3>2
  <2> HIDE DEF m, k, S, T, e
  <2>2. Held(k, S) = Held(m, S)
    BY <2>1, SumsKept
  <2>3. Held(k, S \cup {e}) = Held(k, S) + k[e].hold
    BY <2>1, HeldAdd
  <2> DEFINE U == S \cup {e}
  <2>4. U \subseteq 1..Len(k) /\ T \in SUBSET U
    BY <2>1
  <2>5. Held(k, T) \in Nat /\ Held(k, T) <= Held(k, U)
    <3> HIDE DEF U
    <3> QED BY <2>1, <2>4, HeldFacts
  <2>6. Held(m, S) \in Nat
    BY <2>1, HeldFacts
  <2>7. Held(k, T) <= Held(m, S) + y
    BY <2>1, <2>2, <2>3, <2>5, <2>6
  <2> QED BY <2>5, <2>7 DEF m, k, S, T
<1>8. b \in Int /\ g \in Nat /\ Floor \in Int
  BY <1>1, RoomLeft, PlanFacts
<1>9. /\ t.pc = "hold" => x <= 0 /\ b - g + x - y >= Floor
      /\ t.pc = "reserve" => b - g - y >= Floor
  BY <1>a DEF SolvOK
<1>10. b - h >= Floor /\ (t.pc = "hold" => b - h + x >= Floor)
  <2> HIDE DEF b, g, h, x, y
  <2> QED BY <1>2, <1>4, <1>7, <1>8, <1>9
<1>11. \A c \in Accounts : balance'[n][c] - Held(minted', Active(n, c)') >= Floor
  <2> TAKE c \in Accounts
  <2>1. CASE c = a
    BY <1>4, <1>10, <2>1
  <2>2. CASE c # a
    <3> DEFINE u == Held(minted, Active(n, c))
               v == Held(minted', Active(n, c)')
               d == balance[n][c]
    <3>1. d \in Int /\ u \in Nat /\ d - u >= Floor
      BY RoomLeft
    <3>2. v \in Nat /\ v <= u
      <4>1. Active(n, c)' \subseteq Active(n, c) /\ Active(n, c) \subseteq Ids
        BY <1>6, <2>2, AvailableInt
      <4> DEFINE m == minted
                 k == minted'
                 S == Active(n, c)
                 T == Active(n, c)'
      <4>2. /\ m \in Seq(EventSet) /\ k \in Seq(EventSet) /\ 1..Len(m) \subseteq 1..Len(k)
            /\ \A i \in 1..Len(m) : k[i] = m[i]
            /\ S \subseteq 1..Len(m) /\ T \subseteq S
        BY <1>2, <1>3, <1>4, <4>1 DEF Ids
      <4> HIDE DEF m, k, S, T
      <4>3. Held(k, T) \in Nat /\ Held(k, T) <= Held(m, S)
        BY <4>2, HeldShrinks
      <4> QED BY <4>3 DEF m, k, S, T
    <3>3. balance'[n][c] = d
      BY <1>4
    <3> HIDE DEF u, v, d
    <3>4. d - v >= Floor
      BY <1>8, <3>1, <3>2
    <3> QED BY <3>3, <3>4 DEF v
  <2> QED BY <2>1, <2>2
<1>12. CASE t.pc = "reserve"
  <2>1. task'[n].pc \notin {"hold", "charge", "reserve", "settle"}
    BY <1>2, <1>12
  <2> QED BY <1>11, <2>1, SolvEnds
<1>13. CASE t.pc = "hold"
  <2> DEFINE u == task'[n]
  <2>1. u.pc = "charge" /\ u.account = a /\ u.amount = x
    BY <1>a, <1>2, <1>13 DEF SameRequest
  <2>2. balance'[n][a] - Held(minted', Active(n, a)') + u.amount >= Floor
    BY <1>4, <1>10, <1>13, <2>1
  <2>3. Active(n, task[n].account)' = Active(n, a)'
    BY <2>1 DEF Active
  <2> QED BY <1>11, <2>1, <2>2, <2>3 DEF SolvOK, Floor
<1> QED BY <1>2, <1>12, <1>13

\* The balance moves by an amount there is room for, and no hold is taken.
LEMMA SolvMoves ==
  ASSUME StateOK, StateOK', NEW n \in Nodes, SolvOK(n), Ids \subseteq Ids',
         \A i \in Ids : minted'[i] = minted[i],
         NEW a \in Accounts, NEW x \in Int, AddToBalance(n, a, x),
         \A c \in Accounts : Active(n, c)' \subseteq Active(n, c),
         balance[n][a] - Held(minted, Active(n, a)) + x >= Floor,
         task'[n].pc \notin {"hold", "charge", "reserve", "settle"}
  PROVE  SolvOK(n)'
<1>1. /\ balance'[n][a] = balance[n][a] + x
      /\ \A c \in Accounts \ {a} : balance'[n][c] = balance[n][c]
  BY BalanceFacts
<1>2. Floor \in Int
  BY PlanFacts
<1>3. ASSUME NEW c \in Accounts
      PROVE  balance'[n][c] - Held(minted', Active(n, c)') >= Floor
  <2> DEFINE y == IF c = a THEN x ELSE 0
             d == balance[n][c]
             e == balance'[n][c]
             g == Held(minted, Active(n, c))
             h == Held(minted', Active(n, c)')
  <2>1. d \in Int /\ g \in Nat /\ d - g >= Floor /\ e \in Int
    BY RoomLeft DEF StateOK
  <2>2. y \in Int /\ balance'[n][c] >= balance[n][c] + y
    BY <1>1, <2>1
  <2>3. d - g + y >= Floor
    <3>1. CASE c = a
      BY <3>1
    <3>2. CASE c # a
      BY <2>1, <3>2
    <3> QED BY <3>1, <3>2
  <2> HIDE DEF y
  <2>4. h \in Nat /\ e - h >= d - g + y
    BY <2>2, RoomGrows
  <2> HIDE DEF d, e, g, h
  <2>5. e - h >= Floor
    BY <1>2, <2>1, <2>2, <2>3, <2>4
  <2> QED BY <2>5 DEF e, h
<1> QED BY <1>3, SolvEnds

\* A charge, and the credit of a transfer: the guard has kept room for them.
LEMMA SolvPay ==
  ASSUME StateOK, StateOK', RequestsOK, NEW n \in Nodes, SolvOK(n), MintCharge(n) \/ MintCredit(n)
  PROVE  SolvOK(n)'
<1>1. PICK a \in Accounts, x \in Int :
        /\ Created(n, "credit") \/ Created(n, "flush")
        /\ AddToBalance(n, a, x) /\ UNCHANGED <<resv, released>>
        /\ balance[n][a] - Held(minted, Active(n, a)) + x >= Floor
  <2>1. CASE MintCharge(n)
    <3> DEFINE t == task[n]
    <3>1. /\ t.pc = "charge" /\ t.account \in Accounts /\ t.amount \in Int
          /\ Created(n, "credit") \/ Created(n, "flush")
          /\ AddToBalance(n, t.account, t.amount) /\ UNCHANGED <<resv, released>>
      BY <2>1, ChargeMinted
    <3>2. balance[n][t.account] - Held(minted, Active(n, t.account)) + t.amount >= Floor
      BY <3>1 DEF SolvOK
    <3> QED BY <3>1, <3>2
  <2>2. CASE MintCredit(n)
    <3> DEFINE c == task[n].to
               y == Magnitude(task[n].amount)
    <3>1. /\ c \in Accounts /\ y \in Nat /\ Created(n, "flush")
          /\ AddToBalance(n, c, y) /\ UNCHANGED <<resv, released>>
      BY <2>2, CreditMinted
    <3> DEFINE b == balance[n][c]
               g == Held(minted, Active(n, c))
    <3>2. b \in Int /\ g \in Nat /\ b - g >= Floor /\ Floor \in Int
      BY <3>1, RoomLeft, PlanFacts
    <3> HIDE DEF b, g, y
    <3>3. b - g + y >= Floor /\ y \in Int
      BY <3>1, <3>2
    <3> QED BY <3>1, <3>3 DEF b, g
  <2> QED BY <2>1, <2>2
<1>2. /\ Ids \subseteq Ids' /\ now' = now
      /\ task'[n].pc \notin {"hold", "charge", "reserve", "settle"}
  BY <1>1 DEF Created
<1>3. \A i \in Ids : minted'[i] = minted[i]
  BY <1>1 DEF Created
<1>4. \A c \in Accounts : Active(n, c)' \subseteq Active(n, c)
  BY <1>1, <1>2, <1>3, ActiveCreated
<1> QED BY <1>1, <1>2, <1>3, <1>4, SolvMoves

\* A settle: the hold it captures goes, and is not less than what it charges.
LEMMA SolvSettle ==
  ASSUME StateOK, StateOK', RequestsOK, NEW n \in Nodes, SolvOK(n), MintSettle(n)
  PROVE  SolvOK(n)'
<1>1. PICK a, x, r : a = task[n].account /\ x = task[n].amount /\ r = task[n].ref
  OBVIOUS
<1>2. /\ task[n].pc = "settle" /\ a \in Accounts /\ x \in Int
      /\ Settled(n) /\ AddToBalance(n, a, x)
      /\ released' = [released EXCEPT ![n] = @ \cup {r}] /\ UNCHANGED resv
  BY <1>1, SettleMinted
<1>3. /\ Ids \subseteq Ids' /\ now' = now /\ minted' \in Seq(EventSet) /\ minted \in Seq(EventSet)
      /\ task'[n].pc \notin {"hold", "charge", "reserve", "settle"}
  BY <1>2 DEF Settled, StateOK
<1>4. \A i \in Ids : minted'[i] = minted[i]
  BY <1>2 DEF Settled
<1>5. released'[n] = released[n] \cup {r} /\ resv'[n] = resv[n]
  BY <1>2 DEF StateOK
<1>6. \A c \in Accounts : Active(n, c)' \subseteq Active(n, c)
  BY <1>3, <1>4, <1>5, ActiveCreated
<1>7. Active(n, a)' \subseteq Active(n, a) \ {r}
  <2>1. r \notin Active(n, a)'
    BY <1>5 DEF Active
  <2> QED BY <1>2, <1>6, <2>1
<1>8. /\ balance'[n][a] = balance[n][a] + x /\ balance[n][a] \in Int /\ Floor \in Int
      /\ \A c \in Accounts \ {a} : balance'[n][c] = balance[n][c]
  BY <1>2, BalanceFacts, RoomLeft, PlanFacts
<1>9. balance[n][a] - Held(minted, Active(n, a) \ {r}) + x >= Floor
  BY <1>1, <1>2 DEF SolvOK
<1>10. balance'[n][a] - Held(minted', Active(n, a)') >= Floor
  <2> DEFINE m == minted
             k == minted'
             S == Active(n, a) \ {r}
             T == Active(n, a)'
             b == balance[n][a]
             c == balance'[n][a]
  <2>1. /\ m \in Seq(EventSet) /\ k \in Seq(EventSet) /\ 1..Len(m) \subseteq 1..Len(k)
        /\ \A i \in 1..Len(m) : k[i] = m[i]
        /\ S \subseteq 1..Len(m) /\ T \subseteq S
    <3>1. Active(n, a) \subseteq Ids
      BY <1>2, AvailableInt
    <3> QED BY <1>3, <1>4, <1>7, <3>1 DEF Ids
  <2>2. c = b + x /\ b \in Int /\ b - Held(m, S) + x >= Floor
    BY <1>8, <1>9
  <2> HIDE DEF m, k, S, T, b, c
  <2>3. Held(k, T) \in Nat /\ Held(m, S) \in Nat /\ Held(k, T) <= Held(m, S)
    BY <2>1, HeldShrinks
  <2>4. c - Held(k, T) >= Floor
    BY <1>2, <1>8, <2>2, <2>3
  <2> QED BY <2>4 DEF c, k, T
<1>11. ASSUME NEW c \in Accounts, c # a
       PROVE  balance'[n][c] - Held(minted', Active(n, c)') >= Floor
  <2> DEFINE z == 0
             d == balance[n][c]
             e == balance'[n][c]
             g == Held(minted, Active(n, c))
             h == Held(minted', Active(n, c)')
  <2>1. d \in Int /\ g \in Nat /\ d - g >= Floor /\ e = d
    BY <1>8, <1>11, RoomLeft
  <2>2. z \in Int /\ balance'[n][c] >= balance[n][c] + z
    BY <2>1
  <2> HIDE DEF z
  <2>3. h \in Nat /\ e - h >= d - g + z
    BY <1>3, <1>4, <1>6, <2>2, RoomGrows
  <2> HIDE DEF d, e, g, h
  <2>4. e - h >= Floor
    BY <1>8, <2>1, <2>3 DEF z
  <2> QED BY <2>4 DEF e, h
<1> QED BY <1>3, <1>10, <1>11, SolvEnds

\* What a spender receives was made by another, and takes nothing.
LEMMA ReceivedIsHarmless ==
  ASSUME OneSpender, StateOK, OriginInv, crashes = 0, NEW n \in plan.spenders, NEW i \in Ids,
         Receive(n, i)
  PROVE  /\ ~Spends(minted[i]) /\ minted[i].amount >= 0 /\ minted[i].hold = 0
         /\ minted[i].type = "standard" /\ minted[i].ref = NoRef /\ minted[i].to = NoAccount
<1>1. n \in Nodes /\ plan \in Plans
  BY PlanFacts DEF StateOK
<1>2. PICK m \in Nodes : i \in have[m] /\ i \notin have[n]
  BY DEF Receive
<1>3. minted[i].origin # n
  BY <1>1, <1>2 DEF OriginInv
<1>4. ~Spends(minted[i])
  BY <1>1, <1>3 DEF OriginInv, OneSpender
<1>5. minted[i] \in EventSet
  BY DEF StateOK, Ids
<1>6. minted[i].amount \in Int /\ minted[i].hold \in Nat
  BY <1>5 DEF EventSet
<1> QED BY <1>4, <1>6 DEF Spends

\* What a step of insert_event does to the other nodes' accounts, and to the node's.
LEMMA ReceiveFacts ==
  ASSUME StateOK, NEW n \in Nodes, NEW i \in Ids, Receive(n, i)
  PROVE  /\ minted[i].account \in Accounts /\ minted[i].amount \in Int
         /\ AddToBalance(n, minted[i].account, minted[i].amount)
         /\ minted[i].hold = 0 => resv'[n] = resv[n]
         /\ minted[i].type # "release" => released'[n] = released[n]
         /\ \A m \in Nodes \ {n} : resv'[m] = resv[m] /\ released'[m] = released[m]
         /\ UNCHANGED <<now, minted, db, task, crashes, faults>>
<1>1. minted[i] \in EventSet /\ resv \in [Nodes -> SUBSET Ids] /\ released \in [Nodes -> SUBSET Ids]
  BY DEF StateOK, Ids
<1>2. minted[i].account \in Accounts /\ minted[i].amount \in Int
  BY <1>1 DEF EventSet
<1>3. resv' = [resv EXCEPT ![n] = @ \cup {j \in {i} : minted[j].hold > 0}]
      /\ released' = [released EXCEPT ![n] =
                        @ \cup {minted[j].ref : j \in {k \in {i} : minted[k].type = "release"}}]
  BY DEF Receive
<1>4. /\ resv'[n] = resv[n] \cup {j \in {i} : minted[j].hold > 0}
      /\ released'[n] = released[n]
           \cup {minted[j].ref : j \in {k \in {i} : minted[k].type = "release"}}
      /\ \A m \in Nodes \ {n} : resv'[m] = resv[m] /\ released'[m] = released[m]
  BY <1>1, <1>3
<1>5. minted[i].hold = 0 => resv'[n] = resv[n]
  BY <1>4
<1>6. minted[i].type # "release" => released'[n] = released[n]
  BY <1>4
<1> QED BY <1>2, <1>4, <1>5, <1>6 DEF Receive

\* Solvency is kept by every step, while nobody has crashed.
LEMMA SolvNext ==
  ASSUME OneSpender, StateOK, StateOK', RequestsOK, OriginInv, SolvInv, [Next]_vars
  PROVE  SolvInv'
<1>1. /\ plan' = plan /\ crashes \in Nat /\ crashes' \in Nat /\ now \in Nat
      /\ plan.spenders \subseteq Nodes
      /\ task \in [Nodes -> TaskSet] /\ resv \in [Nodes -> SUBSET Ids]
      /\ released \in [Nodes -> SUBSET Ids]
  BY NextCases, PlanFacts DEF StateOK
<1>2. \A n \in Nodes : Crash(n) => crashes' # 0
  BY <1>1 DEF Crash
<1> SUFFICES ASSUME crashes' = 0, NEW m \in plan.spenders PROVE SolvOK(m)'
  BY <1>1 DEF SolvInv
<1>3. m \in Nodes
  BY <1>1
<1>4. ASSUME UNCHANGED crashes PROVE SolvOK(m)
  BY <1>1, <1>4 DEF SolvInv
<1>5. ASSUME SolvOK(m), Ids \subseteq Ids', \A i \in Ids : minted'[i] = minted[i], now' = now,
             task'[m] = task[m], balance'[m] = balance[m], resv'[m] = resv[m],
             released'[m] = released[m]
      PROVE  SolvOK(m)'
  BY <1>1, <1>3, <1>5, SolvOthers
<1>6. ASSUME NEW n \in Nodes, Starts(n) PROVE SolvOK(m)'
  <2>1. PICK t : Begun(n, t) /\ Start(n, t)
    BY <1>6, StartsBegun
  <2>2. t \in TaskSet
    BY <2>1 DEF Begun
  <2>3. /\ \A k \in Nodes \ {n} : task'[k] = task[k]
        /\ UNCHANGED <<now, minted, have, queue, db, balance, resv, released, crashes, faults>>
    BY <2>1, <2>2, StartFacts
  <2>4. CASE m = n
    BY <1>4, <2>1, <2>3, <2>4, SolvStart
  <2>5. CASE m # n
    BY <1>3, <1>4, <1>5, <2>3, <2>5 DEF Ids
  <2> QED BY <2>4, <2>5
<1>7. ASSUME NEW n \in Nodes, NEW l, Created(n, l) \/ Settled(n), m # n,
             balance'[m] = balance[m], resv'[m] = resv[m], released'[m] = released[m]
      PROVE  SolvOK(m)'
  <2>1. Ids \subseteq Ids' /\ now' = now /\ task'[m] = task[m] /\ crashes' = crashes
    BY <1>3, <1>7 DEF Created, Settled
  <2>2. \A i \in Ids : minted'[i] = minted[i]
    BY <1>7 DEF Created, Settled
  <2> QED BY <1>4, <1>5, <1>7, <2>1, <2>2
<1>8. ASSUME NEW n \in Nodes, MintHold(n) \/ MintReserve(n) PROVE SolvOK(m)'
  <2>1. /\ Created(n, "charge") \/ Created(n, "flush")
        /\ resv' = [resv EXCEPT ![n] = @ \cup {NewId}] /\ UNCHANGED <<balance, released>>
    BY <1>8, HoldMinted
  <2>2. crashes' = crashes
    BY <2>1 DEF Created
  <2>3. CASE m = n
    BY <1>4, <1>8, <2>2, <2>3, SolvHold
  <2>4. CASE m # n
    BY <1>1, <1>3, <1>7, <2>1, <2>4
  <2> QED BY <2>3, <2>4
<1>9. ASSUME NEW n \in Nodes, MintCharge(n) \/ MintCredit(n) PROVE SolvOK(m)'
  <2>1. /\ Created(n, "credit") \/ Created(n, "flush")
        /\ UNCHANGED <<resv, released>>
        /\ \A k \in Nodes \ {n} : balance'[k] = balance[k]
    <3>1. CASE MintCharge(n)
      BY <3>1, ChargeMinted, BalanceFacts
    <3>2. CASE MintCredit(n)
      <4>1. Magnitude(task[n].amount) \in Int
        BY <3>2, CreditMinted
      <4> QED BY <3>2, <4>1, CreditMinted, BalanceFacts
    <3> QED BY <1>9, <3>1, <3>2
  <2>2. crashes' = crashes
    BY <2>1 DEF Created
  <2>3. CASE m = n
    BY <1>4, <1>9, <2>2, <2>3, SolvPay
  <2>4. CASE m # n
    BY <1>3, <1>7, <2>1, <2>4
  <2> QED BY <2>3, <2>4
<1>10. ASSUME NEW n \in Nodes, MintSettle(n) PROVE SolvOK(m)'
  <2>1. /\ Settled(n) /\ resv' = resv
        /\ released' = [released EXCEPT ![n] = @ \cup {task[n].ref}]
        /\ \A k \in Nodes \ {n} : balance'[k] = balance[k]
    BY <1>10, SettleMinted, BalanceFacts
  <2>2. crashes' = crashes
    BY <2>1 DEF Settled
  <2>3. CASE m = n
    BY <1>4, <1>10, <2>2, <2>3, SolvSettle
  <2>4. CASE m # n
    BY <1>1, <1>3, <1>7, <2>1, <2>4
  <2> QED BY <2>3, <2>4
<1>11. ASSUME NEW n \in Nodes, MintRelease(n) PROVE SolvOK(m)'
  <2>1. /\ task[n].pc = "release" /\ Created(n, "flush")
        /\ released' = [released EXCEPT ![n] = @ \cup {task[n].ref}] /\ UNCHANGED <<balance, resv>>
    BY <1>11, ReleaseMinted
  <2>2. /\ crashes' = crashes /\ now' = now /\ Ids \subseteq Ids' /\ task'[n].pc = "flush"
    BY <2>1 DEF Created
  <2>3. \A i \in Ids : minted'[i] = minted[i]
    BY <2>1 DEF Created
  <2>4. CASE m = n
    <3>1. SolvOK(n)
      BY <1>4, <2>2, <2>4
    <3>2. \A c \in Accounts : Active(n, c)' \subseteq Active(n, c)
      <4>1. resv'[n] = resv[n] /\ released[n] \subseteq released'[n]
        BY <1>1, <2>1
      <4> QED BY <2>2, <2>3, <4>1, ActiveCreated
    <3>3. ASSUME NEW c \in Accounts
          PROVE  balance'[n][c] - Held(minted', Active(n, c)') >= Floor
      <4> DEFINE z == 0
                 d == balance[n][c]
                 e == balance'[n][c]
                 g == Held(minted, Active(n, c))
                 h == Held(minted', Active(n, c)')
      <4>1. d \in Int /\ g \in Nat /\ d - g >= Floor /\ e = d /\ Floor \in Int
        BY <2>1, <3>1, RoomLeft, PlanFacts
      <4>2. z \in Int /\ balance'[n][c] >= balance[n][c] + z
        BY <4>1
      <4> HIDE DEF z
      <4>3. h \in Nat /\ e - h >= d - g + z
        BY <2>2, <2>3, <3>2, <4>2, RoomGrows
      <4> HIDE DEF d, e, g, h
      <4>4. e - h >= Floor
        BY <4>1, <4>3 DEF z
      <4> QED BY <4>4 DEF e, h
    <3>4. task'[n].pc \notin {"hold", "charge", "reserve", "settle"}
      BY <2>2
    <3> QED BY <2>4, <3>3, <3>4, SolvEnds
  <2>5. CASE m # n
    BY <1>1, <1>3, <1>7, <2>1, <2>5
  <2> QED BY <2>4, <2>5
<1>12. ASSUME NEW n \in Nodes, Flush(n) \/ AllocFails(n) PROVE SolvOK(m)'
  <2>1. /\ task' = [task EXCEPT ![n] = Idle]
        /\ UNCHANGED <<now, minted, balance, resv, released, crashes>>
    BY <1>12 DEF Flush, AllocFails
  <2>2. SolvOK(m)
    BY <1>4, <2>1
  <2>3. CASE m = n
    <3>1. \A c \in Accounts : Active(n, c)' = Active(n, c)
      BY <2>1 DEF Active
    <3>2. \A c \in Accounts : balance'[n][c] - Held(minted', Active(n, c)') >= Floor
      BY <2>1, <2>2, <2>3, <3>1, RoomLeft
    <3>3. task'[n].pc = "idle"
      BY <1>1, <2>1, IdleFacts
    <3>4. task'[n].pc \notin {"hold", "charge", "reserve", "settle"}
      BY <3>3
    <3> QED BY <2>3, <3>2, <3>4, SolvEnds
  <2>4. CASE m # n
    BY <1>1, <1>3, <1>5, <2>1, <2>2, <2>4 DEF Ids
  <2> QED BY <2>3, <2>4
<1>13. ASSUME NEW n \in Nodes, NEW i \in Ids, Receive(n, i) PROVE SolvOK(m)'
  <2> DEFINE c == minted[i].account
             x == minted[i].amount
  <2>1. /\ c \in Accounts /\ x \in Int /\ AddToBalance(n, c, x)
        /\ minted[i].hold = 0 => resv'[n] = resv[n]
        /\ minted[i].type # "release" => released'[n] = released[n]
        /\ \A k \in Nodes \ {n} : resv'[k] = resv[k] /\ released'[k] = released[k]
        /\ UNCHANGED <<now, minted, task, crashes>>
    BY <1>13, ReceiveFacts
  <2>2. /\ balance'[n][c] = balance[n][c] + x
        /\ \A k \in Nodes \ {n} : balance'[k] = balance[k]
        /\ \A b \in Accounts \ {c} : balance'[n][b] = balance[n][b]
    <3> HIDE DEF c, x
    <3> QED BY <2>1, BalanceFacts
  <2>3. SolvOK(m) /\ Ids' = Ids /\ now <= now'
    BY <1>1, <1>4, <2>1 DEF Ids
  <2>4. CASE m = n
    <3>1. x >= 0 /\ minted[i].hold = 0 /\ minted[i].type = "standard"
      BY <1>1, <1>13, <2>1, <2>4, ReceivedIsHarmless
    <3>2. resv'[n] = resv[n] /\ released'[n] = released[n]
      BY <2>1, <3>1
    <3>3. \A b \in Accounts : Active(n, b)' \subseteq Active(n, b)
      BY <2>1, <3>2, ActiveCreated
    <3>4. \A b \in Accounts : balance[n][b] \in Int
      BY DEF StateOK
    <3>5. \A b \in Accounts : balance'[n][b] >= balance[n][b]
      <4> TAKE b \in Accounts
      <4>1. CASE b = c
        BY <2>1, <2>2, <3>1, <3>4, <4>1
      <4>2. CASE b # c
        BY <2>2, <3>4, <4>2
      <4> QED BY <4>1, <4>2
    <3> QED BY <2>1, <2>3, <2>4, <3>3, <3>5, SolvKept
  <2>5. CASE m # n
    BY <1>3, <1>5, <2>1, <2>2, <2>3, <2>5
  <2> QED BY <2>4, <2>5
<1>14. ASSUME NEW n \in Nodes, Sweep(n) PROVE SolvOK(m)'
  <2> DEFINE expired == {i \in resv[n] : minted[i].expires <= now /\ ~Locked(n, minted[i].account)}
  <2>1. /\ resv' = [resv EXCEPT ![n] = @ \ expired]
        /\ released' = [released EXCEPT ![n] = @ \ expired]
        /\ UNCHANGED <<now, minted, balance, task, crashes>>
    BY <1>14 DEF Sweep
  <2> HIDE DEF expired
  <2>2. SolvOK(m) /\ Ids' = Ids /\ now <= now'
    BY <1>1, <1>4, <2>1 DEF Ids
  <2>3. CASE m = n
    <3>1. \A i \in resv'[n] \ released'[n] : i \in resv[n] /\ i \notin released[n]
      BY <1>1, <2>1
    <3>2. \A b \in Accounts : Active(n, b)' \subseteq Active(n, b)
      BY <2>1, <2>2, <3>1, ActiveShrinks
    <3>3. \A b \in Accounts : balance'[n][b] >= balance[n][b]
      BY <2>1 DEF StateOK
    <3> QED BY <2>1, <2>2, <2>3, <3>2, <3>3, SolvKept
  <2>4. CASE m # n
    BY <1>1, <1>3, <1>5, <2>1, <2>2, <2>4
  <2> QED BY <2>3, <2>4
<1>15. ASSUME NEW n \in Nodes, Persist(n) PROVE SolvOK(m)'
  BY <1>4, <1>5, <1>15 DEF Persist, Ids
<1>16. CASE Tick
  <2>1. /\ now' \in Nat /\ now' > now
        /\ UNCHANGED <<minted, balance, resv, released, task, crashes>>
    BY <1>16, PlanFacts DEF Tick
  <2>2. SolvOK(m) /\ Ids' = Ids /\ now <= now'
    BY <1>1, <1>4, <2>1 DEF Ids
  <2> QED BY <1>3, <2>1, <2>2, SolvOthers
<1>17. CASE UNCHANGED vars
  BY <1>4, <1>5, <1>17 DEF vars, accountVars, Ids
<1>18. ASSUME NEW n \in Nodes, Step(n) PROVE SolvOK(m)'
  BY <1>8, <1>9, <1>10, <1>11, <1>12, <1>18 DEF Step
<1> QED BY <1>2, <1>6, <1>12, <1>13, <1>14, <1>15, <1>16, <1>17, <1>18, NextCases

\* At first nothing is held, and no account is overdrawn.
LEMMA SolvInit == Init => SolvInv
<1> SUFFICES ASSUME Init, NEW n \in plan.spenders PROVE SolvOK(n)
  BY DEF SolvInv
<1>1. StateOK
  BY StateInit
<1>2. n \in Nodes
  BY <1>1, PlanFacts
<1>3. Floor \in Int /\ Floor <= 0 /\ Seed \in Nat
  BY AmountsAssumption DEF Floor
<1>4. \A a \in Accounts : balance[n][a] \in Nat /\ Active(n, a) = {}
  <2>1. \A a \in Accounts : balance[n][a] = IF a = FirstAccount THEN Seed ELSE 0
    BY <1>2 DEF Init
  <2>2. resv[n] = {}
    BY <1>2 DEF Init
  <2> QED BY <1>3, <2>1, <2>2 DEF Active
<1>5. Held(minted, {}) = 0
  <2>1. IsFiniteSet({})
    BY FS_EmptySet
  <2> QED BY <2>1, SumPick DEF Held
<1>6. \A a \in Accounts : balance[n][a] - Held(minted, Active(n, a)) >= Floor
  BY <1>3, <1>4, <1>5
<1>7. task[n].pc = "idle"
  BY <1>2, IdleFacts DEF Init
<1> QED BY <1>6, <1>7 DEF SolvOK

\* When one node serves all debits and no node crashes, its available balance
\* never falls below the overdraft floor: not by a debit with its hold, not by a
\* settle whose hold expires before it is charged, not by a credit, a release or
\* an event of a peer in between (the guard of create_local_events; what the
\* other nodes send it takes nothing).
THEOREM SpenderStaysSolvent == ASSUME OneSpender PROVE Spec => []Solvent
<1> DEFINE Inv == StateOK /\ RequestsOK /\ OriginInv /\ SolvInv
<1>1. Init => Inv
  BY StateInit, OriginInit, SolvInit
<1>2. Inv /\ [Next]_vars => Inv'
  BY StateNext, OriginNext, SolvNext
<1>3. Inv => Solvent
  <2> SUFFICES ASSUME Inv, crashes = 0, NEW n \in plan.spenders, NEW a \in Accounts
               PROVE  AvailableBalance(n, a) >= Floor
    BY DEF Solvent
  <2>1. n \in Nodes /\ SolvOK(n)
    BY PlanFacts DEF SolvInv
  <2> QED BY <2>1, RoomLeft
<1>4. Spec => []Inv
  BY <1>1, <1>2, PTL DEF Spec
<1> QED BY <1>3, <1>4, PTL

-----------------------------------------------------------------------------
(* Captures.                                                               *)

\* The charge of a settle.
IsCapture(e) == e.type = "standard" /\ e.ref # NoRef

\* A captured reservation is no longer open where reservations are served,
\* nothing captures it again, and no settle under way is about to.
CaptureOK ==
  /\ \A i \in Ids : IsCapture(minted[i]) => \A n \in plan.spenders : ~Open(n, minted[i].ref)
  /\ \A i, j \in Ids :
       IsCapture(minted[i]) /\ IsCapture(minted[j]) /\ minted[i].ref = minted[j].ref => i = j
  /\ \A n \in Nodes : task[n].pc = "settle" =>
       \A i \in Ids : IsCapture(minted[i]) => minted[i].ref # task[n].ref
CaptureInv == crashes = 0 => CaptureOK

\* A reservation does not open again.
LEMMA OpenKept ==
  ASSUME StateOK, StateOK', NEW n \in Nodes, NEW r \in Ids, now <= now', minted'[r] = minted[r],
         r \in resv'[n] \ released'[n] => r \in resv[n] \ released[n], Open(n, r)'
  PROVE  Open(n, r)
<1>1. minted \in Seq(EventSet) /\ now \in Nat /\ now' \in Nat
  BY DEF StateOK
<1>2. minted[r] \in EventSet
  BY <1>1 DEF Ids
<1>3. minted[r].expires \in Nat
  BY <1>2 DEF EventSet
<1> QED BY <1>1, <1>3 DEF Open

\* Steps that capture nothing.
LEMMA CaptureKept ==
  ASSUME StateOK, StateOK', CaptureOK, plan' = plan, Ids \subseteq Ids', now <= now',
         \A i \in Ids : minted'[i] = minted[i],
         \A i \in Ids' \ Ids : ~IsCapture(minted'[i]),
         \A n \in plan.spenders : \A r \in Ids :
            r \in resv'[n] \ released'[n] => r \in resv[n] \ released[n],
         \A n \in Nodes : task'[n].pc = "settle" =>
            task'[n] = task[n] \/ (n \in plan.spenders /\ Open(n, task'[n].ref))
  PROVE  CaptureOK'
<1>1. plan.spenders \subseteq Nodes
  BY PlanFacts
<1>2. \A i \in Ids : minted[i].ref \in Ids \cup {NoRef}
  BY DEF StateOK
<1>3. \A i \in Ids' : IsCapture(minted'[i]) =>
        i \in Ids /\ minted'[i] = minted[i] /\ IsCapture(minted[i]) /\ minted[i].ref \in Ids
  BY <1>2 DEF IsCapture
<1>4. ASSUME NEW n \in plan.spenders, NEW r \in Ids, Open(n, r)' PROVE Open(n, r)
  BY <1>1, <1>4, OpenKept
<1>5. ASSUME NEW i \in Ids', IsCapture(minted'[i]), NEW n \in plan.spenders
      PROVE  ~Open(n, minted[i].ref)'
  <2>1. PICK r : r = minted[i].ref
    OBVIOUS
  <2>2. ~Open(n, r)'
    BY <1>3, <1>4, <1>5, <2>1 DEF CaptureOK
  <2>3. minted'[i].ref = r
    BY <1>3, <1>5, <2>1
  <2> QED BY <2>2, <2>3 DEF Open
<1>6. \A i, j \in Ids' :
        IsCapture(minted'[i]) /\ IsCapture(minted'[j]) /\ minted'[i].ref = minted'[j].ref => i = j
  BY <1>3 DEF CaptureOK
<1>7. \A n \in Nodes : task'[n].pc = "settle" =>
        \A i \in Ids' : IsCapture(minted'[i]) => minted'[i].ref # task'[n].ref
  BY <1>3 DEF CaptureOK
<1> QED BY <1>5, <1>6, <1>7 DEF CaptureOK

\* A settle captures what nothing has captured, and closes it.
LEMMA CaptureSettles ==
  ASSUME OneSpender, StateOK, StateOK', RequestsOK, OriginInv, CaptureOK, plan' = plan,
         NEW n \in Nodes, MintSettle(n)
  PROVE  CaptureOK'
<1>1. PICK r : r = task[n].ref
  OBVIOUS
<1>2. /\ task[n].pc = "settle" /\ r \in Ids /\ Settled(n)
      /\ minted'[NewId].ref = r /\ ~IsCapture(minted'[NewId + 1])
      /\ released' = [released EXCEPT ![n] = @ \cup {r}] /\ UNCHANGED resv
  BY <1>1, SettleMinted DEF EventIs, IsCapture
<1>3. /\ Ids' = Ids \cup {NewId, NewId + 1} /\ now' = now /\ NewId \notin Ids
      /\ \A m \in Nodes \ {n} : task'[m] = task[m]
      /\ task'[n].pc = "flush"
  BY <1>2 DEF Settled
<1>4. \A i \in Ids : minted'[i] = minted[i]
  BY <1>2 DEF Settled
<1>5. plan \in Plans /\ plan.spenders \subseteq Nodes /\ now \in Nat
      /\ released'[n] = released[n] \cup {r} /\ resv' = resv
  BY <1>2, PlanFacts DEF StateOK
<1>6. \A m \in Nodes : task[m].pc = "settle" => m \in plan.spenders
  BY DEF OriginInv, Asks
<1>7. \A m \in plan.spenders : m = n
  BY <1>2, <1>5, <1>6 DEF OneSpender
<1>8. \A i \in Ids : IsCapture(minted[i]) => minted[i].ref # r /\ minted[i].ref \in Ids
  BY <1>1, <1>2 DEF CaptureOK, StateOK, IsCapture
<1>9. \A i \in Ids' : IsCapture(minted'[i]) =>
        \/ i = NewId /\ minted'[i].ref = r
        \/ i \in Ids /\ minted'[i] = minted[i] /\ IsCapture(minted[i])
  BY <1>2, <1>3, <1>4
<1>10. ASSUME NEW q \in Ids, Open(n, q)' PROVE Open(n, q) /\ q # r
  <2>1. q \notin released'[n] /\ q \in resv'[n]
    BY <1>10 DEF Open
  <2>2. q # r /\ q \in resv[n] \ released[n]
    BY <1>5, <2>1
  <2>3. now <= now'
    BY <1>3, <1>5
  <2>4. minted'[q] = minted[q]
    BY <1>4
  <2> QED BY <1>10, <2>2, <2>3, <2>4, OpenKept
<1>11. ASSUME NEW i \in Ids', IsCapture(minted'[i]), NEW m \in plan.spenders
       PROVE  ~Open(m, minted[i].ref)'
  <2>1. PICK q : q = minted'[i].ref
    OBVIOUS
  <2>2. q \in Ids /\ (q = r \/ ~Open(n, q))
    BY <1>2, <1>7, <1>8, <1>9, <1>11, <2>1 DEF CaptureOK
  <2>3. ~Open(n, q)'
    BY <1>10, <2>2
  <2> QED BY <1>7, <2>1, <2>3 DEF Open
<1>12. \A i, j \in Ids' :
         IsCapture(minted'[i]) /\ IsCapture(minted'[j]) /\ minted'[i].ref = minted'[j].ref => i = j
  BY <1>8, <1>9 DEF CaptureOK
<1>13. \A m \in Nodes : task'[m].pc # "settle"
  BY <1>3, <1>5, <1>6, <1>7
<1> QED BY <1>11, <1>12, <1>13 DEF CaptureOK

\* Captures stay single while nobody has crashed.
LEMMA CaptureNext ==
  ASSUME OneSpender, StateOK, StateOK', RequestsOK, OriginInv, CaptureInv, [Next]_vars
  PROVE  CaptureInv'
<1>1. /\ plan' = plan /\ crashes \in Nat /\ crashes' \in Nat /\ now \in Nat
      /\ plan.spenders \subseteq Nodes
      /\ task \in [Nodes -> TaskSet] /\ resv \in [Nodes -> SUBSET Ids]
      /\ released \in [Nodes -> SUBSET Ids]
  BY NextCases, PlanFacts DEF StateOK
<1>2. \A n \in Nodes : Crash(n) => crashes' # 0
  BY <1>1 DEF Crash
<1> SUFFICES ASSUME crashes' = 0 PROVE CaptureOK'
  BY DEF CaptureInv
<1>3. ASSUME UNCHANGED crashes PROVE CaptureOK
  BY <1>3 DEF CaptureInv
<1>4. ASSUME NEW n \in Nodes, Starts(n) PROVE CaptureOK'
  <2>1. PICK t : Begun(n, t) /\ Start(n, t)
    BY <1>4, StartsBegun
  <2>2. t \in TaskSet /\ (t.pc = "settle" => n \in plan.spenders /\ Open(n, t.ref))
    BY <2>1 DEF Begun
  <2>3. /\ task'[n] = t /\ \A k \in Nodes \ {n} : task'[k] = task[k]
        /\ UNCHANGED <<now, minted, have, queue, db, balance, resv, released, crashes, faults>>
    BY <2>1, <2>2, StartFacts
  <2>4. \A m \in Nodes : task'[m].pc = "settle" =>
          task'[m] = task[m] \/ (m \in plan.spenders /\ Open(m, task'[m].ref))
    BY <2>2, <2>3
  <2>5. Ids' = Ids /\ now <= now'
    BY <1>1, <2>3 DEF Ids
  <2> QED BY <1>1, <1>3, <2>3, <2>4, <2>5, CaptureKept
<1>5. ASSUME NEW n \in Nodes, NEW l, Created(n, l), l # "settle", ~IsCapture(minted'[NewId]),
             \A m \in plan.spenders : \A r \in Ids :
               r \in resv'[m] \ released'[m] => r \in resv[m] \ released[m]
      PROVE  CaptureOK'
  <2>1. /\ Ids' = Ids \cup {NewId} /\ now' = now /\ crashes' = crashes
        /\ \A m \in Nodes \ {n} : task'[m] = task[m]
        /\ task'[n].pc = l
    BY <1>5 DEF Created
  <2>2. \A i \in Ids : minted'[i] = minted[i]
    BY <1>5 DEF Created
  <2>3. \A m \in Nodes : task'[m].pc = "settle" => task'[m] = task[m]
    BY <1>5, <2>1
  <2>4. CaptureOK /\ now <= now'
    BY <1>1, <1>3, <2>1
  <2> QED BY <1>1, <1>5, <2>1, <2>2, <2>3, <2>4, CaptureKept
<1>6. ASSUME NEW n \in Nodes, MintHold(n) \/ MintReserve(n) PROVE CaptureOK'
  <2>1. /\ Created(n, "charge") \/ Created(n, "flush")
        /\ minted'[NewId].type = "reservation"
        /\ resv' = [resv EXCEPT ![n] = @ \cup {NewId}] /\ UNCHANGED <<balance, released>>
    BY <1>6, HoldMinted DEF EventIs
  <2>2. NewId \notin Ids /\ ~IsCapture(minted'[NewId])
    BY <2>1 DEF Created, IsCapture
  <2>3. \A m \in plan.spenders : \A r \in Ids :
          r \in resv'[m] \ released'[m] => r \in resv[m] \ released[m]
    BY <1>1, <2>1, <2>2
  <2> QED BY <1>5, <2>1, <2>2, <2>3
<1>7. ASSUME NEW n \in Nodes, MintCharge(n) \/ MintCredit(n) PROVE CaptureOK'
  <2>1. /\ Created(n, "credit") \/ Created(n, "flush")
        /\ UNCHANGED <<resv, released>> /\ minted'[NewId].ref = NoRef
    <3>1. CASE MintCharge(n)
      BY <3>1, ChargeMinted DEF EventIs
    <3>2. CASE MintCredit(n)
      BY <3>2, CreditMinted DEF EventIs
    <3> QED BY <1>7, <3>1, <3>2
  <2>2. ~IsCapture(minted'[NewId])
    BY <2>1 DEF IsCapture
  <2> QED BY <1>5, <2>1, <2>2
<1>8. ASSUME NEW n \in Nodes, MintRelease(n) PROVE CaptureOK'
  <2>1. /\ Created(n, "flush") /\ minted'[NewId].type = "release"
        /\ released' = [released EXCEPT ![n] = @ \cup {task[n].ref}] /\ UNCHANGED <<balance, resv>>
    BY <1>8, ReleaseMinted DEF EventIs
  <2>2. ~IsCapture(minted'[NewId])
    BY <2>1 DEF IsCapture
  <2>3. \A m \in plan.spenders : \A r \in Ids :
          r \in resv'[m] \ released'[m] => r \in resv[m] \ released[m]
    BY <1>1, <2>1
  <2> QED BY <1>5, <2>1, <2>2, <2>3
<1>9. ASSUME NEW n \in Nodes, MintSettle(n) PROVE CaptureOK'
  <2>1. UNCHANGED crashes
    BY <1>9 DEF MintSettle
  <2> QED BY <1>1, <1>3, <1>9, <2>1, CaptureSettles
<1>10. ASSUME UNCHANGED <<minted, crashes>>, now <= now',
              \A m \in plan.spenders : \A r \in Ids :
                r \in resv'[m] \ released'[m] => r \in resv[m] \ released[m],
              \A m \in Nodes : task'[m].pc = "settle" => task'[m] = task[m]
       PROVE  CaptureOK'
  <2>1. Ids' = Ids
    BY <1>10 DEF Ids
  <2> QED BY <1>1, <1>3, <1>10, <2>1, CaptureKept
<1>11. ASSUME NEW n \in Nodes, Flush(n) \/ AllocFails(n) PROVE CaptureOK'
  <2>1. /\ task' = [task EXCEPT ![n] = Idle]
        /\ UNCHANGED <<now, minted, balance, resv, released, crashes>>
    BY <1>11 DEF Flush, AllocFails
  <2>2. \A m \in Nodes : task'[m].pc = "settle" => task'[m] = task[m]
    BY <1>1, <2>1, IdleFacts
  <2>3. now <= now'
    BY <1>1, <2>1
  <2> QED BY <1>10, <2>1, <2>2, <2>3
<1>12. ASSUME NEW n \in Nodes, NEW i \in Ids, Receive(n, i) PROVE CaptureOK'
  <2>1. /\ minted[i].hold = 0 => resv'[n] = resv[n]
        /\ minted[i].type # "release" => released'[n] = released[n]
        /\ \A k \in Nodes \ {n} : resv'[k] = resv[k] /\ released'[k] = released[k]
        /\ UNCHANGED <<now, minted, task, crashes>>
    BY <1>12, ReceiveFacts
  <2>2. ASSUME n \in plan.spenders PROVE resv'[n] = resv[n] /\ released'[n] = released[n]
    <3>1. minted[i].hold = 0 /\ minted[i].type = "standard"
      BY <1>1, <1>12, <2>1, <2>2, ReceivedIsHarmless
    <3> QED BY <2>1, <3>1
  <2>3. \A m \in plan.spenders : \A r \in Ids :
          r \in resv'[m] \ released'[m] => r \in resv[m] \ released[m]
    BY <1>1, <2>1, <2>2
  <2>4. now <= now'
    BY <1>1, <2>1
  <2> QED BY <1>10, <2>1, <2>3, <2>4
<1>13. ASSUME NEW n \in Nodes, Sweep(n) PROVE CaptureOK'
  <2> DEFINE expired == {i \in resv[n] : minted[i].expires <= now /\ ~Locked(n, minted[i].account)}
  <2>1. /\ resv' = [resv EXCEPT ![n] = @ \ expired]
        /\ released' = [released EXCEPT ![n] = @ \ expired]
        /\ UNCHANGED <<now, minted, balance, task, crashes>>
    BY <1>13 DEF Sweep
  <2> HIDE DEF expired
  <2>2. \A m \in plan.spenders : \A r \in Ids :
          r \in resv'[m] \ released'[m] => r \in resv[m] \ released[m]
    BY <1>1, <2>1
  <2>3. now <= now'
    BY <1>1, <2>1
  <2> QED BY <1>10, <2>1, <2>2, <2>3
<1>14. ASSUME NEW n \in Nodes, Persist(n) PROVE CaptureOK'
  <2>1. UNCHANGED <<now, minted, task, crashes, resv, released>> /\ now <= now'
    BY <1>1, <1>14 DEF Persist
  <2> QED BY <1>10, <2>1
<1>15. CASE Tick \/ UNCHANGED vars
  <2>1. UNCHANGED <<minted, task, crashes, resv, released>> /\ now <= now'
    BY <1>1, <1>15, PlanFacts DEF Tick, vars, accountVars
  <2> QED BY <1>10, <2>1
<1>16. ASSUME NEW n \in Nodes, Step(n) PROVE CaptureOK'
  BY <1>6, <1>7, <1>8, <1>9, <1>11, <1>16 DEF Step
<1> QED BY <1>2, <1>4, <1>11, <1>12, <1>13, <1>14, <1>15, <1>16, NextCases

\* At first nothing is captured.
LEMMA CaptureInit == Init => CaptureInv
<1> SUFFICES ASSUME Init PROVE CaptureOK
  BY DEF CaptureInv
<1> DEFINE e == Event("standard", CHOOSE k \in Nodes : TRUE, FirstAccount, Seed, 0, 0, NoRef,
                      NoAccount)
<1>1. e \in EventSet /\ ~IsCapture(e)
  BY AccountsAssumption, AmountsAssumption DEF Event, EventSet, NoRef, IsCapture
<1>2. minted = <<e>>
  BY DEF Init
<1> HIDE DEF e
<1>3. Ids = {1} /\ minted[1] = e
  BY <1>1, <1>2 DEF Ids
<1>4. \A n \in Nodes : task[n].pc = "idle"
  BY IdleFacts DEF Init
<1> QED BY <1>1, <1>3, <1>4 DEF CaptureOK

\* When one node serves all debits and no node crashes, a reservation is
\* captured at most once, however settles, releases, expiries and sweeps
\* interleave (emit_settle_locked: the release that a settle creates is applied
\* under the same lock as its charge).
THEOREM CapturesAreSingle == ASSUME OneSpender PROVE Spec => []CapturedOnce
<1> DEFINE Inv == StateOK /\ RequestsOK /\ OriginInv /\ CaptureInv
<1>1. Init => Inv
  BY StateInit, OriginInit, CaptureInit
<1>2. Inv /\ [Next]_vars => Inv'
  BY StateNext, OriginNext, CaptureNext
<1>3. Inv => CapturedOnce
  <2> SUFFICES ASSUME Inv, crashes = 0, NEW i \in AllEvents, NEW j \in AllEvents,
                      minted[i].type = "standard", minted[j].type = "standard",
                      minted[i].ref # NoRef, minted[i].ref = minted[j].ref
               PROVE  i = j
    BY DEF CapturedOnce
  <2>1. i \in Ids /\ j \in Ids
    BY DEF AllEvents, StateOK
  <2> QED BY <2>1 DEF CaptureInv, CaptureOK, IsCapture
<1>4. Spec => []Inv
  BY <1>1, <1>2, PTL DEF Spec
<1> QED BY <1>3, <1>4, PTL

-----------------------------------------------------------------------------
(* Transfers.                                                              *)

\* Every transfer is asked for as a debit of the account it names first.
TransfersDebit == \A p \in Plans : \A x \in p.transfers : x[3] = -1

\* The credit side e of the debit side d.
Answers(e, d) == e.account = d.to /\ e.amount = 0 - d.amount

\* What the log of a node transfers is answered somewhere.
LogAnswered(n) ==
  \A i \in have[n] : minted[i].to # NoAccount => \E j \in AllEvents : Answers(minted[j], minted[i])

\* What the request under way transfers is answered, or about to be.
RequestAnswers(n) ==
  LET t == task[n]
  IN /\ \A i \in Range(t.out) : minted[i].to # NoAccount =>
          \/ t.pc = "credit" /\ minted[i].to = t.to /\ minted[i].amount = t.amount
          \/ t.pc = "flush" /\ \E j \in Range(t.out) : Answers(minted[j], minted[i])
     /\ t.to # NoAccount => t.amount < 0
TransferInv == crashes = 0 => \A n \in Nodes : LogAnswered(n) /\ RequestAnswers(n)

\* Logs that are what they were, in a cluster that has forgotten nothing.
LEMMA LogsAnswered ==
  ASSUME StateOK, NEW n \in Nodes, LogAnswered(n), have' = have,
         \A i \in Ids : minted'[i] = minted[i]
  PROVE  LogAnswered(n)'
<1>1. \A m \in Nodes : have[m] \subseteq Ids
  BY DEF StateOK
<1>2. AllEvents \subseteq Ids /\ AllEvents' = AllEvents
  BY <1>1 DEF AllEvents
<1> QED BY <1>1, <1>2 DEF LogAnswered

\* A request whose node does nothing.
LEMMA RequestAnswersStill ==
  ASSUME RequestsOK, NEW n \in Nodes, RequestAnswers(n), task'[n] = task[n],
         \A i \in Ids : minted'[i] = minted[i]
  PROVE  RequestAnswers(n)'
<1>1. Range(task[n].out) \subseteq Ids
  BY DEF RequestsOK, RequestOK
<1> QED BY <1>1 DEF RequestAnswers

\* A request that transfers nothing any more, or not yet.
LEMMA RequestSilent ==
  ASSUME NEW n \in Nodes, task'[n].to # NoAccount => task'[n].amount < 0,
         \A i \in Range(task'[n].out) : minted'[i].to = NoAccount
  PROVE  RequestAnswers(n)'
BY DEF RequestAnswers

\* The request creates an event, and what it transfers is answered in time.
LEMMA RequestCreates ==
  ASSUME StateOK, RequestsOK, NEW n \in Nodes, RequestAnswers(n),
         MintHold(n) \/ MintReserve(n) \/ MintRelease(n) \/ MintCharge(n) \/ MintCredit(n)
  PROVE  RequestAnswers(n)' /\ \E l : Created(n, l)
<1> DEFINE t == task[n]
           u == task'[n]
           e == minted'[NewId]
<1>1. Range(t.out) \subseteq Ids /\ t.amount \in Int
  BY RequestFacts DEF RequestsOK, RequestOK
<1>2. Range(<<>>) = {}
  BY DEF Range
<1>3. t.to # NoAccount => t.amount < 0
  BY DEF RequestAnswers
<1>4. ASSUME NEW l, Created(n, l)
      PROVE  /\ Range(u.out) = Range(t.out) \cup {NewId} /\ u.pc = l
             /\ u.to = t.to /\ u.amount = t.amount /\ u.account = t.account
             /\ \A i \in Range(t.out) : minted'[i] = minted[i]
  BY <1>1, <1>4 DEF Created, SameRequest
<1>5. CASE MintHold(n) \/ MintReserve(n) \/ MintRelease(n)
  <2>1. PICK l : Created(n, l) /\ e.to = NoAccount /\ t.pc \in {"hold", "reserve", "release"}
    BY <1>5, HoldMinted, ReleaseMinted DEF EventIs
  <2>2. Range(t.out) = {}
    BY <1>2, <2>1 DEF RequestsOK, RequestOK
  <2>3. \A i \in Range(u.out) : minted'[i].to = NoAccount
    BY <1>4, <2>1, <2>2
  <2>4. u.to # NoAccount => u.amount < 0
    BY <1>3, <1>4, <2>1
  <2> QED BY <2>1, <2>3, <2>4, RequestSilent
<1>6. CASE MintCharge(n)
  <2>1. /\ t.pc = "charge" /\ e.to = t.to /\ e.amount = t.amount
        /\ IF t.to = NoAccount THEN Created(n, "flush") ELSE Created(n, "credit")
    BY <1>6, ChargeMinted DEF EventIs
  <2>2. \A i \in Range(t.out) : minted[i].to = NoAccount
    BY <2>1 DEF RequestAnswers
  <2>3. CASE t.to = NoAccount
    <3>1. Created(n, "flush")
      BY <2>1, <2>3
    <3>2. \A i \in Range(u.out) : minted'[i].to = NoAccount
      BY <1>4, <2>1, <2>2, <2>3, <3>1
    <3>3. u.to # NoAccount => u.amount < 0
      BY <1>3, <1>4, <3>1
    <3> QED BY <3>1, <3>2, <3>3, RequestSilent
  <2>4. CASE t.to # NoAccount
    <3>1. Created(n, "credit")
      BY <2>1, <2>4
    <3>2. u.pc = "credit" /\ u.to = t.to /\ u.amount = t.amount
      BY <1>4, <3>1
    <3>3. \A i \in Range(u.out) : minted'[i].to # NoAccount =>
            minted'[i].to = u.to /\ minted'[i].amount = u.amount
      BY <1>4, <2>1, <2>2, <3>1
    <3> QED BY <1>3, <3>1, <3>2, <3>3 DEF RequestAnswers
  <2> QED BY <2>3, <2>4
<1>7. CASE MintCredit(n)
  <2>1. /\ t.pc = "credit" /\ Created(n, "flush")
        /\ e.account = t.to /\ e.amount = Magnitude(t.amount) /\ e.to = NoAccount
    BY <1>7, CreditMinted DEF EventIs
  <2>2. /\ Range(u.out) = Range(t.out) \cup {NewId} /\ u.pc = "flush"
        /\ u.to = t.to /\ u.amount = t.amount
        /\ \A i \in Range(t.out) : minted'[i] = minted[i]
    BY <1>4, <2>1
  <2>3. \A i \in Range(t.out) : minted[i].to # NoAccount =>
          minted[i].to = t.to /\ minted[i].amount = t.amount
    BY <2>1 DEF RequestAnswers
  <2>4. t.to # NoAccount => e.amount = 0 - t.amount
    BY <1>1, <1>3, <2>1 DEF Magnitude
  <2>5. \A i \in Range(u.out) : minted'[i].to # NoAccount => Answers(minted'[NewId], minted'[i])
    BY <2>1, <2>2, <2>3, <2>4 DEF Answers
  <2>6. NewId \in Range(u.out)
    BY <2>2
  <2>7. \A i \in Range(u.out) : minted'[i].to # NoAccount =>
          \E j \in Range(u.out) : Answers(minted'[j], minted'[i])
    BY <2>5, <2>6
  <2> QED BY <1>3, <2>1, <2>2, <2>7 DEF RequestAnswers
<1> QED BY <1>5, <1>6, <1>7

\* Transfers stay answered while nobody has crashed.
LEMMA TransferNext ==
  ASSUME TransfersDebit, StateOK, RequestsOK, TransferInv, [Next]_vars
  PROVE  TransferInv'
<1>1. /\ plan' = plan /\ plan \in Plans /\ crashes \in Nat
      /\ task \in [Nodes -> TaskSet] /\ have \in [Nodes -> SUBSET Ids]
  BY NextCases DEF StateOK
<1>2. Range(<<>>) = {}
  BY DEF Range
<1>3. \A n \in Nodes : Crash(n) => crashes' # 0
  BY <1>1 DEF Crash
<1> SUFFICES ASSUME crashes' = 0, NEW m \in Nodes PROVE LogAnswered(m)' /\ RequestAnswers(m)'
  BY DEF TransferInv
<1>4. ASSUME UNCHANGED crashes PROVE \A n \in Nodes : LogAnswered(n) /\ RequestAnswers(n)
  BY <1>4 DEF TransferInv
<1>5. ASSUME NEW n \in Nodes, UNCHANGED <<have, crashes>>, \A i \in Ids : minted'[i] = minted[i],
             \A k \in Nodes \ {n} : task'[k] = task[k], RequestAnswers(n)'
      PROVE  LogAnswered(m)' /\ RequestAnswers(m)'
  <2>1. LogAnswered(m) /\ RequestAnswers(m)
    BY <1>4, <1>5
  <2>2. LogAnswered(m)'
    BY <1>5, <2>1, LogsAnswered
  <2>3. m # n => RequestAnswers(m)'
    BY <1>5, <2>1, RequestAnswersStill
  <2> QED BY <1>5, <2>2, <2>3
<1>6. ASSUME NEW n \in Nodes, Starts(n) PROVE LogAnswered(m)' /\ RequestAnswers(m)'
  <2>1. PICK t : Begun(n, t) /\ Start(n, t)
    BY <1>6, StartsBegun
  <2>2. t \in TaskSet /\ t.out = <<>> /\ (t.to # NoAccount => t.amount < 0)
    BY <1>1, <2>1 DEF Begun, TransfersDebit
  <2>3. /\ task'[n] = t /\ \A k \in Nodes \ {n} : task'[k] = task[k]
        /\ UNCHANGED <<now, minted, have, queue, db, balance, resv, released, crashes, faults>>
    BY <2>1, <2>2, StartFacts
  <2>4. \A i \in Range(task'[n].out) : minted'[i].to = NoAccount
    BY <1>2, <2>2, <2>3
  <2>5. RequestAnswers(n)'
    BY <2>2, <2>3, <2>4, RequestSilent
  <2> QED BY <1>5, <2>3, <2>5
<1>7. ASSUME NEW n \in Nodes,
             MintHold(n) \/ MintReserve(n) \/ MintRelease(n) \/ MintCharge(n) \/ MintCredit(n)
      PROVE  LogAnswered(m)' /\ RequestAnswers(m)'
  <2>1. UNCHANGED crashes
    BY <1>7 DEF MintHold, MintReserve, MintRelease, MintCharge, MintCredit, Mint
  <2>2. RequestAnswers(n)
    BY <1>4, <2>1
  <2>3. RequestAnswers(n)' /\ \E l : Created(n, l)
    BY <1>7, <2>2, RequestCreates
  <2>4. UNCHANGED have /\ \A k \in Nodes \ {n} : task'[k] = task[k]
    BY <2>3 DEF Created
  <2>5. \A i \in Ids : minted'[i] = minted[i]
    BY <2>3 DEF Created
  <2> QED BY <1>5, <2>1, <2>3, <2>4, <2>5
<1>8. ASSUME NEW n \in Nodes, MintSettle(n) PROVE LogAnswered(m)' /\ RequestAnswers(m)'
  <2>1. /\ Settled(n) /\ minted'[NewId].to = NoAccount /\ minted'[NewId + 1].to = NoAccount
    BY <1>8, SettleMinted DEF EventIs
  <2>2. /\ UNCHANGED <<have, crashes>> /\ \A k \in Nodes \ {n} : task'[k] = task[k]
        /\ Range(task'[n].out) = {NewId, NewId + 1}
        /\ task'[n].to = task[n].to /\ task'[n].amount = task[n].amount
    BY <2>1 DEF Settled, SameRequest
  <2>3. \A i \in Ids : minted'[i] = minted[i]
    BY <2>1 DEF Settled
  <2>4. task'[n].to # NoAccount => task'[n].amount < 0
    BY <1>4, <2>2 DEF RequestAnswers
  <2>5. \A i \in Range(task'[n].out) : minted'[i].to = NoAccount
    BY <2>1, <2>2
  <2>6. RequestAnswers(n)'
    BY <2>4, <2>5, RequestSilent
  <2> QED BY <1>5, <2>2, <2>3, <2>6
<1>9. ASSUME NEW n \in Nodes, task' = [task EXCEPT ![n] = Idle] PROVE RequestAnswers(n)'
  <2>1. task'[n] = Idle
    BY <1>1, <1>9
  <2>2. task'[n].to = NoAccount /\ Range(task'[n].out) = {}
    BY <1>2, <2>1, IdleFacts
  <2> QED BY <2>2, RequestSilent
<1>10. ASSUME NEW n \in Nodes, Flush(n) PROVE LogAnswered(m)' /\ RequestAnswers(m)'
  <2>1. /\ task[n].pc = "flush" /\ have' = [have EXCEPT ![n] = @ \cup Range(task[n].out)]
        /\ task' = [task EXCEPT ![n] = Idle] /\ UNCHANGED <<minted, crashes>>
    BY <1>10 DEF Flush
  <2>2. have'[n] = have[n] \cup Range(task[n].out) /\ \A k \in Nodes \ {n} : have'[k] = have[k]
    BY <1>1, <2>1
  <2>3. AllEvents \subseteq AllEvents' /\ Range(task[n].out) \subseteq AllEvents'
    BY <2>2 DEF AllEvents
  <2>4. LogAnswered(m) /\ RequestAnswers(m) /\ RequestAnswers(n)
    BY <1>4, <2>1
  <2>5. \A i \in Range(task[n].out) : minted[i].to # NoAccount =>
          \E j \in Range(task[n].out) : Answers(minted[j], minted[i])
    BY <2>1, <2>4 DEF RequestAnswers
  <2>6. \A i \in have'[m] : minted[i].to # NoAccount =>
          \E j \in AllEvents' : Answers(minted[j], minted[i])
    <3> TAKE i \in have'[m]
    <3>1. CASE i \in have[m]
      BY <2>3, <2>4, <3>1 DEF LogAnswered
    <3>2. CASE i \in Range(task[n].out)
      BY <2>3, <2>5, <3>2
    <3> QED BY <2>2, <3>1, <3>2
  <2>7. LogAnswered(m)'
    BY <2>1, <2>6 DEF LogAnswered
  <2>8. RequestAnswers(m)'
    <3>1. CASE m = n
      BY <1>9, <2>1, <3>1
    <3>2. CASE m # n
      BY <1>1, <2>1, <2>4, <3>2, RequestAnswersStill
    <3> QED BY <3>1, <3>2
  <2> QED BY <2>7, <2>8
<1>11. ASSUME NEW n \in Nodes, AllocFails(n) PROVE LogAnswered(m)' /\ RequestAnswers(m)'
  <2>1. task' = [task EXCEPT ![n] = Idle] /\ UNCHANGED <<minted, have, crashes>>
    BY <1>11 DEF AllocFails
  <2>2. \A k \in Nodes \ {n} : task'[k] = task[k]
    BY <1>1, <2>1
  <2> QED BY <1>5, <1>9, <2>1, <2>2
<1>12. ASSUME NEW n \in Nodes, NEW e \in Ids, Receive(n, e)
       PROVE  LogAnswered(m)' /\ RequestAnswers(m)'
  <2>1. /\ have' = [have EXCEPT ![n] = @ \cup {e}] /\ UNCHANGED <<minted, task, crashes>>
    BY <1>12 DEF Receive
  <2>2. PICK k \in Nodes : e \in have[k]
    BY <1>12 DEF Receive
  <2>3. have'[n] = have[n] \cup {e} /\ \A l \in Nodes \ {n} : have'[l] = have[l]
    BY <1>1, <2>1
  <2>4. AllEvents' = AllEvents
    BY <2>2, <2>3 DEF AllEvents
  <2>5. LogAnswered(m) /\ LogAnswered(k) /\ RequestAnswers(m)
    BY <1>4, <2>1
  <2>6. \A i \in have'[m] : minted[i].to # NoAccount =>
          \E j \in AllEvents : Answers(minted[j], minted[i])
    BY <2>2, <2>3, <2>5 DEF LogAnswered
  <2>7. LogAnswered(m)'
    BY <2>1, <2>4, <2>6 DEF LogAnswered
  <2> QED BY <2>1, <2>5, <2>7, RequestAnswersStill
<1>13. ASSUME UNCHANGED <<minted, have, task, crashes>>
       PROVE  LogAnswered(m)' /\ RequestAnswers(m)'
  <2>1. LogAnswered(m) /\ RequestAnswers(m)
    BY <1>4, <1>13
  <2> QED BY <1>13, <2>1, LogsAnswered, RequestAnswersStill
<1>14. ASSUME NEW n \in Nodes, Sweep(n) \/ Persist(n) PROVE LogAnswered(m)' /\ RequestAnswers(m)'
  BY <1>13, <1>14 DEF Sweep, Persist
<1>15. CASE Tick \/ UNCHANGED vars
  BY <1>13, <1>15 DEF Tick, vars, accountVars
<1>16. ASSUME NEW n \in Nodes, Step(n) PROVE LogAnswered(m)' /\ RequestAnswers(m)'
  BY <1>7, <1>8, <1>10, <1>16 DEF Step
<1> QED BY <1>3, <1>6, <1>11, <1>12, <1>14, <1>15, <1>16, NextCases

\* At first there is no transfer.
LEMMA TransferInit == Init => TransferInv
<1> SUFFICES ASSUME Init, NEW n \in Nodes PROVE LogAnswered(n) /\ RequestAnswers(n)
  BY DEF TransferInv
<1> DEFINE e == Event("standard", CHOOSE k \in Nodes : TRUE, FirstAccount, Seed, 0, 0, NoRef,
                      NoAccount)
<1>1. e \in EventSet /\ e.to = NoAccount
  BY AccountsAssumption, AmountsAssumption DEF Event, EventSet, NoRef
<1>2. minted = <<e>>
  BY DEF Init
<1> HIDE DEF e
<1>3. minted[1].to = NoAccount
  BY <1>1, <1>2
<1>4. task[n] = Idle /\ have[n] = {1}
  BY DEF Init
<1>5. Range(<<>>) = {}
  BY DEF Range
<1> QED BY <1>3, <1>4, <1>5, IdleFacts DEF LogAnswered, RequestAnswers

\* As long as no node crashes, every transfer that is asked for as a debit takes
\* from one account what it gives to the other, on every node that has all
\* events: both sides are created by the same request and reach the log
\* together, whatever fails, arrives or expires in between (the credit leg of
\* create_local_events and flush_local_events).
THEOREM TransfersConserve == ASSUME TransfersDebit PROVE Spec => []TransferConserves
<1> DEFINE Inv == StateOK /\ RequestsOK /\ TransferInv
<1>1. Init => Inv
  BY StateInit, TransferInit
<1>2. Inv /\ [Next]_vars => Inv'
  BY StateNext, TransferNext
<1>3. Inv => TransferConserves
  BY DEF TransferInv, LogAnswered, Answers, TransferConserves
<1>4. Spec => []Inv
  BY <1>1, <1>2, PTL DEF Spec
<1> QED BY <1>3, <1>4, PTL

=============================================================================
