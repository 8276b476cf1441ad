------------------------------ MODULE Accounts ------------------------------
(***************************************************************************)
(* The accounts of one bucket on the nodes of a cluster: credits, debits   *)
(* with their holds, transfers, and the reserve / settle / release pattern *)
(* (create_local_events and the emit_*_locked functions of                 *)
(* apps/node/src/state.rs), the events of peers, the sweep of expired      *)
(* holds and the rebuild after a crash.                                    *)
(*                                                                         *)
(* A node serves its clients one request at a time (the RPC task of        *)
(* server.rs) and holds the account's lock for the whole request; events   *)
(* of peers, the sweep, the batch writer and the clock move on meanwhile.  *)
(* Requests carry distinct nonces: duplicates are Idempotency's matter.    *)
(* Balances are unbounded integers here, i64 in the code.                  *)
(***************************************************************************)
EXTENDS Integers, Sequences, FiniteSets, FiniteSetsExt, SequencesExt

CONSTANTS
  Nodes, Accounts, NoAccount,
  Seed,          \* what the first account holds at first, on every node
  FirstAccount,
  Overdraft,     \* max_overdraft of every request
  Multiplier,    \* hold_multiplier
  HoldDuration,  \* hold_duration_ms
  Plans          \* the workloads: who asks for what, and the bounds

\* A workload: the nodes and accounts it uses, the nodes that clients send
\* debits and reservations to, the amounts of credits, of debits (settles and
\* transfers too, not negated) and of explicit holds, the transfers clients ask
\* for as <<from, to, sign>>, and as bounds the instants of the clock, the
\* events ever created, the node crashes and the failed allocations.
IsPlan(p) ==
  /\ p.nodes \subseteq Nodes /\ p.spenders \subseteq p.nodes
  /\ p.accounts \subseteq Accounts
  /\ p.transfers \subseteq p.accounts \X p.accounts \X {-1, 1}
  /\ p.credits \subseteq Nat \ {0} /\ p.debits \subseteq Nat \ {0}
  /\ p.holds \subseteq Nat \ {0}
  /\ p.times \subseteq Nat /\ 0 \in p.times
  /\ {p.events, p.crashes, p.faults} \subseteq Nat

ASSUME AccountsAssumption == FirstAccount \in Accounts /\ NoAccount \notin Accounts
ASSUME AmountsAssumption == {Seed, Overdraft, Multiplier, HoldDuration} \subseteq Nat
ASSUME PlansAssumption == \A p \in Plans : IsPlan(p)

VARIABLES
  now,      \* the clock
  minted,   \* history: the events ever created, by id
  have,     \* ids in the node's log
  queue,    \* ids sent to the batch writer, in order
  db,       \* ids in the node's database
  balance,  \* AccountState.balance
  resv,     \* AccountState.reservations of all accounts, as event ids
  released, \* AccountState.released of all accounts, as event ids
  task,     \* the request the RPC task is serving
  crashes, faults,
  plan      \* the workload

accountVars == <<now, minted, have, queue, db, balance, resv, released, task, crashes, faults>>
vars == <<accountVars, plan>>

\* ref is void_ref; on a charge it is history: the reservation it captures.
NoRef == 0
Event(type, n, a, x, h, exp, ref, to) ==
  [type |-> type, origin |-> n, account |-> a, amount |-> x, hold |-> h,
   expires |-> exp, ref |-> ref, to |-> to]

\* A request under way: its event to be, what is left to do, and the events
\* it has created, which reach the log when it ends.
Idle == [pc |-> "idle", account |-> NoAccount, amount |-> 0, hold |-> 0,
         expires |-> 0, ref |-> NoRef, to |-> NoAccount, out |-> <<>>]
Locked(n, a) == task[n].pc # "idle" /\ task[n].account = a
Ids == 1..Len(minted)

TypeOK ==
  /\ plan \in Plans
  /\ now \in plan.times
  /\ Len(minted) <= plan.events + 1
  /\ \A i \in Ids : /\ minted[i].type \in {"standard", "reservation", "release"}
                    /\ minted[i].account \in Accounts
                    /\ minted[i].ref \in 0..(i - 1)
  /\ \A n \in Nodes :
       /\ db[n] \subseteq have[n] /\ have[n] \subseteq Ids
       /\ Range(queue[n]) \subseteq have[n]
       /\ balance[n] \in [Accounts -> Int]
       /\ \A i \in resv[n] : minted[i].type = "reservation" /\ minted[i].hold > 0
       /\ released[n] \subseteq {minted[i].ref : i \in Ids}
       /\ task[n].pc \in {"idle", "hold", "charge", "credit", "flush",
                          "reserve", "settle", "release"}
       /\ Range(task[n].out) \subseteq Ids
  /\ crashes \in 0..plan.crashes /\ faults \in 0..plan.faults

\* One credit is known everywhere.
Init ==
  /\ plan \in Plans
  /\ now = 0
  /\ minted = <<Event("standard", CHOOSE n \in Nodes : TRUE, FirstAccount, Seed, 0, 0, NoRef, NoAccount)>>
  /\ have = [n \in Nodes |-> {1}]
  /\ queue = [n \in Nodes |-> <<>>]
  /\ db = [n \in Nodes |-> {1}]
  /\ balance = [n \in Nodes |-> [a \in Accounts |-> IF a = FirstAccount THEN Seed ELSE 0]]
  /\ resv = [n \in Nodes |-> {}]
  /\ released = [n \in Nodes |-> {}]
  /\ task = [n \in Nodes |-> Idle]
  /\ crashes = 0 /\ faults = 0

-----------------------------------------------------------------------------
(* AccountState.                                                           *)

HoldSum(S) == SumFunctionOnSet([i \in Ids |-> minted[i].hold], S)

\* active_reservations
Active(n, a) ==
  {i \in resv[n] \ released[n] : minted[i].account = a /\ minted[i].expires > now}

AvailableBalance(n, a) == balance[n][a] - HoldSum(Active(n, a))

\* active_hold_total_for_origin: own holds that are not about to expire.
RenewalWindow == (HoldDuration + 9) \div 10
OwnHold(n, a) ==
  HoldSum({i \in Active(n, a) : /\ minted[i].origin = n
                                /\ minted[i].expires - now >= RenewalWindow})

Floor == 0 - Overdraft

\* Faulty variant: the multiple of the debit, whatever is left to hold.
UnshrunkHold(n, a, x) == Max({0, x * Multiplier - OwnHold(n, a)})

\* The implicit hold of a debit of x: the multiple of it, shrunk to what the
\* bare debit leaves, less what this node holds already (saturating).
ImplicitHold(n, a, x) ==
  LET headroom == Max({0, AvailableBalance(n, a) - x - Floor})
  IN Max({0, Min({x * Multiplier, headroom}) - OwnHold(n, a)})

\* Faulty variant: the hold is left out of the guard.
AffordsBare(n, a, x, h) == AvailableBalance(n, a) - x >= Floor

\* The overdraft guard of a debit of x that holds h.
Affords(n, a, x, h) == AvailableBalance(n, a) - x - h >= Floor

-----------------------------------------------------------------------------
(* create_local_events up to the first event: the request is checked at    *)
(* now_ms and takes the lock.  A refused request changes nothing.          *)

\* Events a request has still to create.
Remaining(t) ==
  CASE t.pc \in {"idle", "flush"} -> 0
    [] t.pc \in {"credit", "reserve", "release"} -> 1
    [] t.pc = "settle" -> 2
    [] t.pc = "charge" -> IF t.to = NoAccount THEN 1 ELSE 2
    [] t.pc = "hold" -> IF t.to = NoAccount THEN 2 ELSE 3

\* The bound on events admits whole requests.
Start(n, t) ==
  /\ task[n].pc = "idle"
  /\ Len(minted) + Remaining(t) + MapThenSumSet(LAMBDA m : Remaining(task[m]), Nodes)
       <= plan.events + 1
  /\ task' = [task EXCEPT ![n] = t]
  /\ UNCHANGED <<now, minted, have, queue, db, balance, resv, released, crashes, faults>>

\* A charge first mints the reservation it needs, if any.
ChargeTask(a, x, h, exp, to) ==
  [Idle EXCEPT !.pc = IF h > 0 THEN "hold" ELSE "charge",
     !.account = a, !.amount = x, !.hold = h, !.expires = exp, !.to = to]

StartCredit(n) ==
  \E a \in plan.accounts, x \in plan.credits : Start(n, ChargeTask(a, x, 0, 0, NoAccount))

\* Debits: with the implicit hold, with an explicit one, with skip_hold.
StartDebit(n) ==
  /\ n \in plan.spenders
  /\ \E a \in plan.accounts, x \in plan.debits :
       \/ LET h == ImplicitHold(n, a, x)
          IN /\ Affords(n, a, x, h)
             /\ Start(n, ChargeTask(a, 0 - x, h, IF h > 0 THEN now + HoldDuration ELSE 0,
                                    NoAccount))
       \/ \E h \in plan.holds, exp \in plan.times :
             /\ exp > now /\ Affords(n, a, x, h)
             /\ Start(n, ChargeTask(a, 0 - x, h, exp, NoAccount))
       \/ /\ Affords(n, a, x, 0)
          /\ Start(n, ChargeTask(a, 0 - x, 0, 0, NoAccount))

\* Transfers, as the EVM gateway asks for them (skip_hold); the amount's sign
\* is not checked anywhere.
StartTransfer(n) ==
  /\ n \in plan.spenders
  /\ \E p \in plan.transfers, x \in plan.debits :
       /\ p[3] < 0 => Affords(n, p[1], x, 0)
       /\ Start(n, ChargeTask(p[1], p[3] * x, 0, 0, p[2]))

\* emit_reserve_locked
StartReserve(n) ==
  /\ n \in plan.spenders
  /\ \E a \in plan.accounts, h \in plan.holds, exp \in plan.times :
       /\ exp > now /\ Affords(n, a, 0, h)
       /\ Start(n, [Idle EXCEPT !.pc = "reserve", !.account = a, !.hold = h, !.expires = exp])

\* A reservation that is tracked, not released and not expired.
Open(n, i) == i \in resv[n] \ released[n] /\ minted[i].expires > now

\* emit_settle_locked: one capture of at most the reserved amount.
StartSettle(n) ==
  /\ n \in plan.spenders
  /\ \E i \in resv[n], x \in plan.debits :
       /\ Open(n, i) /\ x <= minted[i].hold
       /\ Start(n, [Idle EXCEPT !.pc = "settle", !.account = minted[i].account,
                                !.amount = 0 - x, !.ref = i])

\* emit_release_locked
StartRelease(n) ==
  /\ n \in plan.spenders
  /\ \E i \in resv[n] :
       /\ Open(n, i)
       /\ Start(n, [Idle EXCEPT !.pc = "release", !.account = minted[i].account, !.ref = i])

-----------------------------------------------------------------------------
(* The emit_*_locked functions, an event at a time: each allocation is a   *)
(* database call.  Nothing reaches the log before flush_local_events.      *)

NewId == Len(minted) + 1

\* The task of n creates e, and goes on at l.
Mint(n, e, l) ==
  /\ minted' = Append(minted, e)
  /\ task' = [task EXCEPT ![n].pc = l, ![n].out = Append(@, NewId)]
  /\ UNCHANGED <<now, have, queue, db, crashes, faults>>

AddToBalance(n, a, x) == balance' = [balance EXCEPT ![n][a] = @ + x]

\* The reservation of a charge is tracked before the charge is allocated.
MintHold(n) ==
  LET t == task[n]
  IN /\ t.pc = "hold"
     /\ Mint(n, Event("reservation", n, t.account, 0, t.hold, t.expires, NoRef, NoAccount),
             "charge")
     /\ resv' = [resv EXCEPT ![n] = @ \cup {NewId}]
     /\ UNCHANGED <<balance, released>>

MintCharge(n) ==
  LET t == task[n]
  IN /\ t.pc = "charge"
     /\ Mint(n, Event("standard", n, t.account, t.amount, 0, 0, NoRef, t.to),
             IF t.to = NoAccount THEN "flush" ELSE "credit")
     /\ AddToBalance(n, t.account, t.amount)
     /\ UNCHANGED <<resv, released>>

\* Faulty variant: the credit side is given the debit's signed amount.
MintCreditSigned(n) ==
  LET t == task[n]
  IN /\ t.pc = "credit" /\ ~Locked(n, t.to)
     /\ Mint(n, Event("standard", n, t.to, t.amount, 0, 0, NoRef, NoAccount), "flush")
     /\ AddToBalance(n, t.to, t.amount)
     /\ UNCHANGED <<resv, released>>

\* Faulty variant: the debited account is locked a second time.
MintCreditRelocks(n) ==
  LET t == task[n]
  IN /\ t.pc = "credit" /\ ~Locked(n, t.to) /\ ~Locked(n, t.account)
     /\ Mint(n, Event("standard", n, t.to, 0 - t.amount, 0, 0, NoRef, NoAccount), "flush")
     /\ AddToBalance(n, t.to, 0 - t.amount)
     /\ UNCHANGED <<resv, released>>

\* The other side of a transfer, under the lock of the credited account too.
MintCredit(n) ==
  LET t == task[n]
      x == IF t.amount < 0 THEN 0 - t.amount ELSE t.amount
  IN /\ t.pc = "credit" /\ ~Locked(n, t.to)
     /\ Mint(n, Event("standard", n, t.to, x, 0, 0, NoRef, NoAccount), "flush")
     /\ AddToBalance(n, t.to, x)
     /\ UNCHANGED <<resv, released>>

\* flush_local_events: the events reach the log and the batch writer, and the
\* lock is released.
Flush(n) ==
  /\ task[n].pc = "flush"
  /\ have' = [have EXCEPT ![n] = @ \cup Range(task[n].out)]
  /\ queue' = [queue EXCEPT ![n] = @ \o task[n].out]
  /\ task' = [task EXCEPT ![n] = Idle]
  /\ UNCHANGED <<now, minted, db, balance, resv, released, crashes, faults>>

MintReserve(n) ==
  LET t == task[n]
  IN /\ t.pc = "reserve"
     /\ Mint(n, Event("reservation", n, t.account, 0, t.hold, t.expires, NoRef, NoAccount),
             "flush")
     /\ resv' = [resv EXCEPT ![n] = @ \cup {NewId}]
     /\ UNCHANGED <<balance, released>>

\* Faulty variant: a settle emits its release without applying it here.
MintSettleUnapplied(n) ==
  LET t == task[n]
  IN /\ t.pc = "settle"
     /\ minted' = minted \o
          <<Event("standard", n, t.account, t.amount, 0, 0, t.ref, NoAccount),
            Event("release", n, t.account, 0, 0, 0, t.ref, NoAccount)>>
     /\ task' = [task EXCEPT ![n].pc = "flush", ![n].out = <<NewId, NewId + 1>>]
     /\ AddToBalance(n, t.account, t.amount)
     /\ UNCHANGED <<now, have, queue, db, resv, released, crashes, faults>>

\* The charge and the release of a settle: both are allocated first.
MintSettle(n) ==
  LET t == task[n]
  IN /\ t.pc = "settle"
     /\ minted' = minted \o
          <<Event("standard", n, t.account, t.amount, 0, 0, t.ref, NoAccount),
            Event("release", n, t.account, 0, 0, 0, t.ref, NoAccount)>>
     /\ task' = [task EXCEPT ![n].pc = "flush", ![n].out = <<NewId, NewId + 1>>]
     /\ AddToBalance(n, t.account, t.amount)
     /\ released' = [released EXCEPT ![n] = @ \cup {t.ref}]
     /\ UNCHANGED <<now, have, queue, db, resv, crashes, faults>>

\* emit_release_locked: the hold ends, nothing is charged.
MintRelease(n) ==
  LET t == task[n]
  IN /\ t.pc = "release"
     /\ Mint(n, Event("release", n, t.account, 0, 0, 0, t.ref, NoAccount), "flush")
     /\ released' = [released EXCEPT ![n] = @ \cup {t.ref}]
     /\ UNCHANGED <<balance, resv>>

\* allocate_or_fail gives up: the request is refused and what it has done to
\* the account so far stays.
AllocFails(n) ==
  /\ task[n].pc \notin {"idle", "flush"}
  /\ task[n].pc = "credit" => ~Locked(n, task[n].to)
  /\ faults < plan.faults /\ faults' = faults + 1
  /\ task' = [task EXCEPT ![n] = Idle]
  /\ UNCHANGED <<now, minted, have, queue, db, balance, resv, released, crashes>>

Step(n) ==
  \/ MintHold(n) \/ MintCharge(n) \/ MintCredit(n) \/ Flush(n)
  \/ MintReserve(n) \/ MintSettle(n) \/ MintRelease(n)

-----------------------------------------------------------------------------
(* The rest of the node.                                                   *)

\* Faulty variant: a release that arrives before its reservation is dropped.
ReceiveInOrderOnly(n, i) ==
  /\ i \notin have[n] /\ \E m \in Nodes \ {n} : i \in have[m]
  /\ ~Locked(n, minted[i].account)
  /\ have' = [have EXCEPT ![n] = @ \cup {i}]
  /\ queue' = [queue EXCEPT ![n] = Append(@, i)]
  /\ AddToBalance(n, minted[i].account, minted[i].amount)
  /\ resv' = [resv EXCEPT ![n] = @ \cup {j \in {i} : minted[j].hold > 0}]
  /\ released' = [released EXCEPT ![n] = @ \cup {r \in resv[n] :
                    minted[i].type = "release" /\ minted[i].ref = r}]
  /\ UNCHANGED <<now, minted, db, task, crashes, faults>>

\* insert_event: an event of a peer, under the account's lock.
Receive(n, i) ==
  /\ i \notin have[n] /\ \E m \in Nodes \ {n} : i \in have[m]
  /\ ~Locked(n, minted[i].account)
  /\ have' = [have EXCEPT ![n] = @ \cup {i}]
  /\ queue' = [queue EXCEPT ![n] = Append(@, i)]
  /\ AddToBalance(n, minted[i].account, minted[i].amount)
  /\ resv' = [resv EXCEPT ![n] = @ \cup {j \in {i} : minted[j].hold > 0}]
  /\ released' = [released EXCEPT ![n] =
                    @ \cup {minted[j].ref : j \in {k \in {i} : minted[k].type = "release"}}]
  /\ UNCHANGED <<now, minted, db, task, crashes, faults>>

\* sweep_expired_holds: a locked account is skipped.
Sweep(n) ==
  LET expired == {i \in resv[n] : minted[i].expires <= now /\ ~Locked(n, minted[i].account)}
  IN /\ expired # {}
     /\ resv' = [resv EXCEPT ![n] = @ \ expired]
     /\ released' = [released EXCEPT ![n] = @ \ expired]
     /\ UNCHANGED <<now, minted, have, queue, db, balance, task, crashes, faults>>

\* The batch writer stores what it was sent, in order; a batch may end, and a
\* crash may come, after any event.  Only a crash reads the database, so
\* nothing is stored once the bound on crashes is reached.
Persist(n) ==
  /\ queue[n] # <<>> /\ crashes < plan.crashes
  /\ db' = [db EXCEPT ![n] = @ \cup {Head(queue[n])}]
  /\ queue' = [queue EXCEPT ![n] = Tail(@)]
  /\ UNCHANGED <<now, minted, have, balance, resv, released, task, crashes, faults>>

AmountSum(S, a) ==
  SumFunctionOnSet([i \in Ids |-> minted[i].amount], {i \in S : minted[i].account = a})

\* A crash, and SharedState::new from the database.
Crash(n) ==
  /\ crashes < plan.crashes /\ crashes' = crashes + 1
  /\ have' = [have EXCEPT ![n] = db[n]]
  /\ queue' = [queue EXCEPT ![n] = <<>>]
  /\ balance' = [balance EXCEPT ![n] = [a \in Accounts |-> AmountSum(db[n], a)]]
  /\ resv' = [resv EXCEPT ![n] =
                {i \in db[n] : minted[i].hold > 0 /\ minted[i].expires > now}]
  /\ released' = [released EXCEPT ![n] =
                    {minted[i].ref : i \in {j \in db[n] : minted[j].type = "release"}}]
  /\ task' = [task EXCEPT ![n] = Idle]
  /\ UNCHANGED <<now, minted, db, faults>>

Tick ==
  /\ \E t \in plan.times : t > now /\ now' = t
  /\ UNCHANGED <<minted, have, queue, db, balance, resv, released, task, crashes, faults>>

Next ==
  /\ UNCHANGED plan
  /\ \/ \E n \in plan.nodes :
          \/ StartCredit(n) \/ StartDebit(n) \/ StartTransfer(n)
          \/ StartReserve(n) \/ StartSettle(n) \/ StartRelease(n)
          \/ Step(n) \/ AllocFails(n)
          \/ Sweep(n) \/ Persist(n) \/ Crash(n)
          \/ \E i \in Ids : Receive(n, i)
     \/ Tick

Spec == Init /\ [][Next]_vars

\* A node's RPC task is an async task that keeps running: its locks are taken
\* and its allocations answered.
LiveSpec == Spec /\ \A n \in Nodes : WF_accountVars(Step(n))

-----------------------------------------------------------------------------
(* Properties.                                                             *)

AllEvents == UNION {have[n] : n \in Nodes}

\* While no allocation has failed (see AllocFails for what such a request leaves
\* behind), what a node answers about an account is what its log says: the balance is
\* the sum of the log's amounts and the held funds are the reservations of the
\* log that are neither expired nor released, whatever order events arrived
\* in, were swept in or were rebuilt in (docs/protocol.md 11.3).
BooksBalance ==
  faults = 0 => \A n \in Nodes : \A a \in Accounts : ~Locked(n, a) =>
    LET log == have[n] \cup Range(task[n].out)
    IN /\ balance[n][a] = AmountSum(log, a)
       /\ Active(n, a) = {i \in log : /\ minted[i].account = a
                                      /\ minted[i].hold > 0 /\ minted[i].expires > now
                                      /\ \A j \in log : minted[j].type = "release"
                                                           => minted[j].ref # i}

\* When one node serves all debits of an account and does not crash, its
\* available balance never falls below the floor on that node, whatever holds,
\* captures, expiries and events of peers do in between (docs/protocol.md 9.1,
\* 9.2).
Solvent ==
  \A n \in plan.spenders : \A a \in Accounts :
    crashes = 0 /\ ~Locked(n, a) => AvailableBalance(n, a) >= Floor

\* A reservation is captured at most once (docs/protocol.md 11.2.1) when one
\* node serves it and does not crash.
CapturedOnce ==
  crashes = 0 => \A i, j \in AllEvents :
    (minted[i].type = "standard" /\ minted[j].type = "standard"
       /\ minted[i].ref # NoRef /\ minted[i].ref = minted[j].ref) => i = j

\* A debit that the available balance covers is never refused for its implicit
\* hold (docs/protocol.md 11.4).
ImplicitHoldFits ==
  \A n \in Nodes : \A a \in Accounts : \A x \in plan.debits :
    Affords(n, a, x, 0) => Affords(n, a, x, ImplicitHold(n, a, x))

\* A request that a node has begun to serve ends, so the RPC task comes back to
\* its other clients.
RequestsEnd == \A n \in Nodes : task[n].pc # "idle" ~> task[n].pc = "idle"

\* On a node that has all events, a transfer takes from one account what it
\* gives to the other (sdks/rust/src/types.rs, transfer_to), as long as no
\* crash has cut one in two.
TransferConserves ==
  \A n \in Nodes : crashes = 0 /\ task[n].pc = "idle" /\ have[n] = AllEvents =>
    \A i \in have[n] : minted[i].to # NoAccount =>
      \E j \in have[n] : /\ minted[j].account = minted[i].to
                         /\ minted[j].amount = 0 - minted[i].amount

=============================================================================
