--------------------------- MODULE ControlProofs ---------------------------
(***************************************************************************)
(* The dashboard for every number of users, browsers, keys and handlers    *)
(* under way: a magic link signs in once (LinkOnce), a device code makes   *)
(* keys for the user it was shown to (CodeIsOwners), a deletion ends the   *)
(* keys of the user (DeletionCutsOff), a purged bucket is not listed again *)
(* (PurgedIsHidden).                                                       *)
(*                                                                         *)
(* A handler acts on what it read some awaits ago.  Each invariant says of *)
(* the handlers under way which of the things they read still hold, and of *)
(* the tables that they change in one direction only.                      *)
(*                                                                         *)
(* The billing service, for every number of users, handlers and repeated   *)
(* deliveries: a Stripe event tops a user up once (CreditedOnce).  Its     *)
(* deliveries mark the event before they credit anything, and post under a *)
(* nonce made of the event; that the nonce says which grant it is needs    *)
(* that the user found for a customer or a subscription is always the same *)
(* (OwnInv, SubInv).                                                       *)
(***************************************************************************)
EXTENDS ControlPlane, Billing, FiniteSetTheorems, SequenceTheorems, TLAPS

Ops == OwnHandlers \cup AdminHandlers \cup BucketHandlers
         \cup {"delete_account", "cli_authorize", "cli_exchange", "request", "consume",
               "google_callback", "admin_purge_bucket"}
Stages == {"in", "do", "audit", "delete", "tokens", "refused", "issue", "drop", "answer",
           "archive", "log", "archived", "unarchived"}
Values == Int \cup BOOLEAN \cup Statuses \cup Users \cup Browsers \cup (Nat \X Browsers)
Running == [op : Ops, st : Stages, by : Values, u : Users, k : Values, seen : Values]
Row == [known : BOOLEAN, admin : BOOLEAN, frozen : BOOLEAN, deleted : BOOLEAN]
KeyRecord == [user : Users, revoked : BOOLEAN, expires : Instants,
              scopes : SUBSET {FullBucketScope, ControlScope}, born : Nat, seen : Int,
              revealed : BOOLEAN]
Link == [hash : Nat \X Browsers, user : Users]

KeyMakers == {"create_key", "rotate_key", "create_user_key", "rotate_user_key"}

\* What the fields of a handler are for its route.
Shaped(v) ==
  /\ v.op \in OwnHandlers \cup AdminHandlers => v.seen \in Nat /\ v.k \in Nat
  /\ v.op = "request" => v.k \in Browsers
  /\ v.op = "consume" => v.k \in Nat \X Browsers
  /\ v.op = "admin_purge_bucket" => v.k \in Nat
  /\ v.op = "cli_exchange" => v.k \in Nat /\ v.seen \in Nat

HandlersOK ==
  /\ h \in [Slots -> {Idle} \cup Running]
  /\ \A s \in Slots : h[s] \in Running => Shaped(h[s])

TablesOK ==
  /\ row \in [Users -> Row] /\ dels \in [Users -> Nat] /\ keys \in Seq(KeyRecord)
  /\ cli.st = "authorized" => cli.user \in Users
  /\ asked \in Seq(Browsers) /\ magic \subseteq Link /\ signed \in Seq(Nat \X Browsers)
  /\ shown \in Seq(Users)

-----------------------------------------------------------------------------
(* Handlers                                                                *)

\* A handler goes on, ends or stays: what it was called for it keeps.
Carries(v, w) ==
  \/ w = v
  \/ w = Idle
  \/ /\ v \in Running /\ w \in Running /\ w.op = v.op /\ w.u = v.u
     /\ w.by = v.by \/ v.op = "cli_exchange"
     /\ w.k = v.k \/ (v.op = "admin_purge_bucket" /\ w.k \in Nat)
     /\ w.seen = v.seen \/ (v.op \in AdminHandlers /\ w.seen \in Nat)

Carry == \A r \in Slots : Carries(h[r], h'[r])

LEMMA IdleIsNotRunning ==
  /\ Idle \notin Running
  /\ \A v \in {Idle} \cup Running : v # Idle => v \in Running
<1>1. \A v \in Running : "op" \in DOMAIN v
  BY DEF Running
<1>2. "op" \notin DOMAIN Idle
  BY DEF Idle
<1> QED BY <1>1, <1>2

LEMMA CarryKeepsShape ==
  ASSUME HandlersOK, h' \in [Slots -> {Idle} \cup Running], Carry
  PROVE  HandlersOK'
<1> SUFFICES ASSUME NEW s \in Slots, h'[s] \in Running
             PROVE  Shaped(h'[s])
  BY DEF HandlersOK, Shaped
<1>1. Carries(h[s], h'[s]) /\ h'[s] # Idle
  BY IdleIsNotRunning DEF Carry
<1>2. CASE h'[s] = h[s]
  BY <1>2 DEF HandlersOK
<1>3. CASE h'[s] # h[s]
  <2>1. /\ h[s] \in Running /\ h'[s].op = h[s].op
        /\ h'[s].k = h[s].k \/ (h[s].op = "admin_purge_bucket" /\ h'[s].k \in Nat)
        /\ h'[s].seen = h[s].seen \/ (h[s].op \in AdminHandlers /\ h'[s].seen \in Nat)
    BY <1>1, <1>3 DEF Carries
  <2>2. Shaped(h[s])
    BY <2>1 DEF HandlersOK
  <2> QED BY <2>1, <2>2 DEF Shaped, OwnHandlers, AdminHandlers
<1> QED BY <1>2, <1>3

LEMMA GoOn ==
  ASSUME HandlersOK, NEW s \in Slots, h[s] # Idle, NEW st \in Stages \cup {"idle"}, Go(s, st)
  PROVE  /\ HandlersOK' /\ Carry
         /\ \A r \in Slots \ {s} : h'[r] = h[r]
         /\ IF st = "idle" THEN h'[s] = Idle
            ELSE /\ h'[s] \in Running /\ h'[s].st = st /\ h'[s].op = h[s].op
                 /\ h'[s].by = h[s].by /\ h'[s].u = h[s].u /\ h'[s].k = h[s].k
                 /\ h'[s].seen = h[s].seen
<1>1. h[s] \in Running
  BY IdleIsNotRunning DEF HandlersOK
<1> DEFINE w == [h[s] EXCEPT !.st = st]
<1>2. /\ st # "idle" => w \in Running
      /\ w.st = st /\ w.op = h[s].op /\ w.by = h[s].by /\ w.u = h[s].u
      /\ w.k = h[s].k /\ w.seen = h[s].seen
  BY <1>1 DEF Running
<1>3. h' = [h EXCEPT ![s] = IF st = "idle" THEN Idle ELSE w]
  BY DEF Go
<1> HIDE DEF w
<1>4. /\ h' \in [Slots -> {Idle} \cup Running] /\ \A r \in Slots \ {s} : h'[r] = h[r]
      /\ h'[s] = IF st = "idle" THEN Idle ELSE w
  BY <1>2, <1>3 DEF HandlersOK
<1>5. Carry
  BY <1>1, <1>2, <1>4 DEF Carry, Carries
<1> QED BY <1>2, <1>4, <1>5, CarryKeepsShape

\* A handler starts in an empty slot.
LEMMA Starts ==
  ASSUME HandlersOK, NEW s \in Slots, NEW v \in Running, Shaped(v), Start(s, v)
  PROVE  /\ HandlersOK' /\ h[s] = Idle /\ h'[s] = v
         /\ \A r \in Slots \ {s} : h'[r] = h[r]
<1>1. h[s] = Idle /\ h' = [h EXCEPT ![s] = v]
  BY DEF Start
<1>2. /\ h' \in [Slots -> {Idle} \cup Running] /\ h'[s] = v
      /\ \A r \in Slots \ {s} : h'[r] = h[r]
  BY <1>1 DEF HandlersOK
<1> QED BY <1>1, <1>2 DEF HandlersOK, Shaped

LEMMA ValueKinds ==
  /\ \A i \in Nat : i \in Values
  /\ \A u \in Users : u \in Values
  /\ \A b \in Browsers : b \in Values
  /\ \A x \in Nat \X Browsers : x \in Values
<1>1. Nat \subseteq Int
  OBVIOUS
<1> QED BY <1>1, Zenon DEF Values

LEMMA HandlerParts ==
  ASSUME TablesOK, NEW op \in Ops, NEW by \in Values, NEW u \in Users, NEW k \in Values
  PROVE  /\ Handler(op, by, u, k) \in Running
         /\ Handler(op, by, u, k) = [op |-> op, st |-> "in", by |-> by, u |-> u, k |-> k,
                                     seen |-> dels[u]]
         /\ dels[u] \in Nat
<1>1. dels[u] \in Nat
  BY DEF TablesOK
<1>2. dels[u] \in Values
  BY <1>1, ValueKinds
<1>4. "in" \in Stages
  BY DEF Stages
<1>3. Handler(op, by, u, k) \in Running
  BY <1>2, <1>4 DEF Handler, Running
<1> QED BY <1>1, <1>3 DEF Handler

LEMMA AtRuns ==
  ASSUME HandlersOK, NEW s \in Slots, NEW op, NEW st, At(s, op, st)
  PROVE  h[s] # Idle /\ h[s] \in Running /\ h[s].op = op /\ h[s].st = st
BY IdleIsNotRunning DEF HandlersOK, At

\* The administrator's handlers note when they found the owner alive.
LEMMA AdminChecked ==
  ASSUME HandlersOK, TablesOK, NEW s \in Slots, h[s] # Idle, h[s].op \in AdminHandlers,
         NEW ok \in BOOLEAN, CheckAdmin(s, ok)
  PROVE  /\ HandlersOK' /\ Carry /\ \A r \in Slots \ {s} : h'[r] = h[r]
         /\ IF ok THEN /\ h'[s] \in Running /\ h'[s].st = "do" /\ h'[s].seen = dels[h[s].u]
                       /\ h'[s].op = h[s].op /\ h'[s].u = h[s].u /\ h'[s].k = h[s].k
            ELSE h'[s] = Idle
<1>1. h[s] \in Running
  BY IdleIsNotRunning DEF HandlersOK
<1>2. dels[h[s].u] \in Nat /\ h[s].u \in Users
  BY <1>1 DEF Running, TablesOK
<1>3. dels[h[s].u] \in Values /\ "do" \in Stages
  BY <1>2, ValueKinds DEF Stages
<1> DEFINE w == [h[s] EXCEPT !.st = "do", !.seen = dels[h[s].u]]
<1>4. /\ w \in Running /\ w.st = "do" /\ w.seen = dels[h[s].u] /\ w.op = h[s].op
      /\ w.by = h[s].by /\ w.u = h[s].u /\ w.k = h[s].k
  BY <1>1, <1>3 DEF Running
<1>5. h' = [h EXCEPT ![s] = IF ok THEN w ELSE Idle]
  BY DEF CheckAdmin
<1> HIDE DEF w
<1>6. /\ h' \in [Slots -> {Idle} \cup Running] /\ \A r \in Slots \ {s} : h'[r] = h[r]
      /\ h'[s] = IF ok THEN w ELSE Idle
  BY <1>4, <1>5 DEF HandlersOK
<1>7. Carry
  BY <1>1, <1>2, <1>4, <1>6 DEF Carry, Carries
<1> QED BY <1>4, <1>6, <1>7, CarryKeepsShape

\* How the handlers of a group move on.
Moves(s) == \E st \in Stages \cup {"idle"} : Go(s, st)

LEMMA MovesCarry ==
  ASSUME HandlersOK, NEW s \in Slots, h[s] # Idle, Moves(s)
  PROVE  HandlersOK' /\ Carry
BY GoOn DEF Moves

LEMMA KeyStepCarries ==
  ASSUME HandlersOK, TablesOK, NEW s \in Slots, KeyStep(s)
  PROVE  /\ HandlersOK' /\ Carry
         /\ h[s] \in Running /\ h[s].op \in OwnHandlers \cup AdminHandlers
<1> USE DEF Stages, Check, KeyChange, Moves
<1>1. ASSUME create_key(s) \/ revoke_key(s) \/ create_scope(s) \/ delete_scope(s)
      PROVE  \E op \in OwnHandlers : \E st : At(s, op, st) /\ Moves(s)
  BY <1>1 DEF create_key, revoke_key, create_scope, delete_scope, OwnHandlers
<1>2. ASSUME rotate_key(s)
      PROVE  \E op \in OwnHandlers : \E st : At(s, op, st) /\ Moves(s)
  BY <1>2 DEF rotate_key, rotate_api_key, OwnHandlers
<1>3. ASSUME create_user_key(s) \/ revoke_user_key(s) \/ create_user_scope(s) \/ delete_user_scope(s)
      PROVE  \E op \in AdminHandlers : \E st :
               /\ At(s, op, st)
               /\ Moves(s) \/ \E ok \in BOOLEAN : CheckAdmin(s, ok)
  BY <1>3 DEF create_user_key, revoke_user_key, create_user_scope, delete_user_scope, AdminHandlers
<1>4. ASSUME rotate_user_key(s)
      PROVE  \E op \in AdminHandlers : \E st :
               /\ At(s, op, st)
               /\ Moves(s) \/ \E ok \in BOOLEAN : CheckAdmin(s, ok)
  BY <1>4 DEF rotate_user_key, rotate_api_key, AdminHandlers
<1>5. \E op \in OwnHandlers \cup AdminHandlers : \E st :
        /\ At(s, op, st)
        /\ Moves(s) \/ (op \in AdminHandlers /\ \E ok \in BOOLEAN : CheckAdmin(s, ok))
  BY <1>1, <1>2, <1>3, <1>4 DEF KeyStep
<1> QED BY <1>5, AtRuns, MovesCarry, AdminChecked

\* A handler begins in an empty slot.
Begins(s) ==
  h[s] = Idle /\ h'[s] \in Running /\ \A r \in Slots \ {s} : h'[r] = h[r]

LEMMA NatKeys ==
  ASSUME TablesOK
  PROVE  /\ DOMAIN keys \subseteq Nat /\ DOMAIN asked \subseteq Nat /\ DOMAIN shown \subseteq Nat
BY LenProperties DEF TablesOK

LEMMA EnterBegins ==
  ASSUME HandlersOK, TablesOK, NEW s \in Slots, Enter(s)
  PROVE  /\ HandlersOK' /\ Begins(s)
         /\ h'[s].op \in OwnHandlers \cup AdminHandlers \cup {"delete_account", "cli_authorize"}
         /\ h'[s].st = "in" /\ h'[s].k \in DOMAIN keys
         /\ h'[s].op \in OwnHandlers => ~row[h'[s].u].deleted /\ h'[s].seen = dels[h'[s].u]
<1>1. PICK u \in Users, k \in DOMAIN keys, a \in Users,
           op \in OwnHandlers \cup AdminHandlers \cup {"delete_account", "cli_authorize"} :
        /\ Start(s, Handler(op, a, u, k))
        /\ op \in OwnHandlers => ~row[u].deleted
  BY DEF Enter, Authenticated, profile_from_bearer, CurrentUser, Live, OwnHandlers, AdminHandlers
<1> DEFINE v == Handler(op, a, u, k)
<1>2. k \in Nat
  BY <1>1, NatKeys
<1>3. k \in Values /\ a \in Values /\ op \in Ops
  BY <1>1, <1>2, ValueKinds DEF Ops
<1>4. /\ v \in Running
      /\ v = [op |-> op, st |-> "in", by |-> a, u |-> u, k |-> k, seen |-> dels[u]]
      /\ dels[u] \in Nat
  BY <1>3, HandlerParts
<1>5. /\ v.op = op /\ v.st = "in" /\ v.u = u /\ v.k = k /\ v.seen = dels[u]
  BY <1>4
<1>6. Shaped(v)
  BY <1>1, <1>2, <1>4, <1>5 DEF Shaped, OwnHandlers, AdminHandlers
<1> HIDE DEF v
<1>7. Start(s, v)
  BY <1>1 DEF v
<1>8. HandlersOK' /\ Begins(s) /\ h'[s] = v
  BY <1>4, <1>6, <1>7, Starts DEF Begins
<1> QED BY <1>1, <1>5, <1>8

LEMMA RequestHandlers ==
  ASSUME HandlersOK, TablesOK, NEW s \in Slots, request_magic_link(s)
  PROVE  HandlersOK' /\ ((Carry /\ h[s] # Idle) \/ (Begins(s) /\ h'[s].op = "request"))
<1>1. ASSUME NEW u \in Users, NEW b \in Browsers,
             Start(s, [Handler("request", u, u, 1) EXCEPT !.k = b])
      PROVE  HandlersOK' /\ Begins(s) /\ h'[s].op = "request"
  <2>1. "request" \in Ops /\ u \in Values /\ 1 \in Values /\ b \in Values
    BY ValueKinds DEF Ops
  <2>2. /\ Handler("request", u, u, 1) \in Running
        /\ Handler("request", u, u, 1).op = "request"
    BY <2>1, HandlerParts
  <2> DEFINE v == [Handler("request", u, u, 1) EXCEPT !.k = b]
  <2>3. v \in Running /\ v.op = "request" /\ v.k = b
    BY <2>1, <2>2 DEF Running
  <2>4. Shaped(v)
    BY <2>3 DEF Shaped, OwnHandlers, AdminHandlers
  <2> HIDE DEF v
  <2>5. Start(s, v)
    BY <1>1 DEF v
  <2> QED BY <2>3, <2>4, <2>5, Starts DEF Begins
<1>2. ASSUME At(s, "request", "in"), Go(s, "idle")
      PROVE  HandlersOK' /\ Carry /\ h[s] # Idle
  BY <1>2, GoOn, AtRuns
<1> QED BY <1>1, <1>2 DEF request_magic_link

LEMMA ConsumeStarts ==
  ASSUME HandlersOK, TablesOK, NEW s \in Slots, NEW link \in magic, NEW token \in DOMAIN asked,
         NEW b \in Browsers,
         Start(s, [Handler("consume", link.user, link.user, <<token, b>>) EXCEPT !.st = "in"])
  PROVE  HandlersOK' /\ Begins(s) /\ h'[s].op = "consume" /\ h'[s].k = <<token, b>>
<1>1. link.user \in Users /\ token \in Nat
  BY NatKeys DEF TablesOK, Link
<1>2. "consume" \in Ops /\ link.user \in Values /\ <<token, b>> \in Values
  BY <1>1, ValueKinds DEF Ops
<1> DEFINE u == link.user
           x == <<token, b>>
           w == Handler("consume", u, u, x)
           v == [w EXCEPT !.st = "in"]
<1>3. w \in Running /\ w.op = "consume" /\ w.k = x
  BY <1>1, <1>2, HandlerParts
<1>4. v \in Running /\ v.op = "consume" /\ v.k = x
  BY <1>3 DEF Running, Stages
<1>5. Shaped(v)
  BY <1>1, <1>4 DEF Shaped, OwnHandlers, AdminHandlers
<1> HIDE DEF v
<1>6. Start(s, v)
  BY DEF v
<1> QED BY <1>4, <1>5, <1>6, Starts DEF Begins

LEMMA ConsumeHandlers ==
  ASSUME HandlersOK, TablesOK, NEW s \in Slots, consume_magic_link(s)
  PROVE  HandlersOK' /\ ((Carry /\ h[s] # Idle) \/ (Begins(s) /\ h'[s].op = "consume"))
<1>1. CASE \E st : At(s, "consume", st) /\ Moves(s)
  BY <1>1, MovesCarry, AtRuns
<1> QED BY <1>1, ConsumeStarts DEF consume_magic_link, Check, Moves, Stages

LEMMA GoogleHandlers ==
  ASSUME HandlersOK, TablesOK, NEW s \in Slots, google_callback(s)
  PROVE  HandlersOK' /\ ((Carry /\ h[s] # Idle) \/ (Begins(s) /\ h'[s].op = "google_callback"))
<1>1. ASSUME NEW u \in Users, NEW st \in {"refused", "in"},
             Start(s, [Handler("google_callback", u, u, 1) EXCEPT !.st = st])
      PROVE  HandlersOK' /\ Begins(s) /\ h'[s].op = "google_callback"
  <2>1. "google_callback" \in Ops /\ u \in Values /\ 1 \in Values /\ st \in Stages
    BY ValueKinds DEF Ops, Stages
  <2> DEFINE w == Handler("google_callback", u, u, 1)
             v == [w EXCEPT !.st = st]
  <2>2. w \in Running /\ w.op = "google_callback"
    BY <2>1, HandlerParts
  <2>3. v \in Running /\ v.op = "google_callback"
    BY <2>1, <2>2 DEF Running
  <2>4. Shaped(v)
    BY <2>3 DEF Shaped, OwnHandlers, AdminHandlers
  <2> HIDE DEF v
  <2>5. Start(s, v)
    BY <1>1 DEF v
  <2> QED BY <2>3, <2>4, <2>5, Starts DEF Begins
<1>2. CASE \E u \in Users : Start(s, [Handler("google_callback", u, u, 1) EXCEPT
                                        !.st = IF row[u].frozen THEN "refused" ELSE "in"])
  BY <1>1, <1>2
<1>3. CASE \E st : At(s, "google_callback", st) /\ Moves(s)
  BY <1>3, MovesCarry, AtRuns
<1> QED BY <1>2, <1>3 DEF google_callback, Moves, Stages

LEMMA AdminHandlersCarry ==
  ASSUME HandlersOK, NEW s \in Slots,
         \/ freeze_user(s) \/ unfreeze_user(s) \/ delete_user(s) \/ delete_account(s)
         \/ impersonate_user(s)
  PROVE  HandlersOK' /\ Carry /\ h[s] \in Running
<1>1. \E op, st : At(s, op, st) /\ Moves(s)
  BY DEF freeze_user, unfreeze_user, delete_user, delete_account, impersonate_user, Check, Moves,
         Stages
<1> QED BY <1>1, MovesCarry, AtRuns

LEMMA EndHandlersCarry ==
  ASSUME HandlersOK, NEW s \in Slots, write_audit(s) \/ Die(s) \/ cli_authorize(s)
  PROVE  HandlersOK' /\ Carry
<1>1. h[s] # Idle /\ Moves(s)
  BY DEF write_audit, Die, cli_authorize, At, Check, Moves, Stages
<1> QED BY <1>1, MovesCarry

LEMMA ExchangeStarts ==
  ASSUME HandlersOK, TablesOK, NEW s \in Slots, NEW code \in DOMAIN shown,
         cli.st = "authorized",
         Start(s, [Handler("cli_exchange", cli.user, cli.user, code) EXCEPT
                     !.seen = IF code \in spent THEN 1 ELSE 0])
  PROVE  /\ HandlersOK' /\ Begins(s) /\ h'[s].op = "cli_exchange" /\ h'[s].st = "in"
         /\ h'[s].u = cli.user /\ h'[s].k = code
         /\ h'[s].seen = IF code \in spent THEN 1 ELSE 0
<1>1. cli.user \in Users /\ code \in Nat
  BY NatKeys DEF TablesOK
<1> DEFINE u == cli.user
           again == IF code \in spent THEN 1 ELSE 0
           w == Handler("cli_exchange", u, u, code)
           v == [w EXCEPT !.seen = again]
<1>2. "cli_exchange" \in Ops /\ u \in Values /\ code \in Values /\ again \in Nat /\ again \in Values
  BY <1>1, ValueKinds DEF Ops
<1>3. w \in Running /\ w.op = "cli_exchange" /\ w.st = "in" /\ w.u = u /\ w.k = code
  BY <1>1, <1>2, HandlerParts
<1>4. /\ v \in Running /\ v.op = "cli_exchange" /\ v.st = "in" /\ v.u = u /\ v.k = code
      /\ v.seen = again
  BY <1>2, <1>3 DEF Running
<1>5. Shaped(v)
  BY <1>1, <1>2, <1>4 DEF Shaped, OwnHandlers, AdminHandlers
<1> HIDE DEF v
<1>6. Start(s, v)
  BY DEF v
<1> QED BY <1>4, <1>5, <1>6, Starts DEF Begins

LEMMA ExchangeMints ==
  ASSUME HandlersOK, TablesOK, NEW s \in Slots, At(s, "cli_exchange", "in"), NEW n \in Nat,
         h' = [h EXCEPT ![s] = [@ EXCEPT !.st = "drop", !.by = n, !.u = KeyOwnerAsRead(s)]]
  PROVE  /\ HandlersOK' /\ Carry /\ \A r \in Slots \ {s} : h'[r] = h[r]
         /\ h'[s] \in Running /\ h'[s].op = "cli_exchange" /\ h'[s].st = "drop" /\ h'[s].by = n
         /\ h'[s].u = h[s].u
<1>1. h[s] \in Running /\ h[s].op = "cli_exchange"
  BY AtRuns
<1>2. h[s].u \in Users /\ n \in Values /\ "drop" \in Stages
  BY <1>1, ValueKinds DEF Running, Stages
<1> DEFINE w == [h[s] EXCEPT !.st = "drop", !.by = n, !.u = h[s].u]
<1>3. /\ w \in Running /\ w.op = "cli_exchange" /\ w.st = "drop" /\ w.by = n /\ w.u = h[s].u
      /\ w.k = h[s].k /\ w.seen = h[s].seen
  BY <1>1, <1>2 DEF Running
<1>4. h' = [h EXCEPT ![s] = w]
  BY DEF KeyOwnerAsRead
<1> HIDE DEF w
<1>5. /\ h' \in [Slots -> {Idle} \cup Running] /\ \A r \in Slots \ {s} : h'[r] = h[r]
      /\ h'[s] = w
  BY <1>3, <1>4 DEF HandlersOK
<1>6. Carry
  BY <1>1, <1>3, <1>5 DEF Carry, Carries
<1> QED BY <1>3, <1>5, <1>6, CarryKeepsShape

LEMMA ExchangeHandlers ==
  ASSUME HandlersOK, TablesOK, NEW s \in Slots, cli_exchange(s)
  PROVE  HandlersOK' /\ ((Carry /\ h[s] # Idle) \/ (Begins(s) /\ h'[s].op = "cli_exchange"))
<1>1. CASE \E code \in DOMAIN shown :
        /\ cli.st = "authorized"
        /\ Start(s, [Handler("cli_exchange", cli.user, cli.user, code) EXCEPT
                       !.seen = IF code \in spent THEN 1 ELSE 0])
  BY <1>1, ExchangeStarts
<1>2. ASSUME At(s, "cli_exchange", "in"),
             keys' = Append(keys, Key(KeyOwnerAsRead(s), {FullBucketScope, ControlScope}, -1, FALSE)),
             h' = [h EXCEPT ![s] = [@ EXCEPT !.st = "drop", !.by = Len(keys'),
                                              !.u = KeyOwnerAsRead(s)]]
      PROVE  HandlersOK' /\ Carry /\ h[s] # Idle
  <2> DEFINE n == Len(keys')
  <2>1. n \in Nat
    <3>1. Len(keys) \in Nat
      BY LenProperties DEF TablesOK
    <3>2. n = Len(keys) + 1
      BY <1>2 DEF TablesOK
    <3> QED BY <3>1, <3>2
  <2>2. h' = [h EXCEPT ![s] = [@ EXCEPT !.st = "drop", !.by = n, !.u = KeyOwnerAsRead(s)]]
    BY <1>2
  <2> HIDE DEF n
  <2> QED BY <1>2, <2>1, <2>2, AtRuns, ExchangeMints
<1>3. CASE \E st : At(s, "cli_exchange", st) /\ Moves(s)
  BY <1>3, MovesCarry, AtRuns
<1> QED BY <1>1, <1>2, <1>3 DEF cli_exchange, Moves, Stages

LEMMA BucketHandlersBegin ==
  ASSUME HandlersOK, TablesOK, NEW s \in Slots, EnterBucket(s)
  PROVE  /\ HandlersOK' /\ Begins(s) /\ h'[s].st = "in"
         /\ h'[s].op \in BucketHandlers \cup {"admin_purge_bucket"}
         /\ h'[s].op = "list_buckets" => h'[s].seen = (h'[s].u \in gone)
<1>1. ASSUME NEW a \in Users, NEW u \in Users,
             NEW op \in (BucketHandlers \ {"list_buckets"}) \cup {"admin_purge_bucket"},
             Start(s, Handler(op, a, u, 1))
      PROVE  /\ HandlersOK' /\ Begins(s) /\ h'[s].st = "in" /\ h'[s].op = op
  <2>1. op \in Ops /\ a \in Values /\ 1 \in Values
    BY ValueKinds DEF Ops
  <2> DEFINE v == Handler(op, a, u, 1)
  <2>2. v \in Running /\ v.op = op /\ v.st = "in" /\ v.k = 1
    BY <2>1, HandlerParts
  <2>3. Shaped(v)
    BY <2>2 DEF Shaped, OwnHandlers, AdminHandlers, BucketHandlers
  <2> HIDE DEF v
  <2>4. Start(s, v)
    BY <1>1 DEF v
  <2> QED BY <2>2, <2>3, <2>4, Starts DEF Begins
<1>2. ASSUME NEW u \in Users, NEW f \in Statuses,
             Start(s, [op |-> "list_buckets", st |-> "in", by |-> u, u |-> u, k |-> f,
                       seen |-> u \in gone])
      PROVE  /\ HandlersOK' /\ Begins(s) /\ h'[s].st = "in" /\ h'[s].op = "list_buckets"
             /\ h'[s].seen = (h'[s].u \in gone)
  <2> DEFINE b == u \in gone
             v == [op |-> "list_buckets", st |-> "in", by |-> u, u |-> u, k |-> f, seen |-> b]
  <2>1. b \in BOOLEAN
    OBVIOUS
  <2>2. b \in Values /\ f \in Values /\ u \in Values /\ "list_buckets" \in Ops /\ "in" \in Stages
    BY <2>1, ValueKinds DEF Values, Ops, Stages, BucketHandlers
  <2> HIDE DEF b
  <2>3. v \in Running /\ v.op = "list_buckets" /\ v.st = "in" /\ v.u = u /\ v.seen = b
    BY <2>2 DEF Running
  <2>4. Shaped(v)
    BY <2>3 DEF Shaped, OwnHandlers, AdminHandlers
  <2> HIDE DEF v
  <2>5. Start(s, v)
    BY <1>2 DEF v, b
  <2>6. HandlersOK' /\ h[s] = Idle /\ h'[s] = v /\ \A r \in Slots \ {s} : h'[r] = h[r]
    BY <2>3, <2>4, <2>5, Starts
  <2> QED BY <2>3, <2>6 DEF Begins, b
<1>3. CASE \E a \in Users, u \in Users,
              op \in (BucketHandlers \ {"list_buckets"}) \cup {"admin_purge_bucket"} :
             Start(s, Handler(op, a, u, 1))
  BY <1>1, <1>3
<1>4. CASE \E u \in Users, f \in Statuses :
             Start(s, [op |-> "list_buckets", st |-> "in", by |-> u, u |-> u, k |-> f,
                       seen |-> u \in gone])
  BY <1>2, <1>4 DEF BucketHandlers
<1> QED BY <1>3, <1>4 DEF EnterBucket

LEMMA BucketStepsCarry ==
  ASSUME HandlersOK, NEW s \in Slots,
         create_bucket(s) \/ archive_bucket(s) \/ set_evm(s) \/ purge_bucket(s)
  PROVE  HandlersOK' /\ Carry
<1>1. h[s] # Idle /\ Moves(s)
  BY DEF create_bucket, archive_bucket, set_evm, purge_bucket, Finish, At, Moves, Stages
<1> QED BY <1>1, MovesCarry

LEMMA AdminPurgeCarries ==
  ASSUME HandlersOK, NEW s \in Slots, admin_purge_bucket(s)
  PROVE  HandlersOK' /\ Carry
<1>1. CASE At(s, "admin_purge_bucket", "log") /\ Go(s, "idle")
  BY <1>1, GoOn, AtRuns DEF Stages
<1>2. ASSUME At(s, "admin_purge_bucket", "in"), NEW accepted \in BOOLEAN,
             h' = [h EXCEPT ![s] = IF accepted THEN [h[s] EXCEPT !.st = "log"]
                                   ELSE IF h[s].k < Len(Edges) THEN [h[s] EXCEPT !.k = @ + 1]
                                   ELSE Idle]
      PROVE  HandlersOK' /\ Carry
  <2>1. h[s] \in Running /\ h[s].op = "admin_purge_bucket" /\ Shaped(h[s])
    BY <1>2, AtRuns DEF HandlersOK
  <2>2. h[s].k \in Nat /\ h[s].k + 1 \in Nat
    BY <2>1 DEF Shaped
  <2>3. h[s].k + 1 \in Values /\ "log" \in Stages
    BY <2>2, ValueKinds DEF Stages
  <2> DEFINE v == [h[s] EXCEPT !.st = "log"]
             w == [h[s] EXCEPT !.k = @ + 1]
  <2>4. /\ v \in Running /\ v.op = h[s].op /\ v.by = h[s].by /\ v.u = h[s].u /\ v.k = h[s].k
        /\ v.seen = h[s].seen
    BY <2>1, <2>3 DEF Running
  <2>5. /\ w \in Running /\ w.op = h[s].op /\ w.by = h[s].by /\ w.u = h[s].u /\ w.k = h[s].k + 1
        /\ w.seen = h[s].seen
    BY <2>1, <2>3 DEF Running
  <2>6. h' = [h EXCEPT ![s] = v] \/ h' = [h EXCEPT ![s] = w] \/ h' = [h EXCEPT ![s] = Idle]
    <3>1. h' = [h EXCEPT ![s] = IF accepted THEN v ELSE IF h[s].k < Len(Edges) THEN w ELSE Idle]
      BY <1>2
    <3> HIDE DEF v, w
    <3> QED BY <3>1
  <2> HIDE DEF v, w
  <2>7. /\ h' \in [Slots -> {Idle} \cup Running] /\ \A r \in Slots \ {s} : h'[r] = h[r]
        /\ h'[s] \in {v, w, Idle}
    BY <2>4, <2>5, <2>6 DEF HandlersOK
  <2>8. Carry
    BY <2>1, <2>2, <2>4, <2>5, <2>7 DEF Carry, Carries
  <2> QED BY <2>7, <2>8, CarryKeepsShape
<1> QED BY <1>1, <1>2 DEF admin_purge_bucket

LEMMA ListGoes ==
  ASSUME NEW s \in Slots, list_buckets(s)
  PROVE  \E st \in {"in", "archived", "unarchived"} : At(s, "list_buckets", st) /\ Moves(s)
<1>1. ASSUME At(s, "list_buckets", "in"), UNCHANGED <<plan, ops>>,
             h' = [h EXCEPT ![s] = IF list(h[s].u, h[s].k)
                              THEN [@ EXCEPT !.st = IF reg[h[s].u].archived
                                                    THEN "archived" ELSE "unarchived"]
                              ELSE Idle]
      PROVE  Moves(s)
  <2> DEFINE st == IF list(h[s].u, h[s].k)
                   THEN IF reg[h[s].u].archived THEN "archived" ELSE "unarchived" ELSE "idle"
  <2>1. st \in Stages \cup {"idle"}
    BY DEF Stages
  <2>2. h' = [h EXCEPT ![s] = IF st = "idle" THEN Idle ELSE [@ EXCEPT !.st = st]]
    BY <1>1
  <2> QED BY <1>1, <2>1, <2>2 DEF Moves, Go
<1> QED BY <1>1 DEF list_buckets, Moves

LEMMA ListCarries ==
  ASSUME HandlersOK, NEW s \in Slots, list_buckets(s)
  PROVE  HandlersOK' /\ Carry
BY ListGoes, MovesCarry, AtRuns

\* Every step carries the handlers on or starts one.
LEMMA HandlersCarryOn ==
  ASSUME HandlersOK, TablesOK, [CpNext]_cpVars
  PROVE  HandlersOK' /\ (Carry \/ \E s \in Slots : Begins(s))
<1>1. ASSUME UNCHANGED h PROVE HandlersOK' /\ Carry
  BY <1>1, CarryKeepsShape DEF Carry, Carries, HandlersOK
<1>2. ASSUME NEW s \in Slots, UserStep(s) PROVE HandlersOK' /\ (Carry \/ Begins(s))
  BY <1>2, RequestHandlers, ConsumeHandlers, GoogleHandlers, AdminHandlersCarry DEF UserStep
<1>3. ASSUME NEW s \in Slots, cli_start(s) PROVE HandlersOK' /\ Carry
  BY <1>1, <1>3 DEF cli_start
<1>4. ASSUME Next PROVE HandlersOK' /\ (Carry \/ \E s \in Slots : Begins(s))
  <2>1. CASE Expire
    BY <1>1, <2>1 DEF Expire
  <2>2. ASSUME NEW s \in Slots,
               \/ Enter(s) \/ UserStep(s) \/ KeyStep(s) \/ write_audit(s) \/ Die(s)
               \/ cli_start(s) \/ cli_authorize(s) \/ cli_exchange(s)
        PROVE  HandlersOK' /\ (Carry \/ Begins(s))
    BY <1>2, <1>3, <2>2, EnterBegins, KeyStepCarries, EndHandlersCarry, ExchangeHandlers
  <2> QED BY <1>4, <2>1, <2>2 DEF Next
<1>5. ASSUME NEW s \in Slots, BucketStep(s) PROVE HandlersOK' /\ (Carry \/ Begins(s))
  BY <1>5, BucketHandlersBegin, BucketStepsCarry, AdminPurgeCarries, ListCarries DEF BucketStep
<1>6. ASSUME Gossip PROVE HandlersOK' /\ Carry
  BY <1>1, <1>6 DEF Gossip
<1>7. ASSUME UNCHANGED cpVars PROVE HandlersOK' /\ Carry
  BY <1>1, <1>7 DEF cpVars, dashVars
<1> QED BY <1>4, <1>5, <1>6, <1>7 DEF CpNext

-----------------------------------------------------------------------------
(* The tables                                                              *)

\* No user is newly deleted.
NoDeletion ==
  /\ UNCHANGED dels /\ row' \in [Users -> Row]
  /\ \A u \in Users : row'[u].deleted => row[u].deleted

LEMMA RowSettings ==
  ASSUME TablesOK, NEW u \in Users, NEW b \in BOOLEAN, UNCHANGED dels,
         \/ set_admin(u) \/ set_frozen(u, b) \/ upsert_by_email(u)
         \/ row' = [row EXCEPT ![u].admin = @ \/ b]
  PROVE  NoDeletion
<1>1. row \in [Users -> Row] /\ row[u] \in Row
  BY DEF TablesOK
<1>2. ASSUME NEW r \in Row, row' = [row EXCEPT ![u] = r], r.deleted => row[u].deleted
      PROVE  NoDeletion
  BY <1>1, <1>2 DEF NoDeletion
<1>3. ASSUME set_admin(u) PROVE NoDeletion
  <2> DEFINE r == [row[u] EXCEPT !.admin = TRUE]
  <2>1. r \in Row /\ r.deleted = row[u].deleted
    BY <1>1 DEF Row
  <2>2. row' = [row EXCEPT ![u] = r]
    BY <1>3 DEF set_admin
  <2> HIDE DEF r
  <2> QED BY <1>2, <2>1, <2>2
<1>4. ASSUME set_frozen(u, b) PROVE NoDeletion
  <2> DEFINE r == [row[u] EXCEPT !.frozen = b]
  <2>1. r \in Row /\ r.deleted = row[u].deleted
    BY <1>1 DEF Row
  <2>2. row' = [row EXCEPT ![u] = r]
    BY <1>4 DEF set_frozen
  <2> HIDE DEF r
  <2> QED BY <1>2, <2>1, <2>2
<1>5. ASSUME upsert_by_email(u) PROVE NoDeletion
  <2> DEFINE r == [row[u] EXCEPT !.known = TRUE, !.deleted = FALSE]
  <2>1. r \in Row /\ r.deleted = FALSE
    BY <1>1 DEF Row
  <2>2. row' = [row EXCEPT ![u] = r]
    BY <1>5 DEF upsert_by_email
  <2> HIDE DEF r
  <2> QED BY <1>2, <2>1, <2>2
<1>6. ASSUME row' = [row EXCEPT ![u].admin = @ \/ b] PROVE NoDeletion
  <2> DEFINE c == row[u].admin \/ b
             r == [row[u] EXCEPT !.admin = c]
  <2>1. c \in BOOLEAN
    OBVIOUS
  <2> HIDE DEF c
  <2>2. r \in Row /\ r.deleted = row[u].deleted
    BY <1>1, <2>1 DEF Row
  <2>3. row' = [row EXCEPT ![u] = r]
    BY <1>6 DEF c
  <2> HIDE DEF r
  <2> QED BY <1>2, <2>2, <2>3
<1> QED BY <1>3, <1>4, <1>5, <1>6

LEMMA NothingDeleted ==
  ASSUME TablesOK, UNCHANGED userVars
  PROVE  NoDeletion
BY DEF TablesOK, NoDeletion, userVars

\* A step deletes one user, in one transaction with the keys, or none.
LEMMA UserEffects ==
  ASSUME HandlersOK, TablesOK, [CpNext]_cpVars
  PROVE  \/ NoDeletion
         \/ \E u \in Users : soft_delete_user(u) /\ Carry /\ UNCHANGED <<signVars, cliVars>>
<1>1. ASSUME NEW s \in Slots, UserStep(s)
      PROVE  \/ NoDeletion
             \/ \E u \in Users : soft_delete_user(u) /\ Carry /\ UNCHANGED <<signVars, cliVars>>
  <2>1. ASSUME NEW op, NEW st, At(s, op, st) PROVE h[s].u \in Users
    BY <2>1, AtRuns DEF Running
  <2>2. ASSUME request_magic_link(s) PROVE NoDeletion
    BY <2>2, RowSettings, NothingDeleted DEF request_magic_link
  <2>3. ASSUME consume_magic_link(s) PROVE NoDeletion
    BY <2>1, <2>3, RowSettings, NothingDeleted DEF consume_magic_link, Check
  <2>4. ASSUME google_callback(s) PROVE NoDeletion
    <3>1. CASE \E u \in Users : upsert_by_email(u) /\ UNCHANGED dels
      BY <3>1, RowSettings
    <3>2. CASE UNCHANGED userVars
      BY <3>2, NothingDeleted
    <3>3. ASSUME At(s, "google_callback", "in"), UNCHANGED dels,
                 row' = [row EXCEPT ![h[s].u].admin = @ \/ h[s].u \in AdminEmails]
          PROVE  NoDeletion
      <4> DEFINE b == h[s].u \in AdminEmails
                 u == h[s].u
      <4>1. u \in Users /\ b \in BOOLEAN
        BY <2>1, <3>3
      <4>2. row' = [row EXCEPT ![u].admin = @ \/ b]
        BY <3>3
      <4> HIDE DEF b, u
      <4> QED BY <3>3, <4>1, <4>2, RowSettings
    <3> QED BY <2>4, <3>1, <3>2, <3>3 DEF google_callback
  <2>5. ASSUME freeze_user(s) \/ unfreeze_user(s) PROVE NoDeletion
    BY <2>1, <2>5, RowSettings, NothingDeleted DEF freeze_user, unfreeze_user, Check
  <2>6. ASSUME delete_user(s) \/ delete_account(s)
        PROVE  \/ NoDeletion
               \/ \E u \in Users : soft_delete_user(u) /\ Carry /\ UNCHANGED <<signVars, cliVars>>
    <3>1. Carry
      BY <2>6, AdminHandlersCarry
    <3>2. CASE UNCHANGED userVars
      BY <3>2, NothingDeleted
    <3>3. CASE soft_delete_user(h[s].u) /\ UNCHANGED <<signVars, cliVars>>
      <4>1. h[s].u \in Users
        BY <2>6, AdminHandlersCarry DEF Running
      <4> QED BY <3>1, <3>3, <4>1
    <3> QED BY <2>6, <3>2, <3>3 DEF delete_user, delete_account, Check
  <2>7. ASSUME impersonate_user(s) PROVE NoDeletion
    BY <2>7, NothingDeleted DEF impersonate_user, Check
  <2> QED BY <1>1, <2>2, <2>3, <2>4, <2>5, <2>6, <2>7 DEF UserStep
<1>2. ASSUME NEW s \in Slots, KeyStep(s) PROVE UNCHANGED userVars
  BY <1>2 DEF KeyStep, create_key, create_user_key, revoke_key, revoke_user_key, rotate_key,
     rotate_user_key, rotate_api_key, create_scope, create_user_scope, delete_scope,
     delete_user_scope, Check, CheckAdmin, KeyChange
<1>3. ASSUME NEW s \in Slots, \/ Enter(s) \/ write_audit(s) \/ Die(s) \/ cli_start(s)
                              \/ cli_authorize(s) \/ cli_exchange(s)
      PROVE  UNCHANGED userVars
  BY <1>3 DEF Enter, write_audit, Die, cli_start, cli_authorize, cli_exchange, Check
<1>4. ASSUME Next
      PROVE  \/ NoDeletion
             \/ \E u \in Users : soft_delete_user(u) /\ Carry /\ UNCHANGED <<signVars, cliVars>>
  <2>1. ASSUME Expire PROVE UNCHANGED userVars
    BY <2>1 DEF Expire
  <2> QED BY <1>1, <1>2, <1>3, <1>4, <2>1, NothingDeleted DEF Next
<1>5. ASSUME (\E s \in Slots : BucketStep(s)) \/ Gossip PROVE UNCHANGED userVars
  BY <1>5 DEF BucketStep, EnterBucket, create_bucket, archive_bucket, set_evm, purge_bucket,
     admin_purge_bucket, list_buckets, Gossip, Finish, KeepAll, KeepAccounts
<1>6. ASSUME UNCHANGED cpVars PROVE UNCHANGED userVars
  BY <1>6 DEF cpVars, dashVars, userVars
<1> QED BY <1>4, <1>5, <1>6, NothingDeleted DEF CpNext

-----------------------------------------------------------------------------
(* Deletion ends keys                                                      *)

\* The owner was alive after the handler's last look, unless deleted since.
SawAlive(v, users, count) ==
  v.seen <= count[v.u] /\ (users[v.u].deleted => v.seen < count[v.u])

AdminMakers == {"create_user_key", "rotate_user_key"}

\* What a handler may rely on when it writes keys.
KeyFits(v, table, users, count) ==
  /\ v.op \in OwnHandlers \cup AdminHandlers => v.k \in DOMAIN table
  /\ v.op \in {"create_key", "rotate_key"} => SawAlive(v, users, count)
  /\ v.op \in AdminMakers /\ v.st # "in" => SawAlive(v, users, count)
  /\ v.op = "cli_exchange" /\ v.st # "in" => v.by \in DOMAIN table /\ table[v.by].user = v.u

KeyRows ==
  \A i \in DOMAIN keys : ~keys[i].revoked =>
    /\ keys[i].born = dels[keys[i].user]
    /\ row[keys[i].user].deleted => keys[i].seen < dels[keys[i].user]

KeyInv == KeyRows /\ \A s \in Slots : h[s] \in Running => KeyFits(h[s], keys, row, dels)

KeysStay ==
  /\ keys' \in Seq(KeyRecord) /\ DOMAIN keys \subseteq DOMAIN keys'
  /\ \A i \in DOMAIN keys : keys'[i].user = keys[i].user

Edited ==
  \E i \in DOMAIN keys, r \in KeyRecord :
    /\ keys' = [keys EXCEPT ![i] = r] /\ r.user = keys[i].user /\ r.born = keys[i].born
    /\ ~r.revoked => /\ ~keys[i].revoked
                     /\ r.seen = keys[i].seen \/ (r.seen = dels[r.user] /\ ~row[r.user].deleted)

Made ==
  \E r \in KeyRecord :
    /\ keys' = Append(keys, r) /\ r.born = dels[r.user]
    /\ row[r.user].deleted => r.seen < dels[r.user]

LEMMA RowsSurviveEdits ==
  ASSUME TablesOK, KeyRows, Edited, UNCHANGED userVars
  PROVE  KeysStay /\ KeyRows'
<1>1. PICK i \in DOMAIN keys, r \in KeyRecord :
        /\ keys' = [keys EXCEPT ![i] = r] /\ r.user = keys[i].user /\ r.born = keys[i].born
        /\ ~r.revoked => /\ ~keys[i].revoked
                         /\ r.seen = keys[i].seen \/ (r.seen = dels[r.user] /\ ~row[r.user].deleted)
  BY DEF Edited
<1>2. keys \in Seq(KeyRecord) /\ i \in 1..Len(keys) /\ DOMAIN keys = 1..Len(keys)
  BY <1>1, LenProperties DEF TablesOK
<1>3. /\ keys' \in Seq(KeyRecord) /\ Len(keys') = Len(keys)
      /\ \A j \in 1..Len(keys) : keys'[j] = IF j = i THEN r ELSE keys[j]
  BY <1>1, <1>2, ExceptSeq
<1>4. DOMAIN keys' = DOMAIN keys /\ UNCHANGED <<row, dels>>
  BY <1>2, <1>3, LenProperties DEF userVars
<1>5. KeysStay
  BY <1>1, <1>2, <1>3, <1>4 DEF KeysStay
<1>6. KeyRows'
  <2> SUFFICES ASSUME NEW j \in DOMAIN keys, ~keys'[j].revoked
               PROVE  /\ keys'[j].born = dels[keys'[j].user]
                      /\ row[keys'[j].user].deleted => keys'[j].seen < dels[keys'[j].user]
    BY <1>4 DEF KeyRows
  <2>1. CASE j # i
    BY <1>2, <1>3, <2>1 DEF KeyRows
  <2>2. CASE j = i
    BY <1>1, <1>2, <1>3, <2>2 DEF KeyRows
  <2> QED BY <2>1, <2>2
<1> QED BY <1>5, <1>6

LEMMA RowsSurviveNewKeys ==
  ASSUME TablesOK, KeyRows, Made, UNCHANGED userVars
  PROVE  KeysStay /\ KeyRows' /\ Len(keys') = Len(keys) + 1
<1>1. PICK r \in KeyRecord :
        /\ keys' = Append(keys, r) /\ r.born = dels[r.user]
        /\ row[r.user].deleted => r.seen < dels[r.user]
  BY DEF Made
<1>2. keys \in Seq(KeyRecord) /\ DOMAIN keys = 1..Len(keys) /\ Len(keys) \in Nat
  BY LenProperties DEF TablesOK
<1>3. /\ keys' \in Seq(KeyRecord) /\ Len(keys') = Len(keys) + 1
      /\ \A j \in 1..Len(keys) : keys'[j] = keys[j]
      /\ keys'[Len(keys) + 1] = r
  BY <1>1, <1>2, AppendProperties
<1>4. DOMAIN keys' = 1..(Len(keys) + 1) /\ UNCHANGED <<row, dels>>
  BY <1>3, LenProperties DEF userVars
<1>5. KeysStay
  BY <1>2, <1>3, <1>4 DEF KeysStay
<1>6. KeyRows'
  <2> SUFFICES ASSUME NEW j \in 1..(Len(keys) + 1), ~keys'[j].revoked
               PROVE  /\ keys'[j].born = dels[keys'[j].user]
                      /\ row[keys'[j].user].deleted => keys'[j].seen < dels[keys'[j].user]
    BY <1>4 DEF KeyRows
  <2>1. CASE j \in 1..Len(keys)
    BY <1>2, <1>3, <2>1 DEF KeyRows
  <2>2. CASE j = Len(keys) + 1
    BY <1>1, <1>3, <2>2
  <2> QED BY <1>2, <2>1, <2>2
<1> QED BY <1>3, <1>5, <1>6

LEMMA RowsSurviveNothing ==
  ASSUME TablesOK, KeyRows, UNCHANGED keys, NoDeletion
  PROVE  KeysStay /\ KeyRows'
<1>1. KeysStay
  BY DEF KeysStay, TablesOK
<1>2. \A i \in DOMAIN keys : keys[i].user \in Users
  <2>1. keys \in [1..Len(keys) -> KeyRecord] /\ DOMAIN keys = 1..Len(keys)
    BY LenProperties DEF TablesOK
  <2> QED BY <2>1 DEF KeyRecord
<1>3. KeyRows'
  BY <1>2 DEF KeyRows, NoDeletion
<1> QED BY <1>1, <1>3

LEMMA RowsSurviveDeletion ==
  ASSUME TablesOK, KeyRows, NEW u \in Users, soft_delete_user(u)
  PROVE  /\ KeysStay /\ KeyRows'
         /\ row' \in [Users -> Row] /\ dels' \in [Users -> Nat]
         /\ \A x \in Users : /\ dels'[x] >= dels[x]
                             /\ row'[x].deleted => row[x].deleted \/ dels'[x] > dels[x]
<1>1. /\ keys \in Seq(KeyRecord) /\ DOMAIN keys = 1..Len(keys) /\ Len(keys) \in Nat
      /\ row \in [Users -> Row] /\ dels \in [Users -> Nat]
  BY LenProperties DEF TablesOK
<1>2. /\ keys' = [i \in 1..Len(keys) |-> [keys[i] EXCEPT !.revoked = @ \/ keys[i].user = u]]
      /\ row' = [row EXCEPT ![u].deleted = TRUE] /\ dels' = [dels EXCEPT ![u] = @ + 1]
  BY <1>1 DEF soft_delete_user, RevokedFor
<1>3. \A i \in 1..Len(keys) :
        /\ keys'[i] \in KeyRecord /\ keys'[i].user = keys[i].user /\ keys'[i].born = keys[i].born
        /\ keys'[i].seen = keys[i].seen
        /\ ~keys'[i].revoked => ~keys[i].revoked /\ keys[i].user # u
  <2> SUFFICES ASSUME NEW i \in 1..Len(keys)
               PROVE  /\ keys'[i] \in KeyRecord /\ keys'[i].user = keys[i].user
                      /\ keys'[i].born = keys[i].born /\ keys'[i].seen = keys[i].seen
                      /\ ~keys'[i].revoked => ~keys[i].revoked /\ keys[i].user # u
    OBVIOUS
  <2> DEFINE b == keys[i].revoked \/ keys[i].user = u
  <2>1. keys[i] \in KeyRecord /\ b \in BOOLEAN
    BY <1>1
  <2>2. keys'[i] = [keys[i] EXCEPT !.revoked = b]
    BY <1>2
  <2>3. ~b => ~keys[i].revoked /\ keys[i].user # u
    OBVIOUS
  <2> HIDE DEF b
  <2> QED BY <2>1, <2>2, <2>3 DEF KeyRecord
<1>4. keys' \in Seq(KeyRecord) /\ DOMAIN keys' = 1..Len(keys)
  <2>1. keys' \in [1..Len(keys) -> KeyRecord]
    BY <1>2, <1>3
  <2> QED BY <1>1, <2>1
<1>5. KeysStay
  BY <1>1, <1>3, <1>4 DEF KeysStay
<1>6. /\ row' \in [Users -> Row] /\ dels' \in [Users -> Nat]
      /\ \A x \in Users \ {u} : row'[x] = row[x] /\ dels'[x] = dels[x]
      /\ dels'[u] = dels[u] + 1
  <2>1. [row[u] EXCEPT !.deleted = TRUE] \in Row
    BY <1>1 DEF Row
  <2>2. row' = [row EXCEPT ![u] = [row[u] EXCEPT !.deleted = TRUE]]
    BY <1>2
  <2> QED BY <1>1, <1>2, <2>1, <2>2
<1>7. KeyRows'
  <2> SUFFICES ASSUME NEW i \in 1..Len(keys), ~keys'[i].revoked
               PROVE  /\ keys'[i].born = dels'[keys'[i].user]
                      /\ row'[keys'[i].user].deleted => keys'[i].seen < dels'[keys'[i].user]
    BY <1>4 DEF KeyRows
  <2>1. keys[i].user \in Users \ {u} /\ ~keys[i].revoked
    BY <1>1, <1>3 DEF KeyRecord
  <2>2. /\ keys[i].born = dels[keys[i].user]
        /\ row[keys[i].user].deleted => keys[i].seen < dels[keys[i].user]
    BY <1>1, <2>1 DEF KeyRows
  <2> QED BY <1>3, <1>6, <2>1, <2>2
<1> QED BY <1>1, <1>5, <1>6, <1>7

\* Deletions so far only grow, and a user newly marked has one more.
DeletionsCount ==
  /\ dels' \in [Users -> Nat]
  /\ \A x \in Users : /\ dels'[x] >= dels[x]
                      /\ row'[x].deleted => row[x].deleted \/ dels'[x] > dels[x]

LEMMA NoDeletionCounts ==
  ASSUME TablesOK, NoDeletion
  PROVE  DeletionsCount
BY DEF TablesOK, NoDeletion, DeletionsCount

LEMMA FitsLater ==
  ASSUME TablesOK, KeysStay, DeletionsCount, NEW v \in Running, Shaped(v),
         KeyFits(v, keys, row, dels)
  PROVE  KeyFits(v, keys', row', dels')
<1>1. v.u \in Users /\ dels[v.u] \in Nat /\ dels'[v.u] \in Nat
  BY DEF Running, TablesOK, DeletionsCount
<1>2. ASSUME v.seen \in Nat, SawAlive(v, row, dels) PROVE SawAlive(v, row', dels')
  BY <1>1, <1>2 DEF SawAlive, DeletionsCount
<1>3. v.op \in OwnHandlers \cup AdminHandlers => v.k \in DOMAIN keys'
  BY DEF KeyFits, KeysStay
<1>4. v.op \in {"create_key", "rotate_key"} => SawAlive(v, row', dels')
  BY <1>2 DEF KeyFits, Shaped, OwnHandlers
<1>5. v.op \in AdminMakers /\ v.st # "in" => SawAlive(v, row', dels')
  BY <1>2 DEF KeyFits, Shaped, AdminMakers, AdminHandlers
<1>6. v.op = "cli_exchange" /\ v.st # "in" => v.by \in DOMAIN keys' /\ keys'[v.by].user = v.u
  BY DEF KeyFits, KeysStay
<1> QED BY <1>3, <1>4, <1>5, <1>6 DEF KeyFits

\* A step of one slot keeps the invariant if it does for that slot.
LEMMA OneSlot ==
  ASSUME HandlersOK, TablesOK, KeyInv, KeysStay, DeletionsCount, KeyRows',
         NEW s \in Slots, \A r \in Slots \ {s} : h'[r] = h[r],
         h'[s] \in Running => KeyFits(h'[s], keys', row', dels')
  PROVE  KeyInv'
<1>1. \A r \in Slots : h[r] \in Running => KeyFits(h[r], keys', row', dels')
  BY FitsLater DEF HandlersOK, KeyInv
<1>2. \A r \in Slots : h'[r] \in Running => KeyFits(h'[r], keys', row', dels')
  BY <1>1
<1> QED BY <1>2 DEF KeyInv

LEMMA GoKeepsKeys ==
  ASSUME HandlersOK, TablesOK, KeyInv, KeysStay, DeletionsCount, KeyRows',
         NEW s \in Slots, h[s] # Idle, NEW st \in Stages \cup {"idle"}, Go(s, st),
         h[s].op \in AdminMakers \cup {"cli_exchange"} => h[s].st # "in" \/ st = "idle"
  PROVE  KeyInv'
<1>1. /\ \A r \in Slots \ {s} : h'[r] = h[r]
      /\ IF st = "idle" THEN h'[s] = Idle
         ELSE /\ h'[s] \in Running /\ h'[s].st = st /\ h'[s].op = h[s].op
              /\ h'[s].by = h[s].by /\ h'[s].u = h[s].u /\ h'[s].k = h[s].k
              /\ h'[s].seen = h[s].seen
  BY GoOn
<1>2. h[s] \in Running /\ Shaped(h[s]) /\ KeyFits(h[s], keys, row, dels)
  BY IdleIsNotRunning DEF HandlersOK, KeyInv
<1>3. KeyFits(h[s], keys', row', dels')
  BY <1>2, FitsLater
<1>4. h'[s] \in Running => KeyFits(h'[s], keys', row', dels')
  BY <1>1, <1>3, IdleIsNotRunning DEF KeyFits, SawAlive
<1> QED BY <1>1, <1>4, OneSlot

LEMMA BeginsKeepsKeys ==
  ASSUME HandlersOK, TablesOK, KeyInv, UNCHANGED keys, NoDeletion, NEW s \in Slots, Begins(s),
         h'[s].op \in OwnHandlers \cup AdminHandlers \cup {"cli_exchange"} => h'[s].st = "in",
         h'[s].op \in OwnHandlers \cup AdminHandlers => h'[s].k \in DOMAIN keys,
         h'[s].op \in OwnHandlers => ~row'[h'[s].u].deleted /\ h'[s].seen = dels[h'[s].u]
  PROVE  KeyInv'
<1>1. KeysStay /\ KeyRows' /\ DeletionsCount
  BY RowsSurviveNothing, NoDeletionCounts DEF KeyInv
<1>2. UNCHANGED dels /\ h'[s] \in Running /\ \A r \in Slots \ {s} : h'[r] = h[r]
  BY DEF NoDeletion, Begins
<1>3. dels[h'[s].u] \in Nat
  BY <1>2 DEF TablesOK, Running
<1>4. KeyFits(h'[s], keys', row', dels')
  BY <1>2, <1>3 DEF KeyFits, SawAlive, AdminMakers, OwnHandlers, AdminHandlers
<1> QED BY <1>1, <1>2, <1>4, OneSlot

LEMMA KeyIsRecord ==
  ASSUME TablesOK, NEW u \in Users, NEW set \in SUBSET {FullBucketScope, ControlScope},
         NEW seen \in Int, NEW revealed \in BOOLEAN
  PROVE  /\ Key(u, set, seen, revealed) \in KeyRecord
         /\ Key(u, set, seen, revealed).user = u /\ Key(u, set, seen, revealed).born = dels[u]
         /\ Key(u, set, seen, revealed).seen = seen
<1>1. dels[u] \in Nat /\ Never \in Instants
  BY DEF TablesOK, Instants
<1> QED BY <1>1 DEF Key, KeyRecord

LEMMA IssueMakes ==
  ASSUME TablesOK, NEW s \in Slots, h[s] \in Running, h[s].seen \in Nat,
         SawAlive(h[s], row, dels), NEW set \in SUBSET {FullBucketScope, ControlScope},
         keys' = issue_api_key_with_scopes(s, set)
  PROVE  Made
<1> DEFINE u == h[s].u
           seen == h[s].seen
           r == Key(u, set, seen, TRUE)
<1>1. u \in Users /\ seen \in Int
  BY DEF Running
<1>2. r \in KeyRecord /\ r.user = u /\ r.born = dels[u] /\ r.seen = seen
  <2> HIDE DEF u, seen
  <2> QED BY <1>1, KeyIsRecord
<1>3. keys' = Append(keys, r)
  BY DEF issue_api_key_with_scopes
<1>4. row[u].deleted => seen < dels[u]
  BY DEF SawAlive
<1> HIDE DEF r
<1> QED BY <1>2, <1>3, <1>4 DEF Made

LEMMA ChangeEdits ==
  ASSUME TablesOK, NEW i \in DOMAIN keys, NEW scope \in {FullBucketScope, ControlScope},
         keys' = revoke_api_key(i) \/ keys' = WithScope(i, scope) \/ keys' = WithoutScope(i, scope)
  PROVE  Edited
<1>1. keys[i] \in KeyRecord
  BY LenProperties DEF TablesOK
<1>2. ASSUME NEW r \in KeyRecord, keys' = [keys EXCEPT ![i] = r], r.user = keys[i].user,
             r.born = keys[i].born, r.seen = keys[i].seen, ~r.revoked => ~keys[i].revoked
      PROVE  Edited
  BY <1>2 DEF Edited
<1>3. ASSUME keys' = revoke_api_key(i) PROVE Edited
  <2> DEFINE r == [keys[i] EXCEPT !.revoked = TRUE]
  <2>1. /\ r \in KeyRecord /\ r.user = keys[i].user /\ r.born = keys[i].born
        /\ r.seen = keys[i].seen /\ r.revoked = TRUE
    BY <1>1 DEF KeyRecord
  <2>2. keys' = [keys EXCEPT ![i] = r]
    BY <1>3 DEF revoke_api_key
  <2> HIDE DEF r
  <2> QED BY <1>2, <2>1, <2>2
<1>4. ASSUME NEW set \in SUBSET {FullBucketScope, ControlScope},
             keys' = [keys EXCEPT ![i] = [keys[i] EXCEPT !.scopes = set]]
      PROVE  Edited
  <2> DEFINE r == [keys[i] EXCEPT !.scopes = set]
  <2>1. /\ r \in KeyRecord /\ r.user = keys[i].user /\ r.born = keys[i].born
        /\ r.seen = keys[i].seen /\ r.revoked = keys[i].revoked
    BY <1>1 DEF KeyRecord
  <2>2. keys' = [keys EXCEPT ![i] = r]
    BY <1>4
  <2> HIDE DEF r
  <2> QED BY <1>2, <2>1, <2>2
<1>5. keys[i].scopes \in SUBSET {FullBucketScope, ControlScope}
  BY <1>1 DEF KeyRecord
<1>6. ASSUME keys' = WithScope(i, scope) PROVE Edited
  <2>1. keys' = [keys EXCEPT ![i] = [keys[i] EXCEPT !.scopes = keys[i].scopes \cup {scope}]]
    BY <1>6 DEF WithScope
  <2>2. keys[i].scopes \cup {scope} \in SUBSET {FullBucketScope, ControlScope}
    BY <1>5
  <2> QED BY <1>4, <2>1, <2>2
<1>7. ASSUME keys' = WithoutScope(i, scope) PROVE Edited
  <2>1. keys' = [keys EXCEPT ![i] = [keys[i] EXCEPT !.scopes = keys[i].scopes \ {scope}]]
    BY <1>7 DEF WithoutScope
  <2>2. keys[i].scopes \ {scope} \in SUBSET {FullBucketScope, ControlScope}
    BY <1>5
  <2> QED BY <1>4, <2>1, <2>2
<1> QED BY <1>3, <1>6, <1>7

\* The writes of the handlers that change keys.
LEMMA KeyChangeKeeps ==
  ASSUME HandlersOK, TablesOK, KeyInv, NEW s \in Slots, h[s] # Idle,
         h[s].op \in OwnHandlers \cup AdminHandlers, NEW st \in Stages \cup {"idle"}, Go(s, st),
         h[s].op \in AdminMakers => h[s].st # "in", UNCHANGED userVars,
         \/ UNCHANGED keys
         \/ keys' = revoke_api_key(h[s].k)
         \/ \E scope \in {FullBucketScope, ControlScope} :
              keys' = WithScope(h[s].k, scope) \/ keys' = WithoutScope(h[s].k, scope)
         \/ h[s].op \in KeyMakers /\ \E set \in SUBSET {FullBucketScope, ControlScope} :
                                       keys' = issue_api_key_with_scopes(s, set)
  PROVE  KeyInv' /\ keys' \in Seq(KeyRecord)
<1>1. h[s] \in Running /\ Shaped(h[s]) /\ KeyFits(h[s], keys, row, dels)
  BY IdleIsNotRunning DEF HandlersOK, KeyInv
<1>2. NoDeletion /\ DeletionsCount
  BY NothingDeleted, NoDeletionCounts
<1>3. UNCHANGED keys \/ Edited \/ Made
  <2>1. h[s].k \in DOMAIN keys
    BY <1>1 DEF KeyFits
  <2>2. ASSUME h[s].op \in KeyMakers PROVE h[s].seen \in Nat /\ SawAlive(h[s], row, dels)
    BY <1>1, <2>2 DEF KeyMakers, KeyFits, Shaped, AdminMakers, OwnHandlers, AdminHandlers
  <2> QED BY <1>1, <2>1, <2>2, ChangeEdits, IssueMakes
<1>4. KeysStay /\ KeyRows'
  BY <1>2, <1>3, RowsSurviveNothing, RowsSurviveEdits, RowsSurviveNewKeys DEF KeyInv
<1>5. h[s].op # "cli_exchange"
  BY DEF OwnHandlers, AdminHandlers
<1>6. KeyInv'
  BY <1>2, <1>4, <1>5, GoKeepsKeys
<1> QED BY <1>4, <1>6 DEF KeysStay

-----------------------------------------------------------------------------
(* A link signs in once                                                    *)

\* The handlers go on, or one starts that uses no link and no device code.
Undisturbed ==
  Carry \/ \E s \in Slots : Begins(s) /\ h'[s].op \notin {"consume", "cli_exchange"}

LEMMA QuietSteps ==
  ASSUME HandlersOK, TablesOK, [CpNext]_cpVars
  PROVE  \/ Undisturbed
         \/ \E s \in Slots : consume_magic_link(s) /\ UNCHANGED regVars
         \/ \E s \in Slots : cli_exchange(s) /\ UNCHANGED regVars
<1> USE DEF Undisturbed
<1>1. ASSUME UNCHANGED h PROVE Undisturbed
  BY <1>1 DEF Carry, Carries
<1>2. ASSUME NEW s \in Slots, UserStep(s), ~consume_magic_link(s) PROVE Undisturbed
  BY <1>2, RequestHandlers, GoogleHandlers, AdminHandlersCarry DEF UserStep
<1>3. ASSUME NEW s \in Slots, \/ Enter(s) \/ KeyStep(s) \/ write_audit(s) \/ Die(s) \/ cli_start(s)
                              \/ cli_authorize(s)
      PROVE  Undisturbed
  <2>1. CASE Enter(s)
    BY <2>1, EnterBegins DEF OwnHandlers, AdminHandlers
  <2>2. CASE cli_start(s)
    BY <1>1, <2>2 DEF cli_start
  <2> QED BY <1>3, <2>1, <2>2, KeyStepCarries, EndHandlersCarry
<1>4. ASSUME Next, UNCHANGED regVars
      PROVE  \/ Undisturbed
             \/ \E s \in Slots : consume_magic_link(s) /\ UNCHANGED regVars
             \/ \E s \in Slots : cli_exchange(s) /\ UNCHANGED regVars
  <2>1. CASE Expire
    BY <1>1, <2>1 DEF Expire
  <2>2. ASSUME NEW s \in Slots, UserStep(s)
        PROVE  Undisturbed \/ (consume_magic_link(s) /\ UNCHANGED regVars)
    BY <1>2, <1>4, <2>2
  <2> QED BY <1>3, <1>4, <2>1, <2>2 DEF Next
<1>5. ASSUME NEW s \in Slots, BucketStep(s) PROVE Undisturbed
  <2>1. CASE EnterBucket(s)
    BY <2>1, BucketHandlersBegin DEF BucketHandlers
  <2> QED BY <1>5, <2>1, BucketStepsCarry, AdminPurgeCarries, ListCarries DEF BucketStep
<1>6. ASSUME Gossip \/ UNCHANGED cpVars PROVE Undisturbed
  BY <1>1, <1>6 DEF Gossip, cpVars, dashVars
<1> QED BY <1>4, <1>5, <1>6 DEF CpNext

LinksKept ==
  /\ UNCHANGED <<magic, asked, signed>>
  /\ Carry \/ \E s \in Slots : Begins(s) /\ h'[s].op # "consume"
LinkSaved ==
  \E b \in Browsers, u \in Users :
    /\ asked' = Append(asked, b)
    /\ magic' = magic \cup {[hash |-> <<Len(asked) + 1, b>>, user |-> u]}
    /\ UNCHANGED signed /\ Carry
LinkTaken ==
  \E s \in Slots, link \in magic :
    /\ magic' = magic \ {link} /\ UNCHANGED <<asked, signed>>
    /\ Begins(s) /\ h'[s].op = "consume" /\ h'[s].k = link.hash
LinkUsed ==
  \E s \in Slots :
    /\ h[s] \in Running /\ h[s].op = "consume" /\ h'[s] = Idle
    /\ signed' = Append(signed, h[s].k) /\ UNCHANGED <<magic, asked>> /\ Carry

LEMMA ConsumeEffects ==
  ASSUME HandlersOK, TablesOK, NEW s \in Slots, consume_magic_link(s)
  PROVE  LinksKept \/ LinkTaken \/ LinkUsed
<1>1. ASSUME NEW link \in magic, NEW token \in DOMAIN asked, NEW b \in Browsers,
             link.hash = hash_token(token, b), magic' = GetDel(link), UNCHANGED <<asked, signed>>,
             Start(s, [Handler("consume", link.user, link.user, <<token, b>>) EXCEPT !.st = "in"])
      PROVE  LinkTaken
  <2>1. Begins(s) /\ h'[s].op = "consume" /\ h'[s].k = <<token, b>>
    BY <1>1, ConsumeStarts
  <2> QED BY <1>1, <2>1 DEF LinkTaken, GetDel, hash_token
<1>2. ASSUME NEW st, At(s, "consume", st), Moves(s), UNCHANGED <<magic, asked, signed>>
      PROVE  LinksKept
  BY <1>2, MovesCarry, AtRuns DEF LinksKept
<1>3. ASSUME NEW st, At(s, "consume", st), Go(s, "idle"), UNCHANGED <<magic, asked>>,
             signed' = Append(signed, h[s].k)
      PROVE  LinkUsed
  BY <1>3, AtRuns, GoOn DEF LinkUsed
<1>4. CASE \E st : At(s, "consume", st) /\ Moves(s) /\ UNCHANGED <<magic, asked, signed>>
  BY <1>2, <1>4
<1>5. CASE \E st : /\ At(s, "consume", st) /\ Go(s, "idle") /\ UNCHANGED <<magic, asked>>
                   /\ signed' = Append(signed, h[s].k)
  BY <1>3, <1>5
<1> QED BY <1>1, <1>4, <1>5 DEF consume_magic_link, Check, Moves, Stages, signVars

LEMMA SignEffects ==
  ASSUME HandlersOK, TablesOK, [CpNext]_cpVars
  PROVE  LinksKept \/ LinkSaved \/ LinkTaken \/ LinkUsed
<1> DEFINE Kept == UNCHANGED <<magic, asked, signed>>
<1>1. ASSUME NEW s \in Slots, request_magic_link(s) PROVE Kept \/ LinkSaved
  <2>1. ASSUME At(s, "request", "in"), asked' = Append(asked, h[s].k), Go(s, "idle"),
               SaveLink(hash_token(Len(asked'), h[s].k), h[s].u), UNCHANGED signed
        PROVE  LinkSaved
    <3>1. h[s] \in Running /\ Shaped(h[s]) /\ h[s].op = "request"
      BY <2>1, AtRuns DEF HandlersOK
    <3>2. h[s].u \in Users /\ h[s].k \in Browsers
      BY <3>1 DEF Running, Shaped
    <3>3. Len(asked') = Len(asked) + 1
      BY <2>1, <3>2, AppendProperties DEF TablesOK
    <3>4. Carry
      BY <2>1, <3>1, IdleIsNotRunning, GoOn
    <3> QED BY <2>1, <3>2, <3>3, <3>4 DEF LinkSaved, SaveLink, hash_token
  <2> QED BY <1>1, <2>1 DEF request_magic_link, signVars
<1>2. ASSUME NEW s \in Slots, \/ google_callback(s) \/ freeze_user(s) \/ unfreeze_user(s)
                              \/ delete_user(s) \/ delete_account(s) \/ impersonate_user(s)
      PROVE  Kept
  BY <1>2 DEF google_callback, freeze_user, unfreeze_user, delete_user, delete_account,
     impersonate_user, Check, signVars
<1>3. ASSUME NEW s \in Slots, KeyStep(s) PROVE Kept
  BY <1>3 DEF KeyStep, create_key, create_user_key, revoke_key, revoke_user_key, rotate_key,
     rotate_user_key, rotate_api_key, create_scope, create_user_scope, delete_scope,
     delete_user_scope, Check, CheckAdmin, KeyChange, signVars
<1>4. ASSUME NEW s \in Slots, \/ Enter(s) \/ write_audit(s) \/ Die(s) \/ cli_start(s)
                              \/ cli_authorize(s) \/ cli_exchange(s)
      PROVE  Kept
  BY <1>4 DEF Enter, write_audit, Die, cli_start, cli_authorize, cli_exchange, Check, signVars
<1>5. ASSUME Next
      PROVE  Kept \/ LinkSaved \/ \E s \in Slots : consume_magic_link(s)
  <2>1. ASSUME Expire PROVE Kept
    BY <2>1 DEF Expire, signVars
  <2> QED BY <1>1, <1>2, <1>3, <1>4, <1>5, <2>1 DEF Next, UserStep
<1>6. ASSUME (\E s \in Slots : BucketStep(s)) \/ Gossip PROVE Kept
  BY <1>6 DEF BucketStep, EnterBucket, create_bucket, archive_bucket, set_evm, purge_bucket,
     admin_purge_bucket, list_buckets, Gossip, Finish, KeepAll, KeepAccounts, signVars
<1>7. ASSUME UNCHANGED cpVars PROVE Kept
  BY <1>7 DEF cpVars, dashVars
<1>8. ASSUME NEW s \in Slots, cli_exchange(s) PROVE LinksKept
  <2>1. Carry \/ (Begins(s) /\ h'[s].op = "cli_exchange")
    BY <1>8, ExchangeHandlers
  <2> QED BY <1>4, <1>8, <2>1 DEF LinksKept
<1>9. Kept => LinksKept \/ \E s \in Slots : consume_magic_link(s)
  <2> HIDE DEF Kept
  <2> QED BY <1>8, QuietSteps DEF LinksKept, Kept, Undisturbed
<1> HIDE DEF Kept
<1> QED BY <1>5, <1>6, <1>7, <1>9, ConsumeEffects DEF CpNext

Consumes(v) == v \in Running /\ v.op = "consume"

\* Each link is in one place: in Redis, with the handler that took it, or used;
\* and it was asked for from the browser its hash names.
AskedFrom(x, table) == x[1] \in DOMAIN table /\ table[x[1]] = x[2]
InRedis ==
  \A l \in magic : AskedFrom(l.hash, asked) /\ \A m \in magic : l.hash[1] = m.hash[1] => l = m
InSigned ==
  \A i \in DOMAIN signed :
    /\ AskedFrom(signed[i], asked)
    /\ \A l \in magic : l.hash[1] # signed[i][1]
    /\ \A j \in DOMAIN signed : signed[i][1] = signed[j][1] => i = j
InHandler ==
  \A s \in Slots : Consumes(h[s]) =>
    /\ AskedFrom(h[s].k, asked)
    /\ \A l \in magic : l.hash[1] # h[s].k[1]
    /\ \A i \in DOMAIN signed : signed[i][1] # h[s].k[1]
    /\ \A r \in Slots : Consumes(h[r]) /\ h[r].k[1] = h[s].k[1] => r = s
LinkInv == InRedis /\ InSigned /\ InHandler

LEMMA CarryConsumes ==
  ASSUME HandlersOK, Carry, NEW s \in Slots, Consumes(h'[s])
  PROVE  Consumes(h[s]) /\ h'[s].k = h[s].k
<1>1. Carries(h[s], h'[s]) /\ h'[s] # Idle
  BY IdleIsNotRunning DEF Carry, Consumes
<1> QED BY <1>1 DEF Carries, Consumes

LEMMA LinkInvKept ==
  ASSUME HandlersOK, LinkInv, LinksKept
  PROVE  LinkInv'
<1>1. \A s \in Slots : Consumes(h'[s]) => Consumes(h[s]) /\ h'[s].k = h[s].k
  <2>1. CASE Carry
    BY <2>1, CarryConsumes
  <2>2. CASE \E s \in Slots : Begins(s) /\ h'[s].op # "consume"
    BY <2>2 DEF Begins, Consumes
  <2> QED BY <2>1, <2>2 DEF LinksKept
<1>2. UNCHANGED <<magic, asked, signed>>
  BY DEF LinksKept
<1>3. \A s \in Slots : Consumes(h'[s]) =>
        /\ AskedFrom(h'[s].k, asked)
        /\ \A l \in magic : l.hash[1] # h'[s].k[1]
        /\ \A i \in DOMAIN signed : signed[i][1] # h'[s].k[1]
        /\ \A r \in Slots : Consumes(h'[r]) /\ h'[r].k[1] = h'[s].k[1] => r = s
  BY <1>1 DEF LinkInv, InHandler
<1> QED BY <1>2, <1>3 DEF LinkInv, InRedis, InSigned, InHandler, Consumes

LEMMA LinkInvSaved ==
  ASSUME HandlersOK, TablesOK, LinkInv, LinkSaved
  PROVE  LinkInv' /\ asked' \in Seq(Browsers) /\ magic' \subseteq Link
<1>1. PICK b \in Browsers, u \in Users :
        /\ asked' = Append(asked, b)
        /\ magic' = magic \cup {[hash |-> <<Len(asked) + 1, b>>, user |-> u]}
        /\ UNCHANGED signed /\ Carry
  BY DEF LinkSaved
<1> DEFINE n == Len(asked) + 1
           new == [hash |-> <<n, b>>, user |-> u]
<1>2. /\ asked' \in Seq(Browsers) /\ DOMAIN asked' = DOMAIN asked \cup {n} /\ n \notin DOMAIN asked
      /\ asked'[n] = b /\ \A i \in DOMAIN asked : asked'[i] = asked[i]
      /\ n \in Nat
  <2>1. asked \in Seq(Browsers) /\ DOMAIN asked = 1..Len(asked) /\ Len(asked) \in Nat
    BY LenProperties DEF TablesOK
  <2>2. /\ asked' \in Seq(Browsers) /\ Len(asked') = Len(asked) + 1 /\ asked'[Len(asked) + 1] = b
        /\ \A i \in 1..Len(asked) : asked'[i] = asked[i]
    BY <1>1, <2>1, AppendProperties
  <2>3. DOMAIN asked' = 1..(Len(asked) + 1)
    BY <2>2, LenProperties
  <2> QED BY <2>1, <2>2, <2>3
<1>3. /\ new \in Link /\ new.hash[1] = n /\ new.hash[2] = b /\ magic' = magic \cup {new}
      /\ UNCHANGED signed
  BY <1>1, <1>2 DEF Link
<1> HIDE DEF n, new
<1>4. ASSUME NEW x, AskedFrom(x, asked) PROVE AskedFrom(x, asked') /\ x[1] # n
  BY <1>2, <1>4 DEF AskedFrom
<1>5. \A s \in Slots : Consumes(h'[s]) => Consumes(h[s]) /\ h'[s].k = h[s].k
  BY <1>1, CarryConsumes
<1>6. AskedFrom(new.hash, asked')
  BY <1>2, <1>3 DEF AskedFrom, new
<1>7. \A l \in magic' : l \in magic \/ l = new
  BY <1>3
<1>8. \A l \in magic : AskedFrom(l.hash, asked') /\ l.hash[1] # n
  BY <1>4 DEF LinkInv, InRedis
<1>9. \A i \in DOMAIN signed : AskedFrom(signed[i], asked') /\ signed[i][1] # n
  BY <1>4 DEF LinkInv, InSigned
<1>10. \A s \in Slots : Consumes(h'[s]) => AskedFrom(h'[s].k, asked') /\ h'[s].k[1] # n
  BY <1>4, <1>5 DEF LinkInv, InHandler
<1>11. InRedis'
  BY <1>3, <1>6, <1>7, <1>8 DEF LinkInv, InRedis
<1>12. InSigned'
  BY <1>3, <1>7, <1>9 DEF LinkInv, InSigned
<1>13. InHandler'
  <2> SUFFICES ASSUME NEW s \in Slots, Consumes(h'[s])
               PROVE  /\ AskedFrom(h'[s].k, asked')
                      /\ \A l \in magic' : l.hash[1] # h'[s].k[1]
                      /\ \A i \in DOMAIN signed' : signed'[i][1] # h'[s].k[1]
                      /\ \A r \in Slots : Consumes(h'[r]) /\ h'[r].k[1] = h'[s].k[1] => r = s
    BY DEF InHandler, Consumes
  <2> QED BY <1>3, <1>5, <1>7, <1>10 DEF LinkInv, InHandler
<1> QED BY <1>2, <1>3, <1>11, <1>12, <1>13 DEF LinkInv, TablesOK

LEMMA LinkInvTaken ==
  ASSUME HandlersOK, TablesOK, LinkInv, LinkTaken
  PROVE  LinkInv' /\ UNCHANGED <<asked, signed>> /\ magic' \subseteq Link
<1>1. PICK s \in Slots, link \in magic :
        /\ magic' = magic \ {link} /\ UNCHANGED <<asked, signed>>
        /\ Begins(s) /\ h'[s].op = "consume" /\ h'[s].k = link.hash
  BY DEF LinkTaken
<1>2. InRedis' /\ InSigned' /\ magic' \subseteq Link
  BY <1>1 DEF LinkInv, InRedis, InSigned, TablesOK
<1>3. \A r \in Slots : Consumes(h'[r]) => r = s \/ (Consumes(h[r]) /\ h'[r] = h[r])
  BY <1>1 DEF Begins
<1>4. \A r \in Slots : Consumes(h[r]) => h[r].k[1] # link.hash[1]
  BY <1>1 DEF LinkInv, InHandler
<1>5. /\ AskedFrom(link.hash, asked')
      /\ \A l \in magic' : l.hash[1] # link.hash[1]
      /\ \A i \in DOMAIN signed' : signed'[i][1] # link.hash[1]
  BY <1>1 DEF LinkInv, InRedis, InSigned
<1>6. InHandler'
  <2> SUFFICES ASSUME NEW r \in Slots, Consumes(h'[r])
               PROVE  /\ AskedFrom(h'[r].k, asked')
                      /\ \A l \in magic' : l.hash[1] # h'[r].k[1]
                      /\ \A i \in DOMAIN signed' : signed'[i][1] # h'[r].k[1]
                      /\ \A x \in Slots : Consumes(h'[x]) /\ h'[x].k[1] = h'[r].k[1] => x = r
    BY DEF InHandler, Consumes
  <2>1. CASE r = s
    BY <1>1, <1>3, <1>4, <1>5, <2>1
  <2>2. CASE r # s
    BY <1>1, <1>3, <1>4, <2>2 DEF LinkInv, InHandler
  <2> QED BY <2>1, <2>2
<1> QED BY <1>1, <1>2, <1>6 DEF LinkInv

LEMMA LinkInvUsed ==
  ASSUME HandlersOK, TablesOK, LinkInv, LinkUsed
  PROVE  LinkInv' /\ UNCHANGED <<asked, magic>> /\ signed' \in Seq(Nat \X Browsers)
<1>1. PICK s \in Slots :
        /\ h[s] \in Running /\ h[s].op = "consume" /\ h'[s] = Idle
        /\ signed' = Append(signed, h[s].k) /\ UNCHANGED <<magic, asked>> /\ Carry
  BY DEF LinkUsed
<1> DEFINE n == Len(signed) + 1
           x == h[s].k
<1>2. Consumes(h[s]) /\ x \in Nat \X Browsers
  BY <1>1 DEF Consumes, HandlersOK, Shaped
<1>3. /\ signed' \in Seq(Nat \X Browsers) /\ DOMAIN signed' = DOMAIN signed \cup {n}
      /\ signed'[n] = x /\ \A i \in DOMAIN signed : signed'[i] = signed[i] /\ i # n
  <2>1. signed \in Seq(Nat \X Browsers) /\ DOMAIN signed = 1..Len(signed) /\ Len(signed) \in Nat
    BY LenProperties DEF TablesOK
  <2> HIDE DEF x
  <2>2. /\ signed' \in Seq(Nat \X Browsers) /\ Len(signed') = Len(signed) + 1
        /\ signed'[Len(signed) + 1] = x
        /\ \A i \in 1..Len(signed) : signed'[i] = signed[i]
    BY <1>1, <1>2, <2>1, AppendProperties DEF x
  <2>3. DOMAIN signed' = 1..(Len(signed) + 1)
    BY <2>2, LenProperties
  <2> QED BY <2>1, <2>2, <2>3
<1> HIDE DEF n, x
<1>4. \A r \in Slots : Consumes(h'[r]) => r # s /\ Consumes(h[r]) /\ h'[r].k = h[r].k
  BY <1>1, CarryConsumes, IdleIsNotRunning DEF Consumes
<1>5. /\ AskedFrom(x, asked)
      /\ \A l \in magic : l.hash[1] # x[1]
      /\ \A i \in DOMAIN signed : signed[i][1] # x[1]
      /\ \A r \in Slots : Consumes(h[r]) /\ r # s => h[r].k[1] # x[1]
  BY <1>2 DEF LinkInv, InHandler, x
<1>6. InRedis'
  BY <1>1 DEF LinkInv, InRedis
<1>7. InSigned'
  BY <1>1, <1>3, <1>5 DEF LinkInv, InSigned
<1>8. InHandler'
  <2> SUFFICES ASSUME NEW r \in Slots, Consumes(h'[r])
               PROVE  /\ AskedFrom(h'[r].k, asked')
                      /\ \A l \in magic' : l.hash[1] # h'[r].k[1]
                      /\ \A i \in DOMAIN signed' : signed'[i][1] # h'[r].k[1]
                      /\ \A y \in Slots : Consumes(h'[y]) /\ h'[y].k[1] = h'[r].k[1] => y = r
    BY DEF InHandler, Consumes
  <2>1. /\ AskedFrom(h[r].k, asked) /\ \A l \in magic : l.hash[1] # h[r].k[1]
        /\ \A i \in DOMAIN signed : signed[i][1] # h[r].k[1]
        /\ \A y \in Slots : Consumes(h[y]) /\ h[y].k[1] = h[r].k[1] => y = r
    BY <1>4 DEF LinkInv, InHandler
  <2> QED BY <1>1, <1>3, <1>4, <1>5, <2>1
<1> QED BY <1>1, <1>3, <1>6, <1>7, <1>8 DEF LinkInv

\* The links, and the tables of sign-in, over every step.
LEMMA LinkStep ==
  ASSUME HandlersOK, TablesOK, LinkInv, [CpNext]_cpVars
  PROVE  /\ LinkInv' /\ asked' \in Seq(Browsers) /\ magic' \subseteq Link
         /\ signed' \in Seq(Nat \X Browsers)
<1>1. ASSUME LinksKept
      PROVE  /\ LinkInv' /\ asked' \in Seq(Browsers) /\ magic' \subseteq Link
             /\ signed' \in Seq(Nat \X Browsers)
  BY <1>1, LinkInvKept DEF LinksKept, TablesOK
<1>2. ASSUME LinkSaved PROVE signed' \in Seq(Nat \X Browsers)
  BY <1>2 DEF LinkSaved, TablesOK
<1>3. ASSUME LinkTaken \/ LinkUsed
      PROVE  /\ LinkInv' /\ asked' \in Seq(Browsers) /\ magic' \subseteq Link
             /\ signed' \in Seq(Nat \X Browsers)
  BY <1>3, LinkInvTaken, LinkInvUsed DEF TablesOK
<1> QED BY <1>1, <1>2, <1>3, SignEffects, LinkInvSaved

-----------------------------------------------------------------------------
(* A device code is its owner's                                            *)

CodesKept ==
  /\ UNCHANGED <<shown, spent, minted>> /\ (UNCHANGED cli \/ cli'.st # "authorized")
  /\ Carry \/ \E s \in Slots : Begins(s) /\ h'[s].op # "cli_exchange"
CodeShown ==
  \E u \in Users :
    /\ shown' = Append(shown, u) /\ cli'.user = u /\ cli'.code = Len(shown) + 1
    /\ UNCHANGED <<spent, minted>> /\ Carry
CodeTyped ==
  \E s \in Slots :
    /\ cli.st = "authorized" /\ UNCHANGED <<cli, shown, spent, minted>>
    /\ Begins(s) /\ h'[s].op = "cli_exchange" /\ h'[s].u = cli.user /\ h'[s].k = cli.code
    /\ h'[s].seen = IF cli.code \in spent THEN 1 ELSE 0
Exchanges(v) == v \in Running /\ v.op = "cli_exchange"
CodeMinted ==
  \E s \in Slots :
    /\ Exchanges(h[s]) /\ Carry /\ UNCHANGED <<cli, shown, spent>>
    /\ minted' = minted \cup {[code |-> h[s].k, user |-> h[s].u, again |-> h[s].seen = 1]}
CodeSpent ==
  \E s \in Slots :
    /\ Exchanges(h[s]) /\ Carry /\ UNCHANGED <<shown, minted>>
    /\ spent' = spent \cup {h[s].k} /\ cli'.st = "none"

LEMMA ExchangeEffects ==
  ASSUME HandlersOK, TablesOK, NEW s \in Slots, cli_exchange(s)
  PROVE  CodesKept \/ CodeTyped \/ CodeMinted \/ CodeSpent
<1>1. ASSUME NEW code \in DOMAIN shown, cli.st = "authorized", cli.code = code,
             Start(s, [Handler("cli_exchange", cli.user, cli.user, code) EXCEPT
                         !.seen = IF code \in spent THEN 1 ELSE 0]), UNCHANGED cliVars
      PROVE  CodeTyped
  <2>1. /\ Begins(s) /\ h'[s].op = "cli_exchange" /\ h'[s].u = cli.user /\ h'[s].k = code
        /\ h'[s].seen = IF code \in spent THEN 1 ELSE 0
    BY <1>1, ExchangeStarts
  <2> QED BY <1>1, <2>1 DEF CodeTyped, cliVars
<1>2. ASSUME At(s, "cli_exchange", "in"), cli_exchange(s) PROVE CodeMinted
  <2>1. h[s] # Idle /\ Exchanges(h[s]) /\ h[s].st = "in"
    BY <1>2, AtRuns DEF Exchanges
  <2>2. Carry
    BY <1>2, <2>1, ExchangeHandlers DEF Begins
  <2>3. /\ minted' = minted \cup {[code |-> h[s].k, user |-> h[s].u, again |-> h[s].seen = 1]}
        /\ UNCHANGED <<cli, shown, spent>>
    BY <1>2, <2>1 DEF cli_exchange, At, Start, KeyOwnerAsRead
  <2> QED BY <2>1, <2>2, <2>3 DEF CodeMinted
<1>3. ASSUME At(s, "cli_exchange", "drop"), cli' = SessionDropped, spent' = spent \cup {h[s].k},
             Go(s, "answer"), UNCHANGED <<shown, minted>>
      PROVE  CodeSpent
  <2>1. cli'.st = "none"
    BY <1>3 DEF SessionDropped, NoSession
  <2>2. Exchanges(h[s]) /\ Carry
    BY <1>3, AtRuns, GoOn DEF Exchanges, Stages
  <2> QED BY <1>3, <2>1, <2>2 DEF CodeSpent
<1>4. ASSUME At(s, "cli_exchange", "answer"), Go(s, "idle"), UNCHANGED cliVars
      PROVE  CodesKept
  BY <1>4, AtRuns, GoOn DEF CodesKept, cliVars
<1>5. CASE At(s, "cli_exchange", "in")
  BY <1>2, <1>5
<1> QED BY <1>1, <1>3, <1>4, <1>5 DEF cli_exchange

LEMMA CliEffects ==
  ASSUME HandlersOK, TablesOK, [CpNext]_cpVars
  PROVE  CodesKept \/ CodeShown \/ CodeTyped \/ CodeMinted \/ CodeSpent
<1> DEFINE Kept == UNCHANGED <<shown, spent, minted>> /\ (UNCHANGED cli \/ cli'.st # "authorized")
<1>1. ASSUME NEW s \in Slots, UserStep(s) PROVE Kept
  BY <1>1 DEF UserStep, request_magic_link, consume_magic_link, google_callback, freeze_user,
     unfreeze_user, delete_user, delete_account, impersonate_user, Check, cliVars
<1>2. ASSUME NEW s \in Slots, KeyStep(s) PROVE Kept
  BY <1>2 DEF KeyStep, create_key, create_user_key, revoke_key, revoke_user_key, rotate_key,
     rotate_user_key, rotate_api_key, create_scope, create_user_scope, delete_scope,
     delete_user_scope, Check, CheckAdmin, KeyChange, cliVars
<1>3. ASSUME NEW s \in Slots, \/ Enter(s) \/ write_audit(s) \/ Die(s) \/ cli_start(s)
      PROVE  Kept
  BY <1>3 DEF Enter, write_audit, Die, cli_start, PutSession, cliVars
<1>4. ASSUME NEW s \in Slots, cli_authorize(s) PROVE Kept \/ CodeShown
  <2>1. ASSUME At(s, "cli_authorize", "do"), shown' = Append(shown, h[s].u),
               PutSession("authorized", h[s].u, Len(shown')), UNCHANGED <<spent, minted>>
        PROVE  CodeShown
    <3>1. h[s].u \in Users
      BY <2>1, AtRuns DEF Running
    <3>2. Len(shown') = Len(shown) + 1
      BY <2>1, <3>1, AppendProperties DEF TablesOK
    <3>3. Carry
      BY <1>4, EndHandlersCarry
    <3>4. cli'.user = h[s].u /\ cli'.code = Len(shown) + 1
      BY <2>1, <3>2 DEF PutSession
    <3> QED BY <2>1, <3>1, <3>3, <3>4 DEF CodeShown
  <2> QED BY <1>4, <2>1 DEF cli_authorize, Check, cliVars
<1>5. ASSUME Next PROVE Kept \/ CodeShown \/ \E s \in Slots : cli_exchange(s)
  <2>1. ASSUME Expire PROVE Kept
    BY <2>1 DEF Expire, NoSession
  <2> QED BY <1>1, <1>2, <1>3, <1>4, <1>5, <2>1 DEF Next
<1>6. ASSUME (\E s \in Slots : BucketStep(s)) \/ Gossip PROVE Kept
  BY <1>6 DEF BucketStep, EnterBucket, create_bucket, archive_bucket, set_evm, purge_bucket,
     admin_purge_bucket, list_buckets, Gossip, Finish, KeepAll, KeepAccounts, cliVars
<1>7. ASSUME UNCHANGED cpVars PROVE Kept
  BY <1>7 DEF cpVars, dashVars
<1> HIDE DEF Kept
<1>8. Kept => CodesKept \/ \E s \in Slots : cli_exchange(s)
  <2>1. ASSUME NEW s \in Slots, consume_magic_link(s), Kept PROVE CodesKept
    BY <2>1, ConsumeHandlers DEF CodesKept, Kept
  <2> QED BY <2>1, QuietSteps DEF CodesKept, Kept, Undisturbed
<1> QED BY <1>5, <1>6, <1>7, <1>8, ExchangeEffects DEF CpNext

\* The session's code is unspent and was shown to the user the session names;
\* an exchange under way holds a code and the user it was shown to.
CodeInv ==
  /\ cli.st = "authorized" => /\ cli.code \in DOMAIN shown /\ shown[cli.code] = cli.user
                              /\ cli.code \notin spent
  /\ spent \subseteq DOMAIN shown
  /\ \A s \in Slots : Exchanges(h[s]) =>
       h[s].k \in DOMAIN shown /\ h[s].u = shown[h[s].k] /\ h[s].seen = 0
  /\ \A m \in minted : m.code \in DOMAIN shown /\ m.user = shown[m.code] /\ ~m.again

LEMMA CarryExchanges ==
  ASSUME HandlersOK, Carry, NEW s \in Slots, Exchanges(h'[s])
  PROVE  Exchanges(h[s]) /\ h'[s].k = h[s].k /\ h'[s].u = h[s].u /\ h'[s].seen = h[s].seen
<1>1. Carries(h[s], h'[s]) /\ h'[s] # Idle
  BY IdleIsNotRunning DEF Carry, Exchanges
<1> QED BY <1>1 DEF Carries, Exchanges, AdminHandlers

LEMMA CodeStep ==
  ASSUME HandlersOK, TablesOK, CodeInv, [CpNext]_cpVars
  PROVE  /\ CodeInv' /\ shown' \in Seq(Users)
         /\ cli'.st = "authorized" => cli'.user \in Users
<1> DEFINE Held == \A s \in Slots : Exchanges(h'[s]) =>
                     h'[s].k \in DOMAIN shown /\ h'[s].u = shown[h'[s].k] /\ h'[s].seen = 0
<1>1. ASSUME Carry PROVE Held
  BY <1>1, CarryExchanges DEF CodeInv
<1>2. CASE CodesKept
  <2>1. Held
    <3>1. CASE \E s \in Slots : Begins(s) /\ h'[s].op # "cli_exchange"
      BY <3>1 DEF Begins, Exchanges, CodeInv
    <3> QED BY <1>1, <1>2, <3>1 DEF CodesKept
  <2> QED BY <1>2, <2>1 DEF CodesKept, CodeInv, TablesOK, Exchanges
<1>3. CASE CodeShown
  <2>1. PICK u \in Users :
          /\ shown' = Append(shown, u) /\ cli'.user = u /\ cli'.code = Len(shown) + 1
          /\ UNCHANGED <<spent, minted>> /\ Carry
    BY <1>3 DEF CodeShown
  <2> DEFINE n == Len(shown) + 1
  <2>2. /\ shown' \in Seq(Users) /\ DOMAIN shown' = DOMAIN shown \cup {n} /\ n \notin DOMAIN shown
        /\ shown'[n] = u /\ \A i \in DOMAIN shown : shown'[i] = shown[i]
    <3>1. shown \in Seq(Users) /\ DOMAIN shown = 1..Len(shown) /\ Len(shown) \in Nat
      BY LenProperties DEF TablesOK
    <3>2. /\ shown' \in Seq(Users) /\ Len(shown') = Len(shown) + 1 /\ shown'[Len(shown) + 1] = u
          /\ \A i \in 1..Len(shown) : shown'[i] = shown[i]
      BY <2>1, <3>1, AppendProperties
    <3>3. DOMAIN shown' = 1..(Len(shown) + 1)
      BY <3>2, LenProperties
    <3> QED BY <3>1, <3>2, <3>3
  <2> HIDE DEF n
  <2>3. cli'.code = n
    BY <2>1 DEF n
  <2>4. Held
    BY <1>1, <2>1
  <2>5. \A s \in Slots : Exchanges(h'[s]) =>
          h'[s].k \in DOMAIN shown' /\ h'[s].u = shown'[h'[s].k] /\ h'[s].seen = 0
    BY <2>2, <2>4
  <2>6. \A m \in minted' : m.code \in DOMAIN shown' /\ m.user = shown'[m.code] /\ ~m.again
    BY <2>1, <2>2 DEF CodeInv
  <2>7. cli'.code \notin spent' /\ spent' \subseteq DOMAIN shown'
    BY <2>1, <2>2, <2>3 DEF CodeInv
  <2> QED BY <2>1, <2>2, <2>3, <2>5, <2>6, <2>7 DEF CodeInv, Exchanges
<1>4. CASE CodeTyped
  <2>1. PICK s \in Slots :
          /\ cli.st = "authorized" /\ UNCHANGED <<cli, shown, spent, minted>>
          /\ Begins(s) /\ h'[s].op = "cli_exchange" /\ h'[s].u = cli.user /\ h'[s].k = cli.code
          /\ h'[s].seen = IF cli.code \in spent THEN 1 ELSE 0
    BY <1>4 DEF CodeTyped
  <2>2. Held
    BY <2>1 DEF CodeInv, Begins, Exchanges
  <2> QED BY <2>1, <2>2 DEF CodeInv, TablesOK, Exchanges
<1>5. CASE CodeMinted
  <2>1. PICK s \in Slots :
          /\ Exchanges(h[s]) /\ Carry /\ UNCHANGED <<cli, shown, spent>>
          /\ minted' = minted \cup {[code |-> h[s].k, user |-> h[s].u, again |-> h[s].seen = 1]}
    BY <1>5 DEF CodeMinted
  <2>2. Held
    BY <1>1, <2>1
  <2>3. h[s].k \in DOMAIN shown /\ h[s].u = shown[h[s].k] /\ ~(h[s].seen = 1)
    BY <2>1 DEF CodeInv
  <2> DEFINE again == h[s].seen = 1
             new == [code |-> h[s].k, user |-> h[s].u, again |-> again]
  <2>4. new.code = h[s].k /\ new.user = h[s].u /\ new.again = again /\ ~again
    BY <2>3
  <2>5. minted' = minted \cup {new}
    BY <2>1
  <2> HIDE DEF new, again
  <2>6. \A m \in minted' : m.code \in DOMAIN shown /\ m.user = shown[m.code] /\ ~m.again
    BY <2>3, <2>4, <2>5 DEF CodeInv
  <2> QED BY <2>1, <2>2, <2>6 DEF CodeInv, TablesOK, Exchanges
<1>6. CASE CodeSpent
  <2>1. PICK s \in Slots :
          /\ Exchanges(h[s]) /\ Carry /\ UNCHANGED <<shown, minted>>
          /\ spent' = spent \cup {h[s].k} /\ cli'.st = "none"
    BY <1>6 DEF CodeSpent
  <2>2. Held
    BY <1>1, <2>1
  <2> QED BY <2>1, <2>2 DEF CodeInv, TablesOK, Exchanges
<1> QED BY <1>2, <1>3, <1>4, <1>5, <1>6, CliEffects

-----------------------------------------------------------------------------
(* A purged bucket is hidden                                               *)

HideFits(v, rows, purged) ==
  /\ v.op = "purge_bucket" /\ v.st \in {"do", "archive"} => rows[v.u] \in Registered
  /\ v.op = "list_buckets" => /\ v.seen \in BOOLEAN
                              /\ v.seen = TRUE => v.u \in purged /\ v.st # "unarchived"

\* A purged bucket has an archived row; a purge that has looked the row up finds
\* it again; a list that starts after the purge reads the row as archived.
HideInv ==
  /\ reg \in [Users -> {NoRow} \cup Registered] /\ gone \subseteq Users
  /\ \A u \in gone : reg[u] \in Registered /\ reg[u].archived
  /\ \A s \in Slots : h[s] \in Running => HideFits(h[s], reg, gone)
  /\ late = {}

\* Rows are never removed and never leave the archive.
RegistryGrows ==
  /\ reg' \in [Users -> {NoRow} \cup Registered]
  /\ \A u \in Users : reg[u] \in Registered =>
                        reg'[u] \in Registered /\ (reg[u].archived => reg'[u].archived)

LEMMA RowKinds ==
  /\ NoRow \notin Registered /\ NewRow \in Registered
  /\ \A r \in {NoRow} \cup Registered : r # NoRow => r \in Registered
<1>1. \A r \in Registered : "evm" \in DOMAIN r
  BY DEF Registered
<1>2. "evm" \notin DOMAIN NoRow
  BY DEF NoRow
<1> QED BY <1>1, <1>2 DEF NewRow, Registered

LEMMA HideLater ==
  ASSUME HideInv, RegistryGrows, gone \subseteq gone', NEW v \in Running, HideFits(v, reg, gone)
  PROVE  HideFits(v, reg', gone')
<1>1. v.u \in Users
  BY DEF Running
<1> QED BY <1>1 DEF HideFits, RegistryGrows

\* A step of one slot that grows the registry.
LEMMA HideOneSlot ==
  ASSUME HandlersOK, HideInv, RegistryGrows, NEW s \in Slots, \A r \in Slots \ {s} : h'[r] = h[r],
         UNCHANGED gone, h'[s] \in Running => HideFits(h'[s], reg', gone')
  PROVE  /\ late' = {} => HideInv'
<1>1. \A r \in Slots : h[r] \in Running => HideFits(h[r], reg', gone')
  BY HideLater DEF HideInv
<1>2. \A r \in Slots : h'[r] \in Running => HideFits(h'[r], reg', gone')
  BY <1>1
<1>3. /\ reg' \in [Users -> {NoRow} \cup Registered] /\ gone' \subseteq Users
      /\ \A u \in gone' : reg'[u] \in Registered /\ reg'[u].archived
  BY DEF RegistryGrows, HideInv
<1> QED BY <1>2, <1>3 DEF HideInv

LEMMA SameRegistry ==
  ASSUME HideInv, UNCHANGED reg
  PROVE  RegistryGrows
BY DEF HideInv, RegistryGrows

LEMMA OtherSlots ==
  ASSUME HandlersOK, NEW s \in Slots,
         UserStep(s) \/ KeyStep(s) \/ write_audit(s) \/ Die(s) \/ cli_authorize(s) \/ cli_exchange(s)
  PROVE  /\ \A r \in Slots \ {s} : h'[r] = h[r]
         /\ h[s] = Idle \/ h[s].op \notin BucketHandlers \/ h'[s] = Idle
<1> USE DEF HandlersOK, At, Go, Start, Check, BucketHandlers
<1>1. CASE UserStep(s)
  BY <1>1 DEF UserStep, request_magic_link, consume_magic_link, google_callback, freeze_user,
     unfreeze_user, delete_user, delete_account, impersonate_user
<1>2. CASE KeyStep(s)
  BY <1>2 DEF KeyStep, create_key, create_user_key, revoke_key, revoke_user_key, rotate_key,
     rotate_user_key, rotate_api_key, create_scope, create_user_scope, delete_scope,
     delete_user_scope, CheckAdmin, KeyChange
<1>3. CASE write_audit(s) \/ Die(s) \/ cli_authorize(s) \/ cli_exchange(s)
  BY <1>3 DEF write_audit, Die, cli_authorize, cli_exchange
<1> QED BY <1>1, <1>2, <1>3

LEMMA NextLeavesBuckets ==
  ASSUME HandlersOK, TablesOK, Next, NEW r \in Slots, h'[r] \in Running,
         h'[r].op \in BucketHandlers
  PROVE  h'[r] = h[r]
<1>1. CASE Expire
  BY <1>1 DEF Expire
<1>2. ASSUME NEW s \in Slots, Enter(s) PROVE h'[r] = h[r]
  BY <1>2, EnterBegins DEF Begins, OwnHandlers, AdminHandlers, BucketHandlers
<1>3. ASSUME NEW s \in Slots, cli_start(s) PROVE h'[r] = h[r]
  BY <1>3 DEF cli_start
<1>4. ASSUME NEW s \in Slots, UserStep(s) \/ KeyStep(s) \/ write_audit(s) \/ Die(s)
                              \/ cli_authorize(s) \/ cli_exchange(s)
      PROVE  h'[r] = h[r]
  <2>1. \/ Carry
        \/ Begins(s) /\ h'[s].op \in {"request", "consume", "google_callback", "cli_exchange"}
    BY <1>4, RequestHandlers, ConsumeHandlers, GoogleHandlers, AdminHandlersCarry, KeyStepCarries,
       EndHandlersCarry, ExchangeHandlers DEF UserStep
  <2>2. /\ \A x \in Slots \ {s} : h'[x] = h[x]
        /\ h[s] = Idle \/ h[s].op \notin BucketHandlers \/ h'[s] = Idle
    BY <1>4, OtherSlots
  <2>3. CASE Carry
    <3>1. Carries(h[r], h'[r]) /\ h'[r] # Idle
      BY <2>3, IdleIsNotRunning DEF Carry
    <3>2. h'[r] = h[r] \/ (h[r] \in Running /\ h'[r].op = h[r].op)
      BY <3>1 DEF Carries
    <3> QED BY <2>2, <3>1, <3>2, IdleIsNotRunning
  <2>4. CASE Begins(s) /\ h'[s].op \in {"request", "consume", "google_callback", "cli_exchange"}
    BY <2>4 DEF Begins, BucketHandlers
  <2> QED BY <2>1, <2>3, <2>4
<1> QED BY <1>1, <1>2, <1>3, <1>4 DEF Next

LEMMA RowChange ==
  ASSUME HideInv, NEW u \in Users, NEW r \in Registered, reg' = [reg EXCEPT ![u] = r],
         reg[u] \in Registered /\ reg[u].archived => r.archived
  PROVE  RegistryGrows
BY DEF HideInv, RegistryGrows

LEMMA ArchiveGrows ==
  ASSUME HideInv, NEW u \in Users, reg' = archive(u)
  PROVE  RegistryGrows /\ (reg[u] \in Registered => reg'[u] \in Registered /\ reg'[u].archived)
<1>1. CASE reg[u] = NoRow
  BY <1>1, SameRegistry, RowKinds DEF archive
<1>2. CASE reg[u] # NoRow
  <2> DEFINE r == [reg[u] EXCEPT !.archived = TRUE]
  <2>1. reg \in [Users -> {NoRow} \cup Registered] /\ reg[u] \in Registered
    BY <1>2, RowKinds DEF HideInv
  <2>2. r \in Registered /\ r.archived = TRUE
    BY <2>1 DEF Registered
  <2>3. reg' = [reg EXCEPT ![u] = r]
    BY <1>2 DEF archive
  <2> HIDE DEF r
  <2> QED BY <2>1, <2>2, <2>3, RowChange
<1> QED BY <1>1, <1>2

LEMMA SwitchesGrow ==
  ASSUME HandlersOK, HideInv, NEW s \in Slots, set_evm(s)
  PROVE  RegistryGrows
<1>1. PICK op \in {"enable_evm", "disable_evm", "pause_evm", "resume_evm"} :
        /\ At(s, op, "in")
        /\ Finish(s, IF reg[h[s].u] = NoRow THEN reg
                     ELSE [reg EXCEPT ![h[s].u] =
                             IF op \in {"enable_evm", "disable_evm"}
                             THEN [@ EXCEPT !.evm = op = "enable_evm"]
                             ELSE [@ EXCEPT !.paused = op = "pause_evm"]])
  BY DEF set_evm
<1> DEFINE u == h[s].u
           on == op = "enable_evm"
           off == op = "pause_evm"
           r == [reg[u] EXCEPT !.evm = on]
           q == [reg[u] EXCEPT !.paused = off]
<1>2. u \in Users /\ on \in BOOLEAN /\ off \in BOOLEAN
  BY <1>1, AtRuns DEF Running
<1>3. CASE reg[u] = NoRow
  BY <1>1, <1>3, SameRegistry DEF Finish
<1>4. CASE reg[u] # NoRow
  <2>1. reg[u] \in Registered
    BY <1>2, <1>4, RowKinds DEF HideInv
  <2>2. reg' = [reg EXCEPT ![u] = r] \/ reg' = [reg EXCEPT ![u] = q]
    BY <1>1, <1>4 DEF Finish
  <2>3. r \in Registered /\ r.archived = reg[u].archived
    <3> HIDE DEF on
    <3> QED BY <1>2, <2>1 DEF Registered
  <2>4. q \in Registered /\ q.archived = reg[u].archived
    <3> HIDE DEF off
    <3> QED BY <1>2, <2>1 DEF Registered
  <2> HIDE DEF r, q, u
  <2> QED BY <1>2, <2>2, <2>3, <2>4, RowChange
<1> QED BY <1>3, <1>4

LEMMA CreateGrows ==
  ASSUME HandlersOK, HideInv, NEW s \in Slots, create_bucket(s)
  PROVE  RegistryGrows
<1>1. h[s].u \in Users
  BY AtRuns DEF create_bucket, Running
<1>2. CASE reg[h[s].u] = NoRow
  BY <1>1, <1>2, RowChange, RowKinds DEF create_bucket, Finish
<1>3. CASE reg[h[s].u] # NoRow
  BY <1>3, SameRegistry DEF create_bucket, Finish
<1> QED BY <1>2, <1>3

\* A handler that ends, or goes on to a stage that asks nothing of the registry.
LEMMA EndHides ==
  ASSUME HandlersOK, HideInv, RegistryGrows, NEW s \in Slots, h[s] # Idle, Go(s, "idle"),
         UNCHANGED gone, late' = {}
  PROVE  HideInv'
<1>1. h'[s] = Idle /\ \A r \in Slots \ {s} : h'[r] = h[r]
  BY GoOn
<1> QED BY <1>1, HideOneSlot, IdleIsNotRunning

LEMMA RowStepsHide ==
  ASSUME HandlersOK, HideInv, NEW s \in Slots,
         create_bucket(s) \/ archive_bucket(s) \/ set_evm(s)
  PROVE  HideInv'
<1>1. h[s] # Idle /\ Go(s, "idle") /\ UNCHANGED <<gone, late>>
  BY DEF create_bucket, archive_bucket, set_evm, Finish, At
<1>2. late' = {}
  BY <1>1 DEF HideInv
<1>3. ASSUME archive_bucket(s) PROVE RegistryGrows
  <2>1. h[s].u \in Users /\ reg' = archive(h[s].u)
    BY <1>3, AtRuns DEF archive_bucket, Finish, Running
  <2> QED BY <2>1, ArchiveGrows
<1> QED BY <1>1, <1>2, <1>3, CreateGrows, SwitchesGrow, EndHides

LEMMA PurgeHides ==
  ASSUME HandlersOK, HideInv, NEW s \in Slots, purge_bucket(s)
  PROVE  HideInv'
<1>1. /\ h[s] # Idle /\ h[s] \in Running /\ h[s].op = "purge_bucket" /\ h[s].u \in Users
      /\ HideFits(h[s], reg, gone) /\ late = {}
  BY AtRuns DEF purge_bucket, HideInv, Running
<1>2. CASE At(s, "purge_bucket", "in")
  <2>1. /\ Go(s, IF reg[h[s].u] # NoRow /\ ~reg[h[s].u].archived THEN "do" ELSE "idle")
        /\ UNCHANGED regVars
    BY <1>2 DEF purge_bucket, At, KeepAll
  <2>2. RegistryGrows /\ late' = {} /\ UNCHANGED <<reg, gone>>
    BY <1>1, <2>1, SameRegistry DEF regVars
  <2>3. CASE reg[h[s].u] # NoRow /\ ~reg[h[s].u].archived
    <3>1. Go(s, "do") /\ reg[h[s].u] \in Registered
      BY <1>1, <2>1, <2>3, RowKinds DEF HideInv
    <3>2. /\ h'[s] \in Running /\ h'[s].op = h[s].op /\ h'[s].u = h[s].u
          /\ \A r \in Slots \ {s} : h'[r] = h[r]
      BY <1>1, <3>1, GoOn DEF Stages
    <3>3. HideFits(h'[s], reg', gone')
      BY <1>1, <2>2, <3>1, <3>2 DEF HideFits
    <3> QED BY <2>2, <3>2, <3>3, HideOneSlot
  <2>4. CASE ~(reg[h[s].u] # NoRow /\ ~reg[h[s].u].archived)
    BY <1>1, <2>1, <2>2, <2>4, EndHides
  <2> QED BY <2>3, <2>4
<1>3. CASE At(s, "purge_bucket", "do")
  <2>1. PICK st \in {"archive", "idle"} : Go(s, st) /\ UNCHANGED <<reg, gone, late>>
    BY <1>3 DEF purge_bucket, At
  <2>2. RegistryGrows /\ late' = {} /\ UNCHANGED <<reg, gone>>
    BY <1>1, <2>1, SameRegistry
  <2>3. /\ \A r \in Slots \ {s} : h'[r] = h[r]
        /\ IF st = "idle" THEN h'[s] = Idle ELSE h'[s].op = h[s].op /\ h'[s].u = h[s].u
    BY <1>1, <2>1, GoOn DEF Stages
  <2>4. reg[h[s].u] \in Registered
    BY <1>1, <1>3 DEF HideFits, At
  <2>5. h'[s] \in Running => HideFits(h'[s], reg', gone')
    BY <1>1, <2>2, <2>3, <2>4, IdleIsNotRunning DEF HideFits
  <2> QED BY <2>2, <2>3, <2>5, HideOneSlot
<1>4. CASE At(s, "purge_bucket", "archive")
  <2> DEFINE u == h[s].u
  <2>1. reg' = archive(u) /\ gone' = gone \cup {u} /\ Go(s, "idle") /\ UNCHANGED late
    BY <1>4 DEF purge_bucket, At, RowArchived
  <2>2. reg[u] \in Registered
    BY <1>1, <1>4 DEF HideFits, At
  <2>3. RegistryGrows /\ reg'[u] \in Registered /\ reg'[u].archived
    BY <1>1, <2>1, <2>2, ArchiveGrows
  <2>4. h'[s] = Idle /\ \A r \in Slots \ {s} : h'[r] = h[r]
    BY <1>1, <2>1, GoOn
  <2> HIDE DEF u
  <2>5. \A r \in Slots : h[r] \in Running => HideFits(h[r], reg', gone')
    BY <2>1, <2>3, HideLater DEF HideInv
  <2>6. \A r \in Slots : h'[r] \in Running => HideFits(h'[r], reg', gone')
    BY <2>4, <2>5, IdleIsNotRunning
  <2>7. u \in Users
    BY <1>1 DEF u
  <2>8. gone' \subseteq Users /\ \A x \in gone' : reg'[x] \in Registered /\ reg'[x].archived
    BY <2>1, <2>3, <2>7 DEF RegistryGrows, HideInv
  <2> QED BY <1>1, <2>1, <2>3, <2>6, <2>8 DEF HideInv, RegistryGrows
<1> QED BY <1>2, <1>3, <1>4 DEF purge_bucket

LEMMA AdminPurgeHides ==
  ASSUME HandlersOK, HideInv, NEW s \in Slots, admin_purge_bucket(s)
  PROVE  HideInv'
<1>1. Carry /\ UNCHANGED <<reg, gone, late>> /\ \A r \in Slots \ {s} : h'[r] = h[r]
  BY AdminPurgeCarries DEF admin_purge_bucket, Go, HandlersOK
<1>2. h[s] \in Running /\ h[s].op = "admin_purge_bucket"
  BY AtRuns DEF admin_purge_bucket
<1>3. h'[s] \in Running => h'[s].op = "admin_purge_bucket"
  BY <1>1, <1>2, IdleIsNotRunning DEF Carry, Carries
<1>4. h'[s] \in Running => HideFits(h'[s], reg', gone')
  BY <1>3 DEF HideFits
<1>5. RegistryGrows /\ late' = {}
  BY <1>1, SameRegistry DEF HideInv
<1> QED BY <1>1, <1>4, <1>5, HideOneSlot

LEMMA ListHides ==
  ASSUME HandlersOK, HideInv, NEW s \in Slots, list_buckets(s)
  PROVE  HideInv'
<1>1. /\ h[s] # Idle /\ h[s] \in Running /\ h[s].op = "list_buckets" /\ h[s].u \in Users
      /\ HideFits(h[s], reg, gone) /\ late = {}
  BY AtRuns DEF list_buckets, HideInv, Running
<1>2. CASE At(s, "list_buckets", "in")
  <2> DEFINE st == IF list(h[s].u, h[s].k)
                   THEN IF reg[h[s].u].archived THEN "archived" ELSE "unarchived" ELSE "idle"
  <2>1. h' = [h EXCEPT ![s] = IF list(h[s].u, h[s].k)
                              THEN [@ EXCEPT !.st = IF reg[h[s].u].archived
                                                    THEN "archived" ELSE "unarchived"]
                              ELSE Idle]
        /\ UNCHANGED <<plan, ops, reg, gone, late>>
    BY <1>2 DEF list_buckets, At, KeepAll, regVars
  <2>2. Go(s, st) /\ st \in Stages \cup {"idle"}
    BY <2>1 DEF Go, Stages
  <2>3. RegistryGrows /\ late' = {} /\ UNCHANGED <<reg, gone>>
    BY <1>1, <2>1, SameRegistry
  <2>4. /\ \A r \in Slots \ {s} : h'[r] = h[r]
        /\ IF st = "idle" THEN h'[s] = Idle
           ELSE h'[s].op = h[s].op /\ h'[s].u = h[s].u /\ h'[s].seen = h[s].seen /\ h'[s].st = st
    BY <1>1, <2>2, GoOn
  <2>5. h[s].seen = TRUE => st # "unarchived"
    BY <1>1 DEF HideFits, HideInv
  <2> HIDE DEF st
  <2>6. h'[s] \in Running => HideFits(h'[s], reg', gone')
    BY <1>1, <2>3, <2>4, <2>5, IdleIsNotRunning DEF HideFits
  <2> QED BY <2>3, <2>4, <2>6, HideOneSlot
<1>3. CASE ~At(s, "list_buckets", "in")
  <2>1. PICK e \in DOMAIN Edges, st \in {"archived", "unarchived"} :
          /\ At(s, "list_buckets", st)
          /\ LET told == StatusOf(st = "archived", h[s].u \in tomb[e])
             IN  late' = IF told = "active" /\ h[s].k \in {"all", "active"} /\ h[s].seen
                         THEN late \cup {h[s].u} ELSE late
          /\ Go(s, "idle") /\ UNCHANGED <<reg, gone>>
    BY <1>3 DEF list_buckets
  <2>2. st = "archived" \/ ~h[s].seen
    BY <1>1, <2>1 DEF HideFits, At
  <2>3. st = "archived" => StatusOf(st = "archived", h[s].u \in tomb[e]) # "active"
    BY DEF StatusOf
  <2>4. late' = {}
    BY <1>1, <2>1, <2>2, <2>3
  <2>5. RegistryGrows
    BY <2>1, SameRegistry
  <2> QED BY <1>1, <2>1, <2>4, <2>5, EndHides
<1> QED BY <1>2, <1>3

LEMMA HideStep ==
  ASSUME HandlersOK, TablesOK, HideInv, [CpNext]_cpVars
  PROVE  HideInv'
<1>1. ASSUME Next, UNCHANGED regVars PROVE HideInv'
  <2>1. \A r \in Slots : h'[r] \in Running /\ h'[r].op \in {"purge_bucket", "list_buckets"}
                           => h'[r] = h[r]
    BY <1>1, NextLeavesBuckets DEF BucketHandlers
  <2>2. UNCHANGED <<reg, gone, late>>
    BY <1>1 DEF regVars
  <2>3. \A r \in Slots : h'[r] \in Running => HideFits(h'[r], reg, gone)
    BY <2>1 DEF HideInv, HideFits
  <2> QED BY <2>2, <2>3 DEF HideInv
<1>2. ASSUME NEW s \in Slots, EnterBucket(s) PROVE HideInv'
  <2>1. /\ Begins(s) /\ h'[s].st = "in"
        /\ h'[s].op = "list_buckets" => h'[s].seen = (h'[s].u \in gone)
    BY <1>2, BucketHandlersBegin
  <2>2. UNCHANGED <<reg, gone, late>>
    BY <1>2 DEF EnterBucket, KeepAll, regVars
  <2>3. HideFits(h'[s], reg', gone')
    <3> DEFINE b == h'[s].u \in gone
    <3>1. b \in BOOLEAN /\ (b = TRUE => h'[s].u \in gone)
      OBVIOUS
    <3>2. h'[s].op = "list_buckets" => h'[s].seen = b
      BY <2>1
    <3> HIDE DEF b
    <3> QED BY <2>1, <2>2, <3>1, <3>2 DEF HideFits
  <2>4. RegistryGrows /\ late' = {}
    BY <2>2, SameRegistry DEF HideInv
  <2> QED BY <2>1, <2>2, <2>3, <2>4, HideOneSlot DEF Begins
<1>3. ASSUME NEW s \in Slots, BucketStep(s) PROVE HideInv'
  BY <1>2, <1>3, RowStepsHide, PurgeHides, AdminPurgeHides, ListHides DEF BucketStep
<1>4. ASSUME Gossip \/ UNCHANGED cpVars PROVE HideInv'
  <2>1. UNCHANGED <<h, reg, gone, late>>
    BY <1>4 DEF Gossip, cpVars, dashVars, regVars
  <2> QED BY <2>1 DEF HideInv
<1> QED BY <1>1, <1>3, <1>4 DEF CpNext

-----------------------------------------------------------------------------
(* Deletion ends keys: every step                                          *)

KeyWrites(s) ==
  \/ UNCHANGED keys
  \/ keys' = revoke_api_key(h[s].k)
  \/ \E scope \in {FullBucketScope, ControlScope} :
       keys' = WithScope(h[s].k, scope) \/ keys' = WithoutScope(h[s].k, scope)
  \/ h[s].op \in KeyMakers /\ \E set \in SUBSET {FullBucketScope, ControlScope} :
                                keys' = issue_api_key_with_scopes(s, set)

LEMMA AdminCheckKeeps ==
  ASSUME HandlersOK, TablesOK, KeyInv, NEW s \in Slots, h[s] # Idle, h[s].op \in AdminHandlers,
         NEW ok \in BOOLEAN, CheckAdmin(s, ok), ok => Live(h[s].u)
  PROVE  KeyInv' /\ keys' \in Seq(KeyRecord)
<1>1. UNCHANGED keys /\ UNCHANGED userVars
  BY DEF CheckAdmin
<1>2. KeysStay /\ KeyRows' /\ DeletionsCount
  BY <1>1, NothingDeleted, NoDeletionCounts, RowsSurviveNothing DEF KeyInv
<1>3. h[s] \in Running /\ KeyFits(h[s], keys, row, dels)
  BY IdleIsNotRunning DEF HandlersOK, KeyInv
<1>4. /\ \A r \in Slots \ {s} : h'[r] = h[r]
      /\ IF ok THEN /\ h'[s] \in Running /\ h'[s].st = "do" /\ h'[s].seen = dels[h[s].u]
                    /\ h'[s].op = h[s].op /\ h'[s].u = h[s].u /\ h'[s].k = h[s].k
         ELSE h'[s] = Idle
  BY AdminChecked
<1>5. ASSUME ok PROVE KeyFits(h'[s], keys', row', dels')
  <2>1. dels[h[s].u] \in Nat /\ ~row[h[s].u].deleted
    BY <1>3, <1>5 DEF TablesOK, Running, Live
  <2>2. UNCHANGED <<row, dels>>
    BY <1>1 DEF userVars
  <2>3. SawAlive(h'[s], row', dels')
    BY <1>4, <1>5, <2>1, <2>2 DEF SawAlive
  <2>4. h'[s].k \in DOMAIN keys' /\ h'[s].op # "cli_exchange"
    BY <1>1, <1>3, <1>4, <1>5 DEF KeyFits, AdminHandlers
  <2> QED BY <2>3, <2>4 DEF KeyFits
<1>6. h'[s] \in Running => KeyFits(h'[s], keys', row', dels')
  BY <1>4, <1>5, IdleIsNotRunning
<1> QED BY <1>2, <1>4, <1>6, OneSlot DEF KeysStay

LEMMA KeyStepKeeps ==
  ASSUME HandlersOK, TablesOK, KeyInv, NEW s \in Slots, KeyStep(s)
  PROVE  KeyInv' /\ keys' \in Seq(KeyRecord)
<1> DEFINE Writes == /\ Moves(s) /\ UNCHANGED userVars /\ KeyWrites(s)
           Checks == \E ok \in BOOLEAN : CheckAdmin(s, ok) /\ (ok => Live(h[s].u))
<1> USE DEF Moves, Stages, Check, KeyChange
<1>1. ASSUME create_key(s) PROVE \E st : At(s, "create_key", st) /\ Writes
  BY <1>1 DEF create_key, KeyWrites, KeyMakers, At
<1>2. ASSUME rotate_key(s) PROVE \E st : At(s, "rotate_key", st) /\ Writes
  BY <1>2 DEF rotate_key, rotate_api_key, KeyWrites, KeyMakers, At
<1>3. ASSUME revoke_key(s) \/ create_scope(s) \/ delete_scope(s)
      PROVE  \E op \in {"revoke_key", "create_scope", "delete_scope"} : \E st : At(s, op, st) /\ Writes
  BY <1>3 DEF revoke_key, create_scope, delete_scope, KeyWrites
<1>4. ASSUME create_user_key(s)
      PROVE  \E st : At(s, "create_user_key", st) /\ (Checks \/ (st # "in" /\ Writes))
  BY <1>4 DEF create_user_key, user_with_developer, KeyWrites, KeyMakers, At
<1>5. ASSUME rotate_user_key(s)
      PROVE  \E st : At(s, "rotate_user_key", st) /\ (Checks \/ (st # "in" /\ Writes))
  BY <1>5 DEF rotate_user_key, rotate_api_key, user_with_developer, KeyWrites, KeyMakers, At
<1>6. ASSUME revoke_user_key(s) \/ create_user_scope(s) \/ delete_user_scope(s)
      PROVE  \E op \in {"revoke_user_key", "create_user_scope", "delete_user_scope"} : \E st :
               At(s, op, st) /\ (Checks \/ (st # "in" /\ Writes))
  <2>1. ASSUME revoke_user_key(s)
        PROVE  \E st : At(s, "revoke_user_key", st) /\ (Checks \/ (st # "in" /\ Writes))
    BY <2>1 DEF revoke_user_key, user_with_developer, owned_api_key, KeyWrites, At
  <2>2. ASSUME create_user_scope(s)
        PROVE  \E st : At(s, "create_user_scope", st) /\ (Checks \/ (st # "in" /\ Writes))
    BY <2>2 DEF create_user_scope, user_with_developer, owned_api_key, KeyWrites, At
  <2>3. ASSUME delete_user_scope(s)
        PROVE  \E st : At(s, "delete_user_scope", st) /\ (Checks \/ (st # "in" /\ Writes))
    BY <2>3 DEF delete_user_scope, user_with_developer, owned_api_key, KeyWrites, At
  <2> HIDE DEF Writes, Checks
  <2> QED BY <1>6, <2>1, <2>2, <2>3
<1> HIDE DEF Writes, Checks
<1>7. \/ \E op \in OwnHandlers : \E st : At(s, op, st) /\ Writes
      \/ \E op \in AdminHandlers : \E st : At(s, op, st) /\ (Checks \/ (st # "in" /\ Writes))
  BY <1>1, <1>2, <1>3, <1>4, <1>5, <1>6 DEF KeyStep, OwnHandlers, AdminHandlers
<1>8. ASSUME NEW op \in OwnHandlers \cup AdminHandlers, NEW st, At(s, op, st), Writes,
             op \in AdminHandlers => st # "in"
      PROVE  KeyInv' /\ keys' \in Seq(KeyRecord)
  <2>1. h[s] # Idle /\ h[s].op = op /\ h[s].st = st
    BY <1>8, AtRuns
  <2>2. h[s].op \in AdminMakers => h[s].st # "in"
    BY <1>8, <2>1 DEF AdminMakers, AdminHandlers
  <2> QED BY <1>8, <2>1, <2>2, KeyChangeKeeps DEF Writes, KeyWrites
<1>9. ASSUME NEW op \in AdminHandlers, NEW st, At(s, op, st), Checks
      PROVE  KeyInv' /\ keys' \in Seq(KeyRecord)
  <2>1. h[s] # Idle /\ h[s].op = op
    BY <1>9, AtRuns
  <2> QED BY <1>9, <2>1, AdminCheckKeeps DEF Checks
<1>10. OwnHandlers \cap AdminHandlers = {}
  BY DEF OwnHandlers, AdminHandlers
<1> QED BY <1>7, <1>8, <1>9, <1>10

\* The device login: the key is made unrevealed, and shown once its owner is
\* found alive.
LEMMA ExchangeKeeps ==
  ASSUME HandlersOK, TablesOK, KeyInv, NEW s \in Slots, cli_exchange(s)
  PROVE  KeyInv' /\ keys' \in Seq(KeyRecord)
<1>0. UNCHANGED userVars
  BY DEF cli_exchange
<1>1. NoDeletion /\ DeletionsCount /\ UNCHANGED <<row, dels>>
  BY <1>0, NothingDeleted, NoDeletionCounts DEF userVars
<1>2. ASSUME UNCHANGED keys PROVE KeysStay /\ KeyRows'
  BY <1>1, <1>2, RowsSurviveNothing DEF KeyInv
<1>3. ASSUME NEW code \in DOMAIN shown, cli.st = "authorized", UNCHANGED keys,
             Start(s, [Handler("cli_exchange", cli.user, cli.user, code) EXCEPT
                         !.seen = IF code \in spent THEN 1 ELSE 0])
      PROVE  KeyInv' /\ keys' \in Seq(KeyRecord)
  <2>1. Begins(s) /\ h'[s].op = "cli_exchange" /\ h'[s].st = "in"
    BY <1>3, ExchangeStarts
  <2>2. h'[s].op \notin OwnHandlers \cup AdminHandlers
    BY <2>1 DEF OwnHandlers, AdminHandlers
  <2> QED BY <1>1, <1>2, <1>3, <2>1, <2>2, BeginsKeepsKeys DEF KeysStay
<1>4. ASSUME At(s, "cli_exchange", "in"),
             keys' = Append(keys, Key(KeyOwnerAsRead(s), {FullBucketScope, ControlScope}, -1, FALSE)),
             h' = [h EXCEPT ![s] = [@ EXCEPT !.st = "drop", !.by = Len(keys'),
                                              !.u = KeyOwnerAsRead(s)]]
      PROVE  KeyInv' /\ keys' \in Seq(KeyRecord)
  <2> DEFINE u == h[s].u
             r == Key(u, {FullBucketScope, ControlScope}, -1, FALSE)
             n == Len(keys')
  <2>1. u \in Users /\ dels[u] \in Nat
    BY <1>4, AtRuns DEF Running, TablesOK
  <2>2. r \in KeyRecord /\ r.user = u /\ r.born = dels[u] /\ r.seen = -1
    <3> DEFINE set == {FullBucketScope, ControlScope}
               never == -1
               no == FALSE
    <3>1. set \in SUBSET {FullBucketScope, ControlScope} /\ never \in Int /\ no \in BOOLEAN
      OBVIOUS
    <3> HIDE DEF u, set, never, no
    <3>2. /\ Key(u, set, never, no) \in KeyRecord /\ Key(u, set, never, no).user = u
          /\ Key(u, set, never, no).born = dels[u] /\ Key(u, set, never, no).seen = never
      BY <2>1, <3>1, KeyIsRecord
    <3> QED BY <3>2 DEF set, never, no
  <2>3. keys' = Append(keys, r)
    BY <1>4 DEF KeyOwnerAsRead
  <2> HIDE DEF r
  <2>4. Made
    BY <2>1, <2>2, <2>3 DEF Made
  <2>5. KeysStay /\ KeyRows' /\ Len(keys') = Len(keys) + 1
    BY <1>0, <2>4, RowsSurviveNewKeys DEF KeyInv
  <2>6. n \in Nat /\ n \in DOMAIN keys' /\ keys'[n].user = u
    <3>1. keys \in Seq(KeyRecord) /\ Len(keys) \in Nat
      BY LenProperties DEF TablesOK
    <3>2. keys'[Len(keys) + 1] = r
      BY <2>2, <2>3, <3>1, AppendProperties
    <3>3. DOMAIN keys' = 1..Len(keys')
      BY <2>5, LenProperties DEF KeysStay
    <3> QED BY <2>2, <2>5, <3>1, <3>2, <3>3
  <2>7. h' = [h EXCEPT ![s] = [@ EXCEPT !.st = "drop", !.by = n, !.u = KeyOwnerAsRead(s)]]
    BY <1>4
  <2> HIDE DEF n
  <2>8. /\ \A x \in Slots \ {s} : h'[x] = h[x]
        /\ h'[s] \in Running /\ h'[s].op = "cli_exchange" /\ h'[s].by = n /\ h'[s].u = u
    BY <1>4, <2>6, <2>7, ExchangeMints
  <2>9. KeyFits(h'[s], keys', row', dels')
    BY <2>6, <2>8 DEF KeyFits, OwnHandlers, AdminHandlers, AdminMakers
  <2> QED BY <1>1, <2>5, <2>8, <2>9, OneSlot DEF KeysStay
<1>5. ASSUME At(s, "cli_exchange", "drop"), Go(s, "answer"), UNCHANGED keys
      PROVE  KeyInv' /\ keys' \in Seq(KeyRecord)
  <2>1. h[s] # Idle /\ h[s].st # "in" /\ "answer" \in Stages
    BY <1>5, AtRuns DEF Stages
  <2> QED BY <1>1, <1>2, <1>5, <2>1, GoKeepsKeys DEF KeysStay
<1>6. ASSUME At(s, "cli_exchange", "answer"), Go(s, "idle"),
             keys' = IF RevealTo(h[s].u)
                     THEN [keys EXCEPT ![h[s].by].revealed = TRUE, ![h[s].by].seen = dels[h[s].u]]
                     ELSE keys
      PROVE  KeyInv' /\ keys' \in Seq(KeyRecord)
  <2>1. h[s] # Idle /\ h[s] \in Running /\ h[s].op = "cli_exchange" /\ h[s].st = "answer"
    BY <1>6, AtRuns
  <2>2. KeysStay /\ KeyRows'
    <3>1. CASE ~RevealTo(h[s].u)
      BY <1>2, <1>6, <3>1
    <3>2. CASE RevealTo(h[s].u)
      <4> DEFINE u == h[s].u
                 i == h[s].by
                 d == dels[u]
                 r == [keys[i] EXCEPT !.revealed = TRUE, !.seen = d]
      <4>1. i \in DOMAIN keys /\ keys[i].user = u
        BY <2>1 DEF KeyInv, KeyFits
      <4>2. keys[i] \in KeyRecord /\ d \in Int /\ ~row[u].deleted
        BY <2>1, <3>2, <4>1, LenProperties DEF TablesOK, Running, RevealTo, Live
      <4>3. keys' = [keys EXCEPT ![i] = r]
        <5>1. keys' = [keys EXCEPT ![i].revealed = TRUE, ![i].seen = d]
          BY <1>6, <3>2
        <5> HIDE DEF i, d
        <5> QED BY <4>1, <4>2, <5>1, LenProperties DEF KeyRecord, TablesOK
      <4> HIDE DEF d, i
      <4>4. /\ r \in KeyRecord /\ r.user = keys[i].user /\ r.born = keys[i].born
            /\ r.revoked = keys[i].revoked /\ r.seen = d
        BY <4>2 DEF KeyRecord
      <4> HIDE DEF r
      <4>5. Edited
        BY <4>1, <4>2, <4>3, <4>4 DEF Edited, d
      <4> QED BY <1>0, <4>5, RowsSurviveEdits DEF KeyInv
    <3> QED BY <3>1, <3>2
  <2> QED BY <1>1, <1>6, <2>1, <2>2, GoKeepsKeys DEF KeysStay
<1> QED BY <1>3, <1>4, <1>5, <1>6 DEF cli_exchange

\* A handler that makes no key goes on, whatever happens to the tables.
LEMMA CarryKeepsKeys ==
  ASSUME HandlersOK, TablesOK, KeyInv, KeysStay, DeletionsCount, KeyRows', NEW s \in Slots,
         \A r \in Slots \ {s} : h'[r] = h[r], Carry, h[s] # Idle,
         h'[s] = Idle \/ h[s].op \notin KeyMakers \cup {"cli_exchange"}
  PROVE  KeyInv'
<1>1. h[s] \in Running /\ KeyFits(h[s], keys, row, dels)
  BY IdleIsNotRunning DEF HandlersOK, KeyInv
<1>2. h'[s] = Idle \/ h'[s] = h[s] \/ (h'[s].op = h[s].op /\ (h'[s].k = h[s].k \/ h[s].op = "admin_purge_bucket"))
  BY DEF Carry, Carries
<1>3. ASSUME h'[s] \in Running PROVE KeyFits(h'[s], keys', row', dels')
  <2>1. h'[s].op = h[s].op /\ h[s].op \notin KeyMakers \cup {"cli_exchange"}
    BY <1>2, <1>3, IdleIsNotRunning
  <2>2. h'[s].op \in OwnHandlers \cup AdminHandlers => h'[s].k \in DOMAIN keys'
    BY <1>1, <1>2, <1>3, <2>1, IdleIsNotRunning DEF KeyFits, KeysStay, OwnHandlers, AdminHandlers
  <2> QED BY <2>1, <2>2 DEF KeyFits, KeyMakers, AdminMakers
<1> QED BY <1>3, OneSlot

LEMMA UserStepHandlers ==
  ASSUME HandlersOK, TablesOK, NEW s \in Slots, UserStep(s)
  PROVE  \/ Begins(s) /\ h'[s].op \in {"request", "consume", "google_callback"}
         \/ Carry /\ h[s] # Idle /\ h[s].op \notin KeyMakers \cup {"cli_exchange"}
<1>1. \/ Begins(s) /\ h'[s].op \in {"request", "consume", "google_callback"}
      \/ Carry /\ h[s] # Idle
  BY RequestHandlers, ConsumeHandlers, GoogleHandlers, AdminHandlersCarry, IdleIsNotRunning
     DEF UserStep
<1>2. ASSUME h[s] # Idle PROVE h[s].op \notin KeyMakers \cup {"cli_exchange"}
  <2>1. h[s].op \in {"request", "consume", "google_callback", "freeze_user", "unfreeze_user",
                     "delete_user", "delete_account", "impersonate_user"}
    BY <1>2 DEF UserStep, request_magic_link, consume_magic_link, google_callback, freeze_user,
       unfreeze_user, delete_user, delete_account, impersonate_user, At, Start
  <2> QED BY <2>1 DEF KeyMakers
<1> QED BY <1>1, <1>2

\* A user's or administrator's step on accounts, with a deletion or without.
LEMMA UserStepKeeps ==
  ASSUME HandlersOK, TablesOK, KeyInv, NEW s \in Slots, UserStep(s), UNCHANGED regVars
  PROVE  KeyInv' /\ keys' \in Seq(KeyRecord)
<1>1. \A r \in Slots \ {s} : h'[r] = h[r]
  BY OtherSlots
<1>2. \/ NoDeletion /\ UNCHANGED keys
      \/ \E u \in Users : soft_delete_user(u) /\ Carry
  <2>1. \/ NoDeletion
        \/ \E u \in Users : soft_delete_user(u) /\ Carry
    BY UserEffects DEF CpNext, Next
  <2>2. UNCHANGED keys \/ \E u \in Users : soft_delete_user(u) /\ Carry
    <3>1. ASSUME delete_user(s) \/ delete_account(s), ~UNCHANGED keys
          PROVE  soft_delete_user(h[s].u) /\ h[s].u \in Users /\ Carry
      <4>1. h[s].u \in Users /\ Carry
        BY <3>1, AdminHandlersCarry DEF Running
      <4> QED BY <3>1, <4>1 DEF delete_user, delete_account, Check
    <3>2. ASSUME ~(delete_user(s) \/ delete_account(s)) PROVE UNCHANGED keys
      BY <3>2 DEF UserStep, request_magic_link, consume_magic_link, google_callback, freeze_user,
         unfreeze_user, impersonate_user, Check
    <3> QED BY <3>1, <3>2
  <2> QED BY <2>1, <2>2
<1>3. CASE NoDeletion /\ UNCHANGED keys
  <2>1. KeysStay /\ KeyRows' /\ DeletionsCount
    BY <1>3, RowsSurviveNothing, NoDeletionCounts DEF KeyInv
  <2>2. CASE Begins(s) /\ h'[s].op \in {"request", "consume", "google_callback"}
    <3>1. h'[s].op \notin OwnHandlers \cup AdminHandlers \cup {"cli_exchange"}
      BY <2>2 DEF OwnHandlers, AdminHandlers
    <3> QED BY <1>3, <2>1, <2>2, <3>1, BeginsKeepsKeys DEF KeysStay
  <2> QED BY <1>1, <2>1, <2>2, UserStepHandlers, CarryKeepsKeys DEF KeysStay
<1>4. ASSUME NEW u \in Users, soft_delete_user(u), Carry PROVE KeyInv' /\ keys' \in Seq(KeyRecord)
  <2>1. KeysStay /\ KeyRows' /\ DeletionsCount
    BY <1>4, RowsSurviveDeletion DEF KeyInv, DeletionsCount
  <2>2. h[s] # Idle /\ h[s].op \notin KeyMakers \cup {"cli_exchange"}
    <3>1. ~Begins(s)
      BY <1>4, IdleIsNotRunning DEF Begins, Carry, Carries
    <3> QED BY <3>1, UserStepHandlers
  <2> QED BY <1>1, <1>4, <2>1, <2>2, CarryKeepsKeys DEF KeysStay
<1> QED BY <1>2, <1>3, <1>4

LEMMA BucketStepKeeps ==
  ASSUME HandlersOK, TablesOK, KeyInv, NEW s \in Slots, BucketStep(s)
  PROVE  KeyInv' /\ UNCHANGED keys
<1>1. UNCHANGED keys /\ UNCHANGED userVars
  BY DEF BucketStep, EnterBucket, create_bucket, archive_bucket, set_evm, purge_bucket,
     admin_purge_bucket, list_buckets, Finish, KeepAll, KeepAccounts
<1>2. NoDeletion /\ KeysStay /\ KeyRows' /\ DeletionsCount
  BY <1>1, NothingDeleted, RowsSurviveNothing, NoDeletionCounts DEF KeyInv
<1>3. CASE EnterBucket(s)
  <2>1. Begins(s) /\ h'[s].op \in BucketHandlers \cup {"admin_purge_bucket"}
    BY <1>3, BucketHandlersBegin
  <2>2. h'[s].op \notin OwnHandlers \cup AdminHandlers \cup {"cli_exchange"}
    BY <2>1 DEF BucketHandlers, OwnHandlers, AdminHandlers
  <2> QED BY <1>1, <1>2, <2>1, <2>2, BeginsKeepsKeys
<1>4. CASE ~EnterBucket(s)
  <2>1. Carry
    BY <1>4, BucketStepsCarry, AdminPurgeCarries, ListCarries DEF BucketStep
  <2>2. h[s] # Idle /\ h[s].op \in BucketHandlers \cup {"admin_purge_bucket"}
    BY <1>4 DEF BucketStep, create_bucket, archive_bucket, set_evm, purge_bucket,
       admin_purge_bucket, list_buckets, At, BucketHandlers
  <2>3. \A r \in Slots \ {s} : h'[r] = h[r]
    BY <1>4 DEF BucketStep, create_bucket, archive_bucket, set_evm, purge_bucket,
       admin_purge_bucket, list_buckets, Finish, Go, HandlersOK
  <2>4. h[s].op \notin KeyMakers \cup {"cli_exchange"}
    BY <2>2 DEF BucketHandlers, KeyMakers
  <2> QED BY <1>1, <1>2, <2>1, <2>2, <2>3, <2>4, CarryKeepsKeys
<1> QED BY <1>3, <1>4

LEMMA KeyInvStep ==
  ASSUME HandlersOK, TablesOK, KeyInv, [CpNext]_cpVars
  PROVE  KeyInv' /\ keys' \in Seq(KeyRecord)
<1>1. ASSUME UNCHANGED keys, UNCHANGED userVars
      PROVE  NoDeletion /\ KeysStay /\ KeyRows' /\ DeletionsCount
  BY <1>1, NothingDeleted, RowsSurviveNothing, NoDeletionCounts DEF KeyInv
<1>2. ASSUME UNCHANGED <<keys, h>>, UNCHANGED userVars PROVE KeyInv' /\ keys' \in Seq(KeyRecord)
  BY <1>2 DEF KeyInv, KeyRows, KeyFits, SawAlive, userVars, TablesOK
<1>3. ASSUME NEW s \in Slots, Enter(s) PROVE KeyInv' /\ keys' \in Seq(KeyRecord)
  <2>1. UNCHANGED keys /\ UNCHANGED userVars
    BY <1>3 DEF Enter
  <2>2. UNCHANGED row /\ h'[s].op \notin {"cli_exchange"}
    BY <1>3, <2>1, EnterBegins DEF userVars, OwnHandlers, AdminHandlers
  <2> QED BY <1>1, <1>3, <2>1, <2>2, EnterBegins, BeginsKeepsKeys DEF KeysStay
<1>4. ASSUME NEW s \in Slots, write_audit(s) \/ Die(s) \/ cli_authorize(s)
      PROVE  KeyInv' /\ keys' \in Seq(KeyRecord)
  <2>1. UNCHANGED keys /\ UNCHANGED userVars /\ h[s] # Idle
    BY <1>4 DEF write_audit, Die, cli_authorize, Check, At
  <2>2. h'[s] = Idle \/ h[s].op \notin KeyMakers \cup {"cli_exchange"}
    BY <1>4 DEF write_audit, Die, cli_authorize, At, Go, HandlersOK, KeyMakers
  <2>3. Carry /\ \A r \in Slots \ {s} : h'[r] = h[r]
    BY <1>4, EndHandlersCarry, OtherSlots
  <2> QED BY <1>1, <2>1, <2>2, <2>3, CarryKeepsKeys DEF KeysStay
<1>5. ASSUME NEW s \in Slots, cli_start(s) PROVE KeyInv' /\ keys' \in Seq(KeyRecord)
  BY <1>2, <1>5 DEF cli_start
<1>6. ASSUME Next, UNCHANGED regVars PROVE KeyInv' /\ keys' \in Seq(KeyRecord)
  <2>1. CASE Expire
    BY <1>2, <2>1 DEF Expire
  <2> QED BY <1>3, <1>4, <1>5, <1>6, <2>1, UserStepKeeps, KeyStepKeeps, ExchangeKeeps DEF Next
<1>7. ASSUME Gossip \/ UNCHANGED cpVars PROVE KeyInv' /\ keys' \in Seq(KeyRecord)
  BY <1>2, <1>7 DEF Gossip, KeepAccounts, cpVars, dashVars, userVars
<1> QED BY <1>6, <1>7, BucketStepKeeps DEF CpNext, TablesOK

-----------------------------------------------------------------------------
(* The theorems                                                            *)

CpInv == HandlersOK /\ TablesOK /\ KeyInv /\ LinkInv /\ CodeInv /\ HideInv

LEMMA CpInvInit ==
  ASSUME CpInit
  PROVE  CpInv
<1>1. Init
  BY DEF CpInit
<1>2. h = [s \in Slots |-> Idle] /\ \A s \in Slots : h[s] \notin Running
  BY <1>1, IdleIsNotRunning DEF Init
<1>3. HandlersOK
  BY <1>2 DEF HandlersOK
<1>4. row \in [Users -> Row] /\ \A u \in Users : row[u].deleted = FALSE
  <2>1. ASSUME NEW u \in Users
        PROVE  [known |-> TRUE, admin |-> u \in AdminEmails, frozen |-> FALSE, deleted |-> FALSE] \in Row
    <3> DEFINE b == u \in AdminEmails
    <3>1. b \in BOOLEAN
      OBVIOUS
    <3> HIDE DEF b
    <3>2. [known |-> TRUE, admin |-> b, frozen |-> FALSE, deleted |-> FALSE] \in Row
      BY <3>1 DEF Row
    <3> QED BY <3>2 DEF b
  <2>2. row = [u \in Users |-> [known |-> TRUE, admin |-> u \in AdminEmails,
                                frozen |-> FALSE, deleted |-> FALSE]]
    BY <1>1 DEF Init
  <2> QED BY <2>1, <2>2
<1>5. dels \in [Users -> Nat]
  BY <1>1 DEF Init
<1>6. \E u \in Users, r \in KeyRecord : keys = <<r>> /\ r.user = u /\ r.born = dels[u]
  <2>1. PICK u \in Users : keys = <<Key(u, {FullBucketScope, ControlScope}, 0, TRUE)>>
    BY <1>1 DEF Init
  <2> DEFINE r == Key(u, {FullBucketScope, ControlScope}, 0, TRUE)
  <2>2. r \in KeyRecord /\ r.user = u /\ r.born = dels[u]
    <3>1. dels[u] \in Nat /\ Never \in Instants
      BY <1>5 DEF Instants
    <3> QED BY <3>1 DEF Key, KeyRecord
  <2>3. keys = <<r>>
    BY <2>1
  <2> HIDE DEF r
  <2> QED BY <2>2, <2>3
<1>7. keys \in Seq(KeyRecord) /\ KeyInv
  <2>1. PICK u \in Users, r \in KeyRecord : keys = <<r>> /\ r.user = u /\ r.born = dels[u]
    BY <1>6
  <2>2. keys \in Seq(KeyRecord) /\ DOMAIN keys = {1} /\ keys[1] = r
    BY <2>1
  <2> QED BY <1>2, <1>4, <2>1, <2>2 DEF KeyInv, KeyRows
<1>8. /\ asked = <<>> /\ magic = {} /\ signed = <<>> /\ shown = <<>> /\ spent = {} /\ minted = {}
      /\ cli.st # "authorized"
  BY <1>1 DEF Init, NoSession
<1>9. TablesOK
  BY <1>4, <1>5, <1>7, <1>8 DEF TablesOK
<1>10. LinkInv
  BY <1>2, <1>8 DEF LinkInv, InRedis, InSigned, InHandler, Consumes
<1>11. CodeInv
  BY <1>2, <1>8 DEF CodeInv, Exchanges
<1>12. HideInv
  BY <1>2, RowKinds DEF CpInit, HideInv
<1> QED BY <1>3, <1>7, <1>9, <1>10, <1>11, <1>12 DEF CpInv

LEMMA CpInvStep ==
  ASSUME CpInv, [CpNext]_cpVars
  PROVE  CpInv'
<1> USE DEF CpInv
<1>1. HandlersOK'
  BY HandlersCarryOn
<1>2. KeyInv' /\ keys' \in Seq(KeyRecord)
  BY KeyInvStep
<1>3. /\ LinkInv' /\ asked' \in Seq(Browsers) /\ magic' \subseteq Link
      /\ signed' \in Seq(Nat \X Browsers)
  BY LinkStep
<1>4. CodeInv' /\ shown' \in Seq(Users) /\ (cli'.st = "authorized" => cli'.user \in Users)
  BY CodeStep
<1>5. HideInv'
  BY HideStep
<1>6. row' \in [Users -> Row] /\ dels' \in [Users -> Nat]
  <2>1. CASE NoDeletion
    BY <2>1 DEF NoDeletion, TablesOK
  <2>2. CASE \E u \in Users : soft_delete_user(u)
    BY <2>2, RowsSurviveDeletion DEF KeyInv
  <2> QED BY <2>1, <2>2, UserEffects
<1>7. TablesOK'
  BY <1>2, <1>3, <1>4, <1>6 DEF TablesOK
<1> QED BY <1>1, <1>2, <1>3, <1>4, <1>5, <1>7

LEMMA CpInvHolds == CpSpec => []CpInv
BY CpInvInit, CpInvStep, PTL DEF CpSpec

\* A key somebody holds does not outlive a deletion of its owner, and one that
\* works while the owner is deleted was made by a handler that had found the
\* owner alive: soft_delete_user revokes with the mark, and every route that
\* makes keys has looked at the owner.
THEOREM DeletionsCutOff == CpSpec => []DeletionCutsOff
<1>1. CpInv => DeletionCutsOff
  BY DEF CpInv, KeyInv, KeyRows, DeletionCutsOff, KeyUsable
<1> QED BY <1>1, CpInvHolds, PTL

\* A magic link signs in once, and only in the browser that asked for it: a link
\* is in Redis, with one consume handler, or used, and GETDEL moves it on.
THEOREM LinksWorkOnce == CpSpec => []LinkOnce
<1>1. CpInv => LinkOnce
  BY DEF CpInv, LinkInv, InSigned, AskedFrom, LinkOnce
<1> QED BY <1>1, CpInvHolds, PTL

\* A device code makes keys only for the user it was shown to and none once an
\* exchange has ended the session: cli_authorize writes user and code together,
\* and a code that is spent is in no session.
THEOREM CodesAreOwners == CpSpec => []CodeIsOwners
<1>1. CpInv => CodeIsOwners
  BY DEF CpInv, CodeInv, CodeIsOwners
<1> QED BY <1>1, CpInvHolds, PTL

\* A list that starts after a purge was answered does not show the bucket as
\* active, whatever the edge it asks knows: purge_bucket archives the row before
\* it answers, and no step takes a row out of the archive.
THEOREM PurgesHide == CpSpec => []PurgedIsHidden
<1>1. CpInv => PurgedIsHidden
  BY DEF CpInv, HideInv, PurgedIsHidden
<1> QED BY <1>1, CpInvHolds, PTL

-----------------------------------------------------------------------------
(* The billing service.                                                    *)

Prices == DOMAIN PlanOfPrice \cup AnnualPrices
EventTypes == {"checkout", "invoice", "updated", "deleted"}
StripeEvents == [type : EventTypes, id : Nat, user : Payers, sub : Nat \ {0},
                 customer : Nat \ {0}, price : Prices]
Nonces == {<<"none">>, <<"grant">>} \cup ({"admin"} \X Nat) \cup (EventTypes \X Nat)
            \cup {<<x>> : x \in Prices}
Calls == {"status", "checkout", "set_plan", "grant"}
BillStages == EventTypes \cup {"check", "mark", "period", "balance", "post", "customer"}
BillJobs == [op : Calls \cup {"webhook"}, st : BillStages, u : Payers,
             e : {Quiet} \cup StripeEvents, n : Nat, after : SUBSET Nat, want : Int,
             nonce : Nonces, exact : BOOLEAN, delta : Int]
SubRows == [plan : DOMAIN Monthly, customer : Nat, stripe : Nat,
            status : {"free", "active", "past_due", "canceled", "manual"}, period : Nat]

BillTables ==
  /\ subs \in [Payers -> {NoSub} \cup SubRows]
  /\ sessions \subseteq [user : Payers, customer : Nat \ {0}, price : Prices]
  /\ events \in Seq(StripeEvents) /\ \A i \in 1..Len(events) : events[i].id = i
  /\ tries \in Seq(Nat) /\ Len(tries) = Len(events)
  /\ due \subseteq 1..Len(events)
  /\ customers \in Nat /\ nonces \in Nat /\ credits \in [Payers -> Int]

(* A delivery is about an event Stripe made, for the user it is about, and *)
(* posts under the nonce of the event.                                     *)
Fits(v) ==
  /\ v.op = "checkout" <=> v.st = "customer"
  /\ v.op = "checkout" => v.want \in Nat /\ \E x \in Prices : v.nonce = <<x>>
  /\ v.st \in EventTypes \cup {"check", "mark", "period"} => v.op = "webhook"
  /\ v.op = "webhook" =>
       /\ v.e \in StripeEvents /\ v.e.id \in 1..Len(events) /\ v.e = events[v.e.id]
       /\ v.n <= tries[v.e.id] /\ v.u = v.e.user
       /\ v.st \in {"balance", "post"} => v.nonce = NonceOf(v)

BillJobsOK ==
  /\ job \in [BillSlots -> {Quiet} \cup BillJobs]
  /\ \A s \in BillSlots : job[s] \in BillJobs => Fits(job[s])

(* A Stripe subscription belongs to one user.                              *)
SubInv ==
  /\ \A i \in 1..Len(events) : events[i].sub <= Len(events)
  /\ \A i, k \in 1..Len(events) : events[i].sub = events[k].sub => events[i].user = events[k].user
  /\ \A u \in Payers : subs[u] # NoSub /\ subs[u].stripe # 0 =>
        \E i \in 1..Len(events) : events[i].sub = subs[u].stripe /\ events[i].user = u

(* So does a Stripe customer, wherever one is written down.                *)
Owns(c, u) ==
  \/ subs[u] # NoSub /\ subs[u].customer = c
  \/ \E x \in sessions : x.customer = c /\ x.user = u
  \/ \E i \in 1..Len(events) : events[i].customer = c /\ events[i].user = u
  \/ \E s \in BillSlots : /\ job[s] \in BillJobs /\ job[s].st = "customer"
                          /\ job[s].want = c /\ job[s].u = u
OwnInv ==
  \A c \in Nat \ {0}, u \in Payers : Owns(c, u) =>
     c <= customers /\ \A v \in Payers : Owns(c, v) => u = v

(* Deliveries under way have not ended, and are not each other.            *)
Delivering(s) == job[s] \in BillJobs /\ job[s].op = "webhook"
DeliveryInv ==
  /\ over \subseteq (1..Len(events)) \X Nat /\ \A d \in over : d[2] <= tries[d[1]]
  /\ \A s \in BillSlots : Delivering(s) =>
       /\ <<job[s].e.id, job[s].n>> \notin over
       /\ \A k \in job[s].after : <<job[s].e.id, k>> \in over
       /\ \A t \in BillSlots : Delivering(t) /\ job[t].e.id = job[s].e.id /\ job[t].n = job[s].n => s = t

CreditInv ==
  /\ \A a \in credited :
       /\ a.e \in processed /\ a.e \in 1..Len(events)
       /\ \A k \in a.after : <<a.e, k>> \in over
       /\ <<events[a.e].user, <<events[a.e].type, a.e>>, a.amount>> \in granted
  /\ \A s \in BillSlots : Delivering(s) =>
       /\ job[s].st \notin {"check", "mark"} => job[s].e.id \in processed
       /\ job[s].st # "check" => \A a \in credited : a.e = job[s].e.id => a.n \notin job[s].after

LEMMA QuietIsNoJob == Quiet \notin BillJobs
BY DEF Quiet, BillJobs, BillStages, EventTypes

(* Stripe's list only grows.                                               *)
Grows ==
  /\ Len(events') >= Len(events) /\ Len(events') \in Nat
  /\ \A i \in 1..Len(events) : events'[i] = events[i] /\ tries'[i] >= tries[i]

LEMMA StillFits ==
  ASSUME BillTables, BillTables', Grows, NEW v \in BillJobs, Fits(v)
  PROVE  Fits(v)'
<1>1. ASSUME v.op = "webhook"
      PROVE  /\ v.e.id \in 1..Len(events') /\ v.e = events'[v.e.id] /\ v.n <= tries'[v.e.id]
  <2>1. v.e.id \in 1..Len(events) /\ v.e = events[v.e.id] /\ v.n <= tries[v.e.id]
    BY <1>1 DEF Fits
  <2> DEFINE i == v.e.id
  <2>2. i \in 1..Len(events) /\ v.n \in Nat /\ Len(events) \in Nat
    BY <2>1 DEF BillTables, BillJobs
  <2> HIDE DEF i
  <2>3. i \in 1..Len(events')
    BY <2>2 DEF Grows
  <2>4. tries[i] \in Nat
    BY <2>2 DEF BillTables
  <2>5. tries'[i] \in Nat
    BY <2>3 DEF BillTables
  <2>6. v.n <= tries'[i] /\ v.e = events'[i]
    BY <2>1, <2>2, <2>4, <2>5 DEF Grows, i
  <2> QED BY <2>3, <2>6 DEF i
<1> QED BY <1>1 DEF Fits, NonceOf

LEMMA EmitGrows ==
  ASSUME BillTables, NEW new \in Seq(StripeEvents), Emit(new),
         \A i \in 1..Len(new) : new[i].id = Len(events) + i
  PROVE  /\ Grows /\ Len(events') = Len(events) + Len(new)
         /\ events' \in Seq(StripeEvents) /\ \A i \in 1..Len(events') : events'[i].id = i
         /\ tries' \in Seq(Nat) /\ Len(tries') = Len(events')
         /\ \A i \in 1..Len(events) : tries'[i] = tries[i]
         /\ due' \subseteq 1..Len(events')
         /\ \A i \in 1..Len(events') :
              i \in 1..Len(events) \/ (i - Len(events) \in 1..Len(new) /\ events'[i] = new[i - Len(events)])
<1> DEFINE zeros == [i \in DOMAIN new |-> 0]
<1>1. /\ events \in Seq(StripeEvents) /\ Len(events) \in Nat /\ Len(new) \in Nat
      /\ DOMAIN new = 1..Len(new) /\ tries \in Seq(Nat) /\ Len(tries) = Len(events)
  BY DEF BillTables
<1>2. zeros \in Seq(Nat) /\ Len(zeros) = Len(new)
  BY <1>1
<1> HIDE DEF zeros
<1>3. events' = events \o new /\ tries' = tries \o zeros /\ due' = due \cup {new[i].id : i \in DOMAIN new}
  BY DEF Emit, zeros
<1>4. /\ events' \in Seq(StripeEvents) /\ Len(events') = Len(events) + Len(new)
      /\ \A i \in 1..(Len(events) + Len(new)) :
           events'[i] = IF i <= Len(events) THEN events[i] ELSE new[i - Len(events)]
  BY <1>1, <1>3
<1>5. /\ tries' \in Seq(Nat) /\ Len(tries') = Len(events')
      /\ \A i \in 1..(Len(events) + Len(new)) :
           i <= Len(events) => tries'[i] = tries[i]
  <2>1. /\ tries' \in Seq(Nat) /\ Len(tries') = Len(tries) + Len(zeros)
        /\ \A i \in 1..(Len(tries) + Len(zeros)) : i <= Len(tries) => tries'[i] = tries[i]
    <3>1. tries' = tries \o zeros /\ tries \in Seq(Nat) /\ zeros \in Seq(Nat)
      BY <1>1, <1>2, <1>3
    <3>2. tries' \in Seq(Nat) /\ Len(tries') = Len(tries) + Len(zeros)
      BY <3>1
    <3>3. \A i \in 1..(Len(tries) + Len(zeros)) :
            tries'[i] = IF i <= Len(tries) THEN tries[i] ELSE zeros[i - Len(tries)]
      BY <3>1, ConcatProperties
    <3> QED BY <3>2, <3>3
  <2> QED BY <2>1, <1>1, <1>2, <1>4
<1>6. \A i \in 1..Len(events') :
        i \in 1..Len(events) \/ (i - Len(events) \in 1..Len(new) /\ events'[i] = new[i - Len(events)])
  BY <1>1, <1>4
<1>7. \A i \in 1..Len(events') : events'[i].id = i
  <2>1. \A i \in 1..Len(events) : events[i].id = i
    BY DEF BillTables
  <2> TAKE i \in 1..Len(events')
  <2>2. CASE i \in 1..Len(events)
    BY <1>1, <1>4, <2>1, <2>2
  <2>3. CASE i - Len(events) \in 1..Len(new) /\ events'[i] = new[i - Len(events)]
    BY <1>1, <1>4, <2>3
  <2> QED BY <1>6, <2>2, <2>3
<1>8. \A i \in 1..Len(events) : tries'[i] = tries[i] /\ tries[i] \in Nat
  BY <1>1, <1>5
<1>9. Grows
  BY <1>1, <1>4, <1>8 DEF Grows
<1>10. due' \subseteq 1..Len(events')
  <2>1. due \subseteq 1..Len(events)
    BY DEF BillTables
  <2>2. \A i \in DOMAIN new : new[i].id \in 1..Len(events')
    BY <1>1, <1>4
  <2>3. 1..Len(events) \subseteq 1..Len(events')
    BY <1>1, <1>4
  <2> QED BY <1>3, <2>1, <2>2, <2>3
<1> QED BY <1>4, <1>5, <1>6, <1>7, <1>8, <1>9, <1>10

BillCore == BillTables /\ BillJobsOK /\ SubInv /\ OwnInv

(* The table changes, but no user gets another customer, and a Stripe      *)
(* subscription only from an event about the user.                         *)
RowsKept ==
  /\ subs' \in [Payers -> {NoSub} \cup SubRows]
  /\ \A u \in Payers : subs'[u] # NoSub =>
       /\ subs'[u].customer # 0 => subs[u] # NoSub /\ subs'[u].customer = subs[u].customer
       /\ subs'[u].stripe # 0 =>
            \/ subs[u] # NoSub /\ subs'[u].stripe = subs[u].stripe
            \/ \E i \in 1..Len(events) : events[i].sub = subs'[u].stripe /\ events[i].user = u

LEMMA FreeIsRow == Free \in SubRows /\ Free.customer = 0 /\ Free.stripe = 0
BY BillingAssumption DEF Free, SubRows

LEMMA SameRows ==
  ASSUME BillTables, UNCHANGED subs
  PROVE  RowsKept
BY DEF RowsKept, BillTables

LEMMA CreatedRows ==
  ASSUME BillTables, NEW u \in Payers, subs' = get_or_create_subscription(u)
  PROVE  /\ RowsKept /\ subs'[u] \in SubRows
         /\ subs'[u].customer # 0 => subs[u] # NoSub /\ subs'[u].customer = subs[u].customer
<1>1. subs' = IF subs[u] = NoSub THEN [subs EXCEPT ![u] = Free] ELSE subs
  BY DEF get_or_create_subscription
<1>2. subs \in [Payers -> {NoSub} \cup SubRows]
  BY DEF BillTables
<1> QED BY <1>1, <1>2, FreeIsRow DEF RowsKept

(* An UPDATE: the row keeps its customer.                                   *)
LEMMA UpdatedRows ==
  ASSUME BillTables, NEW u \in Payers, NEW r, subs[u] # NoSub => r \in SubRows,
         subs[u] # NoSub => r.customer = subs[u].customer,
         subs[u] # NoSub /\ r.stripe # 0 =>
            \/ r.stripe = subs[u].stripe
            \/ \E i \in 1..Len(events) : events[i].sub = r.stripe /\ events[i].user = u,
         subs' = Update(u, r)
  PROVE  RowsKept
<1>1. subs' = IF subs[u] = NoSub THEN subs ELSE [subs EXCEPT ![u] = r]
  BY DEF Update
<1>2. subs \in [Payers -> {NoSub} \cup SubRows]
  BY DEF BillTables
<1> QED BY <1>1, <1>2 DEF RowsKept

LEMMA TableUpdates ==
  ASSUME BillCore, NEW u \in Payers
  PROVE  /\ \A i \in 1..Len(events), tier \in DOMAIN Monthly :
              events[i].user = u /\ subs' = activate_subscription(u, events[i].sub, tier)
                => RowsKept
         /\ subs' = update_subscription_status(u, "past_due") => RowsKept
         /\ \A k \in Nat : subs' = update_period(u, k) => RowsKept
         /\ subs' = cancel_subscription(u) => RowsKept
<1> USE DEF BillCore
<1>1. subs[u] # NoSub => subs[u] \in SubRows
  BY DEF BillTables
<1>2. ASSUME NEW i \in 1..Len(events), events[i].user = u, NEW tier \in DOMAIN Monthly,
             subs' = activate_subscription(u, events[i].sub, tier)
      PROVE  RowsKept
  <2> DEFINE k == events[i].sub
             q == [subs[u] EXCEPT !.stripe = k, !.plan = tier, !.status = "active", !.period = k]
  <2>1. k \in Nat
    <3>1. events[i] \in StripeEvents
      BY DEF BillTables
    <3> QED BY <3>1 DEF StripeEvents
  <2>2. subs' = Update(u, q)
    BY <1>2 DEF activate_subscription
  <2> HIDE DEF k
  <2>3. subs[u] # NoSub => q \in SubRows /\ q.customer = subs[u].customer /\ q.stripe = k
    BY <1>1, <2>1 DEF SubRows
  <2> HIDE DEF q
  <2>4. \E m \in 1..Len(events) : events[m].sub = k /\ events[m].user = u
    BY <1>2 DEF k
  <2> QED BY <2>2, <2>3, <2>4, UpdatedRows
<1>3. ASSUME subs' = update_subscription_status(u, "past_due") PROVE RowsKept
  <2> DEFINE q == [subs[u] EXCEPT !.status = "past_due"]
  <2>1. subs' = Update(u, q)
    BY <1>3 DEF update_subscription_status
  <2>2. subs[u] # NoSub => q \in SubRows /\ q.customer = subs[u].customer /\ q.stripe = subs[u].stripe
    BY <1>1 DEF SubRows
  <2> HIDE DEF q
  <2> QED BY <2>1, <2>2, UpdatedRows
<1>4. ASSUME NEW k \in Nat, subs' = update_period(u, k) PROVE RowsKept
  <2> DEFINE q == [subs[u] EXCEPT !.period = k]
  <2>1. subs' = Update(u, q)
    BY <1>4 DEF update_period
  <2>2. subs[u] # NoSub => q \in SubRows /\ q.customer = subs[u].customer /\ q.stripe = subs[u].stripe
    BY <1>1 DEF SubRows
  <2> HIDE DEF q
  <2> QED BY <2>1, <2>2, UpdatedRows
<1>5. ASSUME subs' = cancel_subscription(u) PROVE RowsKept
  <2> DEFINE q == [subs[u] EXCEPT !.status = "canceled", !.plan = "free", !.stripe = 0]
  <2>1. subs' = Update(u, q)
    BY <1>5 DEF cancel_subscription
  <2>2. subs[u] # NoSub => q \in SubRows /\ q.customer = subs[u].customer /\ q.stripe = 0
    BY <1>1, BillingAssumption DEF SubRows
  <2> HIDE DEF q
  <2> QED BY <2>1, <2>2, UpdatedRows
<1> QED BY <1>2, <1>3, <1>4, <1>5

(* A handler goes on with the delivery it has, or ends.                    *)
CarriesOn(v, w) ==
  /\ w.op = v.op /\ w.e = v.e /\ w.n = v.n /\ w.after = v.after
  /\ w.st \notin {"check", "customer"}
  /\ v.st = "check" => v.e.id \notin processed
  /\ w.st = "mark" => v.st = "check"
  /\ v.st = "check" => w.st = "mark"
  /\ v.st = "mark" => v.e.id \in processed'
GoesOn(s) == /\ UNCHANGED over
             /\ \E w \in BillJobs : Move(s, w) /\ CarriesOn(job[s], w) /\ Fits(w)
EndsUp(s) == /\ Move(s, Quiet)
             /\ over' = IF job[s].op = "webhook" THEN over \cup {<<job[s].e.id, job[s].n>>} ELSE over
Posted(j) == [e |-> j.e.id, n |-> j.n, after |-> j.after, amount |-> j.delta]
Posts(s) ==
  /\ job[s].op = "webhook" /\ job[s].st = "post"
  /\ <<job[s].u, job[s].nonce, job[s].delta>> \notin granted
  /\ granted' = granted \cup {<<job[s].u, job[s].nonce, job[s].delta>>}
  /\ credited' = credited \cup {Posted(job[s])}

Work(s) ==
  /\ job[s] \in BillJobs /\ job[s].st # "customer"
  /\ GoesOn(s) \/ EndsUp(s)
  /\ RowsKept
  /\ (granted \subseteq granted' /\ UNCHANGED credited) \/ Posts(s)
  /\ processed \subseteq processed' /\ due' \subseteq due /\ credits' \in [Payers -> Int]
  /\ UNCHANGED <<sessions, events, tries, customers, nonces>>

LEMMA AtStage ==
  ASSUME BillJobsOK, NEW s \in BillSlots, NEW st \in BillStages, job[s].st = st
  PROVE  job[s] \in BillJobs /\ Fits(job[s])
<1>1. Quiet.st = "idle" /\ "idle" \notin BillStages
  BY DEF Quiet, BillStages, EventTypes
<1> QED BY <1>1 DEF BillJobsOK

LEMMA EndIsEnd ==
  ASSUME NEW s \in BillSlots, NEW ok \in BOOLEAN, Ends(s, ok)
  PROVE  EndsUp(s) /\ due' \subseteq due
BY DEF Ends, EndsUp

(* A handler moves to another stage of the same call.                      *)
LEMMA StageGoes ==
  ASSUME NEW s \in BillSlots, job[s] \in BillJobs, Fits(job[s]), NEW st \in BillStages,
         Stage(s, st), UNCHANGED over,
         job[s].st # "customer", st \notin {"check", "customer", "balance", "post"},
         st \in EventTypes \cup {"mark", "period"} => job[s].op = "webhook",
         job[s].st = "check" => job[s].e.id \notin processed,
         st = "mark" <=> job[s].st = "check",
         job[s].st = "mark" => job[s].e.id \in processed'
  PROVE  GoesOn(s)
<1> PICK v : v = job[s] OBVIOUS
<1> DEFINE w == [v EXCEPT !.st = st]
<1>1. /\ w \in BillJobs /\ w.st = st /\ w.op = v.op /\ w.e = v.e /\ w.n = v.n
      /\ w.after = v.after /\ w.u = v.u /\ w.nonce = v.nonce
  BY DEF BillJobs
<1>2. Move(s, w)
  BY DEF Stage
<1> HIDE DEF w
<1>3. Fits(w)
  BY <1>1 DEF Fits, NonceOf, EventTypes
<1>4. CarriesOn(job[s], w)
  BY <1>1 DEF CarriesOn
<1> QED BY <1>1, <1>2, <1>3, <1>4 DEF GoesOn

(* It goes on to top up the user the event is about.                       *)
LEMMA TopUpGoes ==
  ASSUME NEW s \in BillSlots, job[s] \in BillJobs, Fits(job[s]), UNCHANGED over,
         job[s].st \in EventTypes, NEW tier \in DOMAIN Monthly,
         TopUp(s, job[s].e.user, tier, NonceOf(job[s]), FALSE)
  PROVE  GoesOn(s)
<1> PICK v : v = job[s] OBVIOUS
<1>0. v.op = "webhook" /\ v.e \in StripeEvents /\ v.u = v.e.user /\ v.e.user \in Payers
  BY DEF Fits, StripeEvents
<1> DEFINE c == Monthly[tier]
           x == NonceOf(v)
           w == [v EXCEPT !.st = "balance", !.u = v.e.user, !.want = c, !.nonce = x, !.exact = FALSE]
<1>1. c \in Int
  BY BillingAssumption
<1>2. x \in Nonces /\ x = <<v.e.type, v.e.id>>
  BY <1>0 DEF Nonces, NonceOf, StripeEvents
<1>3. Move(s, w)
  BY DEF TopUp
<1> HIDE DEF c, x
<1>4. /\ w \in BillJobs /\ w.st = "balance" /\ w.op = v.op /\ w.e = v.e /\ w.n = v.n
      /\ w.after = v.after /\ w.u = v.e.user /\ w.nonce = x
  BY <1>0, <1>1, <1>2 DEF BillJobs, BillStages
<1> HIDE DEF w
<1>5. Fits(w)
  <2>1. w.nonce = NonceOf(w)
    BY <1>2, <1>4 DEF NonceOf
  <2> QED BY <1>0, <1>4, <2>1 DEF Fits, EventTypes
<1>6. CarriesOn(job[s], w)
  BY <1>4 DEF CarriesOn, EventTypes
<1> QED BY <1>3, <1>4, <1>5, <1>6 DEF GoesOn

(* The amount is known.                                                    *)
LEMMA PostGoes ==
  ASSUME NEW s \in BillSlots, job[s] \in BillJobs, Fits(job[s]), UNCHANGED over,
         job[s].st = "balance", NEW d \in Int,
         Move(s, [job[s] EXCEPT !.st = "post", !.delta = d])
  PROVE  GoesOn(s)
<1> PICK v : v = job[s] OBVIOUS
<1> DEFINE w == [v EXCEPT !.st = "post", !.delta = d]
<1>1. /\ w \in BillJobs /\ w.st = "post" /\ w.op = v.op /\ w.e = v.e /\ w.n = v.n
      /\ w.after = v.after /\ w.u = v.u /\ w.nonce = v.nonce
  BY DEF BillJobs, BillStages
<1> HIDE DEF w
<1>2. Fits(w)
  BY <1>1 DEF Fits, NonceOf, EventTypes
<1>3. CarriesOn(job[s], w)
  BY <1>1 DEF CarriesOn
<1>4. Move(s, w)
  BY DEF w
<1> QED BY <1>1, <1>2, <1>3, <1>4 DEF GoesOn

(* The users the table knows for a customer or a subscription.             *)
LEMMA EventUser ==
  ASSUME BillCore, NEW v \in BillJobs, Fits(v), v.op = "webhook", NEW u \in Payers
  PROVE  /\ u \in ByCustomer(v.e.customer) => u = v.e.user
         /\ u \in ByStripe(v.e.sub) => u = v.e.user
<1> USE DEF BillCore
<1>1. PICK i \in 1..Len(events) : v.e = events[i]
  BY DEF Fits
<1>2. events[i] \in StripeEvents
  BY DEF BillTables
<1>3. ASSUME u \in ByCustomer(v.e.customer) PROVE u = v.e.user
  <2> DEFINE c == events[i].customer
             y == events[i].user
  <2>1. c \in Nat \ {0} /\ y \in Payers
    BY <1>2 DEF StripeEvents
  <2>2. Owns(c, u) /\ Owns(c, y)
    BY <1>1, <1>3 DEF Owns, ByCustomer
  <2> HIDE DEF c, y
  <2>3. u = y
    BY <2>1, <2>2 DEF OwnInv
  <2> QED BY <1>1, <2>3 DEF y
<1>4. ASSUME u \in ByStripe(v.e.sub) PROVE u = v.e.user
  BY <1>1, <1>2, <1>4 DEF SubInv, ByStripe, StripeEvents
<1> QED BY <1>3, <1>4

LEMMA ChecksWork ==
  ASSUME BillCore, NEW s \in BillSlots,
         is_stripe_event_processed(s) \/ mark_stripe_event_processed(s)
  PROVE  Work(s)
<1> USE DEF BillCore
<1>1. ASSUME is_stripe_event_processed(s) PROVE Work(s)
  <2>1. job[s].st = "check" /\ job[s] \in BillJobs /\ Fits(job[s]) /\ job[s].op = "webhook"
    BY <1>1, AtStage DEF is_stripe_event_processed, BillStages, Fits
  <2>2. RowsKept
    BY <1>1, SameRows DEF is_stripe_event_processed
  <2>3. (GoesOn(s) \/ EndsUp(s)) /\ due' \subseteq due
    <3>1. CASE job[s].e.id \in processed
      BY <1>1, <3>1, EndIsEnd DEF is_stripe_event_processed, AlreadyProcessed
    <3>2. CASE job[s].e.id \notin processed
      <4>1. Stage(s, "mark") /\ UNCHANGED <<over, due>>
        BY <1>1, <3>2 DEF is_stripe_event_processed, AlreadyProcessed
      <4> QED BY <2>1, <3>2, <4>1, StageGoes DEF BillStages, EventTypes
    <3> QED BY <3>1, <3>2
  <2> QED BY <1>1, <2>1, <2>2, <2>3 DEF Work, BillTables, Keep, ledgerVars, is_stripe_event_processed
<1>2. ASSUME mark_stripe_event_processed(s) PROVE Work(s)
  <2>1. job[s].st = "mark" /\ job[s] \in BillJobs /\ Fits(job[s]) /\ job[s].op = "webhook"
    BY <1>2, AtStage DEF mark_stripe_event_processed, BillStages, Fits
  <2>2. RowsKept
    BY <1>2, SameRows DEF mark_stripe_event_processed
  <2> DEFINE st == job[s].e.type
  <2>3. st \in EventTypes
    BY <2>1 DEF Fits, StripeEvents
  <2>4. Stage(s, st) /\ UNCHANGED over /\ job[s].e.id \in processed'
    BY <1>2 DEF mark_stripe_event_processed
  <2> HIDE DEF st
  <2>5. GoesOn(s)
    BY <2>1, <2>3, <2>4, StageGoes DEF BillStages, EventTypes
  <2> QED BY <1>2, <2>1, <2>2, <2>5 DEF Work, BillTables, ledgerVars, stripeVars, mark_stripe_event_processed
<1> QED BY <1>1, <1>2

LEMMA CheckoutWorks ==
  ASSUME BillCore, NEW s \in BillSlots, handle_checkout_completed(s)
  PROVE  Work(s)
<1> USE DEF BillCore
<1>1. /\ job[s].st = "checkout" /\ job[s] \in BillJobs /\ Fits(job[s]) /\ job[s].op = "webhook"
      /\ job[s].st \in EventTypes
  BY AtStage DEF handle_checkout_completed, BillStages, EventTypes, Fits
<1>2. CASE (\E ok \in BOOLEAN : Ends(s, ok)) /\ UNCHANGED subs
  BY <1>1, <1>2, EndIsEnd, SameRows DEF Work, BillTables, Keep, ledgerVars, handle_checkout_completed
<1>3. CASE /\ job[s].e.price \in DOMAIN PlanOfPrice
           /\ subs' = activate_subscription(job[s].e.user, job[s].e.sub, PlanOfPrice[job[s].e.price])
           /\ TopUp(s, job[s].e.user, PlanOfPrice[job[s].e.price], NonceOf(job[s]), FALSE)
           /\ UNCHANGED <<over, due>>
  <2> DEFINE tier == PlanOfPrice[job[s].e.price]
  <2>1. tier \in DOMAIN Monthly
    BY <1>3, BillingAssumption
  <2>2. /\ subs' = activate_subscription(job[s].e.user, job[s].e.sub, tier)
        /\ TopUp(s, job[s].e.user, tier, NonceOf(job[s]), FALSE)
    BY <1>3
  <2> HIDE DEF tier
  <2>3. GoesOn(s)
    BY <1>1, <1>3, <2>1, <2>2, TopUpGoes
  <2>4. RowsKept
    <3>1. PICK i \in 1..Len(events) : job[s].e = events[i]
      BY <1>1 DEF Fits
    <3>2. PICK u : u = events[i].user
      OBVIOUS
    <3>3. u \in Payers
      <4>1. events[i] \in StripeEvents
        BY DEF BillTables
      <4> QED BY <3>2, <4>1 DEF StripeEvents
    <3>4. subs' = activate_subscription(u, events[i].sub, tier)
      BY <2>2, <3>1, <3>2
    <3> QED BY <2>1, <3>2, <3>3, <3>4, TableUpdates
  <2> QED BY <1>1, <1>3, <2>3, <2>4 DEF Work, BillTables, Keep, ledgerVars, handle_checkout_completed
<1> QED BY <1>2, <1>3 DEF handle_checkout_completed

LEMMA InvoiceWorks ==
  ASSUME BillCore, NEW s \in BillSlots, handle_invoice_paid(s)
  PROVE  Work(s)
<1> USE DEF BillCore
<1>1. /\ job[s].st = "invoice" /\ job[s] \in BillJobs /\ Fits(job[s]) /\ job[s].op = "webhook"
      /\ job[s].st \in EventTypes
  BY AtStage DEF handle_invoice_paid, BillStages, EventTypes, Fits
<1>2. RowsKept
  BY SameRows DEF handle_invoice_paid
<1>3. (GoesOn(s) \/ EndsUp(s)) /\ due' \subseteq due
  <2>1. CASE Ends(s, TRUE)
    BY <2>1, EndIsEnd
  <2>2. CASE /\ \E u \in ByCustomer(job[s].e.customer) :
                  TopUp(s, u, subs[u].plan, NonceOf(job[s]), FALSE)
             /\ UNCHANGED <<over, due>>
    <3>1. PICK u \in ByCustomer(job[s].e.customer) :
            TopUp(s, u, subs[u].plan, NonceOf(job[s]), FALSE)
      BY <2>2
    <3>2. u \in Payers /\ subs[u] # NoSub
      BY DEF ByCustomer
    <3>3. u = job[s].e.user
      BY <1>1, <3>1, <3>2, EventUser
    <3> DEFINE tier == subs[u].plan
    <3>4. tier \in DOMAIN Monthly
      BY <3>2 DEF BillTables, SubRows
    <3>5. TopUp(s, job[s].e.user, tier, NonceOf(job[s]), FALSE)
      BY <3>1, <3>3
    <3> HIDE DEF tier
    <3> QED BY <1>1, <2>2, <3>4, <3>5, TopUpGoes
  <2> QED BY <2>1, <2>2 DEF handle_invoice_paid
<1> QED BY <1>1, <1>2, <1>3 DEF Work, BillTables, Keep, ledgerVars, handle_invoice_paid

LEMMA PeriodWorks ==
  ASSUME BillCore, NEW s \in BillSlots, InvoicePeriod(s)
  PROVE  Work(s)
<1> USE DEF BillCore
<1>1. job[s].st = "period" /\ job[s] \in BillJobs /\ Fits(job[s]) /\ Ends(s, TRUE)
  BY AtStage DEF InvoicePeriod, BillStages
<1>2. RowsKept
  <2> DEFINE k == job[s].e.id
  <2>0. job[s].u \in Payers /\ k \in Nat
    BY <1>1 DEF BillJobs, Fits, StripeEvents
  <2>1. CASE subs' = subs
    BY <2>1, SameRows
  <2>2. CASE subs' = update_period(job[s].u, k)
    <3> HIDE DEF k
    <3> QED BY <2>0, <2>2, TableUpdates
  <2> QED BY <1>1, <2>1, <2>2 DEF InvoicePeriod
<1> QED BY <1>1, <1>2, EndIsEnd DEF Work, BillTables, Keep, ledgerVars, InvoicePeriod

LEMMA ChangeWorks ==
  ASSUME BillCore, NEW s \in BillSlots,
         handle_subscription_updated(s) \/ handle_subscription_deleted(s)
  PROVE  Work(s)
<1> USE DEF BillCore
<1>1. ASSUME handle_subscription_updated(s) PROVE Work(s)
  <2>1. job[s].st = "updated" /\ job[s] \in BillJobs /\ Ends(s, TRUE)
    BY <1>1, AtStage DEF handle_subscription_updated, BillStages, EventTypes
  <2>2. RowsKept
    <3>1. CASE UNCHANGED subs
      BY <3>1, SameRows
    <3>2. CASE \E u \in ByStripe(job[s].e.sub) : subs' = update_subscription_status(u, "past_due")
      BY <3>2, TableUpdates DEF ByStripe
    <3> QED BY <1>1, <3>1, <3>2 DEF handle_subscription_updated
  <2> QED BY <1>1, <2>1, <2>2, EndIsEnd DEF Work, BillTables, Keep, ledgerVars, handle_subscription_updated
<1>2. ASSUME handle_subscription_deleted(s) PROVE Work(s)
  <2>1. /\ job[s].st = "deleted" /\ job[s] \in BillJobs /\ Fits(job[s]) /\ job[s].op = "webhook"
        /\ job[s].st \in EventTypes
    BY <1>2, AtStage DEF handle_subscription_deleted, BillStages, EventTypes, Fits
  <2>2. CASE Ends(s, TRUE) /\ UNCHANGED subs
    BY <1>2, <2>1, <2>2, EndIsEnd, SameRows DEF Work, BillTables, Keep, ledgerVars, handle_subscription_deleted
  <2>3. CASE /\ \E u \in ByStripe(job[s].e.sub) :
                  /\ subs' = cancel_subscription(u)
                  /\ TopUp(s, u, "free", NonceOf(job[s]), FALSE)
             /\ UNCHANGED <<over, due>>
    <3>1. PICK u \in ByStripe(job[s].e.sub) :
                  /\ subs' = cancel_subscription(u)
                  /\ TopUp(s, u, "free", NonceOf(job[s]), FALSE)
      BY <2>3
    <3>2. u \in Payers
      BY DEF ByStripe
    <3>3. u = job[s].e.user
      BY <2>1, <3>1, <3>2, EventUser
    <3>4. RowsKept
      BY <3>1, <3>2, TableUpdates
    <3>5. TopUp(s, job[s].e.user, "free", NonceOf(job[s]), FALSE)
      BY <3>1, <3>3
    <3>6. GoesOn(s)
      BY <2>1, <2>3, <3>5, TopUpGoes, BillingAssumption
    <3> QED BY <1>2, <2>1, <2>3, <3>4, <3>6 DEF Work, BillTables, Keep, ledgerVars, handle_subscription_deleted
  <2> QED BY <1>2, <2>2, <2>3 DEF handle_subscription_deleted
<1> QED BY <1>1, <1>2

LEMMA ToppedGoes ==
  ASSUME NEW s \in BillSlots, job[s] \in BillJobs, Fits(job[s]),
         job[s].st \in {"balance", "post"}, Topped(s)
  PROVE  (GoesOn(s) \/ EndsUp(s)) /\ due' \subseteq due
<1>1. CASE job[s].op = "webhook" /\ job[s].e.type = "invoice"
  <2>1. Stage(s, "period") /\ UNCHANGED <<over, due>>
    BY <1>1 DEF Topped
  <2> QED BY <1>1, <2>1, StageGoes DEF BillStages, EventTypes
<1>2. CASE ~(job[s].op = "webhook" /\ job[s].e.type = "invoice")
  BY <1>2, EndIsEnd DEF Topped
<1> QED BY <1>1, <1>2

LEMMA BalanceWorks ==
  ASSUME BillCore, NEW s \in BillSlots, get_billing_balance(s)
  PROVE  Work(s)
<1> USE DEF BillCore
<1>1. job[s].st = "balance" /\ job[s] \in BillJobs /\ Fits(job[s])
  BY AtStage DEF get_billing_balance, BillStages
<1> DEFINE Seen(b) == LET d == job[s].want - b IN IF job[s].exact THEN d ELSE Positive(d)
           Goes(b) == IF Seen(b) = 0 THEN Topped(s)
                      ELSE /\ Move(s, [job[s] EXCEPT !.st = "post", !.delta = Seen(b)])
                           /\ UNCHANGED <<over, due>>
<1>2. PICK b \in Int : Goes(b)
  <2>1. credits[job[s].u] \in Int
    BY <1>1 DEF BillTables, BillJobs
  <2>2. Goes(credits[job[s].u]) \/ Goes(0)
    BY DEF get_billing_balance
  <2> HIDE DEF Goes
  <2> QED BY <2>1, <2>2
<1>3. PICK d \in Int : d = Seen(b)
  BY <1>1, <1>2 DEF BillJobs, Positive
<1>4. \/ Topped(s)
      \/ /\ Move(s, [job[s] EXCEPT !.st = "post", !.delta = d])
         /\ UNCHANGED <<over, due>>
  BY <1>2, <1>3
<1>5. (GoesOn(s) \/ EndsUp(s)) /\ due' \subseteq due
  BY <1>1, <1>4, ToppedGoes, PostGoes
<1>6. RowsKept
  BY SameRows DEF get_billing_balance
<1> QED BY <1>1, <1>5, <1>6 DEF Work, BillTables, Keep, ledgerVars, get_billing_balance

LEMMA PostWorks ==
  ASSUME BillCore, NEW s \in BillSlots, create_billing_event(s)
  PROVE  Work(s)
<1> USE DEF BillCore
<1>1. job[s].st = "post" /\ job[s] \in BillJobs /\ Fits(job[s])
  BY AtStage DEF create_billing_event, BillStages
<1>2. Topped(s) \/ Ends(s, FALSE)
  BY DEF create_billing_event
<1>3. (GoesOn(s) \/ EndsUp(s)) /\ due' \subseteq due
  BY <1>1, <1>2, ToppedGoes, EndIsEnd
<1>4. RowsKept
  BY SameRows DEF create_billing_event
<1>5. /\ (granted \subseteq granted' /\ UNCHANGED credited) \/ Posts(s)
      /\ credits' \in [Payers -> Int]
  <2> DEFINE grant == <<job[s].u, job[s].nonce, job[s].delta>>
  <2>1. \/ UNCHANGED ledgerVars
        \/ /\ grant \notin granted /\ granted' = granted \cup {grant}
           /\ credits' = [credits EXCEPT ![job[s].u] = @ + job[s].delta]
           /\ credited' = IF job[s].op = "webhook" THEN credited \cup {Posted(job[s])} ELSE credited
    BY DEF create_billing_event, Posted
  <2>2. credits \in [Payers -> Int] /\ job[s].delta \in Int /\ job[s].u \in Payers
    BY <1>1 DEF BillTables, BillJobs
  <2> QED BY <1>1, <2>1, <2>2 DEF ledgerVars, Posts
<1> QED BY <1>1, <1>3, <1>4, <1>5 DEF Work, create_billing_event

(* A call starts; one for a checkout has read the user's customer.         *)
CallStarts(s) ==
  /\ job[s] = Quiet
  /\ \E w \in {Quiet} \cup BillJobs :
       /\ Move(s, w)
       /\ w \in BillJobs => /\ w.op \in Calls /\ Fits(w)
                            /\ w.st = "customer" /\ w.want # 0 => Owns(w.want, w.u)
  /\ RowsKept /\ nonces' \in Nat
  /\ UNCHANGED <<over, granted, credited, credits, processed, due, sessions, events, tries,
                 customers>>

LEMMA NewJob ==
  ASSUME NEW op \in Calls \cup {"webhook"}, NEW st \in BillStages, NEW u \in Payers
  PROVE  /\ Job(op, st, u) \in BillJobs
         /\ Job(op, st, u).op = op /\ Job(op, st, u).st = st /\ Job(op, st, u).u = u
BY DEF Job, BillJobs, Nonces

LEMMA StatusStarts ==
  ASSUME BillCore, NEW s \in BillSlots, NEW u \in Payers, status(s, u)
  PROVE  CallStarts(s)
<1> USE DEF BillCore
<1> DEFINE made == get_or_create_subscription(u)[u]
           c == Monthly[made.plan]
           v == Job("status", "balance", u)
           w == [v EXCEPT !.want = c, !.nonce = <<"grant">>]
<1>1. RowsKept /\ made \in SubRows
  BY CreatedRows DEF status
<1>2. c \in Int
  BY <1>1, BillingAssumption DEF SubRows
<1>3. Move(s, w)
  BY DEF status
<1> HIDE DEF c
<1>4. v \in BillJobs /\ v.op = "status" /\ v.st = "balance"
  BY NewJob DEF Calls, BillStages
<1> HIDE DEF v
<1>5. w \in BillJobs /\ w.op = "status" /\ w.st = "balance"
  BY <1>2, <1>4 DEF BillJobs, Nonces
<1> HIDE DEF w
<1>6. Fits(w) /\ w.op \in Calls
  BY <1>5 DEF Fits, EventTypes, Calls
<1> QED
  BY <1>1, <1>3, <1>5, <1>6
     DEF CallStarts, status, Call, Keep, ledgerVars, BillTables

LEMMA CheckoutStarts ==
  ASSUME BillCore, NEW s \in BillSlots, NEW u \in Payers, NEW x \in Prices, checkout(s, u, x)
  PROVE  CallStarts(s)
<1> USE DEF BillCore
<1> DEFINE c == get_or_create_subscription(u)[u].customer
           v == Job("checkout", "customer", u)
           y == <<x>>
           w == [v EXCEPT !.want = c, !.nonce = y]
<1>1. /\ RowsKept /\ subs'[u] \in SubRows
      /\ subs'[u].customer # 0 => subs[u] # NoSub /\ subs'[u].customer = subs[u].customer
  BY CreatedRows DEF checkout
<1>2. c \in Nat /\ c \in Int /\ (c # 0 => subs[u] # NoSub /\ c = subs[u].customer)
  BY <1>1 DEF SubRows, checkout
<1>3. Move(s, w)
  BY DEF checkout
<1>4. y \in Nonces
  BY DEF Nonces
<1> HIDE DEF c, y
<1>5. v \in BillJobs /\ v.op = "checkout" /\ v.st = "customer" /\ v.u = u
  <2>1. "checkout" \in Calls \cup {"webhook"} /\ "customer" \in BillStages
    BY DEF Calls, BillStages
  <2> QED BY <2>1, NewJob
<1> HIDE DEF v
<1>6. /\ w \in BillJobs /\ w.op = "checkout" /\ w.st = "customer" /\ w.u = u /\ w.want = c
      /\ w.nonce = y
  BY <1>2, <1>5, <1>4 DEF BillJobs
<1> HIDE DEF w
<1>7. Fits(w) /\ w.op \in Calls
  BY <1>2, <1>6 DEF Fits, EventTypes, Calls, y
<1>8. w.want # 0 => Owns(w.want, w.u)
  BY <1>2, <1>6 DEF Owns
<1> QED
  BY <1>1, <1>3, <1>6, <1>7, <1>8
     DEF CallStarts, checkout, Call, Keep, ledgerVars, BillTables

LEMMA AdminStarts ==
  ASSUME BillCore, NEW s \in BillSlots, NEW u \in Payers,
         \/ \E p \in DOMAIN Monthly : set_plan(s, u, p)
         \/ \E a \in Grants : grant_credits(s, u, a)
  PROVE  CallStarts(s)
<1> USE DEF BillCore
<1> DEFINE k == nonces + 1
<1>0. k \in Nat /\ <<"admin", k>> \in Nonces
  BY DEF BillTables, Nonces
<1>1. ASSUME NEW p \in DOMAIN Monthly, set_plan(s, u, p) PROVE CallStarts(s)
  <2> DEFINE c == Monthly[p]
             v == Job("set_plan", "balance", u)
             x == <<"admin", k>>
             w == [v EXCEPT !.want = c, !.nonce = x, !.exact = TRUE]
  <2>1. c \in Int
    BY BillingAssumption
  <2>2. nonces' = k /\ (Move(s, w) \/ Move(s, Quiet)) /\ job[s] = Quiet
    BY <1>1 DEF set_plan, Call
  <2>3. RowsKept
    <3> DEFINE table == get_or_create_subscription(u)
    <3>1. /\ table \in [Payers -> {NoSub} \cup SubRows] /\ table[u] \in SubRows
          /\ \A y \in Payers : table[y] = subs[y] \/ (y = u /\ table[y] = Free)
      BY FreeIsRow DEF get_or_create_subscription, BillTables
    <3>2. subs' = [table EXCEPT ![u].plan = p, ![u].status = "manual"]
      BY <1>1 DEF set_plan, set_plan_manual
    <3>3. table[u] = IF subs[u] = NoSub THEN Free ELSE subs[u]
      BY DEF get_or_create_subscription, BillTables
    <3> HIDE DEF table
    <3> DEFINE r == [table[u] EXCEPT !.plan = p, !.status = "manual"]
    <3>4. r \in SubRows /\ r.customer = table[u].customer /\ r.stripe = table[u].stripe
      BY <3>1 DEF SubRows
    <3>5. subs' = [table EXCEPT ![u] = r]
      BY <3>1, <3>2
    <3> HIDE DEF r
    <3>6. ASSUME NEW y \in Payers
          PROVE  /\ subs'[y] \in {NoSub} \cup SubRows
                 /\ y = u => subs'[y] = r
                 /\ y # u => subs'[y] = subs[y]
      BY <3>1, <3>3, <3>4, <3>5, FreeIsRow
    <3>7. subs' \in [Payers -> {NoSub} \cup SubRows]
      BY <3>1, <3>4, <3>5
    <3> QED BY <3>1, <3>3, <3>4, <3>6, <3>7, FreeIsRow DEF RowsKept
  <2> HIDE DEF c, x
  <2>4. v \in BillJobs /\ v.op = "set_plan" /\ v.st = "balance"
    BY NewJob DEF Calls, BillStages
  <2> HIDE DEF v
  <2>5. w \in BillJobs /\ w.op = "set_plan" /\ w.st = "balance"
    BY <1>0, <2>1, <2>4 DEF BillJobs, x
  <2> HIDE DEF w
  <2>6. Fits(w) /\ w.op \in Calls
    BY <2>5 DEF Fits, EventTypes, Calls
  <2> QED
    BY <1>0, <1>1, <2>2, <2>3, <2>5, <2>6, QuietIsNoJob
       DEF CallStarts, set_plan, ledgerVars, stripeVars
<1>2. ASSUME NEW a \in Grants, grant_credits(s, u, a) PROVE CallStarts(s)
  <2> DEFINE v == Job("grant", "post", u)
             x == <<"admin", k>>
             w == [v EXCEPT !.nonce = x, !.delta = a]
  <2>1. a \in Int
    BY BillingAssumption
  <2>2. nonces' = k /\ Move(s, w) /\ job[s] = Quiet
    BY <1>2 DEF grant_credits, Call
  <2> HIDE DEF x
  <2>3. v \in BillJobs /\ v.op = "grant" /\ v.st = "post"
    BY NewJob DEF Calls, BillStages
  <2> HIDE DEF v
  <2>4. w \in BillJobs /\ w.op = "grant" /\ w.st = "post"
    BY <1>0, <2>1, <2>3 DEF BillJobs, x
  <2> HIDE DEF w
  <2>5. Fits(w) /\ w.op \in Calls
    BY <2>4 DEF Fits, EventTypes, Calls
  <2> QED
    BY <1>0, <1>2, <2>2, <2>4, <2>5, SameRows
       DEF CallStarts, grant_credits, ledgerVars, stripeVars
<1> QED BY <1>1, <1>2

(* What else happens around the handlers.                                  *)
Aside ==
  /\ RowsKept /\ credits' \in [Payers -> Int]
  /\ UNCHANGED <<job, over, granted, credited, processed, due, sessions, events, tries,
                 customers, nonces>>

LEMMA AsideSteps ==
  ASSUME BillCore, NEW u \in Payers, portal(u) \/ UseCredit(u) \/ check_all_users(u)
  PROVE  Aside
<1> USE DEF BillCore
<1>1. ASSUME portal(u) PROVE Aside
  BY <1>1, CreatedRows DEF portal, Aside, Keep, ledgerVars, BillTables
<1>2. ASSUME UseCredit(u) PROVE Aside
  BY <1>2, SameRows DEF UseCredit, Aside, stripeVars, BillTables
<1>3. ASSUME check_all_users(u) PROVE Aside
  BY <1>3, SameRows DEF check_all_users, Aside, stripeVars, ledgerVars, BillTables
<1> QED BY <1>1, <1>2, <1>3

LEMMA AsideAlerts ==
  ASSUME BillCore, send_email \/ mark_notification_sent
  PROVE  Aside
BY SameRows
   DEF BillCore, send_email, mark_notification_sent, Aside, stripeVars, ledgerVars, BillTables

(* One slot changes.                                                       *)
LEMMA SlotChange ==
  ASSUME BillJobsOK, NEW s \in BillSlots, NEW w \in {Quiet} \cup BillJobs, Move(s, w)
  PROVE  /\ job' \in [BillSlots -> {Quiet} \cup BillJobs] /\ job'[s] = w
         /\ \A t \in BillSlots : t # s => job'[t] = job[t]
BY DEF BillJobsOK, Move

LEMMA SlotFits ==
  ASSUME BillTables, BillTables', Grows, BillJobsOK, NEW s \in BillSlots,
         NEW w \in {Quiet} \cup BillJobs, Move(s, w), w \in BillJobs => Fits(w)'
  PROVE  BillJobsOK'
<1>1. /\ job' \in [BillSlots -> {Quiet} \cup BillJobs] /\ job'[s] = w
      /\ \A t \in BillSlots : t # s => job'[t] = job[t]
  BY SlotChange
<1>2. ASSUME NEW t \in BillSlots, job'[t] \in BillJobs PROVE Fits(job[t])'
  <2>1. PICK v : v = job'[t]
    OBVIOUS
  <2>2. CASE t = s
    <3>1. Fits(w)' /\ v = w
      BY <1>1, <1>2, <2>1, <2>2
    <3>2. Fits(v)'
      BY <3>1
    <3> QED BY <2>1, <3>2 DEF Fits, NonceOf
  <2>3. CASE t # s
    <3>1. v \in BillJobs /\ v = job[t]
      BY <1>1, <1>2, <2>1, <2>3
    <3>2. Fits(v)
      BY <3>1 DEF BillJobsOK
    <3>3. Fits(v)'
      BY <3>1, <3>2, StillFits
    <3> QED BY <2>1, <3>3 DEF Fits, NonceOf
  <2> QED BY <2>2, <2>3
<1> QED BY <1>1, <1>2 DEF BillJobsOK

LEMMA JobsKept ==
  ASSUME BillTables, BillTables', Grows, BillJobsOK, UNCHANGED job
  PROVE  BillJobsOK'
<1>1. ASSUME NEW t \in BillSlots, job'[t] \in BillJobs PROVE Fits(job[t])'
  <2>1. PICK v : v = job'[t]
    OBVIOUS
  <2>2. v \in BillJobs /\ v = job[t]
    BY <1>1, <2>1
  <2>3. Fits(v)
    BY <2>2 DEF BillJobsOK
  <2>4. Fits(v)'
    BY <2>2, <2>3, StillFits
  <2> QED BY <2>1, <2>4 DEF Fits, NonceOf
<1> QED BY <1>1 DEF BillJobsOK

NoNewOwner == \A c \in Nat \ {0}, u \in Payers : Owns(c, u)' => Owns(c, u)

LEMMA OwnersStay ==
  ASSUME OwnInv, NoNewOwner, UNCHANGED customers
  PROVE  OwnInv'
<1> SUFFICES ASSUME NEW c \in Nat \ {0}, NEW u \in Payers, Owns(c, u)'
             PROVE  c <= customers' /\ \A v \in Payers : Owns(c, v)' => u = v
  BY DEF OwnInv
<1> QED BY DEF OwnInv, NoNewOwner

LEMMA SubsStay ==
  ASSUME BillTables, SubInv, RowsKept, UNCHANGED events
  PROVE  SubInv'
BY DEF SubInv, RowsKept

(* The events and tables grow by nothing but rows that keep their owners.  *)
LEMMA WorkKeepsCore ==
  ASSUME BillCore, NEW s \in BillSlots, Work(s)
  PROVE  BillCore' /\ Grows
<1> USE DEF BillCore
<1>1. BillTables' /\ Grows
  <2>1. /\ subs' \in [Payers -> {NoSub} \cup SubRows] /\ due' \subseteq due
        /\ credits' \in [Payers -> Int]
        /\ UNCHANGED <<sessions, events, tries, customers, nonces>>
    BY DEF Work, RowsKept
  <2>2. BillTables'
    BY <2>1 DEF BillTables
  <2>3. \A i \in 1..Len(events) : tries[i] \in Nat
    BY DEF BillTables
  <2> QED BY <2>1, <2>2, <2>3 DEF Grows, BillTables
<1>2. PICK w \in {Quiet} \cup BillJobs :
        Move(s, w) /\ (w \in BillJobs => Fits(w) /\ w.st # "customer")
  BY QuietIsNoJob DEF Work, GoesOn, EndsUp, CarriesOn
<1>3. w \in BillJobs => Fits(w)'
  BY <1>1, <1>2, StillFits
<1>4. BillJobsOK'
  BY <1>1, <1>2, <1>3, SlotFits
<1>5. SubInv'
  BY SubsStay DEF Work
<1>6. NoNewOwner
  <2>1. /\ job' \in [BillSlots -> {Quiet} \cup BillJobs] /\ job'[s] = w
        /\ \A t \in BillSlots : t # s => job'[t] = job[t]
    BY <1>2, SlotChange
  <2>2. RowsKept /\ sessions' = sessions /\ events' = events
    BY DEF Work
  <2> SUFFICES ASSUME NEW c \in Nat \ {0}, NEW u \in Payers, Owns(c, u)' PROVE Owns(c, u)
    BY DEF NoNewOwner
  <2>3. CASE subs'[u] # NoSub /\ subs'[u].customer = c
    BY <2>2, <2>3 DEF RowsKept, Owns
  <2>4. CASE \E t \in BillSlots : /\ job'[t] \in BillJobs /\ job'[t].st = "customer"
                                  /\ job'[t].want = c /\ job'[t].u = u
    BY <1>2, <2>1, <2>4 DEF Owns
  <2> QED BY <2>2, <2>3, <2>4 DEF Owns
<1>7. OwnInv'
  BY <1>6, OwnersStay DEF Work
<1> QED BY <1>1, <1>4, <1>5, <1>7

LEMMA CallKeepsCore ==
  ASSUME BillCore, NEW s \in BillSlots, CallStarts(s)
  PROVE  BillCore' /\ Grows
<1> USE DEF BillCore
<1>1. BillTables' /\ Grows
  <2>1. /\ subs' \in [Payers -> {NoSub} \cup SubRows] /\ nonces' \in Nat
        /\ UNCHANGED <<credits, due, sessions, events, tries, customers>>
    BY DEF CallStarts, RowsKept
  <2>2. BillTables'
    BY <2>1 DEF BillTables
  <2>3. \A i \in 1..Len(events) : tries[i] \in Nat
    BY DEF BillTables
  <2> QED BY <2>1, <2>2, <2>3 DEF Grows, BillTables
<1>2. PICK w \in {Quiet} \cup BillJobs :
        /\ Move(s, w)
        /\ w \in BillJobs => Fits(w) /\ (w.st = "customer" /\ w.want # 0 => Owns(w.want, w.u))
  BY DEF CallStarts
<1>3. w \in BillJobs => Fits(w)'
  BY <1>1, <1>2, StillFits
<1>4. BillJobsOK'
  BY <1>1, <1>2, <1>3, SlotFits
<1>5. SubInv'
  BY SubsStay DEF CallStarts
<1>6. NoNewOwner
  <2>1. /\ job' \in [BillSlots -> {Quiet} \cup BillJobs] /\ job'[s] = w
        /\ \A t \in BillSlots : t # s => job'[t] = job[t]
    BY <1>2, SlotChange
  <2>2. RowsKept /\ sessions' = sessions /\ events' = events
    BY DEF CallStarts
  <2> SUFFICES ASSUME NEW c \in Nat \ {0}, NEW u \in Payers, Owns(c, u)' PROVE Owns(c, u)
    BY DEF NoNewOwner
  <2>3. CASE subs'[u] # NoSub /\ subs'[u].customer = c
    BY <2>2, <2>3 DEF RowsKept, Owns
  <2>4. CASE \E t \in BillSlots : /\ job'[t] \in BillJobs /\ job'[t].st = "customer"
                                  /\ job'[t].want = c /\ job'[t].u = u
    <3>1. PICK t \in BillSlots : /\ job'[t] \in BillJobs /\ job'[t].st = "customer"
                                 /\ job'[t].want = c /\ job'[t].u = u
      BY <2>4
    <3>2. CASE t = s
      BY <1>2, <2>1, <3>1, <3>2
    <3>3. CASE t # s
      BY <2>1, <3>1, <3>3 DEF Owns
    <3> QED BY <3>2, <3>3
  <2> QED BY <2>2, <2>3, <2>4 DEF Owns
<1>7. OwnInv'
  BY <1>6, OwnersStay DEF CallStarts
<1> QED BY <1>1, <1>4, <1>5, <1>7

LEMMA AsideKeepsCore ==
  ASSUME BillCore, Aside
  PROVE  BillCore' /\ Grows
<1> USE DEF BillCore
<1>1. BillTables' /\ Grows
  BY DEF Aside, BillTables, RowsKept, Grows
<1>2. BillJobsOK' /\ SubInv'
  BY <1>1, JobsKept, SubsStay DEF Aside
<1>3. NoNewOwner
  BY DEF NoNewOwner, Owns, Aside, RowsKept
<1>4. OwnInv'
  BY <1>3, OwnersStay DEF Aside
<1> QED BY <1>1, <1>2, <1>4

LEMMA CrashKeepsCore ==
  ASSUME BillCore, BillingCrash
  PROVE  BillCore' /\ Grows
<1> USE DEF BillCore
<1>1. /\ UNCHANGED <<subs, processed, ledgerVars, stripeVars, nonces, tries>>
      /\ job' = [s \in BillSlots |-> Quiet]
  BY DEF BillingCrash
<1>2. BillTables' /\ Grows
  BY <1>1 DEF BillTables, Grows, stripeVars, ledgerVars
<1>3. BillJobsOK'
  BY <1>1, QuietIsNoJob DEF BillJobsOK
<1>4. RowsKept
  BY <1>1, SameRows
<1>5. SubInv'
  BY <1>1, <1>4, SubsStay DEF stripeVars
<1>6. NoNewOwner
  <2>1. \A s \in BillSlots : job'[s] \notin BillJobs
    BY <1>1, QuietIsNoJob
  <2> QED BY <1>1, <2>1 DEF NoNewOwner, Owns, stripeVars
<1>7. OwnInv'
  BY <1>1, <1>6, OwnersStay DEF stripeVars
<1> QED BY <1>2, <1>3, <1>5, <1>7

(* A delivery starts.                                                      *)
DeliveryStarts(s) ==
  /\ job[s] = Quiet
  /\ \E i \in 1..Len(events) : \E w \in BillJobs :
       /\ Move(s, w) /\ tries' = [tries EXCEPT ![i] = @ + 1]
       /\ w.op = "webhook" /\ w.st = "check" /\ w.e = events[i] /\ w.u = events[i].user
       /\ w.e.id = i /\ w.n = tries[i] + 1
       /\ \A k \in w.after : <<i, k>> \in over
  /\ UNCHANGED <<subs, processed, credits, granted, credited, sessions, events, due, customers,
                 nonces, over>>

LEMMA WebhookStarts ==
  ASSUME BillCore, DeliveryInv, NEW s \in BillSlots, stripe_webhook(s)
  PROVE  DeliveryStarts(s)
<1> USE DEF BillCore
<1>1. PICK i \in due :
       /\ tries' = [tries EXCEPT ![i] = @ + 1]
       /\ Move(s, [Job("webhook", "check", events[i].user) EXCEPT
                     !.e = events[i], !.n = tries[i] + 1,
                     !.after = {d[2] : d \in {x \in over : x[1] = i}}])
  BY DEF stripe_webhook
<1>2. i \in 1..Len(events) /\ events[i] \in StripeEvents /\ events[i].id = i /\ tries[i] \in Nat
  BY DEF BillTables
<1> DEFINE u == events[i].user
           e == events[i]
           n == tries[i] + 1
           ended == {d[2] : d \in {x \in over : x[1] = i}}
           v == Job("webhook", "check", u)
           w == [v EXCEPT !.e = e, !.n = n, !.after = ended]
<1>3. u \in Payers /\ e \in StripeEvents /\ n \in Nat
  BY <1>2 DEF StripeEvents
<1>4. ended \subseteq Nat /\ \A k \in ended : <<i, k>> \in over
  <2>1. ASSUME NEW d \in over, d[1] = i PROVE d[2] \in Nat
    BY <2>1 DEF DeliveryInv
  <2>2. ASSUME NEW d \in over, d[1] = i PROVE <<i, d[2]>> \in over
    <3>1. d \in (1..Len(events)) \X Nat
      BY DEF DeliveryInv
    <3>2. d = <<d[1], d[2]>>
      BY <3>1
    <3> QED BY <2>2, <3>2
  <2> QED BY <2>1, <2>2
<1>5. Move(s, w)
  BY <1>1
<1> HIDE DEF u, e, n, ended
<1>6. v \in BillJobs /\ v.op = "webhook" /\ v.st = "check" /\ v.u = u
  <2>1. "webhook" \in Calls \cup {"webhook"} /\ "check" \in BillStages
    BY DEF BillStages
  <2> QED BY <1>3, <2>1, NewJob
<1> HIDE DEF v
<1>7. /\ w \in BillJobs /\ w.op = "webhook" /\ w.st = "check" /\ w.u = u /\ w.e = e
      /\ w.n = n /\ w.after = ended
  BY <1>3, <1>4, <1>6 DEF BillJobs
<1> HIDE DEF w
<1>8. job[s] = Quiet /\ UNCHANGED <<subs, processed, credits, granted, credited, sessions, events,
                                    due, customers, nonces, over>>
  BY DEF stripe_webhook, ledgerVars, stripeVars
<1> QED BY <1>1, <1>2, <1>4, <1>5, <1>7, <1>8 DEF DeliveryStarts, u, e, n

LEMMA DeliveryKeepsCore ==
  ASSUME BillCore, NEW s \in BillSlots, DeliveryStarts(s)
  PROVE  BillCore' /\ Grows
<1> USE DEF BillCore
<1>1. PICK i \in 1..Len(events), w \in BillJobs :
       /\ Move(s, w) /\ tries' = [tries EXCEPT ![i] = @ + 1]
       /\ w.op = "webhook" /\ w.st = "check" /\ w.e = events[i] /\ w.u = events[i].user
       /\ w.e.id = i /\ w.n = tries[i] + 1
  BY DEF DeliveryStarts
<1>2. UNCHANGED <<subs, processed, credits, sessions, events, due, customers, nonces>>
  BY DEF DeliveryStarts
<1>3. /\ tries' \in Seq(Nat) /\ Len(tries') = Len(tries)
      /\ \A k \in 1..Len(events) : tries'[k] >= tries[k] /\ tries'[k] \in Nat
      /\ tries'[i] = tries[i] + 1 /\ events[i] \in StripeEvents
  <2>1. tries \in Seq(Nat) /\ i \in 1..Len(tries) /\ Len(tries) = Len(events)
    BY <1>1 DEF BillTables
  <2>2. PICK n \in Nat : n = tries[i] + 1
    BY <2>1
  <2>3. tries' = [tries EXCEPT ![i] = n]
    BY <1>1, <2>2
  <2>4. tries' \in Seq(Nat) /\ Len(tries') = Len(tries)
    BY <2>1, <2>3
  <2>5. \A k \in 1..Len(tries) : tries'[k] = IF k = i THEN n ELSE tries[k]
    BY <2>1, <2>3
  <2>6. \A k \in 1..Len(tries) : tries[k] \in Nat
    BY <2>1
  <2>7. events[i] \in StripeEvents
    BY DEF BillTables
  <2> QED BY <2>1, <2>2, <2>4, <2>5, <2>6, <2>7
<1>4. BillTables' /\ Grows
  <2>1. BillTables'
    BY <1>2, <1>3 DEF BillTables
  <2>2. Len(events) \in Nat
    BY DEF BillTables
  <2> QED BY <1>2, <1>3, <2>1, <2>2 DEF Grows
<1>5. Fits(w)'
  <2>1. w.e.id \in 1..Len(events') /\ w.e = events'[w.e.id] /\ w.e \in StripeEvents
    BY <1>1, <1>2, <1>3
  <2>2. w.n <= tries'[w.e.id]
    <3>1. w.n = tries'[w.e.id] /\ tries'[w.e.id] \in Nat
      BY <1>1, <1>3
    <3> QED BY <3>1
  <2> QED BY <1>1, <2>1, <2>2 DEF Fits
<1>6. BillJobsOK'
  BY <1>1, <1>4, <1>5, SlotFits
<1>7. RowsKept
  BY <1>2, SameRows
<1>8. SubInv'
  BY <1>2, <1>7, SubsStay
<1>9. NoNewOwner
  <2>1. /\ job' \in [BillSlots -> {Quiet} \cup BillJobs] /\ job'[s] = w
        /\ \A t \in BillSlots : t # s => job'[t] = job[t]
    BY <1>1, SlotChange
  <2> SUFFICES ASSUME NEW c \in Nat \ {0}, NEW u \in Payers, Owns(c, u)' PROVE Owns(c, u)
    BY DEF NoNewOwner
  <2>2. CASE \E t \in BillSlots : /\ job'[t] \in BillJobs /\ job'[t].st = "customer"
                                  /\ job'[t].want = c /\ job'[t].u = u
    BY <1>1, <2>1, <2>2 DEF Owns
  <2> QED BY <1>2, <2>2 DEF Owns
<1>10. OwnInv'
  BY <1>2, <1>9, OwnersStay
<1> QED BY <1>4, <1>6, <1>8, <1>10

(* Stripe makes events: of a new subscription, or of one it has.           *)
Emits ==
  /\ \E new \in Seq(StripeEvents) :
       /\ Emit(new) /\ Len(new) >= 1
       /\ \A k \in 1..Len(new) : new[k].id = Len(events) + k /\ Owns(new[k].customer, new[k].user)
       /\ \/ /\ \A k \in 1..Len(new) : new[k].sub = Len(events) + 1
             /\ \A k \in 1..Len(new) : new[k].user = new[1].user
          \/ \E i \in 1..Len(events) : \A k \in 1..Len(new) :
               new[k].sub = events[i].sub /\ new[k].user = events[i].user
  /\ sessions' \subseteq sessions
  /\ UNCHANGED <<subs, processed, credits, granted, credited, job, customers, nonces, over>>

LEMMA StripeEmits ==
  ASSUME BillCore, StripePays \/ StripeEvent
  PROVE  Emits
<1> USE DEF BillCore
<1>1. Len(events) \in Nat
  BY DEF BillTables
<1>2. ASSUME StripePays PROVE Emits
  <2>1. PICK x \in sessions :
         LET i == Len(events)
             Paid(type, k) == [type |-> type, id |-> i + k, user |-> x.user, sub |-> i + 1,
                               customer |-> x.customer, price |-> x.price]
         IN  /\ sessions' = sessions \ {x}
             /\ Emit(<<Paid("checkout", 1), Paid("invoice", 2)>>)
    BY <1>2 DEF StripePays
  <2> DEFINE Paid(type, k) == [type |-> type, id |-> Len(events) + k, user |-> x.user,
                               sub |-> Len(events) + 1, customer |-> x.customer, price |-> x.price]
             a == Paid("checkout", 1)
             b == Paid("invoice", 2)
             new == <<a, b>>
  <2>2. x.user \in Payers /\ x.customer \in Nat \ {0} /\ x.price \in Prices
    BY DEF BillTables
  <2>3. /\ a \in StripeEvents /\ b \in StripeEvents
        /\ a.id = Len(events) + 1 /\ b.id = Len(events) + 2
        /\ a.sub = Len(events) + 1 /\ b.sub = Len(events) + 1
        /\ a.user = x.user /\ b.user = x.user /\ a.customer = x.customer /\ b.customer = x.customer
    BY <1>1, <2>2 DEF StripeEvents, EventTypes
  <2>4. Emit(new) /\ sessions' \subseteq sessions
    BY <2>1
  <2>5. Owns(x.customer, x.user)
    BY DEF Owns
  <2> HIDE DEF a, b
  <2>6. new \in Seq(StripeEvents) /\ Len(new) = 2 /\ new[1] = a /\ new[2] = b
    BY <2>3
  <2> HIDE DEF new
  <2>7. \A k \in 1..Len(new) : k = 1 \/ k = 2
    BY <2>6
  <2>8. \A k \in 1..Len(new) : new[k].id = Len(events) + k /\ Owns(new[k].customer, new[k].user)
    <3> TAKE k \in 1..Len(new)
    <3>1. new[k].customer = x.customer /\ new[k].user = x.user /\ new[k].id = Len(events) + k
      BY <2>3, <2>6, <2>7
    <3> QED BY <2>5, <3>1
  <2>9. /\ \A k \in 1..Len(new) : new[k].sub = Len(events) + 1
        /\ \A k \in 1..Len(new) : new[k].user = new[1].user
    BY <2>3, <2>6, <2>7
  <2>10. UNCHANGED <<subs, processed, credits, granted, credited, job, customers, nonces, over>>
    BY <1>2 DEF StripePays, ledgerVars
  <2>11. Len(new) >= 1
    BY <2>6
  <2> QED BY <2>4, <2>6, <2>8, <2>9, <2>10, <2>11 DEF Emits
<1>3. ASSUME StripeEvent PROVE Emits
  <2>1. PICK i \in DOMAIN events, type \in {"invoice", "updated", "deleted"} :
          Emit(<<[events[i] EXCEPT !.type = type, !.id = Len(events) + 1]>>)
    BY <1>3 DEF StripeEvent
  <2>2. i \in 1..Len(events) /\ events[i] \in StripeEvents
    BY DEF BillTables
  <2> DEFINE a == [events[i] EXCEPT !.type = type, !.id = Len(events) + 1]
             new == <<a>>
  <2>3. /\ a \in StripeEvents /\ a.id = Len(events) + 1 /\ a.sub = events[i].sub
        /\ a.user = events[i].user /\ a.customer = events[i].customer
    <3> DEFINE x == events[i]
               k == Len(events) + 1
    <3>1. x \in StripeEvents /\ k \in Nat
      BY <1>1, <2>2
    <3> HIDE DEF x, k
    <3>2. /\ [x EXCEPT !.type = type, !.id = k] \in StripeEvents
          /\ LET y == [x EXCEPT !.type = type, !.id = k]
             IN  y.id = k /\ y.sub = x.sub /\ y.user = x.user /\ y.customer = x.customer
      BY <3>1 DEF StripeEvents, EventTypes
    <3> QED BY <3>2 DEF x, k
  <2>4. Emit(new)
    BY <2>1
  <2>5. Owns(a.customer, a.user)
    BY <2>2, <2>3 DEF Owns
  <2> HIDE DEF a
  <2>6. new \in Seq(StripeEvents) /\ Len(new) = 1 /\ new[1] = a
    BY <2>3
  <2> HIDE DEF new
  <2>7. \A k \in 1..Len(new) : k = 1
    BY <2>6
  <2>8. \A k \in 1..Len(new) : new[k].id = Len(events) + k /\ Owns(new[k].customer, new[k].user)
    <3> TAKE k \in 1..Len(new)
    <3>1. new[k] = a /\ new[k].id = Len(events) + k
      BY <2>3, <2>6, <2>7
    <3> QED BY <2>5, <3>1
  <2>9. \A k \in 1..Len(new) : new[k].sub = events[i].sub /\ new[k].user = events[i].user
    BY <2>3, <2>6, <2>7
  <2>10. /\ UNCHANGED <<subs, processed, credits, granted, credited, job, customers, nonces, over>>
         /\ sessions' \subseteq sessions
    BY <1>3 DEF StripeEvent, ledgerVars
  <2>11. Len(new) >= 1
    BY <2>6
  <2> QED BY <2>2, <2>4, <2>6, <2>8, <2>9, <2>10, <2>11 DEF Emits
<1> QED BY <1>2, <1>3

LEMMA EmitKeepsCore ==
  ASSUME BillCore, Emits
  PROVE  BillCore' /\ Grows
<1> USE DEF BillCore
<1>1. PICK new \in Seq(StripeEvents) :
       /\ Emit(new) /\ Len(new) >= 1
       /\ \A k \in 1..Len(new) : new[k].id = Len(events) + k /\ Owns(new[k].customer, new[k].user)
       /\ \/ /\ \A k \in 1..Len(new) : new[k].sub = Len(events) + 1
             /\ \A k \in 1..Len(new) : new[k].user = new[1].user
          \/ \E i \in 1..Len(events) : \A k \in 1..Len(new) :
               new[k].sub = events[i].sub /\ new[k].user = events[i].user
  BY DEF Emits
<1>2. /\ sessions' \subseteq sessions
      /\ UNCHANGED <<subs, processed, credits, granted, credited, job, customers, nonces, over>>
  BY DEF Emits
<1>3. /\ Grows /\ Len(events') = Len(events) + Len(new)
      /\ events' \in Seq(StripeEvents) /\ \A i \in 1..Len(events') : events'[i].id = i
      /\ tries' \in Seq(Nat) /\ Len(tries') = Len(events')
      /\ due' \subseteq 1..Len(events')
      /\ \A i \in 1..Len(events') :
           i \in 1..Len(events) \/ (i - Len(events) \in 1..Len(new) /\ events'[i] = new[i - Len(events)])
  BY <1>1, EmitGrows
<1>4. BillTables'
  BY <1>2, <1>3 DEF BillTables
<1>5. BillJobsOK'
  BY <1>2, <1>3, <1>4, JobsKept
<1>6. /\ Len(events) \in Nat /\ Len(new) \in Nat
      /\ \A i \in 1..Len(events) : events'[i] = events[i] /\ events[i].sub \in Nat
  <2>1. \A i \in 1..Len(events) : events[i] \in StripeEvents
    BY DEF BillTables
  <2> QED BY <1>3, <2>1 DEF Grows, BillTables, StripeEvents
(* An event of the longer list is an old one or one of the new.            *)
<1>7. \A i \in 1..Len(events') :
         \/ i \in 1..Len(events) /\ events'[i] = events[i]
         \/ \E k \in 1..Len(new) : events'[i] = new[k]
  BY <1>3, <1>6
<1>8. SubInv'
  <2>1. \A i \in 1..Len(events') : events'[i].sub <= Len(events')
    <3>1. \A m \in 1..Len(events) : events[m].sub <= Len(events')
      BY <1>3, <1>6 DEF SubInv
    <3>2. \A k \in 1..Len(new) : new[k].sub <= Len(events')
      BY <1>1, <1>3, <1>6, <3>1
    <3> QED BY <1>7, <3>1, <3>2
  <2>2. ASSUME NEW i \in 1..Len(events'), NEW k \in 1..Len(events'), events'[i].sub = events'[k].sub
        PROVE  events'[i].user = events'[k].user
    <3>1. CASE /\ \A m \in 1..Len(new) : new[m].sub = Len(events) + 1
               /\ \A m \in 1..Len(new) : new[m].user = new[1].user
      <4>1. \A m \in 1..Len(events) : events[m].sub <= Len(events)
        BY DEF SubInv
      <4>2. \A m \in 1..Len(events) : events[m].sub # Len(events) + 1
        BY <1>6, <4>1
      <4> QED BY <1>7, <2>2, <3>1, <4>2 DEF SubInv
    <3>2. CASE \E m \in 1..Len(events) : \A q \in 1..Len(new) :
                 new[q].sub = events[m].sub /\ new[q].user = events[m].user
      BY <1>7, <2>2, <3>2 DEF SubInv
    <3> QED BY <1>1, <3>1, <3>2
  <2>3. ASSUME NEW u \in Payers, subs'[u] # NoSub, subs'[u].stripe # 0
        PROVE  \E i \in 1..Len(events') : events'[i].sub = subs'[u].stripe /\ events'[i].user = u
    <3>1. PICK i \in 1..Len(events) : events[i].sub = subs[u].stripe /\ events[i].user = u
      BY <1>2, <2>3 DEF SubInv
    <3>2. i \in 1..Len(events')
      BY <1>3, <1>6
    <3> QED BY <1>2, <1>6, <3>1, <3>2
  <2> QED BY <2>1, <2>2, <2>3 DEF SubInv
<1>9. NoNewOwner
  <2> SUFFICES ASSUME NEW c \in Nat \ {0}, NEW u \in Payers, Owns(c, u)' PROVE Owns(c, u)
    BY DEF NoNewOwner
  <2>1. CASE \E i \in 1..Len(events') : events'[i].customer = c /\ events'[i].user = u
    <3>1. PICK i \in 1..Len(events') : events'[i].customer = c /\ events'[i].user = u
      BY <2>1
    <3>2. CASE i \in 1..Len(events) /\ events'[i] = events[i]
      BY <3>1, <3>2 DEF Owns
    <3>3. CASE \E k \in 1..Len(new) : events'[i] = new[k]
      <4>1. PICK k \in 1..Len(new) : new[k].customer = c /\ new[k].user = u
        BY <3>1, <3>3
      <4>2. Owns(new[k].customer, new[k].user)
        BY <1>1
      <4> QED BY <4>1, <4>2, Zenon
    <3> QED BY <1>7, <3>2, <3>3
  <2> QED BY <1>2, <2>1 DEF Owns
<1>10. OwnInv'
  BY <1>2, <1>9, OwnersStay
<1> QED BY <1>3, <1>4, <1>5, <1>8, <1>10

(* A session is opened, for the customer the handler read or a new one.    *)
Opens(s) ==
  /\ job[s] \in BillJobs /\ job[s].op = "checkout" /\ Move(s, Quiet)
  /\ UNCHANGED <<processed, credits, granted, credited, events, due, nonces, tries, over>>

LEMMA SessionKeepsCore ==
  ASSUME BillCore, NEW s \in BillSlots, CheckoutSession(s)
  PROVE  BillCore' /\ Grows /\ Opens(s)
<1> USE DEF BillCore
<1>1. /\ job[s].st = "customer" /\ job[s] \in BillJobs /\ Fits(job[s]) /\ job[s].op = "checkout"
      /\ Move(s, Quiet)
      /\ UNCHANGED <<processed, credits, granted, credited, events, due, nonces, tries, over>>
  BY AtStage DEF CheckoutSession, BillStages, Fits, ledgerVars
<1> DEFINE y == job[s].u
           want == job[s].want
           c0 == IF want = 0 THEN customers + 1 ELSE want
           p0 == job[s].nonce[1]
<1>2. y \in Payers /\ want \in Nat /\ p0 \in Prices
  BY <1>1 DEF Fits, BillJobs
<1>3. customers \in Nat
  BY DEF BillTables
<1>4. /\ customers' = IF want = 0 THEN c0 ELSE customers
      /\ subs' = IF want = 0 THEN set_stripe_customer_id(y, c0) ELSE subs
      /\ sessions' = sessions \cup {[user |-> y, customer |-> c0, price |-> p0]}
  BY DEF CheckoutSession
<1>5. c0 \in Nat \ {0} /\ (want = 0 => c0 = customers + 1) /\ (want # 0 => c0 = want)
  BY <1>2, <1>3
<1>6. want # 0 => Owns(c0, y)
  BY <1>1, <1>5 DEF Owns
<1> HIDE DEF y, want, c0, p0
<1>7. /\ subs' \in [Payers -> {NoSub} \cup SubRows]
      /\ \A u \in Payers : subs'[u] # NoSub =>
           /\ subs[u] # NoSub
           /\ subs'[u].stripe = subs[u].stripe
           /\ subs'[u].customer = subs[u].customer \/ (want = 0 /\ u = y /\ subs'[u].customer = c0)
  <2>1. CASE want # 0
    BY <1>4, <2>1 DEF BillTables
  <2>2. CASE want = 0
    <3>1. subs \in [Payers -> {NoSub} \cup SubRows]
      BY DEF BillTables
    <3>2. CASE subs[y] = NoSub
      BY <1>4, <2>2, <3>1, <3>2 DEF set_stripe_customer_id, Update
    <3>3. CASE subs[y] # NoSub
      <4> DEFINE r == [subs[y] EXCEPT !.customer = c0]
      <4>1. r \in SubRows /\ r.customer = c0 /\ r.stripe = subs[y].stripe
        BY <1>2, <1>5, <3>1, <3>3 DEF SubRows
      <4>2. subs' = [subs EXCEPT ![y] = r]
        BY <1>4, <2>2, <3>3 DEF set_stripe_customer_id, Update
      <4> HIDE DEF r
      <4> QED BY <1>2, <2>2, <3>1, <3>3, <4>1, <4>2
    <3> QED BY <3>2, <3>3
  <2> QED BY <2>1, <2>2
<1>8. customers' \in Nat /\ customers' >= customers
  BY <1>3, <1>4, <1>5
<1>9. BillTables' /\ Grows
  <2>1. [user |-> y, customer |-> c0, price |-> p0]
          \in [user : Payers, customer : Nat \ {0}, price : Prices]
    BY <1>2, <1>5
  <2>2. BillTables'
    BY <1>1, <1>4, <1>7, <1>8, <2>1 DEF BillTables
  <2>3. \A i \in 1..Len(events) : tries[i] \in Nat
    BY DEF BillTables
  <2> QED BY <1>1, <2>2, <2>3 DEF Grows, BillTables
<1>10. BillJobsOK'
  BY <1>1, <1>9, SlotFits, QuietIsNoJob
<1>11. SubInv'
  BY <1>1, <1>7 DEF SubInv
<1>12. ASSUME NEW c \in Nat \ {0}, NEW u \in Payers, Owns(c, u)'
       PROVE  Owns(c, u) \/ (want = 0 /\ c = c0 /\ u = y)
  <2>1. /\ job' \in [BillSlots -> {Quiet} \cup BillJobs] /\ job'[s] = Quiet
        /\ \A t \in BillSlots : t # s => job'[t] = job[t]
    BY <1>1, SlotChange
  <2>2. CASE subs'[u] # NoSub /\ subs'[u].customer = c
    BY <1>7, <2>2 DEF Owns
  <2>3. CASE \E x \in sessions' : x.customer = c /\ x.user = u
    <3>1. CASE \E x \in sessions : x.customer = c /\ x.user = u
      BY <3>1 DEF Owns
    <3>2. CASE c = c0 /\ u = y
      <4>1. CASE want = 0
        BY <3>2, <4>1
      <4>2. CASE want # 0
        <5>1. Owns(c0, y)
          BY <1>6, <4>2
        <5> QED BY <3>2, <5>1, Zenon
      <4> QED BY <4>1, <4>2
    <3> QED BY <1>4, <2>3, <3>1, <3>2
  <2>4. CASE \E t \in BillSlots : /\ job'[t] \in BillJobs /\ job'[t].st = "customer"
                                  /\ job'[t].want = c /\ job'[t].u = u
    BY <2>1, <2>4, QuietIsNoJob DEF Owns
  <2> QED BY <1>1, <1>12, <2>2, <2>3, <2>4 DEF Owns
<1>13. OwnInv'
  <2> SUFFICES ASSUME NEW c \in Nat \ {0}, NEW u \in Payers, Owns(c, u)'
               PROVE  c <= customers' /\ \A v \in Payers : Owns(c, v)' => u = v
    BY DEF OwnInv
  <2>1. ASSUME NEW v \in Payers, Owns(c, v) PROVE c <= customers /\ (want = 0 => c # c0)
    BY <1>3, <1>5, <2>1 DEF OwnInv
  <2>2. c <= customers'
    BY <1>3, <1>4, <1>5, <1>8, <1>12, <2>1
  <2>3. ASSUME NEW v \in Payers, Owns(c, v)' PROVE u = v
    <3>1. Owns(c, u) \/ (want = 0 /\ c = c0 /\ u = y)
      BY <1>12
    <3>2. Owns(c, v) \/ (want = 0 /\ c = c0 /\ v = y)
      BY <1>12, <2>3
    <3> QED BY <2>1, <3>1, <3>2 DEF OwnInv
  <2> QED BY <2>2, <2>3
<1> QED BY <1>1, <1>9, <1>10, <1>11, <1>13 DEF Opens

(* The deliveries under way were under way before, and a stage further     *)
(* only after a look at the table or a mark in it.                         *)
Inherits ==
  /\ over \subseteq over' /\ processed \subseteq processed' /\ granted \subseteq granted'
  /\ \A d \in over' : d \in over \/ \E t \in BillSlots : Delivering(t) /\ d = <<job[t].e.id, job[t].n>>
  /\ \A t \in BillSlots : Delivering(t)' =>
       /\ Delivering(t) /\ <<job[t].e.id, job[t].n>> \notin over'
       /\ job'[t].e = job[t].e /\ job'[t].n = job[t].n /\ job'[t].after = job[t].after
       /\ job'[t].st \notin {"check", "mark"} =>
            \/ job[t].st \notin {"check", "mark"}
            \/ job[t].e.id \in processed'
       /\ job'[t].st # "check" => job[t].st # "check" \/ job[t].e.id \notin processed

LEMMA DeliveryFacts ==
  ASSUME BillCore, NEW t \in BillSlots, Delivering(t)
  PROVE  /\ job[t] \in BillJobs /\ Fits(job[t]) /\ job[t].e \in StripeEvents
         /\ job[t].e.id \in 1..Len(events) /\ job[t].e = events[job[t].e.id]
         /\ job[t].n \in Nat /\ job[t].n <= tries[job[t].e.id]
         /\ job[t].u = job[t].e.user /\ job[t].after \subseteq Nat
BY DEF BillCore, BillJobsOK, Delivering, Fits, BillJobs

LEMMA DeliveriesInherited ==
  ASSUME BillCore, BillCore', Grows, DeliveryInv, Inherits
  PROVE  DeliveryInv'
<1>1. ASSUME NEW d \in over'
      PROVE  d \in (1..Len(events')) \X Nat /\ d[2] <= tries'[d[1]]
  <2>1. d \in (1..Len(events)) \X Nat /\ d[2] <= tries[d[1]]
    <3>1. CASE d \in over
      BY <3>1 DEF DeliveryInv
    <3>2. CASE \E t \in BillSlots : Delivering(t) /\ d = <<job[t].e.id, job[t].n>>
      BY <3>2, DeliveryFacts
    <3> QED BY <1>1, <3>1, <3>2 DEF Inherits
  <2> DEFINE i == d[1]
             n == d[2]
  <2>2. i \in 1..Len(events) /\ n \in Nat /\ n <= tries[i] /\ d = <<i, n>> /\ Len(events) \in Nat
    BY <2>1 DEF BillCore, BillTables
  <2> HIDE DEF i, n
  <2>3. i \in 1..Len(events') /\ tries'[i] >= tries[i]
    BY <2>2 DEF Grows
  <2>4. tries[i] \in Nat /\ tries'[i] \in Nat
    BY <2>2, <2>3 DEF BillCore, BillTables
  <2>5. n <= tries'[i]
    BY <2>2, <2>3, <2>4
  <2> QED BY <2>2, <2>3, <2>5
<1>2. ASSUME NEW s \in BillSlots, Delivering(s)'
      PROVE  /\ <<job'[s].e.id, job'[s].n>> \notin over'
             /\ \A k \in job'[s].after : <<job'[s].e.id, k>> \in over'
             /\ \A t \in BillSlots :
                  Delivering(t)' /\ job'[t].e.id = job'[s].e.id /\ job'[t].n = job'[s].n => s = t
  BY <1>2 DEF Inherits, DeliveryInv
<1>3. \A d \in over' : d[2] <= tries'[d[1]]
  BY <1>1
<1>4. over' \subseteq (1..Len(events')) \X Nat
  BY <1>1
<1> QED BY <1>2, <1>3, <1>4 DEF DeliveryInv

(* Nothing is credited.                                                    *)
LEMMA CreditsInherited ==
  ASSUME BillCore, BillCore', Grows, DeliveryInv, CreditInv, Inherits, UNCHANGED credited
  PROVE  CreditInv'
<1>1. ASSUME NEW a \in credited
      PROVE  /\ a.e \in processed' /\ a.e \in 1..Len(events')
             /\ \A k \in a.after : <<a.e, k>> \in over'
             /\ <<events'[a.e].user, <<events'[a.e].type, a.e>>, a.amount>> \in granted'
  <2>1. /\ a.e \in processed /\ a.e \in 1..Len(events) /\ \A k \in a.after : <<a.e, k>> \in over
        /\ <<events[a.e].user, <<events[a.e].type, a.e>>, a.amount>> \in granted
    BY DEF CreditInv
  <2>2. events'[a.e] = events[a.e] /\ a.e \in 1..Len(events')
    BY <2>1 DEF Grows, BillCore, BillTables
  <2> QED BY <2>1, <2>2 DEF Inherits
<1>2. ASSUME NEW s \in BillSlots, Delivering(s)'
      PROVE  /\ job'[s].st \notin {"check", "mark"} => job'[s].e.id \in processed'
             /\ job'[s].st # "check" =>
                  \A a \in credited : a.e = job'[s].e.id => a.n \notin job'[s].after
  BY <1>2 DEF Inherits, CreditInv
<1> QED BY <1>1, <1>2 DEF CreditInv

(* A delivery is credited.                                                 *)
LEMMA CreditsPosted ==
  ASSUME BillCore, BillCore', Grows, DeliveryInv, CreditInv, CreditedOnce, Inherits,
         UNCHANGED events, NEW s \in BillSlots, job[s] \in BillJobs, Posts(s)
  PROVE  CreditInv' /\ CreditedOnce'
<1> DEFINE id == job[s].e.id
           b == Posted(job[s])
<1>1. /\ Delivering(s) /\ job[s].st = "post"
      /\ credited' = credited \cup {b} /\ granted' = granted \cup {<<job[s].u, job[s].nonce, job[s].delta>>}
      /\ <<job[s].u, job[s].nonce, job[s].delta>> \notin granted
  BY DEF Delivering, Posts
<1>2. b.e = id /\ b.n = job[s].n /\ b.after = job[s].after /\ b.amount = job[s].delta
  BY DEF Posted
<1> HIDE DEF b
<1>3. /\ id \in processed /\ \A a \in credited : a.e = id => a.n \notin b.after
      /\ <<id, b.n>> \notin over /\ \A k \in b.after : <<id, k>> \in over
  BY <1>1, <1>2 DEF CreditInv, DeliveryInv
<1>4. /\ id \in 1..Len(events)
      /\ <<events[id].user, <<events[id].type, id>>, b.amount>> = <<job[s].u, job[s].nonce, job[s].delta>>
  <2>1. Fits(job[s]) /\ job[s].e = events[id] /\ id \in 1..Len(events) /\ job[s].u = job[s].e.user
    BY <1>1, DeliveryFacts
  <2>2. job[s].nonce = <<job[s].e.type, id>>
    BY <1>1, <2>1 DEF Fits, NonceOf, Delivering
  <2> QED BY <1>2, <2>1, <2>2
<1> HIDE DEF id
<1>5. ASSUME NEW a \in credited'
      PROVE  /\ a.e \in processed' /\ a.e \in 1..Len(events')
             /\ \A k \in a.after : <<a.e, k>> \in over'
             /\ <<events'[a.e].user, <<events'[a.e].type, a.e>>, a.amount>> \in granted'
  <2>1. CASE a \in credited
    BY <2>1 DEF CreditInv, Inherits
  <2>2. CASE a = b
    <3>1. a.e = id /\ a.amount = b.amount /\ a.after = b.after
      BY <1>2, <2>2
    <3> QED BY <1>1, <1>3, <1>4, <3>1 DEF Inherits
  <2> QED BY <1>1, <1>5, <2>1, <2>2
<1>6. ASSUME NEW t \in BillSlots, Delivering(t)'
      PROVE  /\ job'[t].st \notin {"check", "mark"} => job'[t].e.id \in processed'
             /\ job'[t].st # "check" =>
                  \A a \in credited' : a.e = job'[t].e.id => a.n \notin job'[t].after
  <2>1. job'[t].st \notin {"check", "mark"} => job'[t].e.id \in processed'
    BY <1>6 DEF Inherits, CreditInv
  <2>2. ASSUME job'[t].st # "check", NEW a \in credited, a.e = job'[t].e.id
        PROVE  a.n \notin job'[t].after
    BY <1>6, <2>2 DEF Inherits, CreditInv
  <2>3. ASSUME b.e = job'[t].e.id PROVE b.n \notin job'[t].after
    <3>1. job[t].e.id = id /\ job'[t].after = job[t].after /\ Delivering(t)
      BY <1>2, <1>6, <2>3 DEF Inherits
    <3>2. \A k \in job[t].after : <<id, k>> \in over
      BY <3>1 DEF DeliveryInv
    <3> QED BY <1>3, <3>1, <3>2
  <2> QED BY <1>1, <2>1, <2>2, <2>3
<1>7. CreditInv'
  BY <1>5, <1>6 DEF CreditInv
<1>8. ASSUME NEW a \in credited, a.e = b.e
      PROVE  a.n \notin b.after /\ b.n \notin a.after /\ a.amount # b.amount
  <2>1. /\ \A k \in a.after : <<id, k>> \in over
        /\ <<events[id].user, <<events[id].type, id>>, a.amount>> \in granted
    <3>1. a.e = id
      BY <1>2, <1>8
    <3>2. /\ \A k \in a.after : <<a.e, k>> \in over
          /\ <<events[a.e].user, <<events[a.e].type, a.e>>, a.amount>> \in granted
      BY DEF CreditInv
    <3> QED BY <3>1, <3>2
  <2>2. a.amount # b.amount
    BY <1>1, <1>4, <2>1
  <2> QED BY <1>2, <1>3, <1>8, <2>1, <2>2
<1>9. CreditedOnce'
  BY <1>1, <1>8 DEF CreditedOnce
<1> QED BY <1>7, <1>9

LEMMA WorkInherits ==
  ASSUME BillCore, DeliveryInv, NEW s \in BillSlots, Work(s)
  PROVE  Inherits
<1>1. /\ BillJobsOK /\ job[s] \in BillJobs /\ processed \subseteq processed'
      /\ granted \subseteq granted'
  BY DEF BillCore, Work, Posts
<1>2. CASE GoesOn(s)
  <2>1. PICK w \in BillJobs : Move(s, w) /\ CarriesOn(job[s], w)
    BY <1>2 DEF GoesOn
  <2>2. job'[s] = w /\ \A t \in BillSlots : t # s => job'[t] = job[t]
    BY <1>1, <2>1, SlotChange
  <2>3. over' = over
    BY <1>2 DEF GoesOn
  <2>4. \A t \in BillSlots : Delivering(t) => <<job[t].e.id, job[t].n>> \notin over
    BY DEF DeliveryInv
  <2>5. ASSUME NEW t \in BillSlots, Delivering(t)'
        PROVE  /\ Delivering(t)
               /\ job'[t].e = job[t].e /\ job'[t].n = job[t].n /\ job'[t].after = job[t].after
               /\ job'[t].st \notin {"check", "mark"} =>
                    job[t].st \notin {"check", "mark"} \/ job[t].e.id \in processed'
               /\ job'[t].st # "check" => job[t].st # "check" \/ job[t].e.id \notin processed
    <3>1. CASE t = s
      BY <1>1, <2>1, <2>2, <2>5, <3>1 DEF CarriesOn, Delivering
    <3>2. CASE t # s
      BY <2>2, <2>5, <3>2 DEF Delivering
    <3> QED BY <3>1, <3>2
  <2> QED BY <1>1, <2>3, <2>4, <2>5 DEF Inherits
<1>3. CASE EndsUp(s)
  <2>1. job'[s] = Quiet /\ \A t \in BillSlots : t # s => job'[t] = job[t]
    BY <1>1, <1>3, SlotChange DEF EndsUp
  <2>2. \/ job[s].op = "webhook" /\ over' = over \cup {<<job[s].e.id, job[s].n>>}
        \/ over' = over
    BY <1>3 DEF EndsUp
  <2>3. ASSUME NEW t \in BillSlots, Delivering(t)'
        PROVE  /\ Delivering(t) /\ <<job[t].e.id, job[t].n>> \notin over'
               /\ job'[t] = job[t]
    <3>1. t # s
      BY <2>1, <2>3, QuietIsNoJob DEF Delivering
    <3>2. job'[t] = job[t] /\ Delivering(t)
      BY <2>1, <2>3, <3>1 DEF Delivering
    <3>3. <<job[t].e.id, job[t].n>> \notin over
      BY <3>2 DEF DeliveryInv
    <3>4. job[s].op = "webhook" => <<job[t].e.id, job[t].n>> # <<job[s].e.id, job[s].n>>
      BY <1>1, <3>1, <3>2 DEF DeliveryInv, Delivering
    <3> QED BY <2>2, <3>2, <3>3, <3>4
  <2>4. \A d \in over' :
          d \in over \/ \E t \in BillSlots : Delivering(t) /\ d = <<job[t].e.id, job[t].n>>
    BY <1>1, <2>2 DEF Delivering
  <2> QED BY <1>1, <2>2, <2>3, <2>4 DEF Inherits
<1> QED BY <1>2, <1>3 DEF Work

(* The other slots go on as they are, this one with no delivery.           *)
LEMMA OthersInherit ==
  ASSUME BillCore, DeliveryInv, NEW s \in BillSlots, NEW w \in {Quiet} \cup BillJobs,
         Move(s, w), w \in BillJobs => w.op \in Calls,
         UNCHANGED <<over, processed, granted>>
  PROVE  Inherits
<1>1. job'[s] = w /\ \A t \in BillSlots : t # s => job'[t] = job[t]
  BY SlotChange DEF BillCore
<1>2. ASSUME NEW t \in BillSlots, Delivering(t)'
      PROVE  Delivering(t) /\ job'[t] = job[t] /\ <<job[t].e.id, job[t].n>> \notin over
  <2>1. t # s
    BY <1>1, <1>2, QuietIsNoJob DEF Delivering, Calls
  <2>2. job'[t] = job[t] /\ Delivering(t)
    BY <1>1, <1>2, <2>1 DEF Delivering
  <2> QED BY <2>2 DEF DeliveryInv
<1> QED BY <1>2 DEF Inherits

LEMMA SameJobsInherit ==
  ASSUME DeliveryInv, UNCHANGED <<job, over, processed, granted>>
  PROVE  Inherits
<1>1. ASSUME NEW t \in BillSlots, Delivering(t)'
      PROVE  Delivering(t) /\ job'[t] = job[t] /\ <<job[t].e.id, job[t].n>> \notin over
  BY <1>1 DEF Delivering, DeliveryInv
<1> QED BY <1>1 DEF Inherits

LEMMA CrashInherits ==
  ASSUME BillCore, DeliveryInv, BillingCrash
  PROVE  Inherits
<1>1. /\ UNCHANGED <<processed, granted>> /\ job' = [s \in BillSlots |-> Quiet]
      /\ over' = over \cup {<<job[s].e.id, job[s].n>> : s \in {x \in BillSlots :
                               job[x].st # "idle" /\ job[x].op = "webhook"}}
  BY DEF BillingCrash, ledgerVars
<1>2. \A t \in BillSlots : job'[t] \notin BillJobs
  BY <1>1, QuietIsNoJob
<1>3. \A t \in BillSlots : job[t].st # "idle" => job[t] \in BillJobs
  <2>1. Quiet.st = "idle"
    BY DEF Quiet
  <2> QED BY <2>1 DEF BillCore, BillJobsOK
<1>4. \A d \in over' :
        d \in over \/ \E t \in BillSlots : Delivering(t) /\ d = <<job[t].e.id, job[t].n>>
  BY <1>1, <1>3 DEF Delivering
<1> QED BY <1>1, <1>2, <1>4 DEF Inherits, Delivering

LEMMA StartKeepsDeliveries ==
  ASSUME BillCore, BillCore', DeliveryInv, CreditInv, NEW s \in BillSlots, DeliveryStarts(s)
  PROVE  DeliveryInv' /\ CreditInv'
<1>1. PICK i \in 1..Len(events), w \in BillJobs :
       /\ Move(s, w) /\ tries' = [tries EXCEPT ![i] = @ + 1]
       /\ w.op = "webhook" /\ w.st = "check" /\ w.e.id = i /\ w.n = tries[i] + 1
       /\ \A k \in w.after : <<i, k>> \in over
  BY DEF DeliveryStarts
<1>2. UNCHANGED <<processed, granted, credited, events, over>>
  BY DEF DeliveryStarts
<1>3. job'[s] = w /\ \A t \in BillSlots : t # s => job'[t] = job[t]
  BY <1>1, SlotChange DEF BillCore
<1>4. tries \in Seq(Nat) /\ Len(tries) = Len(events) /\ tries[i] \in Nat
  BY DEF BillCore, BillTables
<1>5. \A k \in 1..Len(events) : tries[k] \in Nat /\ tries'[k] = IF k = i THEN tries[i] + 1 ELSE tries[k]
  BY <1>1, <1>4
<1>6. /\ over' \subseteq (1..Len(events')) \X Nat
      /\ \A d \in over' : d[2] <= tries'[d[1]]
  <2>1. over \subseteq (1..Len(events)) \X Nat
    BY DEF DeliveryInv
  <2>2. ASSUME NEW d \in over PROVE d[2] <= tries'[d[1]]
    <3>1. PICK k \in 1..Len(events), n \in Nat : k = d[1] /\ n = d[2]
      BY <2>1
    <3>2. n <= tries[k]
      BY <3>1 DEF DeliveryInv
    <3>3. n <= tries'[k]
      BY <1>5, <3>2
    <3> QED BY <3>1, <3>3
  <2> QED BY <1>2, <2>1, <2>2
<1>7. <<i, w.n>> \notin over
  <2>1. ASSUME <<i, w.n>> \in over PROVE FALSE
    <3>1. PICK d \in over : d = <<i, w.n>>
      BY <2>1
    <3>2. d[2] <= tries[d[1]]
      BY <3>1 DEF DeliveryInv
    <3>3. w.n <= tries[i]
      BY <3>1, <3>2
    <3> QED BY <1>1, <1>4, <3>3
  <2> QED BY <2>1
<1>8. ASSUME NEW t \in BillSlots, t # s, Delivering(t)'
      PROVE  /\ Delivering(t) /\ job'[t] = job[t] /\ (job[t].e.id = i => job[t].n # w.n)
  <2>1. job'[t] = job[t] /\ Delivering(t)
    BY <1>3, <1>8 DEF Delivering
  <2>2. job[t].n \in Nat /\ job[t].n <= tries[job[t].e.id]
    BY <2>1, DeliveryFacts
  <2> QED BY <1>1, <1>4, <2>1, <2>2
<1>9. ASSUME NEW r \in BillSlots, Delivering(r)'
      PROVE  /\ <<job'[r].e.id, job'[r].n>> \notin over'
             /\ \A k \in job'[r].after : <<job'[r].e.id, k>> \in over'
             /\ \A t \in BillSlots :
                  Delivering(t)' /\ job'[t].e.id = job'[r].e.id /\ job'[t].n = job'[r].n => r = t
  <2>1. CASE r = s
    <3>1. job'[r].e.id = i /\ job'[r].n = w.n /\ job'[r].after = w.after
      BY <1>1, <1>3, <2>1
    <3>2. ASSUME NEW t \in BillSlots, Delivering(t)', job'[t].e.id = i, job'[t].n = w.n
          PROVE  r = t
      BY <1>8, <2>1, <3>2
    <3> QED BY <1>1, <1>2, <1>7, <3>1, <3>2
  <2>2. CASE r # s
    <3>1. Delivering(r) /\ job'[r] = job[r]
      BY <1>8, <1>9, <2>2
    <3>2. /\ <<job[r].e.id, job[r].n>> \notin over
          /\ \A k \in job[r].after : <<job[r].e.id, k>> \in over
      BY <3>1 DEF DeliveryInv
    <3>3. ASSUME NEW t \in BillSlots, Delivering(t)', job'[t].e.id = job'[r].e.id,
                 job'[t].n = job'[r].n
          PROVE  r = t
      <4>1. CASE t = s
        BY <1>1, <1>3, <1>8, <1>9, <2>2, <3>3, <4>1
      <4>2. CASE t # s
        <5>1. Delivering(t) /\ job'[t] = job[t]
          BY <1>8, <3>3, <4>2
        <5> QED BY <3>1, <3>3, <5>1 DEF DeliveryInv
      <4> QED BY <4>1, <4>2
    <3> QED BY <1>2, <3>1, <3>2, <3>3
  <2> QED BY <2>1, <2>2
<1>10. DeliveryInv'
  BY <1>6, <1>9 DEF DeliveryInv
<1>11. ASSUME NEW r \in BillSlots, Delivering(r)'
       PROVE  /\ job'[r].st \notin {"check", "mark"} => job'[r].e.id \in processed'
              /\ job'[r].st # "check" =>
                   \A a \in credited' : a.e = job'[r].e.id => a.n \notin job'[r].after
  <2>1. CASE r = s
    BY <1>1, <1>3, <2>1
  <2>2. CASE r # s
    BY <1>2, <1>8, <1>11, <2>2 DEF CreditInv
  <2> QED BY <2>1, <2>2
<1>12. CreditInv'
  BY <1>2, <1>11 DEF CreditInv
<1> QED BY <1>10, <1>12

BillInv == BillCore /\ DeliveryInv /\ CreditInv /\ CreditedOnce

LEMMA BillInvInherited ==
  ASSUME BillInv, BillCore', Grows, Inherits, UNCHANGED credited
  PROVE  BillInv'
BY DeliveriesInherited, CreditsInherited DEF BillInv, CreditedOnce

LEMMA BillInvStep == BillInv /\ [BillingNext]_billVars => BillInv'
<1> SUFFICES ASSUME BillInv, [BillingNext]_billVars PROVE BillInv'
  OBVIOUS
<1>0. BillCore /\ DeliveryInv /\ CreditInv /\ CreditedOnce
  BY DEF BillInv
<1>1. ASSUME NEW s \in BillSlots, Work(s) PROVE BillInv'
  <2>1. BillCore' /\ Grows /\ Inherits
    BY <1>0, <1>1, WorkKeepsCore, WorkInherits
  <2>2. CASE UNCHANGED credited
    BY <2>1, <2>2, BillInvInherited
  <2>3. CASE Posts(s)
    <3>1. UNCHANGED events /\ job[s] \in BillJobs
      BY <1>1 DEF Work
    <3>2. CreditInv' /\ CreditedOnce'
      BY <1>0, <2>1, <2>3, <3>1, CreditsPosted
    <3>3. DeliveryInv'
      BY <1>0, <2>1, DeliveriesInherited
    <3> QED BY <2>1, <3>2, <3>3 DEF BillInv
  <2> QED BY <1>1, <2>2, <2>3 DEF Work
<1>2. ASSUME NEW s \in BillSlots, CallStarts(s) PROVE BillInv'
  <2>1. Inherits
    BY <1>0, <1>2, OthersInherit DEF CallStarts
  <2> QED BY <1>0, <1>2, <2>1, CallKeepsCore, BillInvInherited DEF CallStarts
<1>3. ASSUME NEW s \in BillSlots, CheckoutSession(s) PROVE BillInv'
  <2>1. BillCore' /\ Grows /\ Opens(s)
    BY <1>0, <1>3, SessionKeepsCore
  <2>2. Inherits
    BY <1>0, <2>1, OthersInherit, QuietIsNoJob DEF Opens
  <2> QED BY <2>1, <2>2, BillInvInherited DEF Opens
<1>4. ASSUME NEW s \in BillSlots, stripe_webhook(s) PROVE BillInv'
  <2>1. DeliveryStarts(s)
    BY <1>0, <1>4, WebhookStarts
  <2>2. BillCore'
    BY <1>0, <2>1, DeliveryKeepsCore
  <2>3. DeliveryInv' /\ CreditInv'
    BY <1>0, <2>1, <2>2, StartKeepsDeliveries
  <2>4. CreditedOnce'
    BY <1>0, <2>1 DEF DeliveryStarts, CreditedOnce
  <2> QED BY <2>2, <2>3, <2>4 DEF BillInv
<1>5. ASSUME StripePays \/ StripeEvent PROVE BillInv'
  <2>1. Emits
    BY <1>0, <1>5, StripeEmits
  <2>2. Inherits
    BY <1>0, <2>1, SameJobsInherit DEF Emits
  <2> QED BY <1>0, <2>1, <2>2, EmitKeepsCore, BillInvInherited DEF Emits
<1>6. ASSUME Aside PROVE BillInv'
  <2>1. Inherits
    BY <1>0, <1>6, SameJobsInherit DEF Aside
  <2> QED BY <1>0, <1>6, <2>1, AsideKeepsCore, BillInvInherited DEF Aside
<1>7. ASSUME BillingCrash PROVE BillInv'
  <2>1. Inherits /\ BillCore' /\ Grows
    BY <1>0, <1>7, CrashInherits, CrashKeepsCore
  <2> QED BY <1>7, <2>1, BillInvInherited DEF BillingCrash, ledgerVars
<1>8. ASSUME UNCHANGED billVars PROVE BillInv'
  <2>1. RowsKept
    BY <1>0, <1>8, SameRows DEF billVars, BillCore
  <2>2. Aside
    BY <1>0, <1>8, <2>1 DEF Aside, billVars, BillCore, BillTables
  <2> QED BY <1>6, <2>2
<1>9. ASSUME NEW s \in BillSlots,
             \/ is_stripe_event_processed(s) \/ mark_stripe_event_processed(s)
             \/ handle_checkout_completed(s) \/ handle_invoice_paid(s) \/ InvoicePeriod(s)
             \/ handle_subscription_updated(s) \/ handle_subscription_deleted(s)
             \/ get_billing_balance(s) \/ create_billing_event(s)
      PROVE  BillInv'
  BY <1>0, <1>1, <1>9, ChecksWork, CheckoutWorks, InvoiceWorks, PeriodWorks, ChangeWorks,
     BalanceWorks, PostWorks
<1>10. ASSUME NEW s \in BillSlots, NEW u \in Payers,
              \/ status(s, u)
              \/ \E x \in DOMAIN PlanOfPrice \cup AnnualPrices : checkout(s, u, x)
              \/ \E p \in DOMAIN Monthly : set_plan(s, u, p)
              \/ \E a \in Grants : grant_credits(s, u, a)
       PROVE  BillInv'
  BY <1>0, <1>2, <1>10, StatusStarts, CheckoutStarts, AdminStarts DEF Prices
<1>11. ASSUME NEW u \in Payers, portal(u) \/ UseCredit(u) \/ check_all_users(u) PROVE BillInv'
  BY <1>0, <1>6, <1>11, AsideSteps
<1>12. ASSUME send_email \/ mark_notification_sent PROVE BillInv'
  BY <1>0, <1>6, <1>12, AsideAlerts
<1> QED
  BY <1>3, <1>4, <1>5, <1>7, <1>8, <1>9, <1>10, <1>11, <1>12 DEF BillingNext

LEMMA BillInvInit == InitBilling => BillInv
<1> SUFFICES ASSUME InitBilling PROVE BillInv
  OBVIOUS
<1>1. PICK own \in [Payers -> 1..Cardinality(Payers)] :
       /\ \A u, v \in Payers : own[u] = own[v] => u = v
       /\ subs = [u \in Payers |-> IF bleft.open = {} THEN NoSub
                                   ELSE [Free EXCEPT !.customer = own[u]]]
       /\ sessions = {x \in [user : Payers, customer : 1..Cardinality(Payers), price : bleft.open] :
                        x.customer = own[x.user]}
  BY DEF InitBilling
<1>2. /\ events = <<>> /\ tries = <<>> /\ due = {} /\ over = {} /\ credited = {} /\ nonces = 0
      /\ customers = IF bleft.open = {} THEN 0 ELSE Cardinality(Payers)
      /\ job = [s \in BillSlots |-> Quiet] /\ credits = [u \in Payers |-> bleft.start]
      /\ bleft.start \in Int /\ bleft.open \subseteq Prices
  BY BillingAssumption DEF InitBilling, Prices
<1>3. Cardinality(Payers) \in Nat
  BY BillingAssumption, FS_CardinalityType
<1>4. /\ subs \in [Payers -> {NoSub} \cup SubRows]
      /\ \A u \in Payers : subs[u] # NoSub =>
           bleft.open # {} /\ subs[u].stripe = 0 /\ subs[u].customer = own[u]
  <2>1. ASSUME NEW u \in Payers
        PROVE  LET r == [Free EXCEPT !.customer = own[u]]
               IN  r \in SubRows /\ r.stripe = 0 /\ r.customer = own[u]
    <3>1. PICK k \in Nat : k = own[u]
      BY <1>1, <1>3
    <3>2. LET r == [Free EXCEPT !.customer = k] IN r \in SubRows /\ r.stripe = 0 /\ r.customer = k
      BY FreeIsRow DEF SubRows
    <3> QED BY <3>1, <3>2
  <2> QED BY <1>1, <2>1
<1>5. /\ sessions \subseteq [user : Payers, customer : Nat \ {0}, price : Prices]
      /\ \A x \in sessions : bleft.open # {} /\ x.customer = own[x.user]
  BY <1>1, <1>2, <1>3
<1>6. events \in Seq(StripeEvents) /\ Len(events) = 0 /\ tries \in Seq(Nat) /\ Len(tries) = 0
  BY <1>2
<1>7. BillTables
  BY <1>2, <1>3, <1>4, <1>5, <1>6 DEF BillTables
<1>8. \A s \in BillSlots : job[s] \notin BillJobs
  BY <1>2, QuietIsNoJob
<1>9. BillJobsOK
  BY <1>2, <1>8 DEF BillJobsOK
<1>10. SubInv
  BY <1>4, <1>6 DEF SubInv
<1>11. OwnInv
  <2>1. ASSUME NEW c \in Nat \ {0}, NEW u \in Payers, Owns(c, u)
        PROVE  c = own[u] /\ c <= customers
    <3>1. c = own[u] /\ bleft.open # {}
      BY <1>4, <1>5, <1>6, <1>8, <2>1 DEF Owns
    <3> QED BY <1>1, <1>2, <1>3, <3>1
  <2> QED BY <1>1, <2>1 DEF OwnInv
<1>12. DeliveryInv /\ CreditInv /\ CreditedOnce
  BY <1>2, <1>8 DEF DeliveryInv, CreditInv, CreditedOnce, Delivering
<1> QED BY <1>7, <1>9, <1>10, <1>11, <1>12 DEF BillInv, BillCore

(* A Stripe event tops a user up once: for any number of users, handlers,  *)
(* deliveries, lost answers and restarts a second credit comes only from a *)
(* delivery that ran beside the first and had computed another amount      *)
(* (webhooks.rs, stripe_webhook; the nonce that create_billing_event posts *)
(* under).                                                                 *)
THEOREM TopUpsAreSingle == BillingSpec => []CreditedOnce
<1>1. BillInv => CreditedOnce
  BY DEF BillInv
<1> QED BY <1>1, BillInvInit, BillInvStep, PTL DEF BillingSpec

=============================================================================
