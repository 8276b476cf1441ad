------------------------------ MODULE Gateway ------------------------------
(***************************************************************************)
(* The edge gateway (apps/gateway/src/main.rs): API keys checked with the  *)
(* dashboard through a cache, one credit read and a deduction in the       *)
(* background per billed call, the user's bucket names mapped into a       *)
(* namespace of the cluster, the call passed to a node of the mesh.        *)
(*                                                                         *)
(* A request stops at every await of its handler: the dashboard's two      *)
(* queries, its answer, the credit read, the node's answer.  The rights of *)
(* keys change meanwhile and the clock moves on.  Routes are records, so   *)
(* handlers that take the same steps are the same record.  The nodes are   *)
(* sets of events, each with its own view, and events reach a node once    *)
(* per nonce: Accounts and Idempotency hold the nodes' own logic.          *)
(* Requests refused before they touch any state (a legacy owner field, a   *)
(* missing bucket, a wrong machine secret) are left out.                   *)
(***************************************************************************)
EXTENDS KeyScopes, FiniteSetsExt, Functions

CONSTANTS
  Nodes, Requests,
  BillingName,   \* the raw name of each user's billing bucket
  Bucket,        \* the name clients use; every user has one of that name
  InitialScopes, \* the scopes of each key at first
  KeyOwner,
  Volatile,      \* bound: the keys whose rights change
  ReadOnlyKeys,  \* bound: keys that clients only read a bucket with
  CacheTtl,      \* machine_auth_positive_cache_ttl_ms
  HttpTimeout,   \* the HTTP client's timeout
  ReadCost, WriteCost,
  Seed,          \* the credits each user has at first
  MaxClock,      \* bound: the clock
  MaxOps,        \* bound: changes of rights and writes without a key
  MaxRequests,   \* bound: requests with a key
  RawNames,      \* bound: the names raw calls use
  IntWidth,      \* bound: the bits of u64 and i64
  MaxUnsettled   \* bound: deductions in flight or not yet on every node

ASSUME GatewayAssumption ==
  /\ RawNames \subseteq Names /\ Bucket \in Names /\ BillingName \in [Users -> Names]
  /\ \A u \in Users : BillingName[u] # Bucket
  /\ \A u, v \in Users : BillingName[u] = BillingName[v] => u = v
  /\ IsFiniteSet(Users) /\ Nodes # {} /\ ReadCost <= WriteCost
  /\ Volatile \cup ReadOnlyKeys \subseteq Keys
  /\ Seed \in [Users -> Nat]
  /\ KeyOwner \in [Keys -> Users] /\ InitialScopes \in [Keys -> SUBSET Scope]
  /\ {CacheTtl, HttpTimeout, ReadCost, WriteCost, MaxClock, MaxOps,
      MaxRequests, MaxUnsettled} \subseteq Nat
  /\ IntWidth \in Nat \ {0}

VARIABLES
  auth,      \* AppState.auth is set: a dashboard is configured
  clock,
  keyRow, scopes, frozen,  \* the dashboard's tables
  ops,       \* changes of rights and writes without a key so far
  cache,     \* GatewayAuthClient.cache: when the entry of a right expires, and its user
  req,       \* the handlers under way
  sent,      \* requests with a key so far
  store,     \* the events each node has
  gone,      \* the buckets each node knows to be deleted
  pending,   \* spawned deductions
  calls,     \* billed calls so far
  lostAt,    \* history: when the dashboard last stopped granting a right
  late,      \* history: the longest a right was honoured after it was lost
  access     \* history: which caller saw or wrote buckets of which other owner

dashVars == <<keyRow, scopes, frozen, lostAt>>
meshVars == <<store, gone, pending, calls>>
gwVars == <<auth, clock, keyRow, scopes, frozen, ops, cache, req, sent, store, gone, pending,
            calls, lostAt, late, access>>

Operator == "operator"   \* the dashboard and the billing service, by machine secret
Idle == [st |-> "idle"]

(***************************************************************************)
(* Names: user_{id}__bucket_{hex} is the pair of user and name, every      *)
(* other name of the cluster a pair without a user.                        *)
(***************************************************************************)
internal_bucket_for_user(u, b) == <<u, b>>
RawBucket(b) == <<NoUser, b>>
billing_bucket_for_user(u) == RawBucket(BillingName[u])
Reserved(x) == \E u \in Users : x = billing_bucket_for_user(u)

\* Faulty variant: the prefix is not stripped against this user's id.
external_bucket_of_any_user(u, x) == IF x[1] # NoUser THEN x[2] ELSE NoValue

external_bucket_from_internal_user(u, x) == IF x[1] = u THEN x[2] ELSE NoValue

\* filter_balances and filter_collapsed: what an answer keeps of a node's buckets.
OnlyBucket(xs, u, b) == xs \cap {internal_bucket_for_user(u, b)}

summarize_user_buckets(xs, u) ==
  {x \in xs : external_bucket_from_internal_user(u, x) # NoValue}

(***************************************************************************)
(* Routes: who may call, which right is asked for, what the call costs,    *)
(* what the node is asked to do and which buckets the answer keeps.        *)
(***************************************************************************)
Route(gate, action, cost, rpc, view) ==
  [gate |-> gate, action |-> action, cost |-> cost, rpc |-> rpc, view |-> view]

proxy_events == Route("key", "Read", ReadCost, "read", "bucket")
proxy_balances == Route("key", "Read", ReadCost, "read", "bucket")
proxy_collapsed == Route("key", "Read", ReadCost, "read", "bucket")
proxy_collapsed_account == Route("key", "Read", ReadCost, "read", "bucket")
proxy_create_event == Route("key", "Write", WriteCost, "create", "bucket")
me_bucket_list == Route("me", "ReadOwnAccount", 0, "read", "namespace")
me_bucket_detail == Route("me", "ReadOwnAccount", 0, "read", "bucket")
me_bucket_events == Route("me", "ReadOwnAccount", 0, "read", "bucket")
me_user_events == Route("me", "ReadOwnAccount", 0, "read", "namespace")
me_deleted_buckets == Route("me", "ReadOwnAccount", 0, "read", "namespace")
me_create_bucket_event == Route("me", "WriteOwnAccount", 0, "create", "bucket")
me_delete_bucket == Route("me", "WriteOwnAccount", 0, "delete", "bucket")
KeyRoutes ==
  {proxy_events, proxy_balances, proxy_collapsed, proxy_collapsed_account, proxy_create_event,
   me_bucket_list, me_bucket_detail, me_bucket_events, me_user_events, me_deleted_buckets,
   me_create_bucket_event, me_delete_bucket}

ClientRoutes(k) == IF k \in ReadOnlyKeys THEN {proxy_balances} ELSE KeyRoutes

\* The dashboard's own calls, for a user it names.
internal_bucket_list == Route("machine", "Read", 0, "read", "namespace")
internal_bucket_detail == Route("machine", "Read", 0, "read", "bucket")
internal_bucket_events == Route("machine", "Read", 0, "read", "bucket")
internal_user_events == Route("machine", "Read", 0, "read", "namespace")
internal_create_bucket_event == Route("machine", "Write", 0, "create", "bucket")
MachineUserRoutes ==
  {internal_bucket_list, internal_bucket_detail, internal_bucket_events, internal_user_events,
   internal_create_bucket_event}

\* Calls that name a bucket of the cluster as it is.
internal_meta_bucket_delete == Route("machine", "Write", 0, "delete", "raw")
internal_deleted_buckets == Route("machine", "Read", 0, "read", "all")
internal_admin_events == Route("machine", "Read", 0, "read", "all")
internal_billing_create_event == Route("machine", "Write", 0, "create", "raw")
internal_billing_balance == Route("machine", "Read", 0, "read", "raw")
MachineRawRoutes ==
  {internal_meta_bucket_delete, internal_deleted_buckets, internal_admin_events,
   internal_billing_create_event, internal_billing_balance}

(***************************************************************************)
(* Rights                                                                  *)
(***************************************************************************)
Rights == Keys \X (({"Read", "Write"} \X {Bucket}) \cup (ControlActions \X {AllBuckets}))
RightOf(route, k) ==
  <<k, <<route.action, IF route.gate = "me" THEN AllBuckets ELSE Bucket>>>>
Allowed(q) ==
  introspect(keyRow[q[1]], scopes[q[1]], frozen, clock, q[2][1], q[2][2])

\* The digest of key, action and bucket is the triple itself.
auth_cache_key(q) == q

\* Every step that moves the clock or the tables notes the rights that end.
NoteLosses ==
  lostAt' = [q \in Rights |-> IF Allowed(q)' THEN Never
                              ELSE IF Allowed(q) THEN clock' ELSE lostAt[q]]

\* A right was honoured: how long after the dashboard stopped granting it.
NoteUse(q) ==
  late' = IF lostAt[q] = Never THEN late ELSE Max({late, clock - lostAt[q]})

(***************************************************************************)
(* The mesh as the gateway sees it: request_best_with_node tries the       *)
(* candidates in turn, a node that fails may have done the work.           *)
(***************************************************************************)
Event(x, nonce, amount, by) == [bucket |-> x, nonce |-> nonce, amount |-> amount, by |-> by]

\* `as i64` of a u64, and the floor the node derives from max_overdraft: u64::MAX.
as_i64(x) == IF x < 2^(IntWidth - 1) THEN x ELSE x - 2^IntWidth
BillingFloor == -as_i64(2^IntWidth - 1)

Total(evs, x) == SumFunctionOnSet([e \in evs |-> e.amount], {e \in evs : e.bucket = x})

\* CreateEvent at one node: the same nonce is answered with the event it has; a debit, which
\* is always a deduction here, must leave the floor.
Known(evs, e) ==
  \E d \in evs : d.nonce = e.nonce /\ d.bucket = e.bucket /\ d.amount = e.amount
OverFloor(evs, e) == e.amount < 0 => Total(evs, e.bucket) + e.amount >= BillingFloor
NodeCreate(evs, e) == IF Known(evs, e) \/ ~OverFloor(evs, e) THEN evs ELSE evs \cup {e}

\* The nodes of S do the work, whether or not their answers arrive.
CreateAt(S, e) ==
  /\ store' = [m \in Nodes |-> IF m \in S /\ e.bucket \notin gone[m]
                               THEN NodeCreate(store[m], e) ELSE store[m]]
  /\ UNCHANGED gone
DeleteAt(n, x) ==
  /\ store' = [store EXCEPT ![n] = {e \in @ : e.bucket # x}]
  /\ gone' = [gone EXCEPT ![n] = @ \cup {x}]

\* Gossip and catch-up between nodes.
Replicate(n, m) ==
  /\ \/ \E e \in store[n] \ store[m] :
          /\ e.bucket \notin gone[m]
          /\ store' = [store EXCEPT ![m] = @ \cup {e}] /\ UNCHANGED gone
     \/ \E x \in gone[n] \ gone[m] : DeleteAt(m, x)
  /\ UNCHANGED <<ops, auth, clock, dashVars, cache, req, sent, pending, calls, late, access>>

Credits(evs, u) == Total(evs, billing_bucket_for_user(u))

Deductions == {e \in UNION {store[n] : n \in Nodes} : e.by = "api"}
Unsettled == pending \cup {e \in Deductions : \E n \in Nodes : e \notin store[n]}

(***************************************************************************)
(* Handlers                                                                *)
(***************************************************************************)
Init ==
  /\ auth \in BOOLEAN
  /\ clock = 0 /\ ops = 0 /\ sent = 0 /\ calls = 0 /\ late = 0
  /\ keyRow = [k \in Keys |-> [user |-> KeyOwner[k], revoked |-> FALSE, expires |-> Never]]
  /\ scopes = InitialScopes /\ frozen = {}
  /\ cache = [q \in Rights |-> [until |-> Never, user |-> NoUser]]
  /\ req = [r \in Requests |-> Idle]
  /\ store = [n \in Nodes |->
       {Event(billing_bucket_for_user(u), <<"machine", u>>, Seed[u], "machine") : u \in Users}]
  /\ gone = [n \in Nodes |-> {}]
  /\ pending = {} /\ access = {}
  /\ lostAt = [q \in Rights |-> Never]

Cached(q) == cache[auth_cache_key(q)].until > clock

\* After authorization: the user is known, the call is billed or passed on.
Admit(r, route, q, u) ==
  /\ NoteUse(q)
  /\ req' = [req EXCEPT ![r] = [st |-> IF route.cost > 0 THEN "bill" ELSE "call",
                                 route |-> route, right |-> q, user |-> u]]

\* authorize finds the decision in the cache.
AuthorizeCached(r) ==
  \E k \in Keys : \E route \in ClientRoutes(k) :
    LET q == RightOf(route, k) IN
      /\ auth /\ req[r] = Idle /\ Cached(q) /\ sent < MaxRequests
      /\ sent' = sent + 1
      /\ Admit(r, route, q, cache[auth_cache_key(q)].user)
      /\ UNCHANGED <<ops, auth, clock, dashVars, cache, meshVars, access>>

\* authorize does not: the stale entry goes, the dashboard is asked.
AuthorizeAsk(r) ==
  \E k \in Keys : \E route \in ClientRoutes(k) :
    LET q == RightOf(route, k) IN
      /\ auth /\ req[r] = Idle /\ ~Cached(q) /\ sent < MaxRequests
      /\ sent' = sent + 1
      /\ cache' = [cache EXCEPT ![auth_cache_key(q)] = [until |-> Never, user |-> NoUser]]
      /\ req' = [req EXCEPT ![r] = [st |-> "ask", route |-> route, right |-> q, since |-> clock]]
      /\ UNCHANGED <<ops, auth, clock, dashVars, meshVars, late, access>>

\* The dashboard looks the key up, then its scopes; a refusal is not cached.
IntrospectKey(r) ==
  /\ req[r].st = "ask"
  /\ LET k == req[r].right[1] IN
       req' = [req EXCEPT ![r] = IF KeyUsable(keyRow[k], frozen, clock)
                                 THEN [req[r] EXCEPT !.st = "looked"] ELSE Idle]
  /\ UNCHANGED <<ops, auth, sent, clock, dashVars, cache, meshVars, late, access>>

IntrospectScopes(r) ==
  /\ req[r].st = "looked"
  /\ LET q == req[r].right IN
       req' = [req EXCEPT ![r] = IF ScopesAllow(scopes[q[1]], q[2][1], q[2][2])
                                 THEN [req[r] EXCEPT !.st = "granted"] ELSE Idle]
  /\ UNCHANGED <<ops, auth, sent, clock, dashVars, cache, meshVars, late, access>>

\* Faulty variant: the lifetime counts from the answer.
EntryUntilFromAnswer(since) == clock + CacheTtl

\* expires_at_unix_ms: the lifetime counts from before the dashboard was asked.
EntryUntil(since) == since + CacheTtl

AuthorizeGranted(r) ==
  /\ req[r].st = "granted" /\ clock - req[r].since <= HttpTimeout
  /\ LET q == req[r].right IN
       /\ cache' = [cache EXCEPT ![auth_cache_key(q)] =
                      [until |-> EntryUntil(req[r].since), user |-> keyRow[q[1]].user]]
       /\ Admit(r, req[r].route, q, keyRow[q[1]].user)
  /\ UNCHANGED <<ops, auth, sent, clock, dashVars, meshVars, access>>

\* The dashboard does not answer, or answers with an error: 503.
AuthorizeFails(r) ==
  /\ req[r].st \in {"ask", "looked", "granted"}
  /\ req' = [req EXCEPT ![r] = Idle]
  /\ UNCHANGED <<ops, auth, sent, clock, dashVars, cache, meshVars, late, access>>

\* Faulty variant: an account at zero is served too.
EnoughCredits(balance) == balance >= 0

CreditsLeft(balance) == balance > 0

\* billing_check_and_deduct: read the credits at some node (none answers: zero),
\* refuse at zero or below, spawn the deduction.
BillingCheck(r) ==
  /\ req[r].st = "bill"
  /\ Cardinality(Unsettled) < MaxUnsettled
  /\ \E balance \in {0} \cup {Credits(store[n], req[r].user) : n \in Nodes} :
       IF CreditsLeft(balance)
       THEN /\ calls' = calls + 1
            /\ pending' = pending \cup
                 {Event(billing_bucket_for_user(req[r].user), <<"api", calls'>>,
                        -req[r].route.cost, "api")}
            /\ req' = [req EXCEPT ![r].st = "call"]
       ELSE req' = [req EXCEPT ![r] = Idle] /\ UNCHANGED <<calls, pending>>
  /\ UNCHANGED <<ops, auth, sent, clock, dashVars, cache, store, gone, late, access>>

\* The spawned task: one write, with failover between nodes; a refusal is an answer and goes
\* unnoticed, after a failure of all nodes the deduction is given up.
Deduct(e) ==
  /\ pending' = pending \ {e}
  /\ \E S \in SUBSET Nodes : CreateAt(S, e)
  /\ UNCHANGED <<ops, auth, sent, clock, dashVars, cache, req, calls, late, access>>

\* Which buckets of node n an answer shows to user u.
Answer(n, route, u, b) ==
  LET xs == {e.bucket : e \in store[n]} IN
    CASE route.view = "bucket" -> OnlyBucket(xs, u, b)
      [] route.view = "namespace" -> summarize_user_buckets(xs, u)
      [] route.view = "raw" -> xs \cap {RawBucket(b)}
      [] route.view = "all" -> xs

\* submit_create_event: reserved names need the internal route.
submit_create_event(S, x, nonce, by, allow_reserved_bucket) ==
  /\ Reserved(x) => allow_reserved_bucket
  /\ CreateAt(S, Event(x, nonce, 1, by))

\* What a caller touched that is not its own; the operator may touch everything.
NoteAccess(viewer, xs) ==
  access' = access \cup {<<viewer, x[1]>> : x \in {y \in xs : viewer \notin {y[1], Operator}}}

\* The nodes' part of a call for user u on the bucket x of the cluster: n answers; nodes
\* tried before may have done the work too.
CallNode(n, route, u, x, b, viewer, by, reserved) ==
  \/ /\ route.rpc = "read"
     /\ NoteAccess(viewer, Answer(n, route, u, b))
     /\ UNCHANGED <<store, gone>>
  \/ /\ route.rpc # "read"
     /\ NoteAccess(viewer, {x})
     /\ \/ /\ route.rpc = "create"
           /\ \E S \in SUBSET (Nodes \ {n}) :
                submit_create_event(S \cup {n}, x, <<by, u>>, by, reserved)
        \/ /\ route.rpc = "delete" /\ ~Reserved(x)
           /\ DeleteAt(n, x)

\* The end of a handler with a key: the caller is the key's owner.
Call(r) ==
  /\ req[r].st = "call"
  /\ \E n \in Nodes :
       CallNode(n, req[r].route, req[r].user, internal_bucket_for_user(req[r].user, Bucket),
                Bucket, keyRow[req[r].right[1]].user, "client", FALSE)
  /\ req' = [req EXCEPT ![r] = Idle]
  /\ UNCHANGED <<ops, auth, sent, clock, dashVars, cache, pending, calls, late>>

\* No node answers: 503.
CallFails(r) ==
  /\ req[r].st = "call"
  /\ req' = [req EXCEPT ![r] = Idle]
  /\ UNCHANGED <<ops, auth, sent, clock, dashVars, cache, meshVars, late, access>>

Spend == ops < MaxOps /\ ops' = ops + 1
SpendOnWrite(route) == IF route.rpc = "read" THEN UNCHANGED ops ELSE Spend

\* The dashboard, for a user: authorize_internal_machine, then the same calls.
InternalUserCall(route, u) ==
  /\ auth
  /\ SpendOnWrite(route)
  /\ \E n \in Nodes :
       CallNode(n, route, u, internal_bucket_for_user(u, Bucket), Bucket, u, "machine", FALSE)
  /\ UNCHANGED <<auth, clock, dashVars, cache, req, sent, pending, calls, late>>

\* The dashboard and the billing service, on a raw bucket.
InternalRawCall(route, b) ==
  /\ auth
  /\ SpendOnWrite(route)
  /\ \E n \in Nodes :
       CallNode(n, route, NoUser, RawBucket(b), b, Operator, "machine",
                route = internal_billing_create_event)
  /\ UNCHANGED <<auth, clock, dashVars, cache, req, sent, pending, calls, late>>

\* Without a dashboard every route passes names through and hides nothing.
OpenCall(route, b) ==
  /\ ~auth /\ route.gate = "key"
  /\ SpendOnWrite(route)
  /\ \E n \in Nodes :
       CallNode(n, [route EXCEPT !.view = "raw"], NoUser, RawBucket(b), b, NoUser,
                "client", FALSE)
  /\ UNCHANGED <<auth, clock, dashVars, cache, req, sent, pending, calls, late>>

\* state, heads, persistence, digests, debug origin, registry: 404 with a dashboard.
HiddenRead ==
  /\ ~auth
  /\ \E n \in Nodes : NoteAccess(NoUser, {e.bucket : e \in store[n]})
  /\ UNCHANGED <<ops, auth, clock, dashVars, cache, req, sent, meshVars, late>>

(***************************************************************************)
(* The dashboard changes what a key may do                                 *)
(***************************************************************************)
Change ==
  /\ Spend
  /\ \/ \E k \in Volatile : /\ ~keyRow[k].revoked
                        /\ keyRow' = [keyRow EXCEPT ![k].revoked = TRUE]
                        /\ UNCHANGED <<scopes, frozen>>
     \/ \E k \in Volatile : \E s \in scopes[k] :
          scopes' = [scopes EXCEPT ![k] = @ \ {s}] /\ UNCHANGED <<keyRow, frozen>>
     \/ \E u \in {KeyOwner[k] : k \in Volatile} :
          /\ frozen' = IF u \in frozen THEN frozen \ {u} ELSE frozen \cup {u}
          /\ UNCHANGED <<keyRow, scopes>>
  /\ UNCHANGED clock /\ NoteLosses
  /\ UNCHANGED <<auth, cache, req, sent, meshVars, late, access>>

\* Entries past their time answer like no entry.
Tick ==
  /\ clock < MaxClock /\ clock' = clock + 1
  /\ UNCHANGED <<keyRow, scopes, frozen>> /\ NoteLosses
  /\ cache' = [q \in Rights |-> IF cache[q].until > clock' THEN cache[q]
                                ELSE [until |-> Never, user |-> NoUser]]
  /\ UNCHANGED <<ops, auth, req, sent, meshVars, late, access>>

Handler(r) ==
  \/ AuthorizeCached(r) \/ AuthorizeAsk(r) \/ IntrospectKey(r) \/ IntrospectScopes(r)
  \/ AuthorizeGranted(r) \/ AuthorizeFails(r) \/ BillingCheck(r) \/ Call(r) \/ CallFails(r)

Next ==
  \/ \E r \in Requests : Handler(r)
  \/ \E e \in pending : Deduct(e)
  \/ \E route \in MachineUserRoutes, u \in Users : InternalUserCall(route, u)
  \/ \E route \in MachineRawRoutes, b \in RawNames : InternalRawCall(route, b)
  \/ \E route \in KeyRoutes, b \in RawNames : OpenCall(route, b)
  \/ HiddenRead
  \/ \E n, m \in Nodes : Replicate(n, m)
  \/ Change \/ Tick

Spec == Init /\ [][Next]_gwVars

(***************************************************************************)
(* Properties                                                              *)
(***************************************************************************)
TypeOK ==
  /\ auth \in BOOLEAN /\ clock \in 0..MaxClock /\ ops \in 0..MaxOps
  /\ keyRow \in [Keys -> KeyRow] /\ scopes \in [Keys -> SUBSET Scope] /\ frozen \subseteq Users
  /\ cache \in [Rights -> [until : Instants, user : Users \cup {NoUser}]]
  /\ \A r \in Requests : req[r].st \in {"idle", "ask", "looked", "granted", "bill", "call"}
  /\ calls \in 0..MaxRequests /\ late \in Nat /\ lostAt \in [Rights -> Instants]

\* A revoked key, a removed scope or a frozen user is refused in the end: no grant is honoured
\* longer after the dashboard withdrew it than the cache's lifetime or one HTTP timeout, whichever
\* is longer and never their sum, whenever the answer that filled the entry arrived (authorize).
GrantsEnd == late <= Max({CacheTtl - 1, HttpTimeout})

\* A caller sees and writes the buckets of its own namespace only, through any route, with any
\* state of the cache; what belongs to no user is for the operator, or for a gateway without
\* a dashboard (internal_bucket_for_user, the reply filters, auth_cache_key).
NamespaceIsolation ==
  \A a \in access : ~auth /\ a[1] = NoUser

\* Check and deduction are two steps, so a user's credits do go below zero, but by no more than
\* the calls whose deduction is in flight or on its way between nodes cost; a user who was never
\* given credits owes nothing (billing_check_and_deduct).
DebtBounded ==
  \A u \in Users :
    Credits((UNION {store[n] : n \in Nodes}) \cup pending, u)
      >= IF Seed[u] = 0 THEN 0 ELSE 1 - MaxUnsettled * WriteCost
=============================================================================
