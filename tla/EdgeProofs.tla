----------------------------- MODULE EdgeProofs -----------------------------
(***************************************************************************)
(* What the edge gateway grants, for every number of users, keys, requests *)
(* and nodes, every cache lifetime and every HTTP timeout: rights end in   *)
(* time (GrantsEnd, TransfersEnd), a namespace is its owner's              *)
(* (NamespaceIsolation), a receipt stands for a stored transfer            *)
(* (ReceiptMeansStored), and debts are bounded (DebtBounded).              *)
(*                                                                         *)
(* A right is honoured on the strength of something read earlier.  The     *)
(* invariant says of each such thing since when, at most, it can have been *)
(* wrong: a request under way since it was sent (AskInv), a cache entry    *)
(* since CacheTtl before its end (EntryInv).  The key and the scopes of a  *)
(* request are read one after the other, so that both were good at one     *)
(* instant follows from scopes only ever being taken away.                 *)
(*                                                                         *)
(* Credits are a sum over the logs of all nodes.  A check that passes has  *)
(* seen every deduction but the unsettled ones, fewer than MaxUnsettled of *)
(* at most WriteCost each; gifts and lost deductions only raise the sum    *)
(* (Books).                                                                *)
(***************************************************************************)
EXTENDS EvmRpc, Sums

Asking == [st : {"ask", "looked", "granted"}, route : KeyRoutes, right : Rights, since : Nat]
Serving == [st : {"bill", "call"}, route : KeyRoutes, right : Rights, user : Users]
Entry == [until : Instants, user : Users \cup {NoUser}]

EdgeOK ==
  /\ clock \in Nat /\ late \in Nat /\ lostAt \in [Rights -> Instants]
  /\ keyRow \in [Keys -> KeyRow] /\ scopes \in [Keys -> SUBSET Scope]
  /\ \A k \in Keys : keyRow[k].user = KeyOwner[k]
  /\ cache \in [Rights -> Entry]
  /\ req \in [Requests -> {Idle} \cup Asking \cup Serving]

\* The right was not lost before t.
LostSince(q, t) == lostAt[q] = Never \/ lostAt[q] >= t

\* What the dashboard grants now is not noted as lost.
NotedInv == \A q \in Rights : Allowed(q) => lostAt[q] = Never

\* A decision under way is about an instant after the request was sent.
AskInv ==
  \A r \in Requests : req[r] \in Asking =>
    /\ req[r].since <= clock
    /\ req[r].st = "looked" =>
         (ScopesAllow(scopes[req[r].right[1]], req[r].right[2][1], req[r].right[2][2])
            => LostSince(req[r].right, req[r].since))
    /\ req[r].st = "granted" => LostSince(req[r].right, req[r].since)

\* An entry that answers is about an instant of its lifetime, and names the
\* owner of its key.
EntryInv ==
  \A q \in Rights : Cached(q) =>
    /\ LostSince(q, cache[q].until - CacheTtl) /\ cache[q].until - CacheTtl <= clock
    /\ cache[q].user = KeyOwner[q[1]]

\* A request that was let in is its key's owner's.
OwnerInv == \A r \in Requests : req[r] \in Serving => req[r].user = KeyOwner[req[r].right[1]]

EdgeInv ==
  EdgeOK /\ NotedInv /\ AskInv /\ EntryInv /\ OwnerInv /\ GrantsEnd /\ NamespaceIsolation

-----------------------------------------------------------------------------
(* The operators                                                           *)

LEMMA MaxOfTwo ==
  ASSUME NEW a \in Int, NEW b \in Int
  PROVE  Max({a, b}) = IF a >= b THEN a ELSE b
BY DEF Max

LEMMA KeyRouteKinds ==
  \A route \in KeyRoutes :
    /\ route.view \in {"bucket", "namespace"}
    /\ \/ route.gate = "key" /\ route.action \in {"Read", "Write"}
       \/ route.gate = "me" /\ route.action \in ControlActions
BY DEF KeyRoutes, Route, ControlActions, proxy_events, proxy_balances, proxy_collapsed,
       proxy_collapsed_account, proxy_create_event, me_bucket_list, me_bucket_detail,
       me_bucket_events, me_user_events, me_deleted_buckets, me_create_bucket_event,
       me_delete_bucket

LEMMA RightOfIsRight ==
  ASSUME NEW k \in Keys, NEW route \in ClientRoutes(k)
  PROVE  route \in KeyRoutes /\ RightOf(route, k) \in Rights
<1>1. route \in KeyRoutes
  BY DEF ClientRoutes, KeyRoutes
<1>2. \/ route.gate = "key" /\ route.action \in {"Read", "Write"}
      \/ route.gate = "me" /\ route.action \in ControlActions
  BY <1>1, KeyRouteKinds
<1> QED BY <1>1, <1>2 DEF RightOf, Rights

LEMMA RightParts ==
  ASSUME NEW q \in Rights
  PROVE  q[1] \in Keys /\ q = <<q[1], <<q[2][1], q[2][2]>>>>
BY DEF Rights

\* What the answers to a user keep is the user's.
LEMMA AnswerIsOwn ==
  ASSUME NEW n, NEW route, NEW u, NEW b, route.view \in {"bucket", "namespace"}
  PROVE  \A x \in Answer(n, route, u, b) : x[1] = u
BY DEF Answer, OnlyBucket, internal_bucket_for_user, summarize_user_buckets,
       external_bucket_from_internal_user

LEMMA EdgeInit == Init => EdgeInv
<1> SUFFICES ASSUME Init PROVE EdgeInv OBVIOUS
<1>1. EdgeOK
  <2>1. \A k \in Keys : KeyOwner[k] \in Users
    BY GatewayAssumption
  <2>2. keyRow \in [Keys -> KeyRow] /\ \A k \in Keys : keyRow[k].user = KeyOwner[k]
    BY <2>1 DEF Init, KeyRow, Instants, Never
  <2> QED BY <2>2, GatewayAssumption DEF Init, EdgeOK, Instants, Never, Entry
<1>2. NotedInv /\ AskInv /\ OwnerInv
  BY DEF Init, NotedInv, AskInv, OwnerInv, Idle, Asking, Serving
<1>3. EntryInv
  BY DEF Init, EntryInv, Cached, auth_cache_key, Never
<1>4. GrantsEnd
  <2>1. CacheTtl - 1 \in Int /\ HttpTimeout \in Nat
    BY GatewayAssumption
  <2> QED BY <2>1, MaxOfTwo DEF Init, GrantsEnd
<1>5. NamespaceIsolation
  BY DEF Init, NamespaceIsolation
<1> QED BY <1>1, <1>2, <1>3, <1>4, <1>5 DEF EdgeInv

-----------------------------------------------------------------------------
(* Steps that decide nothing                                               *)

LEMMA EdgeFrame ==
  ASSUME EdgeInv, UNCHANGED <<auth, clock, dashVars, cache, req, late>>, NamespaceIsolation'
  PROVE  EdgeInv'
<1> USE DEF EdgeInv, dashVars
<1>1. EdgeOK'
  BY DEF EdgeOK
<1>2. NotedInv'
  BY DEF NotedInv, Allowed
<1>3. AskInv' /\ OwnerInv'
  BY DEF AskInv, OwnerInv, LostSince
<1>4. EntryInv' /\ GrantsEnd'
  BY DEF EntryInv, Cached, LostSince, GrantsEnd, auth_cache_key
<1> QED BY <1>1, <1>2, <1>3, <1>4

AskFits(v) ==
  /\ v.since <= clock
  /\ v.st = "looked" =>
       (ScopesAllow(scopes[v.right[1]], v.right[2][1], v.right[2][2])
          => LostSince(v.right, v.since))
  /\ v.st = "granted" => LostSince(v.right, v.since)

\* One request moves on.
LEMMA ReqStep ==
  ASSUME EdgeInv, UNCHANGED <<auth, clock, dashVars>>, NamespaceIsolation',
         NEW r \in Requests, NEW v \in {Idle} \cup Asking \cup Serving,
         req' = [req EXCEPT ![r] = v],
         v \in Asking => AskFits(v), v \in Serving => v.user = KeyOwner[v.right[1]],
         late' \in Nat, GrantsEnd', cache' \in [Rights -> Entry], EntryInv'
  PROVE  EdgeInv'
<1> USE DEF EdgeInv, dashVars
<1>1. EdgeOK'
  BY DEF EdgeOK
<1>2. NotedInv'
  BY DEF NotedInv, Allowed
<1>3. req'[r] = v /\ \A x \in Requests \ {r} : req'[x] = req[x]
  BY DEF EdgeOK
<1>4. AskInv'
  BY <1>3 DEF AskInv, AskFits, LostSince
<1>5. OwnerInv'
  BY <1>3 DEF OwnerInv
<1> QED BY <1>1, <1>2, <1>4, <1>5

\* ... and leaves the cache and the histories alone.
LEMMA PlainReqStep ==
  ASSUME EdgeInv, UNCHANGED <<auth, clock, dashVars, cache, late, access>>,
         NEW r \in Requests, NEW v \in {Idle} \cup Asking \cup Serving,
         req' = [req EXCEPT ![r] = v],
         v \in Asking => AskFits(v), v \in Serving => v.user = KeyOwner[v.right[1]]
  PROVE  EdgeInv'
<1>1. late' \in Nat /\ GrantsEnd' /\ cache' \in [Rights -> Entry] /\ NamespaceIsolation'
  BY DEF EdgeInv, EdgeOK, GrantsEnd, NamespaceIsolation
<1>2. EntryInv'
  BY DEF EdgeInv, EntryInv, Cached, LostSince, auth_cache_key, dashVars
<1> QED BY <1>1, <1>2, ReqStep

\* A right is honoured no later after its loss than the property allows.
LEMMA UseInTime ==
  ASSUME EdgeInv, NEW q \in Rights, NEW t \in Int, LostSince(q, t), NoteUse(q),
         clock - t <= CacheTtl - 1 \/ clock - t <= HttpTimeout
  PROVE  late' \in Nat /\ GrantsEnd'
<1> DEFINE top == Max({CacheTtl - 1, HttpTimeout})
<1>1. /\ clock \in Nat /\ late \in Nat /\ lostAt[q] \in Instants /\ late <= top
      /\ CacheTtl \in Nat /\ HttpTimeout \in Nat
  BY GatewayAssumption DEF EdgeInv, EdgeOK, GrantsEnd
<1>2. top = IF CacheTtl - 1 >= HttpTimeout THEN CacheTtl - 1 ELSE HttpTimeout
  BY <1>1, MaxOfTwo
<1>3. CASE lostAt[q] = Never
  <2>1. late' = late
    BY <1>3 DEF NoteUse
  <2> QED BY <1>1, <2>1 DEF GrantsEnd
<1>4. CASE lostAt[q] # Never
  <2>1. lostAt[q] \in Nat /\ lostAt[q] >= t
    BY <1>1, <1>4 DEF LostSince, Instants
  <2>2. late' = Max({late, clock - lostAt[q]})
    BY <1>4 DEF NoteUse
  <2>3. late' = IF late >= clock - lostAt[q] THEN late ELSE clock - lostAt[q]
    BY <1>1, <2>1, <2>2, MaxOfTwo
  <2>4. clock - lostAt[q] <= top
    BY <1>1, <1>2, <2>1
  <2>5. late' \in Nat /\ late' <= top
    BY <1>1, <2>1, <2>3, <2>4
  <2> QED BY <2>5 DEF GrantsEnd
<1> QED BY <1>3, <1>4

-----------------------------------------------------------------------------
(* Authorization                                                           *)

LEMMA CachedKeeps ==
  ASSUME EdgeInv, NEW r \in Requests, AuthorizeCached(r)
  PROVE  EdgeInv'
<1>0. PICK k \in Keys : \E route \in ClientRoutes(k) :
         LET q == RightOf(route, k) IN
           /\ Cached(q) /\ Admit(r, route, q, cache[auth_cache_key(q)].user)
           /\ UNCHANGED <<auth, clock, dashVars, cache, access>>
  BY DEF AuthorizeCached
<1>1. PICK route \in ClientRoutes(k) :
         LET q == RightOf(route, k) IN
           /\ Cached(q) /\ Admit(r, route, q, cache[auth_cache_key(q)].user)
           /\ UNCHANGED <<auth, clock, dashVars, cache, access>>
  BY <1>0
<1> DEFINE q == RightOf(route, k)
           v == [st |-> IF route.cost > 0 THEN "bill" ELSE "call",
                 route |-> route, right |-> q, user |-> cache[q].user]
<1>2. q \in Rights /\ route \in KeyRoutes
  BY RightOfIsRight
<1>3. /\ Cached(q) /\ NoteUse(q) /\ req' = [req EXCEPT ![r] = v]
      /\ UNCHANGED <<auth, clock, dashVars, cache, access>>
  BY <1>1 DEF Admit, auth_cache_key
<1> HIDE DEF q
<1>4. cache[q].user = KeyOwner[q[1]] /\ LostSince(q, cache[q].until - CacheTtl)
  BY <1>2, <1>3 DEF EdgeInv, EntryInv
<1>5. KeyOwner[q[1]] \in Users
  BY <1>2, RightParts, GatewayAssumption
<1>6. v \in Serving /\ v.user = KeyOwner[v.right[1]] /\ v.right = q /\ v.st # "ask"
  BY <1>2, <1>4, <1>5 DEF Serving
<1>7. v \notin Asking
  BY <1>6 DEF Asking
<1>8. late' \in Nat /\ GrantsEnd'
  <2>1. cache[q].until \in Int /\ clock < cache[q].until /\ clock \in Nat /\ CacheTtl \in Nat
    BY <1>2, <1>3, GatewayAssumption DEF EdgeInv, EdgeOK, Entry, Instants, Never, Cached,
                                         auth_cache_key
  <2>2. clock - (cache[q].until - CacheTtl) <= CacheTtl - 1
    BY <2>1
  <2> QED BY <1>2, <1>3, <1>4, <2>1, <2>2, UseInTime
<1>9. cache' \in [Rights -> Entry] /\ EntryInv' /\ NamespaceIsolation'
  BY <1>3 DEF EdgeInv, EdgeOK, EntryInv, Cached, LostSince, auth_cache_key, dashVars,
              NamespaceIsolation
<1> HIDE DEF v
<1> QED BY <1>3, <1>6, <1>7, <1>8, <1>9, ReqStep

LEMMA AskKeeps ==
  ASSUME EdgeInv, NEW r \in Requests, AuthorizeAsk(r)
  PROVE  EdgeInv'
<1>0. PICK k \in Keys : \E route \in ClientRoutes(k) :
         LET q == RightOf(route, k) IN
           /\ cache' = [cache EXCEPT ![auth_cache_key(q)] = [until |-> Never, user |-> NoUser]]
           /\ req' = [req EXCEPT ![r] = [st |-> "ask", route |-> route, right |-> q,
                                         since |-> clock]]
           /\ UNCHANGED <<auth, clock, dashVars, late, access>>
  BY DEF AuthorizeAsk
<1>1. PICK route \in ClientRoutes(k) :
         LET q == RightOf(route, k) IN
           /\ cache' = [cache EXCEPT ![auth_cache_key(q)] = [until |-> Never, user |-> NoUser]]
           /\ req' = [req EXCEPT ![r] = [st |-> "ask", route |-> route, right |-> q,
                                         since |-> clock]]
           /\ UNCHANGED <<auth, clock, dashVars, late, access>>
  BY <1>0
<1> DEFINE q == RightOf(route, k)
           v == [st |-> "ask", route |-> route, right |-> q, since |-> clock]
           none == [until |-> Never, user |-> NoUser]
<1>2. q \in Rights /\ route \in KeyRoutes
  BY RightOfIsRight
<1>3. /\ cache' = [cache EXCEPT ![q] = none] /\ req' = [req EXCEPT ![r] = v]
      /\ UNCHANGED <<auth, clock, dashVars, late, access>>
  BY <1>1 DEF auth_cache_key
<1> HIDE DEF q
<1>4. clock \in Nat
  BY DEF EdgeInv, EdgeOK
<1>5. v \in Asking /\ v.st = "ask" /\ v.since = clock
  BY <1>2, <1>4 DEF Asking
<1>6. AskFits(v) /\ v \notin Serving
  BY <1>4, <1>5 DEF AskFits, Serving
<1>7. cache' \in [Rights -> Entry]
  BY <1>3 DEF EdgeInv, EdgeOK, Entry, Instants, Never
<1>8. EntryInv'
  <2>1. \A p \in Rights : p # q => cache'[p] = cache[p]
    BY <1>3 DEF EdgeInv, EdgeOK
  <2>2. ~Cached(q)'
    BY <1>2, <1>3, <1>4 DEF EdgeInv, EdgeOK, Cached, auth_cache_key, Never
  <2> QED BY <1>3, <2>1, <2>2 DEF EdgeInv, EntryInv, Cached, LostSince, auth_cache_key, dashVars
<1>9. late' \in Nat /\ GrantsEnd' /\ NamespaceIsolation'
  BY <1>3 DEF EdgeInv, EdgeOK, GrantsEnd, NamespaceIsolation
<1> HIDE DEF v
<1> QED BY <1>3, <1>5, <1>6, <1>7, <1>8, <1>9, ReqStep

LEMMA AskingParts ==
  ASSUME EdgeInv, NEW r \in Requests, req[r].st \in {"ask", "looked", "granted"}
  PROVE  /\ req[r] \in Asking /\ req[r].right \in Rights /\ req[r].since \in Nat
         /\ req[r].route \in KeyRoutes /\ AskFits(req[r])
<1>1. req[r] \in {Idle} \cup Asking \cup Serving
  BY DEF EdgeInv, EdgeOK
<1>2. req[r] \notin Serving /\ req[r] # Idle
  BY DEF Serving, Idle
<1>3. req[r] \in Asking
  BY <1>1, <1>2
<1> QED BY <1>3 DEF Asking, EdgeInv, AskInv, AskFits

\* The key is good: if its scopes are good too, the right is granted now.
LEMMA LookKeeps ==
  ASSUME EdgeInv, NEW r \in Requests, IntrospectKey(r)
  PROVE  EdgeInv'
<1> DEFINE v == [req[r] EXCEPT !.st = "looked"]
<1>1. /\ req[r] \in Asking /\ req[r].right \in Rights /\ req[r].since \in Nat
      /\ AskFits(req[r])
  BY AskingParts DEF IntrospectKey
<1> DEFINE q == req[r].right
<1>2. q[1] \in Keys /\ q = <<q[1], <<q[2][1], q[2][2]>>>>
  BY <1>1, RightParts
<1>3. UNCHANGED <<auth, clock, dashVars, cache, late, access>>
  BY DEF IntrospectKey
<1>4. CASE ~KeyUsable(keyRow[q[1]], frozen, clock)
  <2>1. req' = [req EXCEPT ![r] = Idle]
    BY <1>4 DEF IntrospectKey
  <2>2. Idle \notin Asking /\ Idle \notin Serving
    BY DEF Idle, Asking, Serving
  <2> QED BY <1>3, <2>1, <2>2, PlainReqStep
<1>5. CASE KeyUsable(keyRow[q[1]], frozen, clock)
  <2>1. req' = [req EXCEPT ![r] = v]
    BY <1>5 DEF IntrospectKey
  <2>2. v \in Asking /\ v.st = "looked" /\ v.right = q /\ v.since = req[r].since
    BY <1>1 DEF Asking
  <2>3. ScopesAllow(scopes[q[1]], q[2][1], q[2][2]) => lostAt[q] = Never
    BY <1>1, <1>5 DEF EdgeInv, NotedInv, Allowed, introspect
  <2>4. AskFits(v) /\ v \notin Serving
    BY <1>1, <2>2, <2>3 DEF AskFits, LostSince, Serving
  <2> HIDE DEF v
  <2> QED BY <1>3, <2>1, <2>2, <2>4, PlainReqStep
<1> QED BY <1>4, <1>5

LEMMA ScopesKeeps ==
  ASSUME EdgeInv, NEW r \in Requests, IntrospectScopes(r)
  PROVE  EdgeInv'
<1> DEFINE v == [req[r] EXCEPT !.st = "granted"]
           q == req[r].right
<1>1. /\ req[r] \in Asking /\ q \in Rights /\ AskFits(req[r]) /\ req[r].st = "looked"
  BY AskingParts DEF IntrospectScopes
<1>2. UNCHANGED <<auth, clock, dashVars, cache, late, access>>
  BY DEF IntrospectScopes
<1>3. CASE ~ScopesAllow(scopes[q[1]], q[2][1], q[2][2])
  <2>1. req' = [req EXCEPT ![r] = Idle]
    BY <1>3 DEF IntrospectScopes
  <2>2. Idle \notin Asking /\ Idle \notin Serving
    BY DEF Idle, Asking, Serving
  <2> QED BY <1>2, <2>1, <2>2, PlainReqStep
<1>4. CASE ScopesAllow(scopes[q[1]], q[2][1], q[2][2])
  <2>1. req' = [req EXCEPT ![r] = v]
    BY <1>4 DEF IntrospectScopes
  <2>2. v \in Asking /\ v.st = "granted" /\ v.right = q /\ v.since = req[r].since
    BY <1>1 DEF Asking
  <2>3. AskFits(v) /\ v \notin Serving
    BY <1>1, <1>4, <2>2 DEF AskFits, Serving
  <2> HIDE DEF v
  <2> QED BY <1>2, <2>1, <2>2, <2>3, PlainReqStep
<1> QED BY <1>3, <1>4

LEMMA GrantKeeps ==
  ASSUME EdgeInv, NEW r \in Requests, AuthorizeGranted(r)
  PROVE  EdgeInv'
<1> DEFINE q == req[r].right
           since == req[r].since
           u == keyRow[q[1]].user
           v == [st |-> IF req[r].route.cost > 0 THEN "bill" ELSE "call",
                 route |-> req[r].route, right |-> q, user |-> u]
           entry == [until |-> since + CacheTtl, user |-> u]
<1>1. /\ req[r] \in Asking /\ q \in Rights /\ AskFits(req[r]) /\ req[r].st = "granted"
      /\ since \in Nat /\ req[r].route \in KeyRoutes
  BY AskingParts DEF AuthorizeGranted
<1>2. /\ clock - since <= HttpTimeout
      /\ cache' = [cache EXCEPT ![q] = entry] /\ NoteUse(q) /\ req' = [req EXCEPT ![r] = v]
      /\ UNCHANGED <<auth, clock, dashVars, access>>
  BY DEF AuthorizeGranted, Admit, EntryUntil, auth_cache_key
<1>3. u = KeyOwner[q[1]] /\ u \in Users
  BY <1>1, RightParts, GatewayAssumption DEF EdgeInv, EdgeOK
<1>4. LostSince(q, since) /\ CacheTtl \in Nat /\ clock \in Nat /\ since <= clock
  BY <1>1, GatewayAssumption DEF AskFits, EdgeInv, EdgeOK
<1>5. v \in Serving /\ v.user = KeyOwner[v.right[1]] /\ v.st \in {"bill", "call"}
  BY <1>1, <1>3 DEF Serving
<1>6. v \notin Asking
  BY <1>5 DEF Asking
<1>7. late' \in Nat /\ GrantsEnd'
  BY <1>1, <1>2, <1>4, UseInTime
<1>8. entry \in Entry /\ entry.until = since + CacheTtl /\ entry.user = u
  BY <1>1, <1>3, <1>4 DEF Entry, Instants
<1> HIDE DEF entry, v
<1>9. cache' \in [Rights -> Entry]
  BY <1>1, <1>2, <1>8 DEF EdgeInv, EdgeOK
<1>10. EntryInv'
  <2>1. \A p \in Rights : p # q => cache'[p] = cache[p]
    BY <1>2 DEF EdgeInv, EdgeOK
  <2>2. cache'[q] = entry
    BY <1>1, <1>2 DEF EdgeInv, EdgeOK
  <2>3. LostSince(q, entry.until - CacheTtl) /\ entry.until - CacheTtl <= clock
    BY <1>1, <1>4, <1>8
  <2> QED BY <1>2, <1>3, <1>8, <2>1, <2>2, <2>3
          DEF EdgeInv, EntryInv, Cached, LostSince, auth_cache_key, dashVars
<1>11. NamespaceIsolation'
  BY <1>2 DEF EdgeInv, NamespaceIsolation
<1> QED BY <1>2, <1>5, <1>6, <1>7, <1>9, <1>10, <1>11, ReqStep

LEMMA IdleKeeps ==
  ASSUME EdgeInv, NEW r \in Requests, req' = [req EXCEPT ![r] = Idle],
         UNCHANGED <<auth, clock, dashVars, cache, late>>, NamespaceIsolation'
  PROVE  EdgeInv'
<1>1. Idle \notin Asking /\ Idle \notin Serving
  BY DEF Idle, Asking, Serving
<1>2. late' \in Nat /\ GrantsEnd' /\ cache' \in [Rights -> Entry]
  BY DEF EdgeInv, EdgeOK, GrantsEnd
<1>3. EntryInv'
  BY DEF EdgeInv, EntryInv, Cached, LostSince, auth_cache_key, dashVars
<1> QED BY <1>1, <1>2, <1>3, ReqStep

-----------------------------------------------------------------------------
(* Calls                                                                   *)

LEMMA ServingParts ==
  ASSUME EdgeInv, NEW r \in Requests, req[r].st \in {"bill", "call"}
  PROVE  /\ req[r] \in Serving /\ req[r].user \in Users /\ req[r].route \in KeyRoutes
         /\ req[r].right[1] \in Keys /\ req[r].user = KeyOwner[req[r].right[1]]
<1>1. req[r] \in {Idle} \cup Asking \cup Serving
  BY DEF EdgeInv, EdgeOK
<1>2. req[r] \notin Asking /\ req[r] # Idle
  BY DEF Asking, Idle
<1>3. req[r] \in Serving
  BY <1>1, <1>2
<1>4. req[r].right \in Rights /\ req[r].user \in Users /\ req[r].route \in KeyRoutes
  BY <1>3 DEF Serving
<1> QED BY <1>3, <1>4, RightParts DEF EdgeInv, OwnerInv

LEMMA BillKeeps ==
  ASSUME EdgeInv, NEW r \in Requests, BillingCheck(r)
  PROVE  EdgeInv'
<1> DEFINE v == [req[r] EXCEPT !.st = "call"]
<1>1. req[r] \in Serving /\ req[r].user = KeyOwner[req[r].right[1]]
  BY ServingParts DEF BillingCheck
<1>2. UNCHANGED <<auth, clock, dashVars, cache, late, access>>
  BY DEF BillingCheck
<1>3. req' = [req EXCEPT ![r] = v] \/ req' = [req EXCEPT ![r] = Idle]
  BY DEF BillingCheck
<1>4. CASE req' = [req EXCEPT ![r] = v]
  <2>1. v \in Serving /\ v.user = KeyOwner[v.right[1]] /\ v.st = "call"
    BY <1>1 DEF Serving
  <2>2. v \notin Asking
    BY <2>1 DEF Asking
  <2> HIDE DEF v
  <2> QED BY <1>2, <1>4, <2>1, <2>2, PlainReqStep
<1>5. CASE req' = [req EXCEPT ![r] = Idle]
  <2>1. NamespaceIsolation'
    BY <1>2 DEF EdgeInv, NamespaceIsolation
  <2> QED BY <1>2, <1>5, <2>1, IdleKeeps
<1> QED BY <1>3, <1>4, <1>5

\* A call that stays with its caller, or is the operator's, adds no access.
LEMMA CallStaysHome ==
  ASSUME NamespaceIsolation, UNCHANGED auth, NEW n, NEW route, NEW u, NEW x, NEW b, NEW viewer,
         NEW by, NEW reserved, CallNode(n, route, u, x, b, viewer, by, reserved),
         \/ viewer = Operator
         \/ x[1] = viewer /\ \A y \in Answer(n, route, u, b) : y[1] = viewer
  PROVE  NamespaceIsolation'
<1>1. access' = access
  BY DEF CallNode, NoteAccess
<1> QED BY <1>1 DEF NamespaceIsolation

LEMMA CallKeeps ==
  ASSUME EdgeInv, NEW r \in Requests, Call(r)
  PROVE  EdgeInv'
<1> DEFINE u == req[r].user
<1>1. PICK n \in Nodes :
        CallNode(n, req[r].route, u, internal_bucket_for_user(u, Bucket), Bucket,
                 keyRow[req[r].right[1]].user, "client", FALSE)
  BY DEF Call
<1>2. /\ req[r].route \in KeyRoutes /\ keyRow[req[r].right[1]].user = u
  BY ServingParts DEF Call, EdgeInv, EdgeOK
<1>3. req[r].route.view \in {"bucket", "namespace"}
  BY <1>2, KeyRouteKinds
<1>4. \A y \in Answer(n, req[r].route, u, Bucket) : y[1] = u
  BY <1>3, AnswerIsOwn
<1>5. internal_bucket_for_user(u, Bucket)[1] = u
  BY DEF internal_bucket_for_user
<1>6. /\ UNCHANGED <<auth, clock, dashVars, cache, late>>
      /\ req' = [req EXCEPT ![r] = Idle]
  BY DEF Call
<1>7. NamespaceIsolation'
  BY <1>1, <1>2, <1>4, <1>5, <1>6, CallStaysHome DEF EdgeInv
<1> QED BY <1>6, <1>7, IdleKeeps

LEMMA InternalUserKeeps ==
  ASSUME EdgeInv, NEW route \in MachineUserRoutes, NEW u \in Users, InternalUserCall(route, u)
  PROVE  EdgeInv'
<1>1. PICK n \in Nodes :
        CallNode(n, route, u, internal_bucket_for_user(u, Bucket), Bucket, u, "machine", FALSE)
  BY DEF InternalUserCall
<1>2. route.view \in {"bucket", "namespace"}
  BY DEF MachineUserRoutes, Route, internal_bucket_list, internal_bucket_detail,
         internal_bucket_events, internal_user_events, internal_create_bucket_event
<1>3. \A y \in Answer(n, route, u, Bucket) : y[1] = u
  BY <1>2, AnswerIsOwn
<1>4. internal_bucket_for_user(u, Bucket)[1] = u
  BY DEF internal_bucket_for_user
<1>5. UNCHANGED <<auth, clock, dashVars, cache, req, late>>
  BY DEF InternalUserCall
<1>6. NamespaceIsolation'
  BY <1>1, <1>3, <1>4, <1>5, CallStaysHome DEF EdgeInv
<1> QED BY <1>5, <1>6, EdgeFrame

LEMMA InternalRawKeeps ==
  ASSUME EdgeInv, NEW route, NEW b, InternalRawCall(route, b)
  PROVE  EdgeInv'
<1>1. UNCHANGED <<auth, clock, dashVars, cache, req, late>>
  BY DEF InternalRawCall
<1>2. NamespaceIsolation'
  BY <1>1, CallStaysHome DEF EdgeInv, InternalRawCall
<1> QED BY <1>1, <1>2, EdgeFrame

LEMMA OpenKeeps ==
  ASSUME EdgeInv, NEW route \in KeyRoutes, NEW b, OpenCall(route, b)
  PROVE  EdgeInv'
<1> DEFINE raw == [route EXCEPT !.view = "raw"]
<1>1. PICK n \in Nodes : CallNode(n, raw, NoUser, RawBucket(b), b, NoUser, "client", FALSE)
  BY DEF OpenCall
<1>2. UNCHANGED <<auth, clock, dashVars, cache, req, late>>
  BY DEF OpenCall
<1>3. raw.view = "raw"
  BY DEF KeyRoutes, Route, proxy_events, proxy_balances, proxy_collapsed,
         proxy_collapsed_account, proxy_create_event, me_bucket_list, me_bucket_detail,
         me_bucket_events, me_user_events, me_deleted_buckets, me_create_bucket_event,
         me_delete_bucket
<1> HIDE DEF raw
<1>4. \A y \in Answer(n, raw, NoUser, b) : y[1] = NoUser
  BY <1>3 DEF Answer, RawBucket
<1>5. RawBucket(b)[1] = NoUser
  BY DEF RawBucket
<1>6. NamespaceIsolation'
  BY <1>1, <1>2, <1>4, <1>5, CallStaysHome DEF EdgeInv
<1> QED BY <1>2, <1>6, EdgeFrame

LEMMA HiddenKeeps ==
  ASSUME EdgeInv, HiddenRead
  PROVE  EdgeInv'
<1>1. UNCHANGED <<auth, clock, dashVars, cache, req, late>>
  BY DEF HiddenRead
<1>2. NamespaceIsolation'
  BY DEF EdgeInv, NamespaceIsolation, HiddenRead, NoteAccess
<1> QED BY <1>1, <1>2, EdgeFrame

-----------------------------------------------------------------------------
(* Rights change, time passes                                              *)

LEMMA LossesNoted ==
  ASSUME EdgeInv, NoteLosses, clock' \in Nat
  PROVE  /\ lostAt' \in [Rights -> Instants] /\ NotedInv'
         /\ \A q \in Rights : lostAt'[q] \in {Never, clock', lostAt[q]}
<1>1. lostAt' = [q \in Rights |-> IF Allowed(q)' THEN Never
                                  ELSE IF Allowed(q) THEN clock' ELSE lostAt[q]]
  BY DEF NoteLosses
<1>2. \A q \in Rights : /\ lostAt'[q] \in {Never, clock', lostAt[q]}
                        /\ Allowed(q)' => lostAt'[q] = Never
  BY <1>1
<1> QED BY <1>1, <1>2 DEF NotedInv, EdgeInv, EdgeOK, Instants

LEMMA ChangeKeeps ==
  ASSUME EdgeInv, Change
  PROVE  EdgeInv'
<1>0. UNCHANGED <<auth, clock, cache, req, late, access>> /\ NoteLosses
  BY DEF Change
<1>1. clock \in Nat
  BY DEF EdgeInv, EdgeOK
<1>2. /\ lostAt' \in [Rights -> Instants] /\ NotedInv'
      /\ \A q \in Rights : lostAt'[q] \in {Never, clock, lostAt[q]}
  BY <1>0, <1>1, LossesNoted
<1>3. keyRow' \in [Keys -> KeyRow] /\ \A k \in Keys : keyRow'[k].user = KeyOwner[k]
  <2>1. CASE UNCHANGED keyRow
    BY <2>1 DEF EdgeInv, EdgeOK
  <2>2. ASSUME NEW k \in Volatile, keyRow' = [keyRow EXCEPT ![k].revoked = TRUE]
        PROVE  keyRow' \in [Keys -> KeyRow] /\ \A j \in Keys : keyRow'[j].user = KeyOwner[j]
    <3>1. k \in Keys /\ keyRow[k] \in KeyRow
      BY GatewayAssumption DEF EdgeInv, EdgeOK
    <3>2. /\ [keyRow[k] EXCEPT !.revoked = TRUE] \in KeyRow
          /\ [keyRow[k] EXCEPT !.revoked = TRUE].user = keyRow[k].user
      BY <3>1 DEF KeyRow
    <3> QED BY <2>2, <3>1, <3>2 DEF EdgeInv, EdgeOK
  <2> QED BY <2>1, <2>2 DEF Change
<1>4. scopes' \in [Keys -> SUBSET Scope] /\ \A k \in Keys : scopes'[k] \subseteq scopes[k]
  <2>1. CASE UNCHANGED scopes
    BY <2>1 DEF EdgeInv, EdgeOK
  <2>2. ASSUME NEW k \in Volatile, NEW s, scopes' = [scopes EXCEPT ![k] = @ \ {s}]
        PROVE  scopes' \in [Keys -> SUBSET Scope] /\ \A j \in Keys : scopes'[j] \subseteq scopes[j]
    <3>1. k \in Keys /\ scopes \in [Keys -> SUBSET Scope]
      BY GatewayAssumption DEF EdgeInv, EdgeOK
    <3> QED BY <2>2, <3>1
  <2> QED BY <2>1, <2>2 DEF Change
<1>5. EdgeOK'
  BY <1>0, <1>2, <1>3, <1>4 DEF EdgeInv, EdgeOK
<1>6. \A q \in Rights, t \in Int : t <= clock /\ LostSince(q, t)
                                     => lostAt'[q] = Never \/ lostAt'[q] >= t
  BY <1>1, <1>2 DEF LostSince, EdgeInv, EdgeOK, Instants
<1>7. AskInv'
  <2> SUFFICES ASSUME NEW r \in Requests, req[r] \in Asking
               PROVE  /\ req[r].since <= clock
                      /\ req[r].st = "looked" =>
                           (ScopesAllow(scopes'[req[r].right[1]], req[r].right[2][1],
                                        req[r].right[2][2])
                              => lostAt'[req[r].right] = Never
                                 \/ lostAt'[req[r].right] >= req[r].since)
                      /\ req[r].st = "granted" => lostAt'[req[r].right] = Never
                                                  \/ lostAt'[req[r].right] >= req[r].since
    BY <1>0 DEF AskInv, LostSince
  <2> DEFINE q == req[r].right
             t == req[r].since
  <2>1. q \in Rights /\ t \in Nat /\ t <= clock /\ q[1] \in Keys
    BY RightParts DEF Asking, EdgeInv, AskInv
  <2>2. LostSince(q, t) => lostAt'[q] = Never \/ lostAt'[q] >= t
    BY <1>6, <2>1
  <2>3. ScopesAllow(scopes'[q[1]], q[2][1], q[2][2]) => ScopesAllow(scopes[q[1]], q[2][1], q[2][2])
    BY <1>4, <2>1 DEF ScopesAllow
  <2> QED BY <2>1, <2>2, <2>3 DEF EdgeInv, AskInv
<1>8. EntryInv'
  <2> SUFFICES ASSUME NEW q \in Rights, Cached(q)
               PROVE  /\ LostSince(q, cache[q].until - CacheTtl)'
                      /\ cache[q].until - CacheTtl <= clock
                      /\ cache[q].user = KeyOwner[q[1]]
    BY <1>0 DEF EntryInv, Cached, auth_cache_key
  <2> DEFINE t == cache[q].until - CacheTtl
  <2>1. LostSince(q, t) /\ t <= clock /\ cache[q].user = KeyOwner[q[1]]
    BY DEF EdgeInv, EntryInv
  <2>2. t \in Int
    BY GatewayAssumption DEF EdgeInv, EdgeOK, Entry, Instants, Never
  <2>3. lostAt'[q] = Never \/ lostAt'[q] >= t
    BY <1>6, <2>1, <2>2 DEF LostSince
  <2>4. UNCHANGED cache
    BY <1>0
  <2> QED BY <2>1, <2>3, <2>4 DEF LostSince
<1>9. OwnerInv' /\ GrantsEnd' /\ NamespaceIsolation'
  BY <1>0 DEF EdgeInv, OwnerInv, GrantsEnd, NamespaceIsolation
<1> QED BY <1>2, <1>5, <1>7, <1>8, <1>9 DEF EdgeInv

LEMMA TickKeeps ==
  ASSUME EdgeInv, Tick
  PROVE  EdgeInv' /\ clock' = clock + 1
<1>0. /\ clock' = clock + 1 /\ NoteLosses
      /\ UNCHANGED <<auth, keyRow, scopes, frozen, req, late, access>>
      /\ cache' = [q \in Rights |-> IF cache[q].until > clock' THEN cache[q]
                                    ELSE [until |-> Never, user |-> NoUser]]
  BY DEF Tick
<1>1. clock \in Nat /\ clock' \in Nat
  BY <1>0 DEF EdgeInv, EdgeOK
<1>2. /\ lostAt' \in [Rights -> Instants] /\ NotedInv'
      /\ \A q \in Rights : lostAt'[q] \in {Never, clock + 1, lostAt[q]}
  BY <1>0, <1>1, LossesNoted
<1>3. \A q \in Rights, t \in Int : t <= clock /\ LostSince(q, t)
                                     => lostAt'[q] = Never \/ lostAt'[q] >= t
  BY <1>1, <1>2 DEF LostSince, EdgeInv, EdgeOK, Instants
<1>4. [until |-> Never, user |-> NoUser] \in Entry
  BY DEF Entry, Instants, Never
<1>5. cache' \in [Rights -> Entry]
  BY <1>0, <1>4 DEF EdgeInv, EdgeOK
<1>6. EdgeOK'
  BY <1>0, <1>1, <1>2, <1>5 DEF EdgeInv, EdgeOK
<1>7. AskInv'
  <2> SUFFICES ASSUME NEW r \in Requests, req[r] \in Asking
               PROVE  /\ req[r].since <= clock'
                      /\ req[r].st = "looked" =>
                           (ScopesAllow(scopes[req[r].right[1]], req[r].right[2][1],
                                        req[r].right[2][2])
                              => lostAt'[req[r].right] = Never
                                 \/ lostAt'[req[r].right] >= req[r].since)
                      /\ req[r].st = "granted" => lostAt'[req[r].right] = Never
                                                  \/ lostAt'[req[r].right] >= req[r].since
    BY <1>0 DEF AskInv, LostSince
  <2>1. req[r].right \in Rights /\ req[r].since \in Nat /\ req[r].since <= clock
    BY DEF Asking, EdgeInv, AskInv
  <2> QED BY <1>0, <1>1, <1>3, <2>1 DEF EdgeInv, AskInv
<1>8. EntryInv'
  <2> SUFFICES ASSUME NEW q \in Rights, Cached(q)'
               PROVE  /\ lostAt'[q] = Never \/ lostAt'[q] >= cache'[q].until - CacheTtl
                      /\ cache'[q].until - CacheTtl <= clock'
                      /\ cache'[q].user = KeyOwner[q[1]]
    BY DEF EntryInv, LostSince
  <2> DEFINE t == cache[q].until - CacheTtl
  <2>1. cache'[q] = cache[q] /\ cache[q].until > clock'
    BY <1>0, <1>1 DEF Cached, auth_cache_key, Never
  <2>2. t \in Int /\ cache[q].until \in Int
    BY GatewayAssumption DEF EdgeInv, EdgeOK, Entry, Instants, Never
  <2>3. Cached(q)
    BY <1>0, <1>1, <2>1, <2>2 DEF Cached, auth_cache_key
  <2>4. LostSince(q, t) /\ t <= clock /\ cache[q].user = KeyOwner[q[1]]
    BY <2>3 DEF EdgeInv, EntryInv
  <2>5. (lostAt'[q] = Never \/ lostAt'[q] >= t) /\ t <= clock'
    BY <1>0, <1>1, <1>3, <2>2, <2>4
  <2> QED BY <2>1, <2>4, <2>5
<1>9. OwnerInv' /\ GrantsEnd' /\ NamespaceIsolation'
  BY <1>0 DEF EdgeInv, OwnerInv, GrantsEnd, NamespaceIsolation
<1> QED BY <1>0, <1>2, <1>6, <1>7, <1>8, <1>9 DEF EdgeInv

LEMMA GatewayStep ==
  ASSUME EdgeInv, Next
  PROVE  EdgeInv' /\ clock' \in {clock, clock + 1}
<1>1. ASSUME NEW r \in Requests, Handler(r)
      PROVE  EdgeInv' /\ UNCHANGED clock
  <2>1. CASE AuthorizeCached(r)
    BY <2>1, CachedKeeps DEF AuthorizeCached
  <2>2. CASE AuthorizeAsk(r)
    BY <2>2, AskKeeps DEF AuthorizeAsk
  <2>3. CASE IntrospectKey(r)
    BY <2>3, LookKeeps DEF IntrospectKey
  <2>4. CASE IntrospectScopes(r)
    BY <2>4, ScopesKeeps DEF IntrospectScopes
  <2>5. CASE AuthorizeGranted(r)
    BY <2>5, GrantKeeps DEF AuthorizeGranted
  <2>6. CASE AuthorizeFails(r) \/ CallFails(r)
    <3>1. /\ UNCHANGED <<auth, clock, dashVars, cache, late, access>>
          /\ req' = [req EXCEPT ![r] = Idle]
      BY <2>6 DEF AuthorizeFails, CallFails
    <3>2. NamespaceIsolation'
      BY <3>1 DEF EdgeInv, NamespaceIsolation
    <3> QED BY <3>1, <3>2, IdleKeeps
  <2>7. CASE BillingCheck(r)
    BY <2>7, BillKeeps DEF BillingCheck
  <2>8. CASE Call(r)
    BY <2>8, CallKeeps DEF Call
  <2> QED BY <1>1, <2>1, <2>2, <2>3, <2>4, <2>5, <2>6, <2>7, <2>8 DEF Handler
<1>2. ASSUME UNCHANGED <<auth, clock, dashVars, cache, req, late, access>>
      PROVE  EdgeInv' /\ UNCHANGED clock
  <2>1. NamespaceIsolation'
    BY <1>2 DEF EdgeInv, NamespaceIsolation
  <2> QED BY <1>2, <2>1, EdgeFrame
<1>3. ASSUME (\E e \in pending : Deduct(e)) \/ (\E n, m \in Nodes : Replicate(n, m))
      PROVE  EdgeInv' /\ UNCHANGED clock
  BY <1>2, <1>3 DEF Deduct, Replicate
<1>4. ASSUME NEW route \in MachineUserRoutes, NEW u \in Users, InternalUserCall(route, u)
      PROVE  EdgeInv' /\ UNCHANGED clock
  BY <1>4, InternalUserKeeps DEF InternalUserCall
<1>5. ASSUME NEW route \in MachineRawRoutes, NEW b \in RawNames, InternalRawCall(route, b)
      PROVE  EdgeInv' /\ UNCHANGED clock
  BY <1>5, InternalRawKeeps DEF InternalRawCall
<1>6. ASSUME NEW route \in KeyRoutes, NEW b \in RawNames, OpenCall(route, b)
      PROVE  EdgeInv' /\ UNCHANGED clock
  BY <1>6, OpenKeeps DEF OpenCall
<1>7. ASSUME HiddenRead PROVE EdgeInv' /\ UNCHANGED clock
  BY <1>7, HiddenKeeps DEF HiddenRead
<1>8. ASSUME Change PROVE EdgeInv' /\ UNCHANGED clock
  BY <1>8, ChangeKeeps DEF Change
<1>9. ASSUME Tick PROVE EdgeInv' /\ clock' = clock + 1
  BY <1>9, TickKeeps
<1> QED BY <1>1, <1>3, <1>4, <1>5, <1>6, <1>7, <1>8, <1>9 DEF Next

-----------------------------------------------------------------------------
(* Wallets                                                                 *)

Fetching == [st : {"fetch"}, tx : Txs, since : Nat]
Fetched == [st : {"fetched"}, tx : Txs, since : Nat, state : Switches]
Sending == [st : {"nonce", "write"}, tx : Txs]

\* The bucket was not closed before t.
ClosedSince(t) == closedAt = Never \/ closedAt >= t

EvmOK ==
  /\ evmRow \in Switches /\ evmCache \in [state : Switches, at : Instants]
  /\ evmReq \in [Requests -> {Idle} \cup Fetching \cup Fetched \cup Sending]
  /\ closedAt \in Instants /\ evmLate \in Nat
  /\ transfers \in [Nodes -> SUBSET Txs]

\* Switches that say open are about an instant after they were asked for; the
\* entry was stamped at most HttpTimeout later.
SwitchInv ==
  /\ Open(evmRow) => closedAt = Never
  /\ \A r \in Requests : evmReq[r] \in Fetching \cup Fetched => evmReq[r].since <= clock
  /\ \A r \in Requests : evmReq[r] \in Fetched =>
       (Open(evmReq[r].state) => ClosedSince(evmReq[r].since))
  /\ evmCache.at # Never => evmCache.at <= clock
  /\ evmCache.at # Never /\ Open(evmCache.state) => ClosedSince(evmCache.at - HttpTimeout)

EvmInv == EdgeInv /\ EvmOK /\ SwitchInv /\ TransfersEnd

LEMMA EvmInitially == EvmInit => EvmInv
<1> SUFFICES ASSUME EvmInit PROVE EvmInv OBVIOUS
<1>1. EdgeInv
  BY EdgeInit DEF EvmInit
<1>2. EvmOK
  BY DEF EvmInit, EvmOK, Switches, Instants, Never, disabled
<1>3. SwitchInv
  BY DEF EvmInit, SwitchInv, Idle, Fetching, Fetched, Never
<1>4. TransfersEnd
  BY GatewayAssumption, EvmAssumption DEF EvmInit, TransfersEnd
<1> QED BY <1>1, <1>2, <1>3, <1>4 DEF EvmInv

\* Letting a transfer in is in time when the bucket was open at an instant
\* recent enough.
LEMMA LetInOnTime ==
  ASSUME EvmInv, NEW r \in Requests, NEW t \in Txs, LetIn(r, t),
         NEW i \in Int, ClosedSince(i), clock - i <= EvmTtl + HttpTimeout
  PROVE  /\ evmReq' = [evmReq EXCEPT ![r] = [st |-> "nonce", tx |-> t]]
         /\ [st |-> "nonce", tx |-> t] \in Sending
         /\ evmLate' \in Nat /\ TransfersEnd'
<1>1. /\ clock \in Nat /\ evmLate \in Nat /\ closedAt \in Instants
      /\ evmLate <= EvmTtl + HttpTimeout /\ EvmTtl \in Nat /\ HttpTimeout \in Nat
  BY GatewayAssumption, EvmAssumption DEF EvmInv, EdgeInv, EdgeOK, EvmOK, TransfersEnd
<1>2. CASE closedAt = Never
  BY <1>1, <1>2 DEF LetIn, TransfersEnd, Sending
<1>3. CASE closedAt # Never
  <2>1. closedAt \in Nat /\ closedAt >= i
    BY <1>1, <1>3 DEF Instants, Never, ClosedSince
  <2>2. evmLate' = Max({evmLate, clock - closedAt})
    BY <1>3 DEF LetIn
  <2>3. evmLate' = IF evmLate >= clock - closedAt THEN evmLate ELSE clock - closedAt
    BY <1>1, <2>1, <2>2, MaxOfTwo
  <2> QED BY <1>1, <2>1, <2>3 DEF LetIn, TransfersEnd, Sending
<1> QED BY <1>2, <1>3

\* What a request under way may know.
KnowsSwitches(v) ==
  /\ v \in Fetching \cup Fetched => v.since <= clock
  /\ v \in Fetched => (Open(v.state) => ClosedSince(v.since))

LEMMA SendingKnows ==
  ASSUME NEW v \in {Idle} \cup Sending
  PROVE  KnowsSwitches(v)
<1>1. v.st \in {"idle", "nonce", "write"}
  BY DEF Idle, Sending
<1> QED BY <1>1 DEF KnowsSwitches, Fetching, Fetched

\* A step of one request that leaves the dashboard's switches and the clock alone.
LEMMA WalletReqStep ==
  ASSUME EvmInv, NEW r \in Requests, NEW v \in {Idle} \cup Fetching \cup Fetched \cup Sending,
         evmReq' = [evmReq EXCEPT ![r] = v], KnowsSwitches(v),
         UNCHANGED <<gwVars, evmRow, closedAt>>,
         evmCache' \in [state : Switches, at : Instants],
         evmCache'.at # Never => evmCache'.at <= clock,
         evmCache'.at # Never /\ Open(evmCache'.state) => ClosedSince(evmCache'.at - HttpTimeout),
         evmLate' \in Nat, TransfersEnd', transfers' \in [Nodes -> SUBSET Txs]
  PROVE  EvmInv'
<1>1. NamespaceIsolation'
  BY DEF EvmInv, EdgeInv, NamespaceIsolation, gwVars
<1>2. EdgeInv'
  BY <1>1, EdgeFrame DEF EvmInv, gwVars, dashVars
<1>3. EvmOK'
  BY DEF EvmInv, EvmOK
<1>4. \A s \in Requests : evmReq'[s] = evmReq[s] \/ evmReq'[s] = v
  BY DEF EvmInv, EvmOK
<1>5. \A s \in Requests : KnowsSwitches(evmReq'[s])
  BY <1>4 DEF EvmInv, SwitchInv, KnowsSwitches
<1>6. SwitchInv'
  BY <1>5 DEF EvmInv, SwitchInv, KnowsSwitches, ClosedSince, gwVars
<1> QED BY <1>2, <1>3, <1>6 DEF EvmInv

LEMMA SendKeeps ==
  ASSUME EvmInv, NEW r \in Requests, NEW t \in Txs, SendReceived(r, t), UNCHANGED gwVars
  PROVE  EvmInv'
<1>1. /\ clock \in Nat /\ evmCache \in [state : Switches, at : Instants]
      /\ EvmTtl \in Nat /\ HttpTimeout \in Nat
  BY GatewayAssumption, EvmAssumption DEF EvmInv, EdgeInv, EdgeOK, EvmOK
<1>2. /\ UNCHANGED <<evmRow, evmCache, closedAt, transfers>>
      /\ evmCache.at # Never => evmCache.at <= clock
      /\ evmCache.at # Never /\ Open(evmCache.state) => ClosedSince(evmCache.at - HttpTimeout)
      /\ transfers \in [Nodes -> SUBSET Txs]
  BY DEF SendReceived, EvmInv, SwitchInv, EvmOK
<1>3. CASE evmCache.at # Never /\ ~is_stale(evmCache)
  <2>1. Open(evmCache.state) /\ LetIn(r, t)
    BY <1>3 DEF SendReceived
  <2>2. /\ evmCache.at - HttpTimeout \in Int /\ ClosedSince(evmCache.at - HttpTimeout)
        /\ clock - (evmCache.at - HttpTimeout) <= EvmTtl + HttpTimeout
    BY <1>1, <1>2, <1>3, <2>1 DEF is_stale, Instants, Never
  <2>3. /\ evmReq' = [evmReq EXCEPT ![r] = [st |-> "nonce", tx |-> t]]
        /\ [st |-> "nonce", tx |-> t] \in Sending
        /\ evmLate' \in Nat /\ TransfersEnd'
    BY <2>1, <2>2, LetInOnTime
  <2>4. KnowsSwitches([st |-> "nonce", tx |-> t])
    BY <2>3, SendingKnows
  <2> QED BY <1>1, <1>2, <2>3, <2>4, WalletReqStep
<1>4. CASE ~(evmCache.at # Never /\ ~is_stale(evmCache))
  <2> DEFINE v == [st |-> "fetch", tx |-> t, since |-> clock]
  <2>1. evmReq' = [evmReq EXCEPT ![r] = v] /\ UNCHANGED evmLate
    BY <1>4 DEF SendReceived
  <2>2. v \in Fetching /\ KnowsSwitches(v)
    BY <1>1 DEF Fetching, Fetched, KnowsSwitches
  <2>3. evmLate' \in Nat /\ TransfersEnd'
    BY <2>1 DEF EvmInv, EvmOK, TransfersEnd
  <2> HIDE DEF v
  <2> QED BY <1>1, <1>2, <2>1, <2>2, <2>3, WalletReqStep
<1> QED BY <1>3, <1>4

LEMMA WalletReqKinds ==
  ASSUME EvmInv, NEW r \in Requests
  PROVE  /\ evmReq[r].st = "fetch" => evmReq[r] \in Fetching
         /\ evmReq[r].st = "fetched" => evmReq[r] \in Fetched
         /\ evmReq[r].st \in {"nonce", "write"} => evmReq[r] \in Sending
<1>1. evmReq[r] \in {Idle} \cup Fetching \cup Fetched \cup Sending
  BY DEF EvmInv, EvmOK
<1>2. ASSUME evmReq[r] = Idle PROVE evmReq[r].st = "idle"
  BY <1>2 DEF Idle
<1>3. ASSUME evmReq[r] \in Fetching PROVE evmReq[r].st = "fetch"
  BY <1>3 DEF Fetching
<1>4. ASSUME evmReq[r] \in Fetched PROVE evmReq[r].st = "fetched"
  BY <1>4 DEF Fetched
<1>5. ASSUME evmReq[r] \in Sending PROVE evmReq[r].st \in {"nonce", "write"}
  BY <1>5 DEF Sending
<1> QED BY <1>1, <1>2, <1>3, <1>4, <1>5

LEMMA CheckedKeeps ==
  ASSUME EvmInv, NEW r \in Requests, EvmChecked(r), UNCHANGED gwVars
  PROVE  EvmInv'
<1> DEFINE v == [st |-> "fetched", tx |-> evmReq[r].tx, since |-> evmReq[r].since,
                 state |-> evmRow]
<1>1. evmReq' = [evmReq EXCEPT ![r] = v] /\ UNCHANGED <<evmRow, evmCache, closedAt, transfers, evmLate>>
  BY DEF EvmChecked
<1>2. evmReq[r] \in Fetching
  BY WalletReqKinds DEF EvmChecked
<1>3. v \in Fetched /\ v.since <= clock /\ v.since = evmReq[r].since /\ v.state = evmRow
  BY <1>2 DEF Fetching, Fetched, EvmInv, EvmOK, SwitchInv
<1>4. KnowsSwitches(v)
  BY <1>3 DEF KnowsSwitches, EvmInv, SwitchInv, ClosedSince
<1>5. /\ evmCache \in [state : Switches, at : Instants] /\ evmLate \in Nat
      /\ evmCache.at # Never => evmCache.at <= clock
      /\ evmCache.at # Never /\ Open(evmCache.state) => ClosedSince(evmCache.at - HttpTimeout)
      /\ transfers \in [Nodes -> SUBSET Txs]
  BY DEF EvmInv, SwitchInv, EvmOK
<1>6. TransfersEnd'
  BY <1>1 DEF EvmInv, TransfersEnd
<1> HIDE DEF v
<1> QED BY <1>1, <1>3, <1>4, <1>5, <1>6, WalletReqStep

LEMMA FetchedKeeps ==
  ASSUME EvmInv, NEW r \in Requests, EvmFetched(r), UNCHANGED gwVars
  PROVE  EvmInv'
<1>1. PICK s \in Switches :
        /\ \/ s = disabled
           \/ /\ evmReq[r].st = "fetched" /\ clock - evmReq[r].since <= HttpTimeout
              /\ s = evmReq[r].state
        /\ evmCache' = [state |-> s, at |-> clock]
        /\ IF Open(s) THEN LetIn(r, evmReq[r].tx)
           ELSE evmReq' = [evmReq EXCEPT ![r] = Idle] /\ UNCHANGED evmLate
  BY DEF EvmFetched
<1>2. /\ UNCHANGED <<evmRow, closedAt, transfers>> /\ transfers \in [Nodes -> SUBSET Txs]
      /\ clock \in Nat /\ HttpTimeout \in Nat /\ EvmTtl \in Nat
  BY GatewayAssumption, EvmAssumption DEF EvmFetched, EvmInv, EdgeInv, EdgeOK, EvmOK
<1>3. /\ evmCache' \in [state : Switches, at : Instants]
      /\ evmCache'.at = clock /\ evmCache'.state = s
  BY <1>1, <1>2 DEF Instants
<1>4. CASE Open(s)
  <2>1. /\ evmReq[r].st = "fetched" /\ clock - evmReq[r].since <= HttpTimeout
        /\ s = evmReq[r].state /\ LetIn(r, evmReq[r].tx)
    BY <1>1, <1>4 DEF Open, disabled
  <2>2. evmReq[r] \in Fetched
    BY <2>1, WalletReqKinds
  <2>3. evmReq[r].since \in Nat /\ evmReq[r].tx \in Txs
    BY <2>2 DEF Fetched
  <2>4. ClosedSince(evmReq[r].since)
    BY <1>4, <2>1, <2>2 DEF EvmInv, SwitchInv
  <2>5. /\ ClosedSince(clock - HttpTimeout)
        /\ clock - evmReq[r].since <= EvmTtl + HttpTimeout
    <3>1. closedAt \in Instants
      BY DEF EvmInv, EvmOK
    <3> QED BY <1>2, <2>1, <2>3, <2>4, <3>1 DEF ClosedSince, Instants, Never
  <2> DEFINE t == evmReq[r].tx
  <2>6. /\ evmReq' = [evmReq EXCEPT ![r] = [st |-> "nonce", tx |-> t]]
        /\ [st |-> "nonce", tx |-> t] \in Sending
        /\ evmLate' \in Nat /\ TransfersEnd'
    BY <2>1, <2>3, <2>4, <2>5, LetInOnTime
  <2>7. KnowsSwitches([st |-> "nonce", tx |-> t])
    BY <2>6, SendingKnows
  <2>8. /\ evmCache'.at # Never => evmCache'.at <= clock
        /\ evmCache'.at # Never /\ Open(evmCache'.state)
             => ClosedSince(evmCache'.at - HttpTimeout)
    BY <1>2, <1>3, <2>5
  <2> QED BY <1>2, <1>3, <2>6, <2>7, <2>8, WalletReqStep
<1>5. CASE ~Open(s)
  <2>1. evmReq' = [evmReq EXCEPT ![r] = Idle] /\ UNCHANGED evmLate
    BY <1>1, <1>5
  <2>2. evmLate' \in Nat /\ TransfersEnd' /\ KnowsSwitches(Idle)
    BY <2>1, SendingKnows DEF EvmInv, EvmOK, TransfersEnd
  <2>3. /\ evmCache'.at # Never => evmCache'.at <= clock
        /\ evmCache'.at # Never /\ Open(evmCache'.state)
             => ClosedSince(evmCache'.at - HttpTimeout)
    BY <1>2, <1>3, <1>5
  <2> QED BY <1>2, <1>3, <2>1, <2>2, <2>3, WalletReqStep
<1> QED BY <1>4, <1>5

\* Steps of a request that is past the switches.
LEMMA SendingKeeps ==
  ASSUME EvmInv, NEW r \in Requests, NEW v \in {Idle} \cup Sending,
         evmReq' = [evmReq EXCEPT ![r] = v], transfers' \in [Nodes -> SUBSET Txs],
         UNCHANGED <<gwVars, evmRow, closedAt, evmCache, evmLate>>
  PROVE  EvmInv'
<1>1. KnowsSwitches(v)
  BY SendingKnows
<1>2. /\ evmCache \in [state : Switches, at : Instants] /\ evmLate \in Nat
      /\ evmCache.at # Never => evmCache.at <= clock
      /\ evmCache.at # Never /\ Open(evmCache.state) => ClosedSince(evmCache.at - HttpTimeout)
  BY DEF EvmInv, SwitchInv, EvmOK
<1>3. TransfersEnd'
  BY DEF EvmInv, TransfersEnd
<1> QED BY <1>1, <1>2, <1>3, WalletReqStep

LEMMA NonceKeeps ==
  ASSUME EvmInv, NEW r \in Requests, CheckNonce(r), UNCHANGED gwVars
  PROVE  EvmInv'
<1>1. /\ UNCHANGED <<evmRow, closedAt, evmCache, evmLate, transfers>>
      /\ transfers \in [Nodes -> SUBSET Txs]
  BY DEF CheckNonce, EvmInv, EvmOK
<1>2. evmReq[r] \in Sending
  BY WalletReqKinds DEF CheckNonce
<1>3. [evmReq[r] EXCEPT !.st = "write"] \in Sending
  BY <1>2 DEF Sending
<1>4. PICK v \in {Idle} \cup Sending : evmReq' = [evmReq EXCEPT ![r] = v]
  <2>1. PICK current :
          evmReq' = [evmReq EXCEPT ![r] =
            IF evmReq[r].tx.chain = Chain /\ evmReq[r].tx.nonce = current
            THEN [@ EXCEPT !.st = "write"] ELSE Idle]
    BY DEF CheckNonce
  <2>2. CASE evmReq[r].tx.chain = Chain /\ evmReq[r].tx.nonce = current
    BY <1>3, <2>1, <2>2
  <2>3. CASE ~(evmReq[r].tx.chain = Chain /\ evmReq[r].tx.nonce = current)
    BY <2>1, <2>3
  <2> QED BY <2>2, <2>3
<1> QED BY <1>1, <1>4, SendingKeeps

LEMMA FanOutKeeps ==
  ASSUME EvmInv, NEW r \in Requests, FanOut(r), UNCHANGED gwVars
  PROVE  EvmInv' /\ \A n \in Nodes : transfers[n] \subseteq transfers'[n]
<1>1. evmReq[r] \in Sending /\ evmReq[r].tx \in Txs
  <2>1. evmReq[r] \in Sending
    BY WalletReqKinds DEF FanOut
  <2> QED BY <2>1 DEF Sending
<1>2. PICK S : transfers' = [n \in Nodes |-> IF n \in S THEN transfers[n] \cup {evmReq[r].tx}
                                                         ELSE transfers[n]]
  BY DEF FanOut
<1>3. transfers \in [Nodes -> SUBSET Txs]
  BY DEF EvmInv, EvmOK
<1>4. /\ transfers' \in [Nodes -> SUBSET Txs]
      /\ \A n \in Nodes : transfers[n] \subseteq transfers'[n]
  BY <1>1, <1>2, <1>3
<1>5. /\ evmReq' = [evmReq EXCEPT ![r] = Idle]
      /\ UNCHANGED <<evmRow, closedAt, evmCache, evmLate>>
  BY DEF FanOut
<1> QED BY <1>4, <1>5, SendingKeeps

LEMMA TransfersSpread ==
  ASSUME EvmInv, NEW n \in Nodes, NEW m \in Nodes, EvmReplicate(n, m)
  PROVE  transfers' \in [Nodes -> SUBSET Txs] /\ \A i \in Nodes : transfers[i] \subseteq transfers'[i]
<1>1. transfers \in [Nodes -> SUBSET Txs]
  BY DEF EvmInv, EvmOK
<1>2. PICK t \in transfers[n] : transfers' = [transfers EXCEPT ![m] = @ \cup {t}]
  BY DEF EvmReplicate
<1> QED BY <1>1, <1>2

\* Replies, gossip and time change nothing that is known of the switches.
LEMMA WalletFrame ==
  ASSUME EvmInv, EdgeInv', clock' \in {clock, clock + 1}, transfers' \in [Nodes -> SUBSET Txs],
         UNCHANGED <<evmRow, evmCache, evmReq, closedAt, evmLate>>
  PROVE  EvmInv'
<1>1. EvmOK' /\ TransfersEnd'
  BY DEF EvmInv, EvmOK, TransfersEnd
<1>2. clock \in Nat /\ clock <= clock'
  BY DEF EvmInv, EdgeInv, EdgeOK
<1>3. \A r \in Requests : evmReq[r] \in Fetching \cup Fetched => evmReq[r].since \in Nat
  BY DEF Fetching, Fetched
<1>4. evmCache.at \in Int
  BY DEF EvmInv, EvmOK, Instants, Never
<1>5. \A r \in Requests : evmReq[r] \in Fetching \cup Fetched => evmReq[r].since <= clock'
  BY <1>2, <1>3 DEF EvmInv, SwitchInv
<1>6. evmCache.at # Never => evmCache.at <= clock'
  BY <1>2, <1>4 DEF EvmInv, SwitchInv
<1>7. SwitchInv'
  BY <1>5, <1>6 DEF EvmInv, SwitchInv, ClosedSince
<1> QED BY <1>1, <1>7 DEF EvmInv

LEMMA SwitchKeeps ==
  ASSUME EvmInv, NEW s \in Switches, SwitchEvm(s), EdgeInv', UNCHANGED clock
  PROVE  EvmInv'
<1>1. /\ evmRow' = s /\ closedAt' = IF Open(s) THEN Never ELSE IF Open(evmRow) THEN clock ELSE closedAt
      /\ UNCHANGED <<evmCache, evmReq, transfers, evmLate>>
  BY DEF SwitchEvm
<1>2. /\ clock \in Nat /\ closedAt \in Instants /\ HttpTimeout \in Nat
      /\ evmCache \in [state : Switches, at : Instants]
  BY GatewayAssumption DEF EvmInv, EdgeInv, EdgeOK, EvmOK
<1>3. closedAt' \in Instants
  BY <1>1, <1>2 DEF Instants
<1>4. EvmOK' /\ TransfersEnd'
  BY <1>1, <1>3 DEF EvmInv, EvmOK, TransfersEnd
<1>5. \A t \in Int : t <= clock /\ ClosedSince(t) => closedAt' = Never \/ closedAt' >= t
  BY <1>1, <1>2 DEF ClosedSince, Instants, Never
<1>6. \A r \in Requests : evmReq[r] \in Fetched =>
        (Open(evmReq[r].state) => closedAt' = Never \/ closedAt' >= evmReq[r].since)
  <2>1. \A r \in Requests : evmReq[r] \in Fetched =>
          evmReq[r].since \in Int /\ evmReq[r].since <= clock
    BY DEF EvmInv, SwitchInv, Fetched
  <2> QED BY <1>5, <2>1 DEF EvmInv, SwitchInv
<1>7. evmCache.at # Never /\ Open(evmCache.state) =>
        closedAt' = Never \/ closedAt' >= evmCache.at - HttpTimeout
  <2>1. evmCache.at # Never =>
          evmCache.at - HttpTimeout \in Int /\ evmCache.at - HttpTimeout <= clock
    BY <1>2 DEF EvmInv, SwitchInv, Instants, Never
  <2> QED BY <1>5, <2>1 DEF EvmInv, SwitchInv
<1>8. Open(evmRow') => closedAt' = Never
  BY <1>1
<1>9. SwitchInv'
  BY <1>1, <1>6, <1>7, <1>8 DEF EvmInv, SwitchInv, ClosedSince
<1> QED BY <1>4, <1>9 DEF EvmInv

LEMMA WalletStepKeeps ==
  ASSUME EvmInv, WalletStep, UNCHANGED gwVars
  PROVE  EvmInv' /\ \A n \in Nodes : transfers[n] \subseteq transfers'[n]
<1>0. EdgeInv' /\ clock' = clock /\ transfers \in [Nodes -> SUBSET Txs]
  <2>1. NamespaceIsolation'
    BY DEF EvmInv, EdgeInv, NamespaceIsolation, gwVars
  <2> QED BY <2>1, EdgeFrame DEF EvmInv, EvmOK, gwVars, dashVars
<1>1. ASSUME NEW r \in Requests, NEW t \in Txs, SendReceived(r, t)
      PROVE  EvmInv' /\ \A n \in Nodes : transfers[n] \subseteq transfers'[n]
  BY <1>1, SendKeeps DEF SendReceived
<1>2. ASSUME NEW r \in Requests, EvmChecked(r)
      PROVE  EvmInv' /\ \A n \in Nodes : transfers[n] \subseteq transfers'[n]
  BY <1>2, CheckedKeeps DEF EvmChecked
<1>3. ASSUME NEW r \in Requests, EvmFetched(r)
      PROVE  EvmInv' /\ \A n \in Nodes : transfers[n] \subseteq transfers'[n]
  BY <1>3, FetchedKeeps DEF EvmFetched
<1>4. ASSUME NEW r \in Requests, CheckNonce(r)
      PROVE  EvmInv' /\ \A n \in Nodes : transfers[n] \subseteq transfers'[n]
  BY <1>4, NonceKeeps DEF CheckNonce
<1>5. ASSUME NEW r \in Requests, FanOut(r)
      PROVE  EvmInv' /\ \A n \in Nodes : transfers[n] \subseteq transfers'[n]
  BY <1>5, FanOutKeeps
<1>6. ASSUME NEW t \in Txs, eth_get_transaction_receipt(t)
      PROVE  EvmInv' /\ \A n \in Nodes : transfers[n] \subseteq transfers'[n]
  <2>1. UNCHANGED <<evmRow, evmCache, evmReq, closedAt, evmLate, transfers>>
    BY <1>6 DEF eth_get_transaction_receipt
  <2> QED BY <1>0, <2>1, WalletFrame
<1>7. ASSUME NEW n \in Nodes, NEW m \in Nodes, EvmReplicate(n, m)
      PROVE  EvmInv' /\ \A i \in Nodes : transfers[i] \subseteq transfers'[i]
  <2>1. UNCHANGED <<evmRow, evmCache, evmReq, closedAt, evmLate>>
    BY <1>7 DEF EvmReplicate
  <2>2. transfers' \in [Nodes -> SUBSET Txs] /\ \A i \in Nodes : transfers[i] \subseteq transfers'[i]
    BY <1>7, TransfersSpread
  <2> QED BY <1>0, <2>1, <2>2, WalletFrame
<1> QED BY <1>1, <1>2, <1>3, <1>4, <1>5, <1>6, <1>7 DEF WalletStep

LEMMA EvmStep ==
  ASSUME EvmInv, [EvmNext]_vars
  PROVE  EvmInv' /\ \A n \in Nodes : transfers[n] \subseteq transfers'[n]
<1>0. EdgeInv /\ transfers \in [Nodes -> SUBSET Txs]
  BY DEF EvmInv, EvmOK
<1>1. CASE traffic = "keys" /\ Next /\ UNCHANGED <<traffic, evmVars>>
  <2>1. EdgeInv' /\ clock' \in {clock, clock + 1}
    BY <1>0, <1>1, GatewayStep
  <2>2. UNCHANGED <<evmRow, evmCache, evmReq, closedAt, evmLate, transfers>>
    BY <1>1 DEF evmVars
  <2> QED BY <1>0, <2>1, <2>2, WalletFrame
<1>2. CASE traffic = "wallet" /\ WalletStep /\ UNCHANGED <<traffic, gwVars>>
  BY <1>2, WalletStepKeeps
<1>3. CASE /\ traffic = "wallet" /\ Spend /\ \E s \in Switches : SwitchEvm(s)
           /\ UNCHANGED <<traffic, auth, clock, dashVars, cache, req, sent, meshVars, late, access>>
  <2>1. NamespaceIsolation'
    BY <1>0, <1>3 DEF EdgeInv, NamespaceIsolation
  <2>2. EdgeInv'
    BY <1>0, <1>3, <2>1, EdgeFrame
  <2>3. PICK s \in Switches : SwitchEvm(s)
    BY <1>3
  <2>4. UNCHANGED transfers
    BY <2>3 DEF SwitchEvm
  <2>5. EvmInv'
    BY <1>3, <2>2, <2>3, SwitchKeeps
  <2> QED BY <2>4, <2>5
<1>4. CASE traffic = "wallet" /\ Tick /\ UNCHANGED <<traffic, evmVars>>
  <2>1. EdgeInv' /\ clock' \in {clock, clock + 1}
    BY <1>0, <1>4, TickKeeps
  <2>2. UNCHANGED <<evmRow, evmCache, evmReq, closedAt, evmLate, transfers>>
    BY <1>4 DEF evmVars
  <2> QED BY <1>0, <2>1, <2>2, WalletFrame
<1>5. CASE UNCHANGED vars
  <2>1. NamespaceIsolation'
    BY <1>0, <1>5 DEF EdgeInv, NamespaceIsolation, vars, gwVars
  <2>2. EdgeInv' /\ clock' = clock
    BY <1>0, <1>5, <2>1, EdgeFrame DEF vars, gwVars, dashVars
  <2>3. UNCHANGED <<evmRow, evmCache, evmReq, closedAt, evmLate, transfers>>
    BY <1>5 DEF vars, evmVars
  <2> QED BY <1>0, <2>2, <2>3, WalletFrame
<1> QED BY <1>1, <1>2, <1>3, <1>4, <1>5 DEF EvmNext

-----------------------------------------------------------------------------
(* The theorems                                                            *)

LEMMA EdgeHolds == EvmSpec => []EvmInv
<1>1. EvmInv /\ [EvmNext]_vars => EvmInv'
  BY EvmStep
<1> QED BY <1>1, EvmInitially, PTL DEF EvmSpec

\* A revoked key, a removed scope and a frozen user are refused in the end, for every lifetime
\* of the cache and every timeout (authorize, the cache entry's expires_at_unix_ms).
THEOREM RightsEnd == EvmSpec => []GrantsEnd
<1>1. EvmInv => GrantsEnd
  BY DEF EvmInv, EdgeInv
<1> QED BY <1>1, EdgeHolds, PTL

\* Every caller stays in its own namespace, through every route and with every state of the
\* cache (internal_bucket_for_user, auth_cache_key, the reply filters).
THEOREM NamespacesAreOwn == EvmSpec => []NamespaceIsolation
<1>1. EvmInv => NamespaceIsolation
  BY DEF EvmInv, EdgeInv
<1> QED BY <1>1, EdgeHolds, PTL

\* A bucket closed for transfers takes none later than the lifetime of the cached switches plus
\* one HTTP timeout (ensure_evm_ready, fetch_evm_state).
THEOREM TransfersStop == EvmSpec => []TransfersEnd
<1>1. EvmInv => TransfersEnd
  BY DEF EvmInv
<1> QED BY <1>1, EdgeHolds, PTL

\* Receipts, and the hashes the gateway remembers, stand for transfers some node has.
ReceiptInv == \A t \in evmTxs \cup receipts : \E n \in Nodes : t \in transfers[n]

LEMMA ReceiptStep ==
  ASSUME ~MeshMayBeEmpty, EvmInv, ReceiptInv, [EvmNext]_vars
  PROVE  ReceiptInv'
<1>0. \A n \in Nodes : transfers[n] \subseteq transfers'[n]
  BY EvmStep
<1>1. ASSUME NEW t, \E n \in Nodes : t \in transfers'[n],
             evmTxs' \cup receipts' \subseteq evmTxs \cup receipts \cup {t}
      PROVE  ReceiptInv'
  BY <1>0, <1>1 DEF ReceiptInv
<1>2. ASSUME evmTxs' \cup receipts' \subseteq evmTxs \cup receipts
      PROVE  ReceiptInv'
  BY <1>0, <1>2 DEF ReceiptInv
<1>3. ASSUME NEW r \in Requests, FanOut(r)
      PROVE  ReceiptInv'
  <2>1. PICK S \in SUBSET Nodes, answered \in Nodes \cup {NoValue} :
          /\ transfers' = [n \in Nodes |-> IF n \in S THEN transfers[n] \cup {evmReq[r].tx}
                                                      ELSE transfers[n]]
          /\ evmTxs' = IF HashReturned(S, answered) THEN evmTxs \cup {evmReq[r].tx} ELSE evmTxs
          /\ receipts' = IF HashReturned(S, answered) THEN receipts \cup {evmReq[r].tx}
                                                      ELSE receipts
    BY <1>3 DEF FanOut
  <2>2. CASE HashReturned(S, answered)
    <3>1. answered \in S /\ answered \in Nodes
      BY <2>2 DEF HashReturned
    <3>2. evmReq[r].tx \in transfers'[answered]
      BY <2>1, <3>1
    <3> QED BY <1>1, <2>1, <2>2, <3>1, <3>2
  <2>3. CASE ~HashReturned(S, answered)
    BY <1>2, <2>1, <2>3
  <2> QED BY <2>2, <2>3
<1>4. ASSUME NEW t \in Txs, eth_get_transaction_receipt(t)
      PROVE  ReceiptInv'
  <2>1. \E n \in Nodes : t \in transfers'[n]
    BY <1>4 DEF eth_get_transaction_receipt, ReceiptInv
  <2>2. evmTxs' \cup receipts' \subseteq evmTxs \cup receipts \cup {t}
    BY <1>4 DEF eth_get_transaction_receipt
  <2> QED BY <1>1, <2>1, <2>2
<1>5. ASSUME WalletStep PROVE ReceiptInv'
  <2>1. ASSUME NEW r \in Requests, EvmChecked(r) \/ EvmFetched(r) \/ CheckNonce(r)
        PROVE  ReceiptInv'
    BY <1>2, <2>1 DEF EvmChecked, EvmFetched, CheckNonce
  <2>2. ASSUME NEW r \in Requests, NEW t \in Txs, SendReceived(r, t)
        PROVE  ReceiptInv'
    BY <1>2, <2>2 DEF SendReceived
  <2>3. ASSUME NEW n \in Nodes, NEW m \in Nodes, EvmReplicate(n, m)
        PROVE  ReceiptInv'
    BY <1>2, <2>3 DEF EvmReplicate
  <2> QED BY <1>3, <1>4, <1>5, <2>1, <2>2, <2>3 DEF WalletStep
<1>6. ASSUME UNCHANGED evmVars PROVE ReceiptInv'
  BY <1>2, <1>6 DEF evmVars
<1>7. ASSUME NEW s \in Switches, SwitchEvm(s) PROVE ReceiptInv'
  BY <1>2, <1>7 DEF SwitchEvm
<1> QED BY <1>5, <1>6, <1>7 DEF EvmNext, vars

\* Once the mesh client knows a node, a hash or a receipt stands for a transfer that some node
\* has (eth_send_raw_transaction, evm_txs).
THEOREM ReceiptsAreTrue ==
  ASSUME ~MeshMayBeEmpty
  PROVE  EvmSpec => []ReceiptMeansStored
<1>1. EvmInit => ReceiptInv
  BY DEF EvmInit, ReceiptInv
<1>2. EvmInv /\ ReceiptInv /\ [EvmNext]_vars => ReceiptInv'
  BY ReceiptStep
<1>3. ReceiptInv => ReceiptMeansStored
  BY DEF ReceiptInv, ReceiptMeansStored
<1> QED BY <1>1, <1>2, <1>3, EdgeHolds, PTL DEF EvmSpec

-----------------------------------------------------------------------------
(* Credits                                                                 *)

\* The events of bucket x.
Of(evs, x) == {e \in evs : e.bucket = x}

\* The sum may be taken over the amounts of any larger set.
LEMMA TotalWithin ==
  ASSUME NEW B, IsFiniteSet(B), NEW A, A \subseteq B, NEW x
  PROVE  /\ IsFiniteSet(Of(A, x)) /\ Of(A, x) \subseteq B
         /\ Total(A, x) = SumFunctionOnSet([e \in B |-> e.amount], Of(A, x))
<1> DEFINE v == [e \in A |-> e.amount]
           w == [e \in B |-> e.amount]
           S == Of(A, x)
<1>1. IsFiniteSet(S) /\ S \subseteq A /\ S \subseteq B
  BY FS_Subset DEF Of
<1>2. \A i \in S : v[i] = w[i]
  BY <1>1
<1>3. Total(A, x) = SumFunctionOnSet(v, S)
  BY DEF Total, Of
<1> HIDE DEF v, w, S
<1>4. SumFunctionOnSet(v, S) = SumFunctionOnSet(w, S)
  BY <1>1, <1>2, SumSame
<1> QED BY <1>1, <1>3, <1>4 DEF w, S

\* Sums of credits are integers.
LEMMA TotalInt ==
  ASSUME NEW A, IsFiniteSet(A), \A e \in A : e.amount \in Int, NEW x
  PROVE  Total(A, x) \in Int
<1> DEFINE w == [e \in A |-> e.amount]
           S == Of(A, x)
<1>1. IsFiniteSet(S) /\ S \subseteq A /\ Total(A, x) = SumFunctionOnSet(w, S)
  BY TotalWithin
<1>2. \A i \in S : w[i] \in Int
  BY <1>1
<1> HIDE DEF w, S
<1> QED BY <1>1, <1>2, SumInt

\* Only the events of the bucket count.
LEMMA TotalSame ==
  ASSUME NEW A, NEW B, IsFiniteSet(A), IsFiniteSet(B), NEW x, Of(A, x) = Of(B, x)
  PROVE  Total(A, x) = Total(B, x)
<1> DEFINE w == [e \in A \cup B |-> e.amount]
<1>1. IsFiniteSet(A \cup B)
  BY FS_Union
<1> HIDE DEF w
<1>2. Total(A, x) = SumFunctionOnSet(w, Of(A, x)) /\ Total(B, x) = SumFunctionOnSet(w, Of(B, x))
  BY <1>1, TotalWithin DEF w
<1> QED BY <1>2

\* One more event.
LEMMA TotalAdd ==
  ASSUME NEW A, IsFiniteSet(A), NEW e, e \notin A, \A d \in A \cup {e} : d.amount \in Int, NEW x
  PROVE  /\ IsFiniteSet(A \cup {e})
         /\ Total(A \cup {e}, x) = Total(A, x) + (IF e.bucket = x THEN e.amount ELSE 0)
         /\ Total(A, x) \in Int
<1> DEFINE B == A \cup {e}
           w == [d \in B |-> d.amount]
           S == Of(B, x)
<1>1. IsFiniteSet(B)
  BY FS_AddElement
<1>2. IsFiniteSet(S) /\ S \subseteq B /\ Total(B, x) = SumFunctionOnSet(w, S)
  BY <1>1, TotalWithin
<1>3. Total(A, x) = SumFunctionOnSet(w, Of(A, x))
  BY <1>1, TotalWithin
<1>4. Total(A, x) \in Int
  BY TotalInt
<1>5. CASE e.bucket = x
  <2>1. e \in S /\ Of(A, x) = S \ {e} /\ w[e] = e.amount /\ \A i \in S : w[i] \in Int
    BY <1>2, <1>5 DEF Of
  <2> HIDE DEF w, S, B
  <2>2. SumFunctionOnSet(w, S) = w[e] + SumFunctionOnSet(w, S \ {e})
    BY <1>2, <2>1, SumTake
  <2> QED BY <1>1, <1>2, <1>3, <1>4, <1>5, <2>1, <2>2 DEF B
<1>6. CASE e.bucket # x
  <2>1. Of(A, x) = S
    BY <1>6 DEF Of
  <2> HIDE DEF w
  <2> QED BY <1>1, <1>2, <1>3, <1>4, <1>6, <2>1
<1> QED BY <1>5, <1>6

\* Events of no value sum to nothing.
LEMMA ZeroTotal ==
  ASSUME NEW A, IsFiniteSet(A), NEW x, \A e \in A : e.bucket = x => e.amount = 0
  PROVE  Total(A, x) = 0
<1> DEFINE w == [e \in A |-> e.amount]
           S == Of(A, x)
           T == {r \in SUBSET S : SumFunctionOnSet(w, r) # 0}
<1>1. IsFiniteSet(S) /\ Total(A, x) = SumFunctionOnSet(w, S) /\ \A i \in S : w[i] = 0
  BY TotalWithin DEF Of
<1> SUFFICES ASSUME T # {} PROVE FALSE
  BY <1>1
<1>2. PICK r \in T : \A q \in T : q \subseteq r => q = r
  <2>1. T \subseteq SUBSET S
    OBVIOUS
  <2> HIDE DEF T, S
  <2> QED BY <1>1, <2>1, LeastSubset
<1>3. IsFiniteSet(r) /\ r \subseteq S
  BY <1>1, <1>2, FS_Subset
<1> HIDE DEF w, S
<1>4. r # {}
  BY <1>2, <1>3, SumPick
<1>5. Pick(r) \in r
  BY <1>4, PickIn
<1> DEFINE q == r \ {Pick(r)}
<1>6. SumFunctionOnSet(w, q) = 0
  BY <1>2, <1>3, <1>5
<1>7. SumFunctionOnSet(w, r) = w[Pick(r)] + SumFunctionOnSet(w, q)
  BY <1>3, <1>4, SumPick
<1>8. w[Pick(r)] = 0
  BY <1>1, <1>3, <1>5
<1> QED BY <1>2, <1>6, <1>7, <1>8

\* Two facts about products.
LEMMA OneMore ==
  ASSUME NEW k \in Nat, NEW W \in Nat
  PROVE  (k + 1) * W = k * W + W
OBVIOUS

LEMMA NoLarger ==
  ASSUME NEW k \in Nat, NEW m \in Nat, NEW W \in Nat, k <= m
  PROVE  k * W <= m * W /\ k * W \in Nat
OBVIOUS

\* What lies in B and not in A costs at most W for each event of U.
LEMMA TotalBound ==
  ASSUME NEW B, IsFiniteSet(B), \A e \in B : e.amount \in Int,
         NEW A, A \subseteq B, NEW U, IsFiniteSet(U), NEW W \in Nat, NEW x,
         \A e \in B \ A : e.bucket = x => e.amount >= 0 \/ (e \in U /\ e.amount >= 0 - W)
  PROVE  Total(B, x) >= Total(A, x) - Cardinality(U) * W
<1> DEFINE Fits(r) == Total(r, x) >= Total(A, x) - Cardinality(r \cap U) * W
           T == {r \in SUBSET B : A \subseteq r /\ ~Fits(r)}
<1>0. \A r : r \subseteq B => /\ IsFiniteSet(r) /\ Total(r, x) \in Int
                              /\ IsFiniteSet(r \cap U) /\ Cardinality(r \cap U) \in Nat
                              /\ Cardinality(r \cap U) <= Cardinality(U) /\ Cardinality(U) \in Nat
  <2> SUFFICES ASSUME NEW r, r \subseteq B
               PROVE  /\ IsFiniteSet(r) /\ Total(r, x) \in Int
                      /\ IsFiniteSet(r \cap U) /\ Cardinality(r \cap U) \in Nat
                      /\ Cardinality(r \cap U) <= Cardinality(U) /\ Cardinality(U) \in Nat
    OBVIOUS
  <2>1. IsFiniteSet(r)
    BY FS_Subset
  <2>2. Total(r, x) \in Int
    BY <2>1, TotalInt
  <2>3. r \cap U \subseteq U
    OBVIOUS
  <2>4. IsFiniteSet(r \cap U) /\ Cardinality(r \cap U) <= Cardinality(U)
    BY <2>3, FS_Subset
  <2>5. Cardinality(r \cap U) \in Nat /\ Cardinality(U) \in Nat
    BY <2>4, FS_CardinalityType
  <2> QED BY <2>1, <2>2, <2>4, <2>5
<1>1. ASSUME T # {} PROVE FALSE
  <2>1. PICK r \in T : \A q \in T : q \subseteq r => q = r
    <3>1. T \subseteq SUBSET B
      OBVIOUS
    <3> HIDE DEF T
    <3> QED BY <1>1, <3>1, LeastSubset
  <2>2. r \subseteq B /\ A \subseteq r /\ ~Fits(r)
    BY <2>1
  <2>3. r # A
    <3>1. Cardinality(A \cap U) * W \in Nat /\ Total(A, x) \in Int
      BY <1>0, NoLarger
    <3>2. Fits(A)
      BY <3>1
    <3> HIDE DEF Fits
    <3> QED BY <2>2, <3>2
  <2>4. PICK e \in r : e \notin A
    BY <2>2, <2>3
  <2> DEFINE q == r \ {e}
  <2>5. q \subseteq B /\ A \subseteq q /\ q # r /\ q \subseteq r /\ e \notin q /\ r = q \cup {e}
    BY <2>2, <2>4
  <2>6. Fits(q)
    BY <2>1, <2>5
  <2>7. Total(r, x) = Total(q, x) + (IF e.bucket = x THEN e.amount ELSE 0)
    <3>1. IsFiniteSet(q) /\ \A d \in q \cup {e} : d.amount \in Int
      BY <1>0, <2>2, <2>5
    <3> HIDE DEF q
    <3> QED BY <2>5, <3>1, TotalAdd
  <2>8. e.amount \in Int /\ (e.bucket = x => e.amount >= 0 \/ (e \in U /\ e.amount >= 0 - W))
    BY <2>2, <2>4
  <2> DEFINE k == Cardinality(q \cap U)
             m == Cardinality(r \cap U)
  <2>9. k \in Nat /\ m \in Nat /\ Total(q, x) \in Int /\ Total(r, x) \in Int /\ Total(A, x) \in Int
    BY <1>0, <2>2, <2>5
  <2>10. e \in U => m = k + 1
    <3>1. e \in U => r \cap U = (q \cap U) \cup {e} /\ e \notin q \cap U
      BY <2>5
    <3>2. IsFiniteSet(q \cap U)
      BY <1>0, <2>5
    <3> HIDE DEF q
    <3> QED BY <3>1, <3>2, FS_AddElement
  <2>11. k <= m
    <3>1. q \cap U \subseteq r \cap U /\ IsFiniteSet(r \cap U)
      BY <1>0, <2>2
    <3> HIDE DEF q
    <3> QED BY <3>1, FS_Subset
  <2>12. Total(q, x) >= Total(A, x) - k * W /\ ~(Total(r, x) >= Total(A, x) - m * W)
    BY <2>2, <2>6
  <2> HIDE DEF q, k, m, Fits, T
  <2>13. k * W <= m * W /\ k * W \in Nat /\ m * W \in Nat
    BY <2>9, <2>11, NoLarger
  <2>14. e \in U => m * W = k * W + W
    BY <2>9, <2>10, OneMore
  <2> QED BY <2>7, <2>8, <2>9, <2>12, <2>13, <2>14
<1>2. Fits(B)
  BY <1>1
<1> DEFINE k == Cardinality(B \cap U)
           m == Cardinality(U)
<1>3. k \in Nat /\ m \in Nat /\ k <= m /\ Total(A, x) \in Int /\ Total(B, x) \in Int
  BY <1>0
<1>4. Total(B, x) >= Total(A, x) - k * W
  BY <1>2
<1> HIDE DEF k, m
<1>5. k * W <= m * W /\ k * W \in Nat /\ m * W \in Nat
  BY <1>3, NoLarger
<1>6. Total(B, x) >= Total(A, x) - m * W
  BY <1>3, <1>4, <1>5
<1> QED BY <1>6 DEF m

\* What users have spent, are about to spend and were given.
Ledger == (UNION {store[n] : n \in Nodes}) \cup pending

\* A deduction takes the price of a call, everything else gives.
EventOK(e) ==
  /\ e.amount \in Int
  /\ IF e.by = "api" THEN 0 - WriteCost <= e.amount /\ e.amount <= 0 ELSE e.amount >= 0

\* In a ledger of these events nobody owes more than DebtBounded allows, and a
\* user who was given nothing has no deductions.
Books(evs) ==
  /\ IsFiniteSet(evs) /\ \A e \in evs : EventOK(e)
  /\ \A u \in Users :
       /\ Seed[u] = 0 => \A e \in evs : e.bucket = billing_bucket_for_user(u) => e.amount = 0
       /\ Total(evs, billing_bucket_for_user(u))
            >= IF Seed[u] = 0 THEN 0 ELSE 1 - MaxUnsettled * WriteCost

\* Spawned tasks deduct, and no billing bucket is deleted.
LogsOK ==
  /\ store = [n \in Nodes |-> store[n]] /\ gone = [n \in Nodes |-> gone[n]]
  /\ \A e \in pending : e.by = "api"
  /\ \A n \in Nodes : \A x \in gone[n] : ~Reserved(x)

LedgerInv == LogsOK /\ Books(Ledger)

\* Credits are granted to the users who have some.
GrantsRenew == \A u \in Users : Seed[u] = 0 => BillingName[u] \notin RawNames

\* A billing bucket is one user's.
LEMMA NamesDiffer ==
  ASSUME NEW u \in Users, NEW v \in Users, billing_bucket_for_user(u) = billing_bucket_for_user(v)
  PROVE  u = v
BY GatewayAssumption DEF billing_bucket_for_user, RawBucket

LEMMA LimitIsInt == 1 - MaxUnsettled * WriteCost \in Int
<1>1. MaxUnsettled \in Nat /\ WriteCost \in Nat
  BY GatewayAssumption
<1> QED BY <1>1, NoLarger

\* A gift keeps the books.
LEMMA GiftKeeps ==
  ASSUME NEW evs, Books(evs), NEW e, EventOK(e), e.amount >= 0,
         \A u \in Users : Seed[u] = 0 => e.bucket # billing_bucket_for_user(u)
  PROVE  Books(evs \cup {e})
<1>1. CASE e \in evs
  <2>1. evs \cup {e} = evs
    BY <1>1
  <2> QED BY <2>1
<1>2. CASE e \notin evs
  <2>1. IsFiniteSet(evs) /\ \A d \in evs \cup {e} : d.amount \in Int
    BY DEF Books, EventOK
  <2>2. \A x : /\ IsFiniteSet(evs \cup {e}) /\ Total(evs, x) \in Int
               /\ Total(evs \cup {e}, x) = Total(evs, x) + (IF e.bucket = x THEN e.amount ELSE 0)
    BY <1>2, <2>1, TotalAdd
  <2>3. IsFiniteSet(evs \cup {e}) /\ \A d \in evs \cup {e} : EventOK(d)
    BY <2>2 DEF Books
  <2>4. ASSUME NEW u \in Users
        PROVE  /\ Seed[u] = 0 => \A d \in evs \cup {e} :
                                   d.bucket = billing_bucket_for_user(u) => d.amount = 0
               /\ Total(evs \cup {e}, billing_bucket_for_user(u))
                    >= IF Seed[u] = 0 THEN 0 ELSE 1 - MaxUnsettled * WriteCost
    <3> DEFINE x == billing_bucket_for_user(u)
               t == Total(evs, x)
               f == IF Seed[u] = 0 THEN 0 ELSE 1 - MaxUnsettled * WriteCost
    <3>1. t \in Int /\ e.amount \in Int
          /\ Total(evs \cup {e}, x) = t + (IF e.bucket = x THEN e.amount ELSE 0)
      BY <2>1, <2>2
    <3>2. t >= f /\ f \in Int
      BY LimitIsInt DEF Books
    <3>3. Seed[u] = 0 => \A d \in evs \cup {e} : d.bucket = x => d.amount = 0
      BY DEF Books
    <3> HIDE DEF t, f
    <3>4. t + (IF e.bucket = x THEN e.amount ELSE 0) >= f
      BY <3>1, <3>2
    <3> QED BY <3>1, <3>3, <3>4 DEF f
  <2> QED BY <2>3, <2>4 DEF Books
<1> QED BY <1>1, <1>2

\* So does a deduction that is given up.
LEMMA DropKeeps ==
  ASSUME NEW evs, Books(evs), NEW e \in evs, e.amount <= 0
  PROVE  Books(evs \ {e})
<1> DEFINE K == evs \ {e}
<1>1. IsFiniteSet(evs) /\ \A d \in evs : EventOK(d) /\ d.amount \in Int
  BY DEF Books, EventOK
<1>2. K \subseteq evs /\ IsFiniteSet(K) /\ e \notin K /\ evs = K \cup {e}
  BY <1>1, FS_Subset
<1> HIDE DEF K
<1>3. \A x : /\ Total(K, x) \in Int
             /\ Total(evs, x) = Total(K, x) + (IF e.bucket = x THEN e.amount ELSE 0)
  BY <1>1, <1>2, TotalAdd
<1>4. ASSUME NEW u \in Users
      PROVE  /\ Seed[u] = 0 => \A d \in K : d.bucket = billing_bucket_for_user(u) => d.amount = 0
             /\ Total(K, billing_bucket_for_user(u))
                  >= IF Seed[u] = 0 THEN 0 ELSE 1 - MaxUnsettled * WriteCost
  <2> DEFINE x == billing_bucket_for_user(u)
             t == Total(evs, x)
             k == Total(K, x)
             f == IF Seed[u] = 0 THEN 0 ELSE 1 - MaxUnsettled * WriteCost
  <2>1. k \in Int /\ e.amount \in Int /\ t = k + (IF e.bucket = x THEN e.amount ELSE 0)
    BY <1>1, <1>3
  <2>2. t >= f /\ f \in Int
    BY LimitIsInt DEF Books
  <2>3. Seed[u] = 0 => \A d \in K : d.bucket = x => d.amount = 0
    BY <1>2 DEF Books
  <2> HIDE DEF t, f, k
  <2>4. k >= f
    BY <2>1, <2>2
  <2> QED BY <2>3, <2>4 DEF f, k
<1> QED BY <1>1, <1>2, <1>4 DEF Books, K

\* So does the deletion of what is no billing bucket.
LEMMA DeletionKeeps ==
  ASSUME NEW evs, Books(evs), NEW K, K \subseteq evs, \A e \in evs \ K : ~Reserved(e.bucket)
  PROVE  Books(K)
<1>1. IsFiniteSet(evs) /\ IsFiniteSet(K)
  BY FS_Subset DEF Books
<1>2. ASSUME NEW u \in Users
      PROVE  Total(K, billing_bucket_for_user(u)) = Total(evs, billing_bucket_for_user(u))
  <2> DEFINE x == billing_bucket_for_user(u)
  <2>1. Of(K, x) = Of(evs, x)
    BY DEF Of, Reserved
  <2> HIDE DEF x
  <2>2. Total(K, x) = Total(evs, x)
    BY <1>1, <2>1, TotalSame
  <2> QED BY <2>2 DEF x
<1> QED BY <1>1, <1>2 DEF Books

\* A deduction keeps the books of a user who had enough.
LEMMA DeductionKeeps ==
  ASSUME NEW evs, Books(evs), NEW u \in Users, Seed[u] # 0, NEW e, EventOK(e),
         e.by = "api", e.bucket = billing_bucket_for_user(u),
         NEW k \in Nat, k < MaxUnsettled,
         Total(evs, billing_bucket_for_user(u)) >= 1 - k * WriteCost
  PROVE  Books(evs \cup {e})
<1>0. MaxUnsettled \in Nat /\ WriteCost \in Nat
  BY GatewayAssumption
<1>1. CASE e \in evs
  <2>1. evs \cup {e} = evs
    BY <1>1
  <2> QED BY <2>1
<1>2. CASE e \notin evs
  <2>1. IsFiniteSet(evs) /\ \A d \in evs \cup {e} : d.amount \in Int
    BY DEF Books, EventOK
  <2>2. \A x : /\ IsFiniteSet(evs \cup {e}) /\ Total(evs, x) \in Int
               /\ Total(evs \cup {e}, x) = Total(evs, x) + (IF e.bucket = x THEN e.amount ELSE 0)
    BY <1>2, <2>1, TotalAdd
  <2>3. IsFiniteSet(evs \cup {e}) /\ \A d \in evs \cup {e} : EventOK(d)
    BY <2>2 DEF Books
  <2>4. ASSUME NEW v \in Users, v # u
        PROVE  /\ Seed[v] = 0 => \A d \in evs \cup {e} :
                                   d.bucket = billing_bucket_for_user(v) => d.amount = 0
               /\ Total(evs \cup {e}, billing_bucket_for_user(v))
                    >= IF Seed[v] = 0 THEN 0 ELSE 1 - MaxUnsettled * WriteCost
    <3>1. e.bucket # billing_bucket_for_user(v)
      <4>1. billing_bucket_for_user(u) # billing_bucket_for_user(v)
        BY <2>4, NamesDiffer, Zenon
      <4> QED BY <4>1, Zenon
    <3>2. Total(evs \cup {e}, billing_bucket_for_user(v)) = Total(evs, billing_bucket_for_user(v))
      <4> DEFINE x == billing_bucket_for_user(v)
      <4>1. e.bucket # x
        BY <3>1
      <4> HIDE DEF x
      <4>2. /\ Total(evs, x) \in Int
            /\ Total(evs \cup {e}, x) = Total(evs, x) + (IF e.bucket = x THEN e.amount ELSE 0)
        BY <2>2
      <4>3. Total(evs \cup {e}, x) = Total(evs, x)
        BY <4>1, <4>2
      <4> QED BY <4>3 DEF x
    <3> QED BY <3>1, <3>2 DEF Books
  <2>5. Total(evs \cup {e}, billing_bucket_for_user(u)) >= 1 - MaxUnsettled * WriteCost
    <3> DEFINE t == Total(evs, billing_bucket_for_user(u))
    <3>1. Total(evs \cup {e}, billing_bucket_for_user(u)) = t + e.amount /\ t \in Int
      BY <2>2
    <3>2. e.amount \in Int /\ e.amount >= 0 - WriteCost
      BY <1>0 DEF EventOK
    <3>3. t >= 1 - k * WriteCost /\ k * WriteCost \in Nat
      BY <1>0, NoLarger
    <3>4. (k + 1) * WriteCost = k * WriteCost + WriteCost
      BY <1>0, OneMore
    <3>5. (k + 1) * WriteCost <= MaxUnsettled * WriteCost /\ MaxUnsettled * WriteCost \in Nat
      <4>1. k + 1 \in Nat /\ k + 1 <= MaxUnsettled
        BY <1>0
      <4> DEFINE j == k + 1
      <4> HIDE DEF j
      <4>2. j * WriteCost <= MaxUnsettled * WriteCost /\ MaxUnsettled * WriteCost \in Nat
        BY <1>0, <4>1, NoLarger DEF j
      <4> QED BY <4>2 DEF j
    <3> HIDE DEF t
    <3> DEFINE p == k * WriteCost
               q == MaxUnsettled * WriteCost
               z == (k + 1) * WriteCost
    <3>6. z = p + WriteCost /\ z <= q /\ p \in Nat /\ q \in Nat /\ t >= 1 - p
      BY <3>3, <3>4, <3>5
    <3> HIDE DEF p, q, z
    <3>7. t + e.amount >= 1 - q
      BY <1>0, <3>1, <3>2, <3>6
    <3> QED BY <3>1, <3>7 DEF q
  <2> QED BY <2>3, <2>4, <2>5 DEF Books
<1> QED BY <1>1, <1>2

\* Where the events of the ledger are.
LEMMA LedgerIs ==
  /\ \A e : e \in Ledger <=> e \in pending \/ \E n \in Nodes : e \in store[n]
  /\ \A e : e \in Ledger' <=> e \in pending' \/ \E n \in Nodes : e \in store'[n]
  /\ \A e : e \in Deductions <=> e.by = "api" /\ \E n \in Nodes : e \in store[n]
  /\ \A e : e \in Unsettled <=>
       e \in pending \/ (e \in Deductions /\ \E n \in Nodes : e \notin store[n])
<1> DEFINE R == UNION {store[n] : n \in Nodes}
<1>1. \A e : e \in R <=> \E n \in Nodes : e \in store[n]
  OBVIOUS
<1>2. \A e : e \in R' <=> \E n \in Nodes : e \in store'[n]
  OBVIOUS
<1>3. Ledger = R \cup pending
  BY DEF Ledger
<1>4. Ledger' = R' \cup pending'
  BY DEF Ledger
<1>5. \A e : e \in Deductions <=> e.by = "api" /\ \E n \in Nodes : e \in store[n]
  BY <1>1 DEF Deductions
<1>6. \A e : e \in Unsettled <=>
        e \in pending \/ (e \in Deductions /\ \E n \in Nodes : e \notin store[n])
  BY DEF Unsettled
<1> HIDE DEF R
<1> QED BY <1>1, <1>2, <1>3, <1>4, <1>5, <1>6

\* The log of the node that answered, and what it does not have.
LEMMA EnoughLeft ==
  ASSUME LedgerInv, NEW u \in Users, NEW n \in Nodes, Credits(store[n], u) > 0
  PROVE  /\ Seed[u] # 0 /\ Cardinality(Unsettled) \in Nat
         /\ Total(Ledger, billing_bucket_for_user(u)) >= 1 - Cardinality(Unsettled) * WriteCost
<1> DEFINE x == billing_bucket_for_user(u)
           A == store[n]
<1>1. /\ WriteCost \in Nat /\ IsFiniteSet(Ledger)
      /\ \A e \in Ledger : EventOK(e) /\ e.amount \in Int
  BY GatewayAssumption DEF LedgerInv, Books, EventOK
<1>2. A \subseteq Ledger /\ IsFiniteSet(A)
  <2>1. A \subseteq Ledger
    BY DEF Ledger
  <2> QED BY <1>1, <2>1, FS_Subset
<1>3. Total(A, x) > 0 /\ Total(A, x) \in Int
  <2>1. \A e \in A : e.amount \in Int
    BY <1>1, <1>2
  <2> HIDE DEF A
  <2>2. Total(A, x) \in Int
    BY <1>2, <2>1, TotalInt
  <2> QED BY <2>2 DEF Credits, A
<1>4. Seed[u] # 0
  <2> SUFFICES ASSUME Seed[u] = 0 PROVE FALSE
    OBVIOUS
  <2>1. \A e \in A : e.bucket = x => e.amount = 0
    BY <1>2 DEF LedgerInv, Books
  <2> HIDE DEF A, x
  <2>2. Total(A, x) = 0
    BY <1>2, <2>1, ZeroTotal
  <2> QED BY <1>3, <2>2
<1>5. Unsettled \subseteq Ledger
  BY LedgerIs
<1>6. IsFiniteSet(Unsettled) /\ Cardinality(Unsettled) \in Nat
  BY <1>1, <1>5, FS_Subset, FS_CardinalityType
<1>7. \A e \in Ledger \ A : e.bucket = x =>
        e.amount >= 0 \/ (e \in Unsettled /\ e.amount >= 0 - WriteCost)
  <2> SUFFICES ASSUME NEW e \in Ledger, e \notin A, e.by = "api"
               PROVE  e \in Unsettled
    BY <1>1 DEF EventOK
  <2> QED BY LedgerIs
<1> DEFINE U == Unsettled
<1> HIDE DEF A, x, U
<1>8. Total(Ledger, x) >= Total(A, x) - Cardinality(U) * WriteCost
  BY <1>1, <1>2, <1>6, <1>7, TotalBound DEF U
<1>9. Cardinality(U) * WriteCost \in Int /\ Total(Ledger, x) \in Int
  BY <1>1, <1>6, NoLarger, TotalInt DEF U
<1>10. Total(Ledger, x) >= 1 - Cardinality(U) * WriteCost
  BY <1>3, <1>8, <1>9
<1> QED BY <1>4, <1>6, <1>10 DEF x, U

\* No call costs more than a write.
LEMMA RouteCosts ==
  ASSUME NEW route \in KeyRoutes
  PROVE  route.cost \in Nat /\ route.cost <= WriteCost
<1>1. ReadCost \in Nat /\ WriteCost \in Nat /\ ReadCost <= WriteCost
  BY GatewayAssumption
<1>2. route.cost \in {0, ReadCost, WriteCost}
  BY DEF KeyRoutes, Route, proxy_events, proxy_balances, proxy_collapsed,
         proxy_collapsed_account, proxy_create_event, me_bucket_list, me_bucket_detail,
         me_bucket_events, me_user_events, me_deleted_buckets, me_create_bucket_event,
         me_delete_bucket
<1> QED BY <1>1, <1>2

\* The check of a call, and the deduction it spawns.
LEMMA BillLedger ==
  ASSUME EdgeInv, LedgerInv, NEW r \in Requests, BillingCheck(r)
  PROVE  LedgerInv'
<1>1. UNCHANGED <<store, gone>> /\ Cardinality(Unsettled) < MaxUnsettled
  BY DEF BillingCheck
<1> DEFINE u == req[r].user
           cost == req[r].route.cost
           e == Event(billing_bucket_for_user(u), <<"api", calls'>>, 0 - cost, "api")
<1>2. u \in Users /\ cost \in Nat /\ cost <= WriteCost
  <2>1. req[r].user \in Users /\ req[r].route \in KeyRoutes
    BY ServingParts DEF BillingCheck
  <2> QED BY <2>1, RouteCosts
<1>3. CASE UNCHANGED pending
  <2>1. Ledger' = Ledger
    BY <1>1, <1>3 DEF Ledger
  <2>2. LogsOK'
    BY <1>1, <1>3 DEF LedgerInv, LogsOK
  <2> QED BY <2>1, <2>2 DEF LedgerInv
<1>4. CASE \E n \in Nodes : Credits(store[n], u) > 0 /\ pending' = pending \cup {e}
  <2>1. PICK n \in Nodes : Credits(store[n], u) > 0
    BY <1>4
  <2>2. e.bucket = billing_bucket_for_user(u) /\ e.amount = 0 - cost /\ e.by = "api"
    BY DEF Event
  <2>3. pending' = pending \cup {e}
    BY <1>4
  <2> HIDE DEF e
  <2>4. EventOK(e)
    BY <1>2, <2>2, GatewayAssumption DEF EventOK
  <2>5. Ledger' = Ledger \cup {e}
    BY <1>1, <2>3, LedgerIs
  <2>6. /\ Seed[u] # 0 /\ Cardinality(Unsettled) \in Nat
        /\ Total(Ledger, billing_bucket_for_user(u)) >= 1 - Cardinality(Unsettled) * WriteCost
    BY <1>2, <2>1, EnoughLeft
  <2> HIDE DEF u
  <2>7. Books(Ledger \cup {e})
    BY <1>1, <1>2, <2>2, <2>4, <2>6, DeductionKeeps DEF LedgerInv
  <2>8. LogsOK'
    BY <1>1, <2>2, <2>3 DEF LedgerInv, LogsOK
  <2> QED BY <2>5, <2>7, <2>8 DEF LedgerInv
<1>5. PICK balance \in {0} \cup {Credits(store[n], u) : n \in Nodes} :
        IF CreditsLeft(balance)
        THEN pending' = pending \cup
               {Event(billing_bucket_for_user(u), <<"api", calls'>>, -cost, "api")}
        ELSE UNCHANGED pending
  BY DEF BillingCheck
<1>6. CASE CreditsLeft(balance)
  <2>1. 0 - cost = -cost
    BY <1>2
  <2>2. balance # 0 /\ balance > 0
    BY <1>6 DEF CreditsLeft
  <2>3. PICK n \in Nodes : balance = Credits(store[n], u)
    BY <1>5, <2>2
  <2> QED BY <1>4, <1>5, <1>6, <2>1, <2>2, <2>3
<1> QED BY <1>3, <1>5, <1>6

\* What a write does to the logs.
LEMMA CreateSpreads ==
  ASSUME NEW S \in SUBSET Nodes, NEW e, CreateAt(S, e), LogsOK, pending' \subseteq pending
  PROVE  /\ LogsOK'
         /\ \A n \in Nodes : store'[n] \in {store[n], store[n] \cup {e}}
<1>1. /\ store' = [m \in Nodes |-> IF m \in S /\ e.bucket \notin gone[m]
                                   THEN NodeCreate(store[m], e) ELSE store[m]]
      /\ UNCHANGED gone
  BY DEF CreateAt
<1>2. \A n \in Nodes : store'[n] \in {store[n], store[n] \cup {e}}
  BY <1>1 DEF NodeCreate
<1>3. store' = [n \in Nodes |-> store'[n]]
  BY <1>1
<1> QED BY <1>1, <1>2, <1>3 DEF LogsOK

\* The spawned task removes its deduction or moves it to some logs.
LEMMA DeductLedger ==
  ASSUME LedgerInv, NEW e \in pending, Deduct(e)
  PROVE  LedgerInv'
<1>1. pending' = pending \ {e}
  BY DEF Deduct
<1>2. PICK S \in SUBSET Nodes : CreateAt(S, e)
  BY DEF Deduct
<1>3. LogsOK' /\ \A n \in Nodes : store'[n] \in {store[n], store[n] \cup {e}}
  BY <1>1, <1>2, CreateSpreads DEF LedgerInv
<1>4. e \in Ledger /\ (Ledger' = Ledger \/ Ledger' = Ledger \ {e})
  <2>1. e \in Ledger
    BY LedgerIs
  <2>2. \A d : d # e => (d \in Ledger' <=> d \in Ledger)
    BY <1>1, <1>3, LedgerIs
  <2>3. Ledger' \ {e} = Ledger \ {e}
    BY <2>2
  <2> QED BY <2>1, <2>3
<1>5. EventOK(e) /\ e.by = "api" /\ e.amount <= 0
  BY <1>4 DEF LedgerInv, Books, LogsOK, EventOK
<1>6. Books(Ledger \ {e})
  BY <1>4, <1>5, DropKeeps DEF LedgerInv
<1> QED BY <1>3, <1>4, <1>6 DEF LedgerInv

\* Billing buckets are reserved: a deletion is of another one.
LEMMA DeleteLedger ==
  ASSUME LedgerInv, NEW n \in Nodes, NEW x, ~Reserved(x), DeleteAt(n, x), UNCHANGED pending
  PROVE  LedgerInv'
<1>1. /\ store' = [store EXCEPT ![n] = {e \in @ : e.bucket # x}]
      /\ gone' = [gone EXCEPT ![n] = @ \cup {x}]
  BY DEF DeleteAt
<1>2. /\ store' = [m \in Nodes |-> store'[m]] /\ gone' = [m \in Nodes |-> gone'[m]]
      /\ \A m \in Nodes : /\ store'[m] \subseteq store[m]
                          /\ \A e \in store[m] \ store'[m] : e.bucket = x
                          /\ gone'[m] \subseteq gone[m] \cup {x}
  BY <1>1 DEF LedgerInv, LogsOK
<1>3. LogsOK'
  BY <1>2 DEF LedgerInv, LogsOK, Reserved, billing_bucket_for_user, RawBucket
<1>4. Ledger' \subseteq Ledger /\ \A e \in Ledger \ Ledger' : e.bucket = x
  BY <1>2, LedgerIs
<1>5. \A e \in Ledger \ Ledger' : ~Reserved(e.bucket)
  BY <1>4
<1> DEFINE K == Ledger'
<1>6. K \subseteq Ledger /\ \A e \in Ledger \ K : ~Reserved(e.bucket)
  BY <1>4, <1>5
<1> HIDE DEF K
<1>7. Books(K)
  BY <1>6, DeletionKeeps DEF LedgerInv
<1> QED BY <1>3, <1>7 DEF LedgerInv, K

LEMMA LedgerFrame ==
  ASSUME LedgerInv, UNCHANGED <<store, gone, pending>>
  PROVE  LedgerInv'
<1>1. Ledger' = Ledger
  BY DEF Ledger
<1>2. LogsOK'
  BY DEF LedgerInv, LogsOK
<1> QED BY <1>1, <1>2 DEF LedgerInv

\* Replication shows nodes what others have.
LEMMA ReplicateLedger ==
  ASSUME LedgerInv, NEW n \in Nodes, NEW m \in Nodes, Replicate(n, m)
  PROVE  LedgerInv'
<1>1. UNCHANGED pending
  BY DEF Replicate
<1>2. CASE \E x \in gone[n] \ gone[m] : DeleteAt(m, x)
  <2>1. PICK x \in gone[n] : DeleteAt(m, x)
    BY <1>2
  <2>2. ~Reserved(x)
    BY <2>1 DEF LedgerInv, LogsOK
  <2> QED BY <1>1, <2>1, <2>2, DeleteLedger
<1>3. CASE \E e \in store[n] \ store[m] :
             store' = [store EXCEPT ![m] = @ \cup {e}] /\ UNCHANGED gone
  <2>1. PICK e \in store[n] : store' = [store EXCEPT ![m] = @ \cup {e}] /\ UNCHANGED gone
    BY <1>3
  <2>2. /\ store' = [i \in Nodes |-> store'[i]]
        /\ \A i \in Nodes : store'[i] = IF i = m THEN store[m] \cup {e} ELSE store[i]
    BY <2>1 DEF LedgerInv, LogsOK
  <2>3. Ledger' = Ledger
    BY <1>1, <2>2, LedgerIs
  <2>4. LogsOK'
    BY <1>1, <2>1, <2>2 DEF LedgerInv, LogsOK
  <2> QED BY <2>3, <2>4 DEF LedgerInv
<1> QED BY <1>2, <1>3 DEF Replicate

\* A call gives, and gives to no user without credits.
LEMMA CallLedger ==
  ASSUME LedgerInv, NEW n \in Nodes, NEW route, NEW u, NEW x, NEW b, NEW viewer, NEW by, NEW reserved,
         CallNode(n, route, u, x, b, viewer, by, reserved), UNCHANGED pending, by # "api",
         \A v \in Users : Seed[v] = 0 /\ x = billing_bucket_for_user(v) => ~reserved
  PROVE  LedgerInv'
<1>1. CASE UNCHANGED <<store, gone>>
  BY <1>1, LedgerFrame
<1>2. CASE ~Reserved(x) /\ DeleteAt(n, x)
  BY <1>2, DeleteLedger
<1>3. CASE \E S \in SUBSET (Nodes \ {n}) : submit_create_event(S \cup {n}, x, <<by, u>>, by, reserved)
  <2> DEFINE e == Event(x, <<by, u>>, 1, by)
  <2>1. PICK S \in SUBSET Nodes : CreateAt(S, e) /\ (Reserved(x) => reserved)
    BY <1>3 DEF submit_create_event
  <2>2. e.bucket = x /\ e.amount = 1 /\ e.by # "api"
    BY DEF Event
  <2> HIDE DEF e
  <2>3. EventOK(e) /\ e.amount >= 0
    BY <2>2 DEF EventOK
  <2>4. \A v \in Users : Seed[v] = 0 => e.bucket # billing_bucket_for_user(v)
    BY <2>1, <2>2 DEF Reserved
  <2>5. Books(Ledger \cup {e})
    BY <2>3, <2>4, GiftKeeps DEF LedgerInv
  <2>6. LogsOK' /\ \A i \in Nodes : store'[i] \in {store[i], store[i] \cup {e}}
    BY <2>1, CreateSpreads DEF LedgerInv
  <2>7. Ledger' = Ledger \/ Ledger' = Ledger \cup {e}
    <3>1. Ledger \subseteq Ledger' /\ Ledger' \subseteq Ledger \cup {e}
      BY <2>6, LedgerIs
    <3> QED BY <3>1
  <2> QED BY <2>5, <2>6, <2>7 DEF LedgerInv
<1> QED BY <1>1, <1>2, <1>3 DEF CallNode

\* At first every user has its seed.
LEMMA LedgerInit == Init => LedgerInv
<1> SUFFICES ASSUME Init PROVE LedgerInv
  OBVIOUS
<1> DEFINE Given(u) == Event(billing_bucket_for_user(u), <<"machine", u>>, Seed[u], "machine")
           G == {Given(u) : u \in Users}
<1>1. /\ store = [n \in Nodes |-> G] /\ gone = [n \in Nodes |-> {}] /\ pending = {}
  BY DEF Init
<1>2. \A u \in Users : /\ Given(u).bucket = billing_bucket_for_user(u) /\ Given(u).by = "machine"
                       /\ Given(u).amount = Seed[u] /\ Seed[u] \in Nat
  BY GatewayAssumption DEF Event
<1>3. IsFiniteSet(G) /\ \A e \in G : \E u \in Users : e = Given(u)
  <2>1. IsFiniteSet(Users)
    BY GatewayAssumption
  <2> DEFINE f == [u \in Users |-> Given(u)]
  <2>2. f \in Surjection(Users, G)
    BY DEF Surjection
  <2> HIDE DEF f
  <2>3. IsFiniteSet(G)
    BY <2>1, <2>2, FS_Surjection
  <2> QED BY <2>3
<1>4. \A u \in Users : Given(u) \in G
  OBVIOUS
<1> HIDE DEF Given, G
<1>5. \A n \in Nodes : store[n] = G
  BY <1>1
<1>6. LogsOK
  BY <1>1 DEF LogsOK
<1>7. Ledger \subseteq G
  BY <1>1, <1>5, LedgerIs
<1>8. \A e \in Ledger : EventOK(e)
  BY <1>2, <1>3, <1>7 DEF EventOK
<1>9. IsFiniteSet(Ledger)
  BY <1>3, <1>7, FS_Subset
<1>10. ASSUME NEW u \in Users
       PROVE  /\ Seed[u] = 0 => \A e \in Ledger : e.bucket = billing_bucket_for_user(u) => e.amount = 0
              /\ Total(Ledger, billing_bucket_for_user(u))
                   >= IF Seed[u] = 0 THEN 0 ELSE 1 - MaxUnsettled * WriteCost
  <2> DEFINE x == billing_bucket_for_user(u)
  <2>1. \A e \in Ledger : e.bucket = x => e = Given(u)
    BY <1>2, <1>3, <1>7, NamesDiffer
  <2>2. Seed[u] = 0 => \A e \in Ledger : e.bucket = x => e.amount = 0
    BY <1>2, <2>1
  <2> HIDE DEF x
  <2>4. Total(Ledger, x) = Seed[u]
    <3> DEFINE g == Given(u)
               A == Ledger \ {g}
    <3>1. g \in Ledger
      BY <1>4, <1>5, GatewayAssumption, LedgerIs
    <3>2. A \subseteq Ledger /\ IsFiniteSet(A) /\ g \notin A /\ Ledger = A \cup {g}
      BY <1>9, <3>1, FS_Subset
    <3>3. \A e \in A : e.bucket = x => e.amount = 0
      BY <2>1
    <3>4. \A d \in A \cup {g} : d.amount \in Int
      BY <1>8, <3>2 DEF EventOK
    <3>5. g.bucket = x /\ g.amount = Seed[u] /\ Seed[u] \in Nat
      BY <1>2 DEF x
    <3> HIDE DEF A, g
    <3>6. Total(A, x) = 0
      BY <3>2, <3>3, ZeroTotal
    <3>7. Total(A \cup {g}, x) = Total(A, x) + (IF g.bucket = x THEN g.amount ELSE 0)
      BY <3>2, <3>4, TotalAdd
    <3> QED BY <3>2, <3>5, <3>6, <3>7
  <2>5. MaxUnsettled * WriteCost \in Nat /\ Seed[u] \in Nat
    BY GatewayAssumption, NoLarger
  <2>6. Total(Ledger, x) >= IF Seed[u] = 0 THEN 0 ELSE 1 - MaxUnsettled * WriteCost
    <3> DEFINE q == MaxUnsettled * WriteCost
    <3> HIDE DEF q
    <3>1. Total(Ledger, x) >= IF Seed[u] = 0 THEN 0 ELSE 1 - q
      BY <2>4, <2>5 DEF q
    <3> QED BY <3>1 DEF q
  <2> QED BY <2>2, <2>6 DEF x
<1> QED BY <1>6, <1>8, <1>9, <1>10 DEF LedgerInv, Books

\* The ledger step by step.
LEMMA LedgerStep ==
  ASSUME GrantsRenew, EdgeInv, LedgerInv, Next
  PROVE  LedgerInv'
<1>1. ASSUME NEW r \in Requests, Handler(r)
      PROVE  LedgerInv'
  <2>1. CASE BillingCheck(r)
    BY <2>1, BillLedger
  <2>2. CASE Call(r)
    <3>1. UNCHANGED pending
      BY <2>2 DEF Call
    <3>2. PICK n \in Nodes :
            CallNode(n, req[r].route, req[r].user, internal_bucket_for_user(req[r].user, Bucket),
                     Bucket, keyRow[req[r].right[1]].user, "client", FALSE)
      BY <2>2 DEF Call
    <3>3. "client" # "api"
      OBVIOUS
    <3> QED BY <3>1, <3>2, <3>3, CallLedger
  <2>3. CASE ~BillingCheck(r) /\ ~Call(r)
    <3>1. UNCHANGED <<store, gone, pending>>
      BY <1>1, <2>3 DEF Handler, AuthorizeCached, AuthorizeAsk, IntrospectKey, IntrospectScopes,
                        AuthorizeGranted, AuthorizeFails, CallFails, meshVars
    <3> QED BY <3>1, LedgerFrame
  <2> QED BY <2>1, <2>2, <2>3
<1>2. ASSUME NEW route \in MachineUserRoutes, NEW u \in Users, InternalUserCall(route, u)
      PROVE  LedgerInv'
  <2>1. UNCHANGED pending
    BY <1>2 DEF InternalUserCall
  <2>2. PICK n \in Nodes :
          CallNode(n, route, u, internal_bucket_for_user(u, Bucket), Bucket, u, "machine", FALSE)
    BY <1>2 DEF InternalUserCall
  <2>3. "machine" # "api"
    OBVIOUS
  <2> QED BY <2>1, <2>2, <2>3, CallLedger
<1>3. ASSUME NEW route \in MachineRawRoutes, NEW b \in RawNames, InternalRawCall(route, b)
      PROVE  LedgerInv'
  <2>1. UNCHANGED pending
    BY <1>3 DEF InternalRawCall
  <2>2. PICK n \in Nodes :
          CallNode(n, route, NoUser, RawBucket(b), b, Operator, "machine",
                   route = internal_billing_create_event)
    BY <1>3 DEF InternalRawCall
  <2>3. \A v \in Users : Seed[v] = 0 => RawBucket(b) # billing_bucket_for_user(v)
    BY DEF GrantsRenew, RawBucket, billing_bucket_for_user
  <2>4. "machine" # "api"
    OBVIOUS
  <2> QED BY <2>1, <2>2, <2>3, <2>4, CallLedger
<1>4. ASSUME NEW route \in KeyRoutes, NEW b \in RawNames, OpenCall(route, b)
      PROVE  LedgerInv'
  <2>1. UNCHANGED pending
    BY <1>4 DEF OpenCall
  <2>2. PICK n \in Nodes :
          CallNode(n, [route EXCEPT !.view = "raw"], NoUser, RawBucket(b), b, NoUser, "client", FALSE)
    BY <1>4 DEF OpenCall
  <2>3. "client" # "api"
    OBVIOUS
  <2> QED BY <2>1, <2>2, <2>3, CallLedger
<1>5. ASSUME NEW e \in pending, Deduct(e) PROVE LedgerInv'
  BY <1>5, DeductLedger
<1>6. ASSUME NEW n \in Nodes, NEW m \in Nodes, Replicate(n, m) PROVE LedgerInv'
  BY <1>6, ReplicateLedger
<1>7. ASSUME HiddenRead \/ Change \/ Tick PROVE LedgerInv'
  <2>1. UNCHANGED <<store, gone, pending>>
    BY <1>7 DEF HiddenRead, Change, Tick, meshVars
  <2> QED BY <2>1, LedgerFrame
<1> QED BY <1>1, <1>2, <1>3, <1>4, <1>5, <1>6, <1>7 DEF Next

\* Check and deduction are two steps (billing_check_and_deduct): what a user can owe is
\* what the calls cost whose deduction has not reached every node, for every number of
\* users, requests and nodes and any prices; a user who was given nothing owes nothing.
THEOREM DebtsAreBounded ==
  ASSUME GrantsRenew
  PROVE  EvmSpec => []DebtBounded
<1>1. EvmInit => LedgerInv
  BY LedgerInit DEF EvmInit
<1>2. EvmInv /\ LedgerInv /\ [EvmNext]_vars => LedgerInv'
  <2> SUFFICES ASSUME EvmInv, LedgerInv, [EvmNext]_vars PROVE LedgerInv'
    OBVIOUS
  <2>1. CASE Next
    BY <2>1, LedgerStep DEF EvmInv
  <2>2. CASE ~Next
    <3>1. UNCHANGED <<store, gone, pending>>
      BY <2>2 DEF EvmNext, vars, gwVars, meshVars, Tick
    <3> QED BY <3>1, LedgerFrame
  <2> QED BY <2>1, <2>2
<1>3. LedgerInv => DebtBounded
  BY DEF LedgerInv, Books, DebtBounded, Ledger, Credits
<1> QED BY <1>1, <1>2, <1>3, EdgeHolds, PTL DEF EvmSpec
=============================================================================
