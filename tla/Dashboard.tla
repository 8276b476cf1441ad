----------------------------- MODULE Dashboard -----------------------------
(***************************************************************************)
(* Accounts, sign-in, API keys and the command line's device login of the  *)
(* dashboard (apps/dashboard/src).  A handler stops at every await that    *)
(* another handler can come between: the extractor that admits it, the     *)
(* rows it reads to decide, each write, the audit row.  It may die at any  *)
(* of them (a cancelled request, a database error) and leaves what it has  *)
(* written.  Each SQL statement, transaction and Redis command is atomic.  *)
(*                                                                         *)
(* JWTs are stateless: jwt is the set of users some browser holds an       *)
(* unexpired token for, whether from a sign-in or an impersonation.  Raw   *)
(* keys, tokens and codes are the positions of their rows; a hash is the   *)
(* tuple it covers.  Names, languages, e-mail texts and reads that decide  *)
(* nothing are left out.                                                   *)
(***************************************************************************)
EXTENDS KeyScopes, Sequences

CONSTANTS
  Slots,       \* handlers under way
  Browsers,    \* values of the login_session cookie
  AdminEmails, \* the users named in ADMIN_EMAILS
  Plans,       \* bound: the sets of handlers that run together
  MaxOps       \* bound: handlers started

ASSUME DashboardAssumption ==
  /\ AdminEmails \subseteq Users /\ MaxOps \in Nat
  /\ \A p \in Plans : p \subseteq STRING

VARIABLES
  plan,      \* the handlers of this behaviour
  row,       \* table users
  jwt,       \* users somebody holds a valid session token for
  magic,     \* Redis: the magic links not used yet
  keys,      \* tables developer_api_keys and developer_api_key_scopes
  cli,       \* Redis: one device-login session
  audit,     \* tables admin_audit_log and developer_auth_audit_log
  h,         \* the handlers
  ops,       \* handlers started
  dels,      \* history: deletions of each user
  asked,     \* history: the browser each magic link was asked for from
  signed,    \* history: sign-ins by magic link
  shown,     \* history: the user each device code was made for
  spent,     \* history: codes whose exchange has invalidated the session
  minted     \* history: the keys made of device codes

userVars == <<row, dels>>
signVars == <<jwt, magic, asked, signed>>
cliVars == <<cli, shown, spent, minted>>
dashVars == <<plan, row, jwt, magic, keys, cli, audit, h, ops, dels, asked, signed,
              shown, spent, minted>>

Idle == [st |-> "idle"]
NoSession == [st |-> "none", user |-> NoUser, code |-> 0, over |-> FALSE]

Frozen == {u \in Users : row[u].frozen}
\* get_profile_by_id returns the row; get_developer_account looks at the mark
\* of deletion no more than introspection does.
Live(u) == row[u].known /\ ~row[u].deleted
set_admin(u) == row' = [row EXCEPT ![u].admin = TRUE]
set_frozen(u, frozen) == row' = [row EXCEPT ![u].frozen = frozen]
log_audit(op, u) == audit' = audit \cup {<<op, u>>}

Key(u, scopes, seen, revealed) ==
  [user |-> u, revoked |-> FALSE, expires |-> Never, scopes |-> scopes,
   born |-> dels[u],      \* history: deletions of the owner when the row was made
   seen |-> seen,         \* history: and when the owner was last found alive for it
   revealed |-> revealed] \* the raw key has left the dashboard

\* Administrators and a user with a command-line key; signed in, or only the
\* administrators where sign-in is looked at; a device login may be waiting.
Init ==
  /\ plan \in Plans
  /\ row = [u \in Users |-> [known |-> TRUE, admin |-> u \in AdminEmails,
                             frozen |-> FALSE, deleted |-> FALSE]]
  /\ dels = [u \in Users |-> 0]
  /\ jwt = IF "consume" \in plan THEN AdminEmails ELSE Users
  /\ magic = {} /\ asked = <<>> /\ signed = <<>>
  /\ \E u \in Users \ AdminEmails : keys = <<Key(u, {FullBucketScope, ControlScope}, 0, TRUE)>>
  /\ cli \in IF "cli_exchange" \in plan
             THEN {NoSession, [NoSession EXCEPT !.st = "pending"]} ELSE {NoSession}
  /\ shown = <<>> /\ spent = {} /\ minted = {}
  /\ audit = {} /\ h = [s \in Slots |-> Idle] /\ ops = 0

(***************************************************************************)
(* Extractors                                                              *)
(***************************************************************************)
CurrentUser(u) == u \in jwt /\ Live(u) /\ ~row[u].frozen
AdminUser(u) == CurrentUser(u) /\ row[u].admin
key_has_control_scope(scopes) ==
  \E c \in scopes : c.resource = "Control" /\ (c.can_read \/ c.can_write)
profile_from_bearer(u) ==
  /\ \E i \in DOMAIN keys : /\ keys[i].user = u /\ keys[i].revealed
                            /\ KeyUsable(keys[i], Frozen, 0)
                            /\ key_has_control_scope(keys[i].scopes)
  /\ Live(u)
Authenticated(u) == profile_from_bearer(u) \/ CurrentUser(u)

Start(s, rec) ==
  /\ h[s] = Idle /\ ops < MaxOps /\ rec.op \in plan
  /\ h' = [h EXCEPT ![s] = rec] /\ ops' = ops + 1 /\ plan' = plan
Handler(op, by, u, k) ==
  [op |-> op, st |-> "in", by |-> by, u |-> u, k |-> k, seen |-> dels[u]]
At(s, op, st) == h[s] # Idle /\ h[s].op = op /\ h[s].st = st
Go(s, st) == h' = [h EXCEPT ![s] = IF st = "idle" THEN Idle ELSE [@ EXCEPT !.st = st]]
             /\ UNCHANGED <<plan, ops>>
\* The handler's reads: on to its writes, or an error to the client.
Check(s, ok) == /\ Go(s, IF ok THEN "do" ELSE "idle")
                /\ UNCHANGED <<userVars, signVars, keys, cliVars, audit>>

OwnHandlers == {"create_key", "revoke_key", "rotate_key", "create_scope", "delete_scope"}
AdminHandlers ==
  {"freeze_user", "unfreeze_user", "delete_user", "impersonate_user", "create_user_key",
   "revoke_user_key", "rotate_user_key", "create_user_scope", "delete_user_scope"}

Enter(s) ==
  /\ \E u \in Users, k \in DOMAIN keys :
       \/ \E op \in OwnHandlers : Authenticated(u) /\ Start(s, Handler(op, u, u, k))
       \/ \E op \in {"delete_account", "cli_authorize"} :
            CurrentUser(u) /\ Start(s, Handler(op, u, u, k))
       \/ \E op \in AdminHandlers, a \in Users : AdminUser(a) /\ Start(s, Handler(op, a, u, k))
  /\ UNCHANGED <<userVars, signVars, keys, cliVars, audit>>

\* write_audit, the last step of the handlers that change first.
write_audit(s) ==
  /\ h[s] # Idle /\ h[s].st = "audit"
  /\ log_audit(h[s].op, h[s].u) /\ Go(s, "idle")
  /\ UNCHANGED <<userVars, signVars, keys, cliVars>>

Die(s) ==
  /\ h[s] # Idle /\ Go(s, "idle")
  /\ UNCHANGED <<userVars, signVars, keys, cliVars, audit>>

(***************************************************************************)
(* Sign-in                                                                 *)
(***************************************************************************)
\* A row deleted before is the same row again.
upsert_by_email(u) ==
  row' = [row EXCEPT ![u] = [@ EXCEPT !.known = TRUE, !.deleted = FALSE]]

hash_token(token, session) == <<token, session>>

SaveLink(hash, u) == magic' = magic \cup {[hash |-> hash, user |-> u]}

\* The route request: the account, then the link, then the e-mail.
request_magic_link(s) ==
  \/ \E u \in Users, b \in Browsers :
       /\ Start(s, [Handler("request", u, u, 1) EXCEPT !.k = b])
       /\ upsert_by_email(u) /\ UNCHANGED <<dels, signVars, keys, cliVars, audit>>
  \/ /\ At(s, "request", "in")
     /\ asked' = Append(asked, h[s].k)
     /\ SaveLink(hash_token(Len(asked'), h[s].k), h[s].u)
     /\ Go(s, "idle") /\ UNCHANGED <<userVars, jwt, signed, keys, cliVars, audit>>

\* Faulty variant: the link is read and left for its lifetime to end.
GetOnly(link) == magic

GetDel(link) == magic \ {link}

\* The route consume: GETDEL, the profile, the automatic administrator, the tokens.
consume_magic_link(s) ==
  \/ \E link \in magic, token \in DOMAIN asked, b \in Browsers :
       /\ link.hash = hash_token(token, b)
       /\ Start(s, [Handler("consume", link.user, link.user, <<token, b>>) EXCEPT !.st = "in"])
       /\ magic' = GetDel(link)
       /\ UNCHANGED <<userVars, jwt, asked, signed, keys, cliVars, audit>>
  \/ At(s, "consume", "in") /\ Check(s, Live(h[s].u) /\ ~row[h[s].u].frozen)
  \/ /\ At(s, "consume", "do") /\ h[s].u \in AdminEmails
     /\ set_admin(h[s].u) /\ Go(s, "tokens")
     /\ UNCHANGED <<dels, signVars, keys, cliVars, audit>>
  \/ /\ At(s, "consume", "tokens") \/ (At(s, "consume", "do") /\ h[s].u \notin AdminEmails)
     /\ jwt' = jwt \cup {h[s].u} /\ signed' = Append(signed, h[s].k)
     /\ Go(s, "idle") /\ UNCHANGED <<userVars, magic, asked, keys, cliVars, audit>>

\* The frozen flag is the one the upsert returned.
google_callback(s) ==
  \/ \E u \in Users :
       /\ Start(s, [Handler("google_callback", u, u, 1) EXCEPT
                      !.st = IF row[u].frozen THEN "refused" ELSE "in"])
       /\ upsert_by_email(u) /\ UNCHANGED <<dels, signVars, keys, cliVars, audit>>
  \/ /\ At(s, "google_callback", "refused") /\ Go(s, "idle")
     /\ UNCHANGED <<userVars, signVars, keys, cliVars, audit>>
  \/ /\ At(s, "google_callback", "in")
     /\ row' = [row EXCEPT ![h[s].u].admin = @ \/ h[s].u \in AdminEmails]
     /\ jwt' = jwt \cup {h[s].u} /\ Go(s, "idle")
     /\ UNCHANGED <<dels, magic, asked, signed, keys, cliVars, audit>>

\* The device login reaches the end of its lifetime.  That tokens and links
\* do only takes steps away, so it is left out.
Expire ==
  /\ cli.st # "none" /\ ~cli.over
  /\ cli' = [NoSession EXCEPT !.over = TRUE]
  /\ UNCHANGED <<plan, h, ops, userVars, signVars, keys, shown, spent, minted, audit>>

(***************************************************************************)
(* Administration of users                                                 *)
(***************************************************************************)
freeze_user(s) ==
  \/ /\ At(s, "freeze_user", "in")
     /\ Check(s, Live(h[s].u) /\ h[s].u # h[s].by /\ ~row[h[s].u].admin)
  \/ /\ At(s, "freeze_user", "do")
     /\ set_frozen(h[s].u, TRUE) /\ Go(s, "audit")
     /\ UNCHANGED <<dels, signVars, keys, cliVars, audit>>

unfreeze_user(s) ==
  \/ At(s, "unfreeze_user", "in") /\ Check(s, Live(h[s].u))
  \/ /\ At(s, "unfreeze_user", "do")
     /\ set_frozen(h[s].u, FALSE) /\ Go(s, "audit")
     /\ UNCHANGED <<dels, signVars, keys, cliVars, audit>>

\* Faulty variant: the account is marked and its keys are left to expire.
keys_left(u) == keys

RevokedFor(u) ==
  [i \in DOMAIN keys |->
     [keys[i] EXCEPT !.revoked = @ \/ keys[i].user = u]]

\* One transaction: the mark and every key of the user.
soft_delete_user(u) ==
  /\ row' = [row EXCEPT ![u].deleted = TRUE]
  /\ keys' = RevokedFor(u)
  /\ dels' = [dels EXCEPT ![u] = @ + 1]

\* Logged before the account is deleted.
delete_user(s) ==
  \/ /\ At(s, "delete_user", "in")
     /\ Check(s, Live(h[s].u) /\ h[s].u # h[s].by /\ ~row[h[s].u].admin)
  \/ /\ At(s, "delete_user", "do")
     /\ log_audit(h[s].op, h[s].u) /\ Go(s, "delete")
     /\ UNCHANGED <<userVars, signVars, keys, cliVars>>
  \/ /\ At(s, "delete_user", "delete") /\ soft_delete_user(h[s].u)
     /\ Go(s, "idle")
     /\ UNCHANGED <<signVars, cliVars, audit>>

delete_account(s) ==
  \/ At(s, "delete_account", "in") /\ Check(s, Live(h[s].u))
  \/ /\ At(s, "delete_account", "do") /\ soft_delete_user(h[s].u) /\ Go(s, "idle")
     /\ UNCHANGED <<signVars, cliVars, audit>>

\* The token is made before the audit row and leaves with the answer after it.
impersonate_user(s) ==
  \/ /\ At(s, "impersonate_user", "in")
     /\ Check(s, Live(h[s].u) /\ ~row[h[s].u].admin /\ ~row[h[s].u].frozen)
  \/ /\ At(s, "impersonate_user", "do")
     /\ log_audit(h[s].op, h[s].u) /\ jwt' = jwt \cup {h[s].u} /\ Go(s, "idle")
     /\ UNCHANGED <<userVars, magic, asked, signed, keys, cliVars>>

(***************************************************************************)
(* Keys and scopes.  The owner's handlers end with the change; the         *)
(* administrator's go on to the audit row.                                 *)
(***************************************************************************)
mutable_owned_account(s) == ~row[h[s].u].frozen
owned_api_key(s) == keys[h[s].k].user = h[s].u
user_with_developer(s) == Live(h[s].u)

\* The administrator's handlers find the owner alive in a read of their own.
CheckAdmin(s, ok) ==
  /\ h' = [h EXCEPT ![s] = IF ok THEN [@ EXCEPT !.st = "do", !.seen = dels[h[s].u]] ELSE Idle]
  /\ UNCHANGED <<plan, ops, userVars, signVars, keys, cliVars, audit>>

KeyChange(s, new, next) ==
  /\ keys' = new /\ Go(s, next)
  /\ UNCHANGED <<userVars, signVars, cliVars, audit>>
issue_api_key_with_scopes(s, scopes) == Append(keys, Key(h[s].u, scopes, h[s].seen, TRUE))
revoke_api_key(k) == [keys EXCEPT ![k].revoked = TRUE]

create_key(s) ==
  \/ At(s, "create_key", "in") /\ Check(s, mutable_owned_account(s))
  \/ /\ At(s, "create_key", "do")
     /\ \E scopes \in {{}, {ControlScope}} :
          KeyChange(s, issue_api_key_with_scopes(s, scopes), "idle")

create_user_key(s) ==
  \/ /\ At(s, "create_user_key", "in")
     /\ CheckAdmin(s, user_with_developer(s) /\ ~row[h[s].u].frozen)
  \/ /\ At(s, "create_user_key", "do")
     /\ KeyChange(s, issue_api_key_with_scopes(s, {}), "audit")

revoke_key(s) ==
  \/ At(s, "revoke_key", "in") /\ Check(s, mutable_owned_account(s) /\ owned_api_key(s))
  \/ At(s, "revoke_key", "do") /\ KeyChange(s, revoke_api_key(h[s].k), "idle")

revoke_user_key(s) ==
  \/ At(s, "revoke_user_key", "in") /\ CheckAdmin(s, user_with_developer(s) /\ owned_api_key(s))
  \/ At(s, "revoke_user_key", "do") /\ KeyChange(s, revoke_api_key(h[s].k), "audit")

\* Revoke, then issue: a key without scopes, of the same owner and expiry.
rotate_api_key(s, op, last) ==
  \/ At(s, op, "do") /\ KeyChange(s, revoke_api_key(h[s].k), "issue")
  \/ At(s, op, "issue") /\ KeyChange(s, issue_api_key_with_scopes(s, {}), last)

rotate_key(s) ==
  \/ At(s, "rotate_key", "in") /\ Check(s, mutable_owned_account(s) /\ owned_api_key(s))
  \/ rotate_api_key(s, "rotate_key", "idle")

rotate_user_key(s) ==
  \/ /\ At(s, "rotate_user_key", "in")
     /\ CheckAdmin(s, user_with_developer(s) /\ owned_api_key(s) /\ ~row[h[s].u].frozen)
  \/ rotate_api_key(s, "rotate_user_key", "audit")

\* What validate_scope_request lets through is a Scope; the administrator's
\* handler makes bucket scopes only.
WithScope(k, scope) == [keys EXCEPT ![k].scopes = @ \cup {scope}]
WithoutScope(k, scope) == [keys EXCEPT ![k].scopes = @ \ {scope}]

create_scope(s) ==
  \/ At(s, "create_scope", "in") /\ Check(s, mutable_owned_account(s) /\ owned_api_key(s))
  \/ /\ At(s, "create_scope", "do")
     /\ \E scope \in {FullBucketScope, ControlScope} :
          KeyChange(s, WithScope(h[s].k, scope), "idle")

create_user_scope(s) ==
  \/ /\ At(s, "create_user_scope", "in")
     /\ CheckAdmin(s, user_with_developer(s) /\ owned_api_key(s) /\ ~row[h[s].u].frozen)
  \/ /\ At(s, "create_user_scope", "do")
     /\ KeyChange(s, WithScope(h[s].k, FullBucketScope), "audit")

delete_scope(s) ==
  \/ At(s, "delete_scope", "in") /\ Check(s, mutable_owned_account(s) /\ owned_api_key(s))
  \/ /\ At(s, "delete_scope", "do")
     /\ \E scope \in {FullBucketScope, ControlScope} :
          KeyChange(s, WithoutScope(h[s].k, scope), "idle")

delete_user_scope(s) ==
  \/ /\ At(s, "delete_user_scope", "in")
     /\ CheckAdmin(s, user_with_developer(s) /\ owned_api_key(s))
  \/ /\ At(s, "delete_user_scope", "do")
     /\ \E scope \in {FullBucketScope, ControlScope} :
          KeyChange(s, WithoutScope(h[s].k, scope), "audit")

KeyStep(s) ==
  \/ create_key(s) \/ create_user_key(s) \/ revoke_key(s) \/ revoke_user_key(s)
  \/ rotate_key(s) \/ rotate_user_key(s) \/ create_scope(s) \/ create_user_scope(s)
  \/ delete_scope(s) \/ delete_user_scope(s)

(***************************************************************************)
(* Device login of the command line                                        *)
(***************************************************************************)
PutSession(st, u, code) ==
  cli' = [st |-> st, user |-> u, code |-> code, over |-> cli.over]

cli_start(s) ==
  /\ "cli_start" \in plan /\ cli = NoSession /\ ops < MaxOps /\ ops' = ops + 1
  /\ PutSession("pending", NoUser, 0)
  /\ UNCHANGED <<plan, h, userVars, signVars, keys, shown, spent, minted, audit>>

\* The session is read, and written back with the user and the code's hash.
cli_authorize(s) ==
  \/ At(s, "cli_authorize", "in") /\ Check(s, cli.st = "pending" /\ ~cli.over)
  \/ /\ At(s, "cli_authorize", "do")
     /\ shown' = Append(shown, h[s].u)
     /\ PutSession("authorized", h[s].u, Len(shown'))
     /\ Go(s, "idle") /\ UNCHANGED <<userVars, signVars, keys, spent, minted, audit>>

\* Faulty variant: the owner is read again when the key is made.
KeyOwnerAtIssue(s) == IF cli.user \in Users THEN cli.user ELSE h[s].u

KeyOwnerAsRead(s) == h[s].u

RevealTo(u) == Live(u)

SessionDropped == [NoSession EXCEPT !.over = cli.over]

\* Checks of what one read returned, the key, the end of the session, the profile.
cli_exchange(s) ==
  \/ \E code \in DOMAIN shown :
       /\ cli.st = "authorized" /\ ~cli.over /\ cli.code = code
       /\ Start(s, [Handler("cli_exchange", cli.user, cli.user, code) EXCEPT
                      !.seen = IF code \in spent THEN 1 ELSE 0])
       /\ UNCHANGED <<userVars, signVars, keys, cliVars, audit>>
  \/ /\ At(s, "cli_exchange", "in")
     /\ LET owner == KeyOwnerAsRead(s)
        IN  /\ keys' = Append(keys, Key(owner, {FullBucketScope, ControlScope}, -1, FALSE))
            /\ minted' = minted \cup {[code |-> h[s].k, user |-> owner, again |-> h[s].seen = 1]}
            /\ h' = [h EXCEPT ![s] = [@ EXCEPT !.st = "drop", !.by = Len(keys'), !.u = owner]]
     /\ UNCHANGED <<plan, ops, userVars, signVars, cli, shown, spent, audit>>
  \/ /\ At(s, "cli_exchange", "drop")
     /\ cli' = SessionDropped /\ spent' = spent \cup {h[s].k} /\ Go(s, "answer")
     /\ UNCHANGED <<userVars, signVars, keys, shown, minted, audit>>
  \/ /\ At(s, "cli_exchange", "answer")
     /\ keys' = IF RevealTo(h[s].u)
                THEN [keys EXCEPT ![h[s].by].revealed = TRUE, ![h[s].by].seen = dels[h[s].u]]
                ELSE keys
     /\ Go(s, "idle") /\ UNCHANGED <<userVars, signVars, cliVars, audit>>

UserStep(s) ==
  \/ request_magic_link(s) \/ consume_magic_link(s) \/ google_callback(s)
  \/ freeze_user(s) \/ unfreeze_user(s) \/ delete_user(s) \/ delete_account(s)
  \/ impersonate_user(s)

Next ==
  \/ \E s \in Slots : \/ Enter(s) \/ UserStep(s) \/ KeyStep(s) \/ write_audit(s) \/ Die(s)
                      \/ cli_start(s) \/ cli_authorize(s) \/ cli_exchange(s)
  \/ Expire

Spec == Init /\ [][Next]_dashVars

(***************************************************************************)
(* Properties                                                              *)
(***************************************************************************)
\* A magic link signs in at most once, and only in the browser that asked for
\* it: GETDEL, and a hash over the token and the browser's session.
LinkOnce ==
  \A i, j \in DOMAIN signed :
    /\ asked[signed[i][1]] = signed[i][2]
    /\ signed[i][1] = signed[j][1] => i = j

\* No key somebody holds works across a deletion of its owner, and a key that
\* works while the owner is deleted was made by a handler that had found the
\* owner alive before the deletion: the revocation inside soft_delete_user, the
\* extractors, and the profile read that ends the device login.
DeletionCutsOff ==
  \A i \in DOMAIN keys :
    keys[i].revealed /\ KeyUsable(keys[i], Frozen, 0) =>
      /\ keys[i].born = dels[keys[i].user]
      /\ row[keys[i].user].deleted => keys[i].seen < dels[keys[i].user]

\* A device code makes keys for the user it was shown to and for nobody else,
\* and none once an exchange of it has ended, though exchanges under way at the
\* same time each make one: the session carries user and hash together and is
\* deleted after the key is made.
CodeIsOwners ==
  \A m \in minted : m.user = shown[m.code] /\ ~m.again
=============================================================================
