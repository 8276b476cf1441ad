---------------------------- MODULE ControlPlane ----------------------------
(***************************************************************************)
(* The dashboard's bucket registry beside the mesh                         *)
(* (routes/developer_buckets.rs, routes/admin.rs,                          *)
(* persistence/buckets_registry.rs), on top of the accounts of Dashboard.  *)
(* Every user may register one bucket of the same name.  The registry      *)
(* knows which buckets are archived, the mesh which are deleted; a list    *)
(* joins the two, read one after the other and the second from whichever   *)
(* edge answers.  An edge answers from its node; a tombstone spreads from  *)
(* node to node by gossip.                                                 *)
(***************************************************************************)
EXTENDS Dashboard

CONSTANT Edges   \* the public edges, tried in this order

ASSUME EdgesAssumption == Edges \in Seq(STRING) /\ Len(Edges) > 0

VARIABLES
  reg,      \* table developer_buckets: each user's row of the name
  tomb,     \* the tombstones each edge knows
  gone,     \* history: users whose own purge was answered with success
  late      \* history: users whose purged bucket a later list showed as active

regVars == <<reg, tomb, gone, late>>
cpVars == <<dashVars, regVars>>

Registered == [archived : BOOLEAN, evm : BOOLEAN, paused : BOOLEAN]
NoRow == [archived |-> FALSE]
NewRow == [archived |-> FALSE, evm |-> FALSE, paused |-> FALSE]
Statuses == {"active", "archived", "nuked", "all"}

CpInit ==
  /\ Init
  /\ reg = [u \in Users |-> IF "purge_bucket" \in plan THEN NewRow ELSE NoRow]
  /\ tomb = [e \in DOMAIN Edges |-> {}] /\ gone = {} /\ late = {}

KeepAccounts == UNCHANGED <<userVars, signVars, keys, cliVars>>
KeepAll == KeepAccounts /\ UNCHANGED <<audit, regVars>>

\* Authenticated handlers name their own row; the purge of an administrator any.
BucketHandlers ==
  {"create_bucket", "archive_bucket", "purge_bucket", "list_buckets", "enable_evm",
   "disable_evm", "pause_evm", "resume_evm"}
EnterBucket(s) ==
  /\ \E u \in Users :
       \/ \E op \in BucketHandlers \ {"list_buckets"} :
            Authenticated(u) /\ Start(s, Handler(op, u, u, 1))
       \/ \E f \in Statuses :
            /\ Authenticated(u)
            /\ Start(s, [op |-> "list_buckets", st |-> "in", by |-> u, u |-> u, k |-> f,
                         seen |-> u \in gone])
       \/ \E a \in Users : AdminUser(a) /\ Start(s, Handler("admin_purge_bucket", a, u, 1))
  /\ KeepAll

Finish(s, rows) == reg' = rows /\ Go(s, "idle") /\ KeepAccounts
                   /\ UNCHANGED <<audit, tomb, gone, late>>

\* ON CONFLICT DO NOTHING: a name once registered, archived or not, stays taken.
create_bucket(s) ==
  /\ At(s, "create_bucket", "in")
  /\ Finish(s, IF reg[h[s].u] = NoRow THEN [reg EXCEPT ![h[s].u] = NewRow] ELSE reg)

archive(u) == IF reg[u] = NoRow THEN reg ELSE [reg EXCEPT ![u].archived = TRUE]

archive_bucket(s) == At(s, "archive_bucket", "in") /\ Finish(s, archive(h[s].u))

\* The switches reach archived rows too.
set_evm(s) ==
  \E op \in {"enable_evm", "disable_evm", "pause_evm", "resume_evm"} :
    /\ At(s, op, "in")
    /\ Finish(s, IF reg[h[s].u] = NoRow THEN reg
                 ELSE [reg EXCEPT ![h[s].u] =
                         IF op \in {"enable_evm", "disable_evm"}
                         THEN [@ EXCEPT !.evm = op = "enable_evm"]
                         ELSE [@ EXCEPT !.paused = op = "pause_evm"]])

\* Faulty variant: the registry row is left as it is.
RowAfterPurge(u) == reg

RowArchived(u) == archive(u)

\* The row is looked up, the SDK deletes at an edge that answers, the row is
\* archived.  An error of the SDK may hide a delete that was applied.
purge_bucket(s) ==
  \/ /\ At(s, "purge_bucket", "in")
     /\ Go(s, IF reg[h[s].u] # NoRow /\ ~reg[h[s].u].archived THEN "do" ELSE "idle") /\ KeepAll
  \/ /\ At(s, "purge_bucket", "do")
     /\ \E e \in DOMAIN Edges, answered \in BOOLEAN :
          /\ tomb' = [tomb EXCEPT ![e] = @ \cup {h[s].u}]
          /\ Go(s, IF answered THEN "archive" ELSE "idle")
     /\ KeepAccounts /\ UNCHANGED <<audit, reg, gone, late>>
  \/ /\ At(s, "purge_bucket", "archive")
     /\ reg' = RowArchived(h[s].u) /\ gone' = gone \cup {h[s].u} /\ Go(s, "idle")
     /\ KeepAccounts /\ UNCHANGED <<audit, tomb, late>>

\* The edges in turn until one accepts; then the audit row.
admin_purge_bucket(s) ==
  \/ /\ At(s, "admin_purge_bucket", "in")
     /\ \E applied, accepted \in BOOLEAN :
          /\ accepted => applied
          /\ tomb' = IF applied THEN [tomb EXCEPT ![h[s].k] = @ \cup {h[s].u}] ELSE tomb
          /\ h' = [h EXCEPT ![s] = IF accepted THEN [h[s] EXCEPT !.st = "log"]
                                   ELSE IF h[s].k < Len(Edges) THEN [h[s] EXCEPT !.k = @ + 1]
                                   ELSE Idle]
     /\ KeepAccounts /\ UNCHANGED <<plan, ops, audit, reg, gone, late>>
  \/ /\ At(s, "admin_purge_bucket", "log")
     /\ log_audit(h[s].op, h[s].u) /\ Go(s, "idle")
     /\ KeepAccounts /\ UNCHANGED <<reg, tomb, gone, late>>

\* The SQL of a filter.
list(u, filter) ==
  /\ reg[u] # NoRow
  /\ CASE filter = "active" -> ~reg[u].archived
       [] filter = "all" -> TRUE
       [] OTHER -> reg[u].archived

StatusOf(archived, deleted) ==
  IF deleted THEN "nuked" ELSE IF archived THEN "archived" ELSE "active"

\* The registry first, then the tombstones of an edge; the status of the row
\* must be the one the filter asks for.
list_buckets(s) ==
  \/ /\ At(s, "list_buckets", "in")
     /\ h' = [h EXCEPT ![s] = IF list(h[s].u, h[s].k)
                              THEN [@ EXCEPT !.st = IF reg[h[s].u].archived
                                                    THEN "archived" ELSE "unarchived"]
                              ELSE Idle]
     /\ UNCHANGED <<plan, ops>> /\ KeepAll
  \/ \E e \in DOMAIN Edges, st \in {"archived", "unarchived"} :
       /\ At(s, "list_buckets", st)
       /\ LET status == StatusOf(st = "archived", h[s].u \in tomb[e])
          IN  late' = IF status = "active" /\ h[s].k \in {"all", "active"} /\ h[s].seen
                      THEN late \cup {h[s].u} ELSE late
       /\ Go(s, "idle") /\ KeepAccounts /\ UNCHANGED <<audit, reg, tomb, gone>>

\* Tombstones gossip between the nodes.
Gossip ==
  /\ \E e, f \in DOMAIN Edges :
       ~(tomb[e] \subseteq tomb[f]) /\ tomb' = [tomb EXCEPT ![f] = @ \cup tomb[e]]
  /\ KeepAccounts /\ UNCHANGED <<plan, h, ops, audit, reg, gone, late>>

BucketStep(s) ==
  \/ EnterBucket(s) \/ create_bucket(s) \/ archive_bucket(s) \/ set_evm(s)
  \/ purge_bucket(s) \/ admin_purge_bucket(s) \/ list_buckets(s)

CpNext ==
  \/ Next /\ UNCHANGED regVars
  \/ \E s \in Slots : BucketStep(s)
  \/ Gossip

CpSpec == CpInit /\ [][CpNext]_cpVars

\* A bucket its owner has purged is never listed as active by a request that
\* starts after the purge was answered, whichever edge the list comes from and
\* however far the tombstone has spread: the archived row hides it.
PurgedIsHidden == late = {}
=============================================================================
