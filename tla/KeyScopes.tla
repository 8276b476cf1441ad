----------------------------- MODULE KeyScopes -----------------------------
(***************************************************************************)
(* What an API key may do: the decision of the dashboard's introspection   *)
(* (apps/dashboard/src/application/use_cases/developer_auth.rs and         *)
(* adapters/http/routes/machine.rs) as operators on a key's row, its       *)
(* owner and its scopes.  Gateway and ControlPlane build on it.            *)
(*                                                                         *)
(* Bucket names are values of a set; which name is a prefix of which is    *)
(* the relation PrefixPairs.  Hashes and the raw key text stand for the    *)
(* key itself.                                                             *)
(***************************************************************************)
EXTENDS Integers, FiniteSets

CONSTANTS
  Users, Keys,
  Names,        \* bucket names, and prefixes of them
  PrefixPairs,  \* <<p, b>>: the name b starts with p
  NoValue, NoUser

ASSUME NamesAssumption ==
  /\ PrefixPairs \subseteq Names \X Names
  /\ \A b \in Names : <<b, b>> \in PrefixPairs
  /\ NoValue \notin Names /\ NoUser \notin Users

Never == -1                       \* an instant that is not set
Instants == Nat \cup {Never}
DataActions == {"Read", "Write"}
ControlActions == {"ReadOwnAccount", "WriteOwnAccount"}
MachineAction == DataActions \cup ControlActions

\* The bucket of a control-plane request is "*" on the wire.
AllBuckets == NoValue

Scope == [resource : {"Bucket", "Control"}, match : {"All", "Exact", "Prefix"},
          value : Names \cup {NoValue}, can_read : BOOLEAN, can_write : BOOLEAN]
KeyRow == [user : Users, revoked : BOOLEAN, expires : Instants]

\* The scopes the dashboard hands out by default.
FullBucketScope == [resource |-> "Bucket", match |-> "All", value |-> NoValue,
                    can_read |-> TRUE, can_write |-> TRUE]
ControlScope == [FullBucketScope EXCEPT !.resource = "Control"]

Granted(scope, action) ==
  IF action \in {"Read", "ReadOwnAccount"} THEN scope.can_read ELSE scope.can_write

MatchesBucket(scope, bucket) ==
  \/ scope.match = "All"
  \/ scope.match = "Exact" /\ scope.value = bucket
  \/ scope.match = "Prefix" /\ <<scope.value, bucket>> \in PrefixPairs

scope_allows(scope, action, bucket) ==
  /\ Granted(scope, action)
  /\ IF action \in ControlActions
     THEN scope.resource = "Control" /\ scope.match = "All" /\ scope.value = NoValue
     ELSE scope.resource = "Bucket" /\ MatchesBucket(scope, bucket)

\* The first query of introspect: the key, its owner, the reasons to refuse it
\* before the scopes are read.
KeyUsable(row, frozen, now) ==
  /\ row.user \notin frozen
  /\ ~row.revoked
  /\ row.expires = Never \/ row.expires > now

ScopesAllow(set, action, bucket) == \E s \in set : scope_allows(s, action, bucket)

introspect(row, set, frozen, now, action, bucket) ==
  KeyUsable(row, frozen, now) /\ ScopesAllow(set, action, bucket)
=============================================================================
