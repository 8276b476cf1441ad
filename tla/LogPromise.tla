----------------------------- MODULE LogPromise -----------------------------
(* What the cluster promises about its logs, without gossip, acks, catch-up *)
(* or restarts: an event is issued once, a node stores only issued events,  *)
(* and what it has stored it loses only with a bucket that was deleted.     *)
EXTENDS Naturals

CONSTANTS
    Nodes,      \* the nodes of the cluster
    Buckets,    \* bucket names
    Keys,       \* origin keys (bucket, origin_node_id, origin_epoch, origin_seq)
    BucketOf(_),    \* the bucket of a key
    Deletes(_, _)   \* is this key a BucketDelete event for that bucket?

VARIABLES
    issued,     \* keys ever given to an event
    writes,     \* how many events were given a key
    stored      \* [Nodes -> keys in the node's database]

promiseVars == <<issued, writes, stored>>

Init ==
    /\ issued = {}
    /\ writes = 0
    /\ stored = [n \in Nodes |-> {}]

Deleted(b) == \E k \in issued : Deletes(k, b)

(* A key is issued once; a deleted bucket takes its allocator row with it   *)
(* and may be numbered from the start again.                                *)
Issue(k) ==
    /\ k \notin issued \/ Deleted(BucketOf(k))
    /\ issued' = issued \cup {k}
    /\ writes' = writes + 1
    /\ UNCHANGED stored

Store(n, S) ==
    /\ S \subseteq issued
    /\ stored' = [stored EXCEPT ![n] = @ \cup S]
    /\ UNCHANGED <<issued, writes>>

Erase(n, b) ==
    /\ stored' = [stored EXCEPT ![n] = {k \in @ : BucketOf(k) # b}]
    /\ \/ UNCHANGED <<issued, writes>>
       \/ \E k \in Keys \ issued : /\ Deletes(k, b)
                                  /\ issued' = issued \cup {k}
                                  /\ writes' = writes + 1
    /\ Deleted(b)'

Next ==
    \/ \E k \in Keys : Issue(k)
    \/ \E n \in Nodes : \E S \in SUBSET issued : Store(n, S)
    \/ \E n \in Nodes, b \in Buckets : Erase(n, b)

Spec == Init /\ [][Next]_promiseVars
=============================================================================
