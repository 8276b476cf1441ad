----------------------------- MODULE MCCluster ------------------------------
(* Instance of what surrounds the log of a node: replication between nodes, *)
(* the registry of peers and the storage backends. A behaviour looks at one *)
(* of them; the others have nothing to do.                                  *)
EXTENDS Replication, Stores

CONSTANTS n1, n2, n3

VARIABLE focus

clusterVars == <<repVars, regVars, storeBackends, focus>>

Budget(nodes, min_acks, events, deletes, crashes, cuts) ==
    [nodes |-> nodes, min_acks |-> min_acks, events |-> events, deletes |-> deletes,
     crashes |-> crashes, cuts |-> cuts]
McBudgets == {Budget({}, {}, 0, 0, 0, 0),
              Budget({n1, n2}, {0, 1}, 2, 0, 0, 1),
              Budget({n1, n2}, {0, 1}, 2, 0, 1, 0),
              Budget({n1, n2}, {0, 2}, 1, 1, 1, 0),
              Budget({n1, n2, n3}, {1}, 1, 0, 0, 0),
              Budget({n1, n2, n3}, {2}, 1, 0, 1, 0)}

Row(id, bucket, seq, account, amount, rank) ==
    [id |-> id, bucket |-> bucket, order |-> IF bucket = "meta" THEN 2 ELSE 1, origin |-> "n",
     epoch |-> 1, seq |-> seq, at |-> seq, kind |-> "standard", account |-> account,
     amount |-> amount, nonce |-> amount, rank |-> rank, hold |-> 0, until |-> 0, ref |-> "none"]
McCatalogue == {Row("i1", "data", 1, "a", 5, 1),
                [Row("i2", "data", 2, "b", -2, 2) EXCEPT !.hold = 1, !.until = 2],
                [Row("i3", "data", 2, "a", 0, 3) EXCEPT !.kind = "hold_release", !.ref = "i1"],
                Row("i4", "meta", 1, "data", 0, 4)}
McFilters == {<<>>, [account |-> "a"], [since |-> 2]}

InitCluster ==
    /\ focus \in {"replication", "registry", "stores"}
    /\ InitReplication /\ (left.nodes # {} <=> focus = "replication")
    /\ InitRegistry
    /\ InitStores

ClusterNext ==
    \/ /\ focus = "replication" /\ ReplicationNext
       /\ UNCHANGED <<regVars, storeBackends, focus>>
    \/ /\ focus = "registry" /\ RegistryNext
       /\ UNCHANGED <<repVars, storeBackends, focus>>
    \/ /\ focus = "stores" /\ StoresNext
       /\ UNCHANGED <<repVars, regVars, focus>>

ClusterSpec == InitCluster /\ [][ClusterNext]_clusterVars /\ Fairness
=============================================================================
