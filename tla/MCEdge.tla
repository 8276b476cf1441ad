------------------------------- MODULE MCEdge -------------------------------
(* Instances of the edge gateway for TLC.                                  *)
EXTENDS EvmRpc, TLC

CONSTANTS u1, u2, k1, k2, b, z1, z2, none, nobody, n1, n2, r1, r2, a1, a2

Billing == (u1 :> z1) @@ (u2 :> z2)
Owners == (k1 :> u1) @@ (k2 :> u2)
ReadScope == [FullBucketScope EXCEPT !.can_write = FALSE]
KeyScopesAtFirst == (k1 :> {FullBucketScope, ControlScope}) @@ (k2 :> {ReadScope})
SeedCredits == (u1 :> 3) @@ (u2 :> 0)
SamePrefixes == {<<x, x>> : x \in Names}
SlotSymmetry == Permutations(Requests)

Transfer(value, nonce, chain) ==
  [from |-> a1, to |-> a2, value |-> value, nonce |-> nonce, chain |-> chain]
SomeTxs == {Transfer(1, 0, 7), Transfer(2, 0, 7), Transfer(1, 1, 7), Transfer(1, 0, 8)}
Deposits == (a1 :> 2) @@ (a2 :> 0)
=============================================================================
