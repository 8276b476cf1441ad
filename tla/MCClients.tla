----------------------------- MODULE MCClients ------------------------------
(* Instance of what clients run: the client of the mesh and the SDK. A      *)
(* behaviour looks at one of them; the other has nothing to do.             *)
EXTENDS MeshClient, Sdk

clientVars == <<meshVars, sdkVars>>

Mesh(ttl, nodes, restarts, calls, losses, health) ==
    [ttl |-> ttl, nodes |-> nodes, restarts |-> restarts, calls |-> calls, losses |-> losses,
     answers |-> health]
McMeshes == {Mesh(0, {}, 0, 0, 0, {}),
             Mesh(1, {"p"}, 1, 1, 2, {"ready", "unready", "retryable", "error"}),
             Mesh(0, {"p", "q"}, 0, 1, 0, {"ready", "retryable"})}

Plan(lang, apps, edges, states) ==
    [lang |-> lang, apps |-> apps, edges |-> edges, states |-> {"ready"} \cup states]
Pair == {"t1", "t2"}
McPlans == {Plan("none", {}, {}, {}),
            Plan("rust", Pair, {"x", "y"}, {"failing", "bad"}),
            Plan("rust", {"t1"}, {"x", "y", "z"}, {"failing", "garbled"}),
            Plan("typescript", Pair, {"x", "y"}, {"failing", "garbled"}),
            Plan("python", Pair, {"x", "y"}, {"failing"}),
            Plan("kotlin", {"t1"}, {"x", "y"}, {"failing", "bad", "garbled"}),
            Plan("proxy", Pair, {"x", "y"}, {"failing", "bad", "garbled"})}

InitClients ==
    /\ InitMesh
    /\ InitSdk
    /\ mesh_left.nodes = {} <=> plan.apps # {}

ClientsNext ==
    \/ /\ mesh_left.nodes # {} /\ MeshNext
       /\ UNCHANGED sdkVars
    \/ /\ plan.apps # {} /\ SdkNext
       /\ UNCHANGED meshVars

ClientsSpec == InitClients /\ [][ClientsNext]_clientVars /\ MeshFairness /\ SdkFairness
=============================================================================
