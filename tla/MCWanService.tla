---------------------------- MODULE MCWanService ----------------------------
(* Small instances of WanService. disp is the signaling dispatcher, which    *)
(* handles one event per session at a time; ipc is a handler of local calls, *)
(* which also stands for the heartbeat. A grant always ends one tick before  *)
(* its session in the target's instance, so that both deadlines are met in   *)
(* every order.                                                              *)
EXTENDS WanService, TLC

CONSTANTS r1, r2, i1, n1, k1, disp, ipc, o1, o2, s1, s2

TheAccess == {[revision |-> 1, node |-> n1]}

TheGrant ==
    {[request |-> r1, expires |-> 1, policyExpires |-> 1,
      revision |-> 1, route |-> "RelayOnly"]}

TargetDuties ==
    (disp :> {"intent"}) @@ (ipc :> {"consent", "close", "expire"})

ControllerDuties == (disp :> {"grant"}) @@ (ipc :> {"start"})

(* The ids and the owned tasks of an instance can be exchanged. *)
Symmetries == Permutations(Ids) \cup Permutations(Owned)
=============================================================================
