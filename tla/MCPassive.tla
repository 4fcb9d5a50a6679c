----------------------------- MODULE MCPassive ------------------------------
(* Two passive PDs, one of them the child of a PD that may fault.           *)
EXTENDS PassiveHandshake, TLC

CONSTANTS server, parent, worker

MCParent == server :> NoPD @@ parent :> NoPD @@ worker :> parent
WithMonitor == server :> 0 @@ parent :> 1 @@ worker :> 0
=============================================================================
