------------------------------ MODULE MCFamily ------------------------------
(* A parent handles the faults of its child, restarts it and stops it.  The *)
(* child takes an interrupt, calls the parent and is signalled by it.       *)
EXTENDS PdRuntime, TLC

CONSTANTS parent, child

End(p, i, q, j, n, c) ==
  [pd |-> p, id |-> i, to |-> q, toId |-> j, notify |-> n, pp |-> c]

MCPrio == parent :> 2 @@ child :> 1
MCEnds == { End(child, 1, parent, 1, FALSE, TRUE),
            End(parent, 1, child, 1, TRUE, FALSE) }
MCIrqs == { [pd |-> child, id |-> 0] }
MCParent == parent :> Null @@ child :> parent
=============================================================================
