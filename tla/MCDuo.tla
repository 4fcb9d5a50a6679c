------------------------------- MODULE MCDuo --------------------------------
(* A client that signals and calls a server; the server takes an interrupt  *)
(* and signals the client, so its notification word can hold two bits.      *)
EXTENDS PdRuntime, TLC

CONSTANTS client, server

End(p, i, q, j, n, c) ==
  [pd |-> p, id |-> i, to |-> q, toId |-> j, notify |-> n, pp |-> c]

MCPrio == client :> 1 @@ server :> 2
MCEnds == { End(client, 1, server, 2, TRUE, TRUE),
            End(server, 2, client, 1, TRUE, FALSE) }
MCIrqs == { [pd |-> server, id |-> 1] }
MCParent == [p \in PD |-> Null]
=============================================================================
