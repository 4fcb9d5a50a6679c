----------------------------- MODULE MCPipeline -----------------------------
(***************************************************************************)
(* A client calls a server, the server calls a driver, and the driver      *)
(* signals the server, which also takes an interrupt: its word can hold    *)
(* two bits, the lowest and, for the channel with the driver, the highest. *)
(***************************************************************************)
EXTENDS PdRuntime, TLC

CONSTANTS client, server, driver

End(p, i, q, j, n, c) ==
  [pd |-> p, id |-> i, to |-> q, toId |-> j, notify |-> n, pp |-> c]

MCPrio == client :> 1 @@ server :> 2 @@ driver :> 3
MCEnds == { End(client, 1, server, 1, FALSE, TRUE),
            End(server, 1, client, 1, FALSE, FALSE),
            End(server, 61, driver, 1, FALSE, TRUE),
            End(driver, 1, server, 61, TRUE, FALSE) }
MCIrqs == { [pd |-> server, id |-> 0] }
MCParent == [p \in PD |-> Null]
=============================================================================
