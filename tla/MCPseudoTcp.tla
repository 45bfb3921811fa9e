---------------------------- MODULE MCPseudoTcp ----------------------------
(* TLC's instance of PseudoTcp: the client connects, and the server sends  *)
(* more bytes than the client's buffer takes; either may close at any      *)
(* time.  The client has only its connect message to send, so every ack of *)
(* its is a packet of its own and may count as a duplicate.                *)
EXTENDS PseudoTcp

CONSTANTS client, server

MCEnd == {client, server}
MCClient == {client}
MCServer == {server}
MCWindows == {3}
MCMaxData == [e \in MCEnd |-> IF e = client THEN 0 ELSE 4]

(* Enough for the counterexample of RightData.                             *)
MCMaxDataShort == [e \in MCEnd |-> IF e = client THEN 0 ELSE 3]
============================================================================
