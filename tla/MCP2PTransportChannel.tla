----------------------- MODULE MCP2PTransportChannel -----------------------
(* TLC's instance of P2PTransportChannel: two connections on one network   *)
(* and one, of the lowest priority, on another.                            *)
EXTENDS P2PTransportChannel

CONSTANTS relay, direct, cellular, wifi, mobile

MCConnection == {relay, direct, cellular}
MCPriority == [c \in MCConnection |->
                 IF c = direct THEN 3 ELSE IF c = relay THEN 2 ELSE 1]
MCNetwork == [c \in MCConnection |-> IF c = cellular THEN mobile ELSE wifi]
============================================================================
