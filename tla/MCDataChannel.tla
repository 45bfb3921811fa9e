--------------------------- MODULE MCDataChannel ---------------------------
(***************************************************************************)
(* TLC's instance of DataChannel.  The loop over the control queue, which  *)
(* DataChannelOps states by what it counts, is compared with the loop as   *)
(* the code has it: one SendControlMessage after the other, each with its  *)
(* own result, from an empty queue.                                        *)
(***************************************************************************)
EXTENDS DataChannel
LOCAL INSTANCE FiniteSets
LOCAL INSTANCE SequencesExt

ControlLoop(c, results) ==
  FoldLeft(SendControlMessage, [c EXCEPT !.control = 0], results)

(* Channels that hold n control messages.                                  *)
Holding(n) ==
  { [NewChannel(role, FALSE) EXCEPT
       !.state = state, !.handshake = handshake, !.sendq = sendq,
       !.connected = state # "kClosed", !.control = n] :
    role \in OpenHandshakeRole, state \in DataState,
    handshake \in HandshakeState, sendq \in {<< >>, << 1 >>} }

Count(results, r) == Cardinality({i \in DOMAIN results : results[i] = r})

FailsFirst(results) ==
  \E i \in DOMAIN results :
    results[i] = "error" /\ \A j \in 1..i : results[j] # "block"

ASSUME LoopIsCounted ==
  \A n \in 0..4 : \A c \in Holding(n), results \in [1..n -> SendDataResult] :
    ControlLoop(c, results) =
      SendQueuedControlMessages(c, Count(results, "success"),
                                Count(results, "block"), FailsFirst(results))

===========================================================================
