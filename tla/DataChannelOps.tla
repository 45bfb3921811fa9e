-------------------------- MODULE DataChannelOps --------------------------
(***************************************************************************)
(* The methods of webrtc::DataChannel (talk/app/webrtc/datachannel.cc) for *)
(* an SCTP channel, as functions from the channel's fields to the channel's *)
(* fields.  A handler of the class runs to completion on the signaling     *)
(* thread, with calls nested several deep, so a handler is a composition   *)
(* of these operators and an action of the state machines is one handler.  *)
(*                                                                         *)
(* What provider_->SendData answers is a parameter of the operators: one   *)
(* of "success", "block" (the send buffer of the SCTP socket is full) and  *)
(* "error" (no data channel, no socket, unknown stream id).  The field     *)
(* "out" is the sequence of messages SendData accepted; "got" is the       *)
(* sequence of messages the observer was given.                            *)
(*                                                                         *)
(* Queues count messages where the code counts bytes: every message has    *)
(* size one, and the two limits of 16 MiB become MaxQueuedSendData and     *)
(* MaxQueuedReceivedData messages.                                         *)
(***************************************************************************)
EXTENDS Naturals, Sequences

CONSTANTS MaxQueuedSendData, MaxQueuedReceivedData

ASSUME QueueLimits == /\ MaxQueuedSendData \in Nat \ {0}
                      /\ MaxQueuedReceivedData \in Nat \ {0}

DataState == {"kConnecting", "kOpen", "kClosing", "kClosed"}

HandshakeState == {"kHandshakeShouldSendOpen", "kHandshakeShouldSendAck",
                   "kHandshakeWaitingForAck", "kHandshakeReady"}

OpenHandshakeRole == {"kOpener", "kAcker", "kNone"}

SendDataResult == {"success", "block", "error"}

(* A message handed to the transport.  id numbers the application's        *)
(* messages from 1 in the order Send was called, 0 is an OPEN or OPEN_ACK. *)
Message == [type : {"OPEN", "ACK", "DATA"}, ordered : BOOLEAN, id : Nat]

Channel ==
  [ state : DataState, handshake : HandshakeState,
    role : OpenHandshakeRole, ordered : BOOLEAN,
    connected : BOOLEAN, writable : BOOLEAN, observer : BOOLEAN,
    control : Nat,                \* length of queued_control_data_
    sendq : Seq(Nat),             \* queued_send_data_
    recvq : Seq(Nat),             \* queued_received_data_
    out : Seq(Message), got : Seq(Nat) ]

(* A mutant: Init() leaves a pre-negotiated channel in kHandshakeInit.     *)
NewChannelInInit(role, ordered) ==
  [ state |-> "kConnecting",
    handshake |-> CASE role = "kOpener" -> "kHandshakeShouldSendOpen"
                    [] role = "kAcker"  -> "kHandshakeShouldSendAck"
                    [] OTHER            -> "kHandshakeInit",
    role |-> role, ordered |-> ordered,
    connected |-> FALSE, writable |-> FALSE, observer |-> FALSE,
    control |-> 0, sendq |-> << >>, recvq |-> << >>,
    out |-> << >>, got |-> << >> ]

(* The fields after the constructor and the first half of Init().          *)
NewChannel(role, ordered) ==
  [ state |-> "kConnecting",
    handshake |-> CASE role = "kOpener" -> "kHandshakeShouldSendOpen"
                    [] role = "kAcker"  -> "kHandshakeShouldSendAck"
                    [] OTHER            -> "kHandshakeReady",
    role |-> role, ordered |-> ordered,
    connected |-> FALSE, writable |-> FALSE, observer |-> FALSE,
    control |-> 0, sendq |-> << >>, recvq |-> << >>,
    out |-> << >>, got |-> << >> ]

---------------------------------------------------------------------------
(* Closing.                                                                *)

(* A mutant: the control queue is not tested.                              *)
UpdateClosingEarly(c) ==
  IF c.sendq = << >>
  THEN [c EXCEPT !.connected = FALSE, !.state = "kClosed"]
  ELSE c

(* UpdateState() in kClosing: a channel leaves kClosing only when nothing  *)
(* is queued, and then disconnects from the provider.                      *)
UpdateClosing(c) ==
  IF c.sendq = << >> /\ c.control = 0
  THEN [c EXCEPT !.connected = FALSE, !.state = "kClosed"]
  ELSE c

(* A mutant: the queues are not looked at, though they may be empty.       *)
CloseOnlyMarks(c) ==
  IF c.state = "kClosed" THEN c ELSE [c EXCEPT !.state = "kClosing"]

(* Close(), and DoClose(), which differ only in the fields of RTP.         *)
Close(c) ==
  IF c.state = "kClosed" THEN c
                         ELSE UpdateClosing([c EXCEPT !.state = "kClosing"])

---------------------------------------------------------------------------
(* Control messages: OPEN by the opener, OPEN_ACK by the acker.            *)

ControlMessage(c, isOpenMessage) ==
  [ type |-> IF c.role = "kAcker" THEN "ACK" ELSE "OPEN",
    ordered |-> c.ordered \/ isOpenMessage, id |-> 0 ]

AfterControlSent(handshake) ==
  CASE handshake = "kHandshakeShouldSendAck"  -> "kHandshakeReady"
    [] handshake = "kHandshakeShouldSendOpen" -> "kHandshakeWaitingForAck"
    [] OTHER -> handshake

IsOpening(c) == c.handshake = "kHandshakeShouldSendOpen"

SendControlMessage(c, result) ==
  CASE result = "success" ->
         [c EXCEPT !.out = Append(@, ControlMessage(c, IsOpening(c))),
                   !.handshake = AfterControlSent(@)]
    [] result = "block" -> [c EXCEPT !.control = @ + 1]
    [] OTHER -> Close(c)

(* The loop over the swapped-out control queue: each copy of the message   *)
(* is sent for itself and goes out, is queued again or fails, so that all  *)
(* that counts is how many were accepted, how many blocked, and whether    *)
(* one failed before any had blocked.  The first failure closes the        *)
(* channel, which reaches kClosed if no copy is queued again yet and no    *)
(* data waits; the loop goes on, and later copies are still accepted or    *)
(* queued.  MCDataChannel compares this with the loop itself.              *)
SendQueuedControlMessages(c, accepted, blocked, failsFirst) ==
  LET sent == [i \in 1..accepted |-> ControlMessage(c, i = 1 /\ IsOpening(c))]
      d == [c EXCEPT !.out = @ \o sent,
                     !.control = IF failsFirst THEN 0 ELSE blocked,
                     !.handshake = IF accepted > 0 THEN AfterControlSent(@)
                                                   ELSE @]
  IN  IF accepted + blocked < c.control
      THEN [Close(d) EXCEPT !.control = blocked]
      ELSE d

---------------------------------------------------------------------------
(* Data messages.                                                          *)

(* A mutant: the handshake does not matter.                                *)
DataMessageUnordered(c, m) == [ type |-> "DATA", ordered |-> c.ordered, id |-> m ]

(* Unordered channels send ordered until the handshake is over.            *)
DataMessage(c, m) ==
  [ type |-> "DATA",
    ordered |-> c.ordered \/ c.handshake # "kHandshakeReady", id |-> m ]

(* QueueSendDataMessage(), and the Close() its two callers add when it     *)
(* refuses.                                                                *)
QueueSendDataMessage(c, m) ==
  IF Len(c.sendq) >= MaxQueuedSendData
  THEN Close(c)
  ELSE [c EXCEPT !.sendq = Append(@, m)]

(* A mutant: the queue is not tested.                                      *)
SendAtOnce(c, m, result) ==
  CASE result = "success" -> [c EXCEPT !.out = Append(@, DataMessage(c, m))]
    [] result = "block"   -> QueueSendDataMessage(c, m)
    [] OTHER              -> Close(c)

(* Send() after its test of the state: behind a non-empty queue a message  *)
(* waits its turn.                                                         *)
Send(c, m, result) ==
  IF c.sendq # << >> THEN QueueSendDataMessage(c, m)
  ELSE CASE result = "success" -> [c EXCEPT !.out = Append(@, DataMessage(c, m))]
         [] result = "block"   -> QueueSendDataMessage(c, m)
         [] OTHER              -> Close(c)

(* The loop over the send queue: "accepted" messages go out, and the loop  *)
(* ends at the end of the queue or at a message whose result is given.     *)
SendQueuedDataMessages(c, accepted, result) ==
  LET sent == [i \in 1..accepted |-> DataMessage(c, c.sendq[i])]
      d == [c EXCEPT !.out = @ \o sent,
                     !.sendq = SubSeq(@, accepted + 1, Len(@))]
  IN  IF d.sendq # << >> /\ result = "error" THEN Close(d) ELSE d

---------------------------------------------------------------------------
(* Receiving.                                                              *)

DeliverQueuedReceivedData(c) ==
  IF c.observer THEN [c EXCEPT !.got = @ \o c.recvq, !.recvq = << >>] ELSE c

(* A mutant: what was received before stays queued.                        *)
RegisterObserverOnly(c) == [c EXCEPT !.observer = TRUE]

RegisterObserver(c) ==
  DeliverQueuedReceivedData([c EXCEPT !.observer = TRUE])

UnregisterObserver(c) == [c EXCEPT !.observer = FALSE]

(* OnDataReceived() for a CONTROL message whose payload is an OPEN_ACK.    *)
OnOpenAckReceived(c) ==
  IF c.handshake = "kHandshakeWaitingForAck"
  THEN [c EXCEPT !.handshake = "kHandshakeReady"]
  ELSE c

(* OnDataReceived() for a DATA message.                                    *)
OnDataReceived(c, m) ==
  LET d == OnOpenAckReceived(c)
  IN  IF d.state = "kOpen" /\ d.observer THEN [d EXCEPT !.got = Append(@, m)]
      ELSE IF Len(d.recvq) + 1 > MaxQueuedReceivedData
           THEN Close([d EXCEPT !.recvq = << >>])
           ELSE [d EXCEPT !.recvq = Append(@, m)]

---------------------------------------------------------------------------
(* State updates.                                                          *)

MustSendControl(c) ==
  c.handshake \in {"kHandshakeShouldSendOpen", "kHandshakeShouldSendAck"}

UpdateConnecting(c, result) ==
  LET d == IF MustSendControl(c) THEN SendControlMessage(c, result) ELSE c
  IN  IF /\ d.writable
         /\ d.handshake \in {"kHandshakeReady", "kHandshakeWaitingForAck"}
      THEN DeliverQueuedReceivedData([d EXCEPT !.state = "kOpen"])
      ELSE d

(* Mutants: a closing channel is taken for one that still connects, or     *)
(* never looks at its queues again.                                        *)
UpdateStateReopens(c, result) ==
  IF c.connected /\ c.state # "kClosed" THEN UpdateConnecting(c, result) ELSE c

UpdateStateForgetsClosing(c, result) ==
  IF c.state = "kConnecting" /\ c.connected THEN UpdateConnecting(c, result)
                                            ELSE c

UpdateState(c, result) ==
  CASE c.state = "kConnecting" /\ c.connected -> UpdateConnecting(c, result)
    [] c.state = "kClosing" -> UpdateClosing(c)
    [] OTHER -> c

(* What the transport answers to the SendData calls of one OnChannelReady: *)
(* the control queue, the data queue, the control message of UpdateState.  *)
(* What nobody asks is answered in one way.                                *)
AsksUpdate(c) == c.state = "kConnecting" /\ MustSendControl(c)

Answers(c) ==
  { a \in [ control : 0..c.control, blocked : 0..c.control,
            failsFirst : BOOLEAN,
            data : 0..Len(c.sendq), stop : {"block", "error"},
            update : SendDataResult ] :
      /\ a.control + a.blocked <= c.control
      /\ a.failsFirst => a.control + a.blocked < c.control
      /\ a.blocked = 0 /\ a.control < c.control => a.failsFirst
      /\ a.data = Len(c.sendq) => a.stop = "block"
      /\ ~AsksUpdate(c) => a.update = "success" }

(* OnChannelReady(true).                                                   *)
OnChannelReady(c, a) ==
  UpdateState(
    SendQueuedDataMessages(
      SendQueuedControlMessages([c EXCEPT !.writable = TRUE],
                                a.control, a.blocked, a.failsFirst),
      a.data, a.stop),
    a.update)

(* OnChannelReady(false).                                                  *)
OnChannelNotReady(c) == [c EXCEPT !.writable = FALSE]

===========================================================================
