-------------------------- MODULE DataChannel_proof --------------------------
(***************************************************************************)
(* Proofs about DataChannel, for any limits of the two queues and any      *)
(* number of messages.  A handler is a composition of the operators of     *)
(* DataChannelOps, so each operator gets one lemma: it takes a channel     *)
(* that is well formed to one that is, in a state that is not earlier.     *)
(***************************************************************************)
EXTENDS DataChannel, SequenceLemmas, TLAPS

(* The type of a channel and, for one channel, QueuesMatchState but for    *)
(* what holds of a closing channel only between handlers.                  *)
WellFormed(c) ==
  /\ c \in Channel
  /\ c.sendq # << >> => c.state \in {"kOpen", "kClosing"}
  /\ c.state = "kClosed" => c.sendq = << >> /\ ~c.connected
  /\ c.state = "kOpen" =>
       /\ c.handshake \in {"kHandshakeReady", "kHandshakeWaitingForAck"}
       /\ c.connected

Settled(c) == c.state = "kClosing" => c.sendq # << >> \/ c.control > 0

(* The steps of a handler but the control message of UpdateConnecting add  *)
(* nothing to the control queue, which makes Later transitive.             *)
Onward(c, d) == Later(c, d) /\ d.control <= c.control

Keeps(c, d) == WellFormed(d) /\ Onward(c, d)

LEMMA ChannelFields ==
  ASSUME NEW c, WellFormed(c)
  PROVE  /\ c \in Channel /\ c.control \in Nat /\ c.out \in Seq(Message)
         /\ Len(c.out) \in Nat /\ c.state \in DataState
BY DEF WellFormed, Channel

LEMMA LaterTransitive ==
  ASSUME NEW c, NEW d, NEW e, WellFormed(c), WellFormed(d), WellFormed(e),
         Onward(c, d), Later(d, e)
  PROVE  Later(c, e)
<1>1. /\ c.control \in Nat /\ d.control \in Nat /\ e.control \in Nat
      /\ Len(c.out) \in Nat /\ Len(d.out) \in Nat /\ Len(e.out) \in Nat
      /\ {c.state, d.state, e.state} \subseteq DataState
  BY ChannelFields
<1>2. CASE c.state = "kClosed"
  <2>1. d.state = "kClosed" /\ DataOut(d) = DataOut(c) /\ d.control <= c.control
        /\ Len(d.out) + d.control <= Len(c.out) + c.control
    BY <1>2 DEF Onward, Later
  <2>2. e.state = "kClosed" /\ DataOut(e) = DataOut(d) /\ e.control <= d.control
        /\ Len(e.out) + e.control <= Len(d.out) + d.control
    BY <2>1 DEF Later
  <2>3. /\ e.control <= c.control
        /\ Len(e.out) + e.control <= Len(c.out) + c.control
    BY <1>1, <2>1, <2>2
  <2> QED BY <1>2, <2>1, <2>2, <2>3 DEF Later
<1>3. CASE c.state # "kClosed"
  <2>1. /\ c.state = "kOpen" => e.state # "kConnecting"
        /\ c.state = "kClosing" => e.state \in {"kClosing", "kClosed"}
    BY <1>1 DEF Onward, Later, DataState
  <2>2. ASSUME e.state = "kClosed" PROVE e.control = 0 \/ e.control < c.control
    <3>1. CASE d.state = "kClosed"
      <4>1. (d.control = 0 \/ d.control < c.control) /\ e.control <= d.control
        BY <1>3, <3>1 DEF Onward, Later
      <4> QED BY <1>1, <4>1
    <3>2. CASE d.state # "kClosed"
      <4>1. (e.control = 0 \/ e.control < d.control) /\ d.control <= c.control
        BY <2>2, <3>2 DEF Onward, Later
      <4> QED BY <1>1, <4>1
    <3> QED BY <3>1, <3>2
  <2> QED BY <1>3, <2>1, <2>2 DEF Later
<1> QED BY <1>2, <1>3

LEMMA OnwardTransitive ==
  ASSUME NEW c, NEW d, NEW e, WellFormed(c), WellFormed(d), WellFormed(e),
         Onward(c, d), Onward(d, e)
  PROVE  Onward(c, e)
<1>1. c.control \in Nat /\ d.control \in Nat /\ e.control \in Nat
  BY ChannelFields
<1> QED BY <1>1, LaterTransitive DEF Onward

(* A step within one state that takes nothing from a closed channel.       *)
LEMMA SameStateIsOnward ==
  ASSUME NEW c, NEW d, WellFormed(c), WellFormed(d),
         d.state = c.state, d.control = c.control,
         c.state = "kClosed" => d.out = c.out
  PROVE  Onward(c, d)
<1>1. c.control \in Nat /\ Len(c.out) \in Nat
  BY ChannelFields
<1> QED BY <1>1 DEF Onward, Later, DataOut

LEMMA OnwardReflexive == ASSUME NEW c, WellFormed(c) PROVE Keeps(c, c)
BY SameStateIsOnward DEF Keeps

LEMMA UpdateClosingKeeps ==
  ASSUME NEW c, WellFormed(c), c.state = "kClosing"
  PROVE  Keeps(c, UpdateClosing(c)) /\ Settled(UpdateClosing(c))
<1> DEFINE d == [c EXCEPT !.connected = FALSE, !.state = "kClosed"]
<1>1. c.control \in Nat /\ c \in Channel
  BY ChannelFields
<1>2. CASE c.sendq = << >> /\ c.control = 0
  <2>1. WellFormed(d) /\ d.control = 0 /\ d.state = "kClosed"
    BY <1>1, <1>2 DEF WellFormed, Channel, DataState
  <2>2. UpdateClosing(c) = d
    BY <1>2 DEF UpdateClosing
  <2> HIDE DEF d
  <2> QED BY <1>1, <2>1, <2>2 DEF Keeps, Onward, Later, Settled
<1>3. CASE ~(c.sendq = << >> /\ c.control = 0)
  <2>1. UpdateClosing(c) = c
    BY <1>3 DEF UpdateClosing
  <2> QED BY <1>1, <1>3, <2>1, OnwardReflexive DEF Settled
<1> QED BY <1>2, <1>3

LEMMA CloseKeeps ==
  ASSUME NEW c, WellFormed(c)
  PROVE  /\ Keeps(c, Close(c)) /\ Settled(Close(c))
         /\ Close(c).state \in {"kClosing", "kClosed"}
         /\ Close(c).out = c.out
<1> DEFINE d == [c EXCEPT !.state = "kClosing"]
<1>1. CASE c.state = "kClosed"
  BY <1>1, OnwardReflexive DEF Close, Settled
<1>2. CASE c.state # "kClosed"
  <2>0. c.control \in Nat
    BY ChannelFields
  <2>1. WellFormed(d) /\ d.state = "kClosing" /\ d.control = c.control /\ d.out = c.out
    BY <1>2 DEF WellFormed, Channel, DataState
  <2>2. Close(c) = UpdateClosing(d)
    BY <1>2 DEF Close
  <2> HIDE DEF d
  <2>3. Onward(c, d)
    BY <1>2, <2>0, <2>1 DEF Onward, Later
  <2>4. Keeps(d, UpdateClosing(d)) /\ Settled(UpdateClosing(d))
    BY <2>1, UpdateClosingKeeps
  <2>5. UpdateClosing(d).state \in {"kClosing", "kClosed"} /\ UpdateClosing(d).out = d.out
    BY <2>1 DEF UpdateClosing, WellFormed, Channel
  <2> QED BY <2>1, <2>2, <2>3, <2>4, <2>5, OnwardTransitive DEF Keeps
<1> QED BY <1>1, <1>2

LEMMA ControlMessageType ==
  ASSUME NEW c \in Channel, NEW open \in BOOLEAN
  PROVE  ControlMessage(c, open) \in Message
BY DEF ControlMessage, Message, Channel

LEMMA DataMessageType ==
  ASSUME NEW c \in Channel, NEW m \in Nat
  PROVE  DataMessage(c, m) \in Message
BY DEF DataMessage, Message, Channel

LEMMA HandshakeGoesOn ==
  ASSUME NEW h \in HandshakeState
  PROVE  /\ AfterControlSent(h) \in {"kHandshakeReady", "kHandshakeWaitingForAck"}
         /\ h \in {"kHandshakeReady", "kHandshakeWaitingForAck"} =>
              AfterControlSent(h) = h
BY DEF AfterControlSent, HandshakeState

---------------------------------------------------------------------------
(* Batches of messages.                                                    *)

LEMMA AppendType ==
  ASSUME NEW S, NEW s \in Seq(S), NEW e \in S
  PROVE  Append(s, e) \in Seq(S)
OBVIOUS

LEMMA ConcatType ==
  ASSUME NEW S, NEW s \in Seq(S), NEW n \in Nat, NEW f, f \in [1..n -> S]
  PROVE  /\ s \o f \in Seq(S)
         /\ n = 0 => s \o f = s
<1>1. f \in Seq(S) /\ Len(f) = n
  OBVIOUS
<1>2. s \o f \in Seq(S)
  BY <1>1
<1>3. ASSUME n = 0 PROVE s \o f = s
  <2>1. f = << >>
    BY <1>1, <1>3
  <2> QED BY <2>1
<1> QED BY <1>2, <1>3

LEMMA Joined ==
  ASSUME NEW S, NEW s \in Seq(S), NEW m \in Nat, NEW f, f \in [1..m -> S]
  PROVE  /\ s \o f \in Seq(S) /\ Len(s \o f) = Len(s) + m /\ Len(s) \in Nat
         /\ \A i \in 1..Len(s) : i \in 1..Len(s \o f) /\ (s \o f)[i] = s[i]
         /\ \A i \in 1..m : Len(s) + i \in 1..Len(s \o f) /\ (s \o f)[Len(s) + i] = f[i]
         /\ \A i \in 1..Len(s \o f) : i \notin 1..Len(s) =>
              i - Len(s) \in 1..m /\ (s \o f)[i] = f[i - Len(s)]
<1>1. f \in Seq(S) /\ Len(f) = m /\ Len(s) \in Nat
  OBVIOUS
<1>0. PICK t : t = s \o f
  OBVIOUS
<1>2. /\ t \in Seq(S) /\ Len(t) = Len(s) + m
      /\ \A i \in 1..(Len(s) + m) : t[i] = IF i <= Len(s) THEN s[i] ELSE f[i - Len(s)]
  BY <1>0, <1>1, ConcatProperties
<1>3. \A i \in 1..Len(s) : i \in 1..Len(t) /\ t[i] = s[i]
  BY <1>1, <1>2
<1>4. \A i \in 1..m : Len(s) + i \in 1..Len(t) /\ t[Len(s) + i] = f[i]
  <2> TAKE i \in 1..m
  <2>1. Len(s) + i \in 1..(Len(s) + m) /\ ~(Len(s) + i <= Len(s)) /\ Len(s) + i - Len(s) = i
    BY <1>1
  <2> QED BY <1>2, <2>1
<1>5. ASSUME NEW i \in 1..Len(t), i \notin 1..Len(s)
      PROVE  i - Len(s) \in 1..m /\ t[i] = f[i - Len(s)]
  <2>1. i \in 1..(Len(s) + m) /\ ~(i <= Len(s)) /\ i - Len(s) \in 1..m
    BY <1>1, <1>2, <1>5
  <2> QED BY <1>2, <2>1
<1> QED BY <1>0, <1>1, <1>2, <1>3, <1>4, <1>5

LEMMA RestType ==
  ASSUME NEW S, NEW s \in Seq(S), NEW n \in 0..Len(s)
  PROVE  /\ SubSeq(s, n + 1, Len(s)) \in Seq(S)
         /\ s = << >> => SubSeq(s, n + 1, Len(s)) = << >>
<1>1. Len(s) \in Nat /\ n \in Nat /\ n + 1 \in Nat
  OBVIOUS
<1>2. SubSeq(s, n + 1, Len(s)) \in Seq(S)
  BY <1>1
<1>3. ASSUME s = << >> PROVE SubSeq(s, n + 1, Len(s)) = << >>
  <2>1. Len(s) = 0 /\ n = 0
    BY <1>3
  <2> QED BY <1>1, <1>2, <1>3, <2>1
<1> QED BY <1>2, <1>3

---------------------------------------------------------------------------
(* The operators, in the order of DataChannelOps.                          *)

LEMMA SendControlMessageKeeps ==
  ASSUME NEW c, WellFormed(c), c.state = "kConnecting",
         NEW result \in SendDataResult
  PROVE  LET d == SendControlMessage(c, result)
         IN  /\ WellFormed(d) /\ Later(c, d) /\ Settled(d)
             /\ \/ d.state = "kConnecting" /\ d.connected = c.connected
                \/ d.handshake = c.handshake
<1> DEFINE e == SendControlMessage(c, result)
<1>1. c \in Channel /\ c.control \in Nat /\ c.out \in Seq(Message)
  BY ChannelFields
<1>2. CASE result = "success"
  <2> DEFINE longer == Append(c.out, ControlMessage(c, IsOpening(c)))
             h == AfterControlSent(c.handshake)
             d == [c EXCEPT !.out = longer, !.handshake = h]
  <2>1. e = d
    BY <1>2 DEF SendControlMessage
  <2>2. longer \in Seq(Message)
    <3>1. IsOpening(c) \in BOOLEAN
      BY DEF IsOpening
    <3>2. ControlMessage(c, IsOpening(c)) \in Message
      BY <1>1, <3>1, ControlMessageType
    <3> QED BY <1>1, <3>2, AppendType
  <2>3. h \in HandshakeState
    BY <1>1, HandshakeGoesOn DEF Channel, HandshakeState
  <2> HIDE DEF longer, h
  <2>4. /\ WellFormed(d) /\ d.state = "kConnecting" /\ d.connected = c.connected
    BY <1>1, <2>2, <2>3 DEF WellFormed, Channel
  <2> HIDE DEF d, e
  <2> QED BY <2>1, <2>4 DEF Later, Settled, e
<1>3. CASE result = "block"
  <2> DEFINE more == c.control + 1
             d == [c EXCEPT !.control = more]
  <2>1. e = d
    BY <1>3 DEF SendControlMessage
  <2>2. more \in Nat
    BY <1>1
  <2> HIDE DEF more
  <2>3. WellFormed(d) /\ d.state = "kConnecting" /\ d.connected = c.connected
    BY <1>1, <2>2 DEF WellFormed, Channel
  <2> HIDE DEF d, e
  <2> QED BY <2>1, <2>3 DEF Later, Settled, e
<1>4. CASE result = "error"
  <2>1. e = Close(c)
    BY <1>4 DEF SendControlMessage
  <2>2. Close(c).handshake = c.handshake
    BY <1>1 DEF Close, UpdateClosing, Channel
  <2> HIDE DEF e
  <2> QED BY <2>1, <2>2, CloseKeeps DEF Keeps, Onward, e
<1> QED BY <1>2, <1>3, <1>4 DEF SendDataResult

LEMMA ControlIsNoData ==
  ASSUME NEW c \in Channel, NEW open \in BOOLEAN
  PROVE  /\ ~IsData(ControlMessage(c, open))
         /\ c.role = "kAcker" => ControlMessage(c, open).type = "ACK"
         /\ c.role # "kAcker" => ControlMessage(c, open).type = "OPEN"
         /\ open => ControlMessage(c, open).ordered
BY DEF ControlMessage, IsData, Channel

LEMMA NoDataAdded ==
  ASSUME NEW s \in Seq(Message), NEW m \in Nat, NEW f, f \in [1..m -> Message],
         \A i \in 1..m : ~IsData(f[i])
  PROVE  /\ {i \in DOMAIN (s \o f) : IsData((s \o f)[i])} = {i \in DOMAIN s : IsData(s[i])}
         /\ Len(s \o f) = Len(s) + m
<1>1. PICK t : t = s \o f
  OBVIOUS
<1>2. /\ t \in Seq(Message) /\ Len(t) = Len(s) + m /\ Len(s) \in Nat
      /\ \A i \in 1..Len(s) : i \in 1..Len(t) /\ t[i] = s[i]
      /\ \A i \in 1..Len(t) : i \notin 1..Len(s) =>
           i - Len(s) \in 1..m /\ t[i] = f[i - Len(s)]
  BY <1>1, Joined
<1>3. DOMAIN t = 1..Len(t) /\ DOMAIN s = 1..Len(s)
  BY <1>2
<1>4. \A i \in 1..Len(t) : IsData(t[i]) => i \in 1..Len(s) /\ IsData(s[i])
  BY <1>2
<1>5. \A i \in 1..Len(s) : IsData(s[i]) => i \in 1..Len(t) /\ IsData(t[i])
  BY <1>2
<1>6. {i \in DOMAIN t : IsData(t[i])} = {i \in DOMAIN s : IsData(s[i])}
  BY <1>3, <1>4, <1>5
<1> QED BY <1>1, <1>2, <1>6

(* The loop over the control queue: the channel that has sent, and the one *)
(* that is closed besides with some messages queued again.                 *)
LEMMA SendQueuedControlMessagesKeeps ==
  ASSUME NEW c, WellFormed(c), NEW taken \in Nat, NEW blocked \in Nat,
         NEW failsFirst \in BOOLEAN, taken + blocked <= c.control,
         failsFirst => taken + blocked < c.control
  PROVE  Keeps(c, SendQueuedControlMessages(c, taken, blocked, failsFirst))
<1> DEFINE sent == [i \in 1..taken |-> ControlMessage(c, i = 1 /\ IsOpening(c))]
           h == IF taken > 0 THEN AfterControlSent(c.handshake) ELSE c.handshake
           longer == c.out \o sent
           left == IF failsFirst THEN 0 ELSE blocked
           d == [c EXCEPT !.out = longer, !.control = left, !.handshake = h]
           e == [Close(d) EXCEPT !.control = blocked]
<1>1. /\ c \in Channel /\ c.control \in Nat /\ c.out \in Seq(Message)
      /\ Len(c.out) \in Nat
  BY ChannelFields
<1>2. \A i \in 1..taken : (i = 1 /\ IsOpening(c)) \in BOOLEAN
  BY DEF IsOpening
<1>3. sent \in [1..taken -> Message] /\ \A i \in 1..taken : ~IsData(sent[i])
  BY <1>1, <1>2, ControlMessageType, ControlIsNoData
<1> HIDE DEF sent
<1>4. longer \in Seq(Message)
  BY <1>1, <1>3, ConcatType
<1>5. /\ {i \in DOMAIN longer : IsData(longer[i])} = {i \in DOMAIN c.out : IsData(c.out[i])}
      /\ Len(longer) = Len(c.out) + taken
  BY <1>1, <1>3, NoDataAdded
<1>6. /\ h \in HandshakeState
      /\ c.handshake \in {"kHandshakeReady", "kHandshakeWaitingForAck"} =>
           h \in {"kHandshakeReady", "kHandshakeWaitingForAck"}
  BY <1>1, HandshakeGoesOn DEF Channel, HandshakeState
<1>7. left \in Nat
  OBVIOUS
<1> HIDE DEF longer, h, left
<1>8. /\ WellFormed(d) /\ d.state = c.state
      /\ d.out = longer /\ d.control = left
  BY <1>1, <1>4, <1>6, <1>7 DEF WellFormed, Channel
<1>9. SendQueuedControlMessages(c, taken, blocked, failsFirst) =
        IF taken + blocked < c.control THEN e ELSE d
  BY DEF SendQueuedControlMessages, sent, longer, h, left
<1> HIDE DEF d
<1>10. /\ WellFormed(Close(d)) /\ Close(d).out = longer
       /\ Close(d).state \in {"kClosing", "kClosed"}
       /\ c.state = "kClosed" => Close(d).state = "kClosed"
  <2>1. Keeps(d, Close(d)) /\ Close(d).state \in {"kClosing", "kClosed"} /\ Close(d).out = d.out
    BY <1>8, CloseKeeps
  <2> QED BY <1>8, <2>1 DEF Keeps, Onward, Later
<1>11. PICK x : x = Close(d)
  OBVIOUS
<1>12. /\ WellFormed(e) /\ e.out = longer /\ e.state = x.state
       /\ e.control = blocked
  BY <1>10, <1>11 DEF WellFormed, Channel
<1> HIDE DEF e
<1>13. CASE taken + blocked < c.control
  <2>1. Onward(c, e)
    BY <1>1, <1>5, <1>10, <1>11, <1>12, <1>13 DEF Onward, Later, DataOut
  <2> QED BY <1>9, <1>12, <1>13, <2>1 DEF Keeps
<1>14. CASE ~(taken + blocked < c.control)
  <2>1. left = blocked /\ taken + blocked = c.control
    BY <1>1, <1>14 DEF left
  <2>2. c.state # "kClosed" => d.state # "kClosed"
    BY <1>8
  <2>3. Onward(c, d)
    BY <1>1, <1>5, <1>8, <2>1, <2>2 DEF Onward, Later, DataOut
  <2> QED BY <1>8, <1>9, <1>14, <2>3 DEF Keeps
<1> QED BY <1>13, <1>14

LEMMA QueueSendDataMessageKeeps ==
  ASSUME NEW c, WellFormed(c), c.state \in {"kOpen", "kClosing"}, NEW m \in Nat
  PROVE  Keeps(c, QueueSendDataMessage(c, m)) /\ Settled(QueueSendDataMessage(c, m))
<1> DEFINE longer == Append(c.sendq, m)
           d == [c EXCEPT !.sendq = longer]
<1>1. longer \in Seq(Nat) /\ longer # << >>
  <2>1. c.sendq \in Seq(Nat)
    BY DEF WellFormed, Channel
  <2>2. PICK q \in Seq(Nat) : q = c.sendq
    BY <2>1
  <2>3. Append(q, m) \in Seq(Nat) /\ Append(q, m) # << >>
    BY AppendProperties
  <2> QED BY <2>2, <2>3
<1>2. QueueSendDataMessage(c, m) \in {Close(c), d}
  BY DEF QueueSendDataMessage
<1> HIDE DEF longer
<1>3. WellFormed(d) /\ Onward(c, d) /\ Settled(d)
  <2>1. /\ WellFormed(d) /\ d.state = c.state /\ d.control = c.control
        /\ d.sendq # << >>
    BY <1>1 DEF WellFormed, Channel
  <2> HIDE DEF d
  <2> QED BY <2>1, SameStateIsOnward DEF Settled
<1> HIDE DEF d
<1> QED BY <1>2, <1>3, CloseKeeps DEF Keeps

LEMMA SendKeeps ==
  ASSUME NEW c, WellFormed(c), c.state = "kOpen", NEW m \in Nat,
         NEW result \in SendDataResult
  PROVE  Keeps(c, Send(c, m, result)) /\ Settled(Send(c, m, result))
<1> DEFINE longer == Append(c.out, DataMessage(c, m))
           d == [c EXCEPT !.out = longer]
<1>1. Send(c, m, result) \in {QueueSendDataMessage(c, m), d, Close(c)}
  BY DEF Send
<1>2. c \in Channel /\ c.out \in Seq(Message)
  BY DEF WellFormed, Channel
<1>3. longer \in Seq(Message)
  BY <1>2, AppendType, DataMessageType
<1> HIDE DEF longer
<1>4. WellFormed(d) /\ Onward(c, d) /\ Settled(d)
  <2>1. WellFormed(d) /\ d.state = c.state /\ d.control = c.control
    BY <1>2, <1>3 DEF WellFormed, Channel
  <2> HIDE DEF d
  <2> QED BY <2>1, SameStateIsOnward DEF Settled
<1> HIDE DEF d
<1> QED BY <1>1, <1>4, QueueSendDataMessageKeeps, CloseKeeps DEF Keeps

LEMMA SendQueuedDataMessagesKeeps ==
  ASSUME NEW c, WellFormed(c), NEW taken \in 0..Len(c.sendq), NEW result
  PROVE  Keeps(c, SendQueuedDataMessages(c, taken, result))
<1> DEFINE sent == [i \in 1..taken |-> DataMessage(c, c.sendq[i])]
           rest == SubSeq(c.sendq, taken + 1, Len(c.sendq))
           d == [c EXCEPT !.out = @ \o sent, !.sendq = rest]
<1>1. /\ c \in Channel /\ c.sendq \in Seq(Nat) /\ c.out \in Seq(Message)
      /\ taken \in Nat /\ taken <= Len(c.sendq)
  BY DEF WellFormed, Channel
<1>2. sent \in [1..taken -> Message]
  BY <1>1, DataMessageType
<1> HIDE DEF sent
<1>3. c.out \o sent \in Seq(Message) /\ (taken = 0 => c.out \o sent = c.out)
  BY <1>1, <1>2, ConcatType
<1>4. rest \in Seq(Nat) /\ (c.sendq = << >> => rest = << >>)
  BY <1>1, RestType
<1>5. c.sendq = << >> => taken = 0
  BY <1>1
<1> HIDE DEF rest
<1>6. WellFormed(d) /\ Onward(c, d)
  <2>1. /\ WellFormed(d) /\ d.state = c.state /\ d.control = c.control
        /\ c.sendq = << >> => d.out = c.out
    BY <1>1, <1>3, <1>4, <1>5 DEF WellFormed, Channel
  <2>2. c.state = "kClosed" => c.sendq = << >>
    BY DEF WellFormed
  <2> HIDE DEF d
  <2> QED BY <2>1, <2>2, SameStateIsOnward
<1>7. Keeps(d, Close(d))
  BY <1>6, CloseKeeps
<1>8. SendQueuedDataMessages(c, taken, result) \in {d, Close(d)}
  BY DEF SendQueuedDataMessages, sent, rest
<1> HIDE DEF d
<1> QED BY <1>6, <1>7, <1>8, OnwardTransitive DEF Keeps

LEMMA DeliverKeeps ==
  ASSUME NEW c, WellFormed(c)
  PROVE  /\ Keeps(c, DeliverQueuedReceivedData(c))
         /\ DeliverQueuedReceivedData(c).state = c.state
         /\ Settled(c) => Settled(DeliverQueuedReceivedData(c))
<1> DEFINE all == c.got \o c.recvq
           none == << >>
           d == [c EXCEPT !.got = all, !.recvq = none]
<1>1. DeliverQueuedReceivedData(c) \in {c, d}
  BY DEF DeliverQueuedReceivedData
<1>2. c \in Channel /\ c.got \in Seq(Nat) /\ c.recvq \in Seq(Nat)
  BY DEF WellFormed, Channel
<1>3. all \in Seq(Nat) /\ none \in Seq(Nat)
  BY <1>2
<1> HIDE DEF all, none
<1>4. /\ WellFormed(d) /\ d.state = c.state /\ d.control = c.control
      /\ d.out = c.out /\ d.sendq = c.sendq
  BY <1>2, <1>3 DEF WellFormed, Channel
<1> HIDE DEF d
<1>5. Onward(c, d)
  BY <1>4, SameStateIsOnward
<1> QED BY <1>1, <1>4, <1>5, OnwardReflexive DEF Keeps, Settled

LEMMA RegisterObserverKeeps ==
  ASSUME NEW c, WellFormed(c)
  PROVE  /\ Keeps(c, RegisterObserver(c)) /\ Keeps(c, UnregisterObserver(c))
         /\ Settled(c) => Settled(RegisterObserver(c)) /\ Settled(UnregisterObserver(c))
<1>1. ASSUME NEW flag \in BOOLEAN
      PROVE  LET d == [c EXCEPT !.observer = flag]
             IN  Keeps(c, d) /\ (Settled(c) => Settled(d))
  <2> DEFINE d == [c EXCEPT !.observer = flag]
  <2>1. /\ WellFormed(d) /\ d.state = c.state /\ d.control = c.control
        /\ d.out = c.out /\ d.sendq = c.sendq
    BY DEF WellFormed, Channel
  <2> HIDE DEF d
  <2>2. Keeps(c, d) /\ (Settled(c) => Settled(d))
    BY <2>1, SameStateIsOnward DEF Keeps, Settled
  <2> QED BY <2>2 DEF d
<1>2. Keeps(c, UnregisterObserver(c)) /\ (Settled(c) => Settled(UnregisterObserver(c)))
  BY <1>1 DEF UnregisterObserver
<1> DEFINE d == [c EXCEPT !.observer = TRUE]
<1>3. Keeps(c, d) /\ (Settled(c) => Settled(d))
  BY <1>1
<1>4. RegisterObserver(c) = DeliverQueuedReceivedData(d)
  BY DEF RegisterObserver
<1> HIDE DEF d
<1>5. Keeps(d, DeliverQueuedReceivedData(d)) /\ (Settled(d) => Settled(DeliverQueuedReceivedData(d)))
  BY <1>3, DeliverKeeps DEF Keeps
<1> QED BY <1>2, <1>3, <1>4, <1>5, OnwardTransitive DEF Keeps

LEMMA OnOpenAckReceivedKeeps ==
  ASSUME NEW c, WellFormed(c)
  PROVE  /\ Keeps(c, OnOpenAckReceived(c))
         /\ Settled(c) => Settled(OnOpenAckReceived(c))
<1> DEFINE d == OnOpenAckReceived(c)
<1>1. /\ WellFormed(d) /\ d.state = c.state /\ d.control = c.control
      /\ d.out = c.out /\ d.sendq = c.sendq
  BY DEF WellFormed, OnOpenAckReceived, Channel, HandshakeState
<1> HIDE DEF d
<1>2. Keeps(c, d) /\ (Settled(c) => Settled(d))
  BY <1>1, SameStateIsOnward DEF Keeps, Settled
<1> QED BY <1>2 DEF d

LEMMA OnDataReceivedKeeps ==
  ASSUME NEW c, WellFormed(c), NEW m \in Nat
  PROVE  Keeps(c, OnDataReceived(c, m)) /\ (Settled(c) => Settled(OnDataReceived(c, m)))
<1> DEFINE d == OnOpenAckReceived(c)
           given == Append(d.got, m)
           waiting == Append(d.recvq, m)
           none == << >>
           e1 == [d EXCEPT !.got = given]
           e2 == [d EXCEPT !.recvq = none]
           e3 == [d EXCEPT !.recvq = waiting]
<1>1. Keeps(c, d) /\ WellFormed(d) /\ (Settled(c) => Settled(d))
  BY OnOpenAckReceivedKeeps DEF Keeps
<1>2. OnDataReceived(c, m) \in {e1, Close(e2), e3}
  BY DEF OnDataReceived
<1> HIDE DEF d
<1>3. /\ d \in Channel
      /\ given \in Seq(Nat) /\ waiting \in Seq(Nat) /\ none \in Seq(Nat)
  BY <1>1, AppendType DEF WellFormed, Channel
<1> HIDE DEF given, waiting, none
<1>4. \A e \in {e1, e2, e3} :
        /\ WellFormed(e) /\ e.state = d.state /\ e.control = d.control
        /\ e.out = d.out /\ e.sendq = d.sendq
  BY <1>1, <1>3 DEF WellFormed, Channel
<1> HIDE DEF e1, e2, e3
<1>5. \A e \in {e1, e2, e3} : Keeps(c, e) /\ (Settled(c) => Settled(e))
  <2> TAKE e \in {e1, e2, e3}
  <2>1. /\ WellFormed(e) /\ e.state = d.state /\ e.control = d.control
        /\ e.out = d.out /\ e.sendq = d.sendq
    BY <1>4
  <2>2. Onward(d, e)
    BY <1>1, <2>1, SameStateIsOnward
  <2> QED BY <1>1, <2>1, <2>2, OnwardTransitive DEF Keeps, Settled
<1>6. Keeps(c, Close(e2)) /\ Settled(Close(e2))
  <2>1. WellFormed(e2) /\ Keeps(c, e2)
    BY <1>5 DEF Keeps
  <2>2. Keeps(e2, Close(e2)) /\ Settled(Close(e2))
    BY <2>1, CloseKeeps
  <2> QED BY <2>1, <2>2, OnwardTransitive DEF Keeps
<1> QED BY <1>2, <1>5, <1>6

LEMMA UpdateConnectingKeeps ==
  ASSUME NEW c, WellFormed(c), c.state = "kConnecting", c.connected,
         NEW result \in SendDataResult
  PROVE  LET d == UpdateConnecting(c, result)
         IN  WellFormed(d) /\ Later(c, d) /\ Settled(d)
<1> DEFINE d == IF MustSendControl(c) THEN SendControlMessage(c, result) ELSE c
           opened == [d EXCEPT !.state = "kOpen"]
           delivered == DeliverQueuedReceivedData(opened)
           done == d.handshake \in {"kHandshakeReady", "kHandshakeWaitingForAck"}
<1>1. /\ WellFormed(d) /\ Later(c, d) /\ Settled(d)
      /\ done => d.state = "kConnecting" /\ d.connected
  BY SendControlMessageKeeps, OnwardReflexive
     DEF Keeps, Onward, MustSendControl, Settled
<1>2. UpdateConnecting(c, result) = IF d.writable /\ done THEN delivered ELSE d
  BY DEF UpdateConnecting
<1> HIDE DEF d
<1>3. ASSUME done
      PROVE  WellFormed(opened) /\ opened.state = "kOpen"
  BY <1>1, <1>3 DEF WellFormed, Channel, DataState
<1> HIDE DEF opened
<1>4. CASE d.writable /\ done
  <2>1. WellFormed(delivered) /\ delivered.state = "kOpen"
    BY <1>3, <1>4, DeliverKeeps DEF Keeps
  <2> HIDE DEF delivered, done
  <2>2. Later(c, delivered) /\ Settled(delivered)
    BY <2>1 DEF Later, Settled
  <2> QED BY <1>2, <1>4, <2>1, <2>2
<1>5. CASE ~(d.writable /\ done)
  <2> HIDE DEF delivered, done
  <2> QED BY <1>1, <1>2, <1>5
<1> QED BY <1>4, <1>5

LEMMA UpdateStateKeeps ==
  ASSUME NEW c, WellFormed(c), NEW result \in SendDataResult
  PROVE  LET d == UpdateState(c, result)
         IN  WellFormed(d) /\ Later(c, d) /\ Settled(d)
<1>1. CASE c.state = "kConnecting" /\ c.connected
  BY <1>1, UpdateConnectingKeeps DEF UpdateState
<1>2. CASE c.state = "kClosing"
  BY <1>2, UpdateClosingKeeps DEF UpdateState, Keeps, Onward
<1>3. CASE ~(c.state = "kConnecting" /\ c.connected) /\ c.state # "kClosing"
  BY <1>3, OnwardReflexive DEF UpdateState, Keeps, Onward, Settled
<1> QED BY <1>1, <1>2, <1>3

LEMMA SendQueuedControlKeepsQueue ==
  ASSUME NEW c, WellFormed(c), NEW taken \in Nat, NEW blocked \in Nat, NEW failsFirst
  PROVE  SendQueuedControlMessages(c, taken, blocked, failsFirst).sendq = c.sendq
<1> DEFINE d == [c EXCEPT
             !.out = @ \o [i \in 1..taken |-> ControlMessage(c, i = 1 /\ IsOpening(c))],
             !.control = IF failsFirst THEN 0 ELSE blocked,
             !.handshake = IF taken > 0 THEN AfterControlSent(@) ELSE @]
<1>1. d.sendq = c.sendq /\ [Close(d) EXCEPT !.control = blocked].sendq = d.sendq
  BY DEF WellFormed, Channel, Close, UpdateClosing
<1> QED BY <1>1 DEF SendQueuedControlMessages

LEMMA OnChannelReadyKeeps ==
  ASSUME NEW c, WellFormed(c), NEW a \in Answers(c)
  PROVE  LET d == OnChannelReady(c, a)
         IN  WellFormed(d) /\ Later(c, d) /\ Settled(d)
<1> DEFINE c1 == [c EXCEPT !.writable = TRUE]
           c2 == SendQueuedControlMessages(c1, a.control, a.blocked, a.failsFirst)
           c3 == SendQueuedDataMessages(c2, a.data, a.stop)
<1>1. /\ a.control \in Nat /\ a.blocked \in Nat /\ a.failsFirst \in BOOLEAN
      /\ a.control + a.blocked <= c.control
      /\ a.failsFirst => a.control + a.blocked < c.control
      /\ a.data \in 0..Len(c.sendq) /\ a.update \in SendDataResult
  BY DEF Answers, WellFormed, Channel
<1>2. /\ WellFormed(c1) /\ c1.state = c.state /\ c1.out = c.out
      /\ c1.sendq = c.sendq /\ c1.control = c.control
  BY DEF WellFormed, Channel
<1>3. OnChannelReady(c, a) = UpdateState(c3, a.update)
  BY DEF OnChannelReady
<1> HIDE DEF c1
<1>4. Onward(c, c1)
  BY <1>2, SameStateIsOnward
<1>5. WellFormed(c2) /\ Onward(c1, c2)
  BY <1>1, <1>2, SendQueuedControlMessagesKeeps DEF Keeps
<1>6. c2.sendq = c.sendq
  BY <1>1, <1>2, SendQueuedControlKeepsQueue
<1> HIDE DEF c2
<1>7. WellFormed(c3) /\ Onward(c2, c3)
  BY <1>1, <1>5, <1>6, SendQueuedDataMessagesKeeps DEF Keeps
<1> HIDE DEF c3
<1>8. Onward(c, c3)
  BY <1>2, <1>4, <1>5, <1>7, OnwardTransitive
<1> QED BY <1>1, <1>3, <1>7, <1>8, UpdateStateKeeps, LaterTransitive

LEMMA OnChannelNotReadyKeeps ==
  ASSUME NEW c, WellFormed(c)
  PROVE  /\ Keeps(c, OnChannelNotReady(c))
         /\ Settled(c) => Settled(OnChannelNotReady(c))
<1> DEFINE d == OnChannelNotReady(c)
<1>1. /\ WellFormed(d) /\ d.state = c.state /\ d.control = c.control
      /\ d.out = c.out /\ d.sendq = c.sendq
  BY DEF WellFormed, OnChannelNotReady, Channel
<1> HIDE DEF d
<1>2. Keeps(c, d) /\ (Settled(c) => Settled(d))
  BY <1>1, SameStateIsOnward DEF Keeps, Settled
<1> QED BY <1>2 DEF d

---------------------------------------------------------------------------
(* The inductive invariant, and that every action moves the channel to a   *)
(* later state.                                                            *)

ChannelInv == TypeOK /\ WellFormed(ch) /\ Settled(ch)

LEMMA NewChannelWellFormed ==
  ASSUME NEW role \in OpenHandshakeRole, NEW ordered \in BOOLEAN,
         NEW connected \in BOOLEAN
  PROVE  LET c == [NewChannel(role, ordered) EXCEPT !.connected = connected]
         IN  WellFormed(c) /\ Settled(c)
<1> DEFINE none == << >>
           first == CASE role = "kOpener" -> "kHandshakeShouldSendOpen"
                      [] role = "kAcker"  -> "kHandshakeShouldSendAck"
                      [] OTHER            -> "kHandshakeReady"
           new == [ state |-> "kConnecting", handshake |-> first,
                    role |-> role, ordered |-> ordered,
                    connected |-> FALSE, writable |-> FALSE, observer |-> FALSE,
                    control |-> 0, sendq |-> none, recvq |-> none,
                    out |-> none, got |-> none ]
<1>1. first \in HandshakeState
  BY DEF HandshakeState, OpenHandshakeRole
<1>2. none \in Seq(Nat) /\ none \in Seq(Message) /\ none = << >>
  OBVIOUS
<1>3. NewChannel(role, ordered) = new
  BY DEF NewChannel
<1> HIDE DEF none, first
<1>4. WellFormed(new) /\ new.state = "kConnecting"
  BY <1>1, <1>2 DEF WellFormed, Channel, DataState
<1> HIDE DEF new
<1>5. /\ WellFormed([new EXCEPT !.connected = connected])
      /\ Settled([new EXCEPT !.connected = connected])
  BY <1>4 DEF WellFormed, Channel, Settled
<1> QED BY <1>3, <1>5

LEMMA InitChannelInv == Init => ChannelInv
<1> SUFFICES ASSUME Init PROVE ChannelInv
  OBVIOUS
<1>1. PICK role \in OpenHandshakeRole, ordered \in BOOLEAN, ready \in BOOLEAN :
        /\ ch = [NewChannel(role, ordered) EXCEPT !.connected = (transport = "up")]
        /\ transport \in {"none", "up"}
        /\ stream \in {"unassigned", "open", "absent"}
        /\ posted \in BOOLEAN /\ accepted = 0 /\ arrived = 0 /\ heard \in BOOLEAN
  BY DEF Init, Added
<1>2. WellFormed(ch) /\ Settled(ch)
  BY <1>1, NewChannelWellFormed
<1> QED BY <1>1, <1>2 DEF ChannelInv, TypeOK, StreamState, WellFormed

(* A handler that leads to a well formed channel keeps the whole state so. *)
LEMMA HandlerKeeps ==
  ASSUME ChannelInv, NEW STATE c, Handler(c),
         WellFormed(c), Later(ch, c), Settled(c)
  PROVE  /\ WellFormed(ch)' /\ Later(ch, ch') /\ Settled(ch)'
         /\ stream' \in StreamState
BY DEF ChannelInv, TypeOK, Handler, StreamAfter, StreamState

LEMMA ReadyKeeps ==
  ASSUME ChannelInv, \E a \in ReadyAnswers : Handler(OnChannelReady(ch, a))
  PROVE  /\ WellFormed(ch)' /\ Later(ch, ch') /\ Settled(ch)'
         /\ stream' \in StreamState
<1>1. PICK a \in Answers(ch) : Handler(OnChannelReady(ch, a))
  BY DEF ReadyAnswers
<1>2. PICK d : d = OnChannelReady(ch, a)
  OBVIOUS
<1>3. WellFormed(d) /\ Later(ch, d) /\ Settled(d)
  BY <1>2, OnChannelReadyKeeps DEF ChannelInv
<1>4. ch' = d /\ stream' \in {"absent", stream}
  BY <1>1, <1>2 DEF Handler, StreamAfter
<1> QED BY <1>3, <1>4 DEF ChannelInv, TypeOK, StreamState

LEMMA StepChannelInv ==
  ASSUME ChannelInv, [Next]_vars
  PROVE  ChannelInv' /\ Later(ch, ch')
<1> USE DEF ChannelInv
<1>0. /\ WellFormed(ch) /\ TypeOK /\ Settled(ch) /\ ch \in Channel
      /\ Later(ch, ch)
  BY OnwardReflexive DEF WellFormed, Keeps, Onward
<1> DEFINE Goes == WellFormed(ch)' /\ Later(ch, ch') /\ Settled(ch)'
<1>1. CASE OnTransportChannelCreated
  <2>0. /\ WellFormed(ch') /\ Settled(ch')
        /\ ch'.state = ch.state /\ ch'.control = ch.control /\ ch'.out = ch.out
    BY <1>0, <1>1 DEF OnTransportChannelCreated, WellFormed, Channel, Settled
  <2>1. Goes
    BY <1>0, <2>0, SameStateIsOnward DEF Onward, WellFormed, Settled
  <2> QED BY <1>0, <1>1, <2>1
          DEF OnTransportChannelCreated, AddStream, Added, TypeOK, StreamState, WellFormed
<1>2. CASE SetSctpSid
  <2>1. Goes
    BY <1>0, <1>2 DEF SetSctpSid, WellFormed, Settled
  <2> QED BY <1>0, <1>2, <2>1
          DEF SetSctpSid, AddStream, Added, TypeOK, StreamState, WellFormed
<1>3. CASE ReadySignal
  <2>1. Goes /\ stream' \in StreamState
    BY <1>3, ReadyKeeps DEF ReadySignal, Ready
  <2> QED BY <1>0, <1>3, <2>1 DEF ReadySignal, Ready, TypeOK, WellFormed
<1>4. CASE ChannelReadyMessage
  <2>1. Goes /\ stream' \in StreamState
    BY <1>4, ReadyKeeps DEF ChannelReadyMessage
  <2> QED BY <1>0, <1>4, <2>1 DEF ChannelReadyMessage, TypeOK, WellFormed
<1>5. CASE NotReadySignal
  <2>1. Goes /\ stream' \in StreamState
    BY <1>0, <1>5, OnChannelNotReadyKeeps, HandlerKeeps DEF NotReadySignal, Keeps, Onward
  <2> QED BY <1>0, <1>5, <2>1 DEF NotReadySignal, TypeOK, WellFormed
<1>6. CASE OpenAckArrives
  <2>1. Goes /\ stream' \in StreamState
    BY <1>0, <1>6, OnOpenAckReceivedKeeps, HandlerKeeps DEF OpenAckArrives, Keeps, Onward
  <2> QED BY <1>0, <1>6, <2>1 DEF OpenAckArrives, TypeOK, WellFormed
<1>7. CASE DataArrives
  <2>1. arrived + 1 \in Nat
    BY <1>0 DEF TypeOK
  <2>2. Goes /\ stream' \in StreamState
    BY <1>0, <1>7, <2>1, OnDataReceivedKeeps, HandlerKeeps
       DEF DataArrives, Keeps, Onward
  <2> QED BY <1>0, <1>7, <2>1, <2>2 DEF DataArrives, TypeOK, WellFormed
<1>8. CASE RemoteReset
  <2>1. Goes
    BY <1>0, <1>8 DEF RemoteReset, WellFormed, Settled
  <2> QED BY <1>0, <1>8, <2>1 DEF RemoteReset, TypeOK, StreamState, WellFormed
<1>9. CASE OnStreamClosedRemotely
  <2>1. Goes
    BY <1>0, <1>9, CloseKeeps
       DEF OnStreamClosedRemotely, Keeps, Onward, WellFormed, Settled
  <2> QED BY <1>0, <1>9, <2>1
          DEF OnStreamClosedRemotely, TypeOK, StreamState, WellFormed
<1>10. CASE OnTransportChannelDestroyed
  <2>1. Goes /\ stream' \in StreamState
    BY <1>0, <1>10, CloseKeeps, HandlerKeeps DEF OnTransportChannelDestroyed, Keeps, Onward
  <2> QED BY <1>0, <1>10, <2>1 DEF OnTransportChannelDestroyed, TypeOK, WellFormed
<1>11. CASE AppSend
  <2>1. PICK result \in SendDataResult : Handler(Send(ch, accepted + 1, result))
    BY <1>11 DEF AppSend, DataAnswers, SendDataResult
  <2>2. accepted + 1 \in Nat
    BY <1>0 DEF TypeOK
  <2>3. PICK d : d = Send(ch, accepted + 1, result)
    OBVIOUS
  <2>4. Keeps(ch, d) /\ Settled(d)
    BY <1>0, <1>11, <2>2, <2>3, SendKeeps DEF AppSend
  <2>5. Goes /\ stream' \in StreamState
    BY <2>1, <2>3, <2>4, HandlerKeeps DEF Keeps, Onward
  <2> QED BY <1>0, <1>11, <2>2, <2>5 DEF AppSend, TypeOK, WellFormed
<1>12. CASE AppClose
  <2>1. Goes /\ stream' \in StreamState
    BY <1>0, <1>12, CloseKeeps, HandlerKeeps DEF AppClose, Keeps, Onward
  <2> QED BY <1>0, <1>12, <2>1 DEF AppClose, TypeOK, WellFormed
<1>13. CASE AppRegisterObserver
  <2>1. Goes /\ stream' \in StreamState
    BY <1>0, <1>13, RegisterObserverKeeps, HandlerKeeps DEF AppRegisterObserver, Keeps, Onward
  <2> QED BY <1>0, <1>13, <2>1 DEF AppRegisterObserver, TypeOK, WellFormed
<1>14. CASE AppUnregisterObserver
  <2>1. Goes /\ stream' \in StreamState
    BY <1>0, <1>14, RegisterObserverKeeps, HandlerKeeps DEF AppUnregisterObserver, Keeps, Onward
  <2> QED BY <1>0, <1>14, <2>1 DEF AppUnregisterObserver, TypeOK, WellFormed
<1>15. CASE UNCHANGED vars
  <2>1. Goes
    BY <1>0, <1>15 DEF vars, WellFormed, Settled
  <2> QED BY <1>0, <1>15, <2>1 DEF vars, TypeOK, WellFormed
<1> QED BY <1>1, <1>2, <1>3, <1>4, <1>5, <1>6, <1>7, <1>8, <1>9, <1>10, <1>11,
           <1>12, <1>13, <1>14, <1>15 DEF Next

LEMMA ChannelInvariant == Spec => []ChannelInv
<1>1. ChannelInv /\ [Next]_vars => ChannelInv'
  BY StepChannelInv
<1> QED BY InitChannelInv, <1>1, PTL DEF Spec

(* The type invariant of the channel and of its surroundings.              *)
THEOREM TypeCorrect == Spec => []TypeOK
<1>1. ChannelInv => TypeOK
  BY DEF ChannelInv
<1> QED BY ChannelInvariant, <1>1, PTL

(* The ASSERT in SendQueuedDataMessages never fails, a closing channel     *)
(* waits for something in one of its queues, a closed one is disconnected  *)
(* and has no data, and an open one has its provider and has told the peer *)
(* of itself: whatever the transport answers to each message, also after   *)
(* one that failed, and in whichever order the signals come.               *)
THEOREM QueuesAndStateAgree == Spec => []QueuesMatchState
<1>1. ChannelInv => QueuesMatchState
  BY DEF ChannelInv, WellFormed, Settled, QueuesMatchState
<1> QED BY ChannelInvariant, <1>1, PTL

(* No step takes the channel back to an earlier state.  After kClosed no   *)
(* data is handed to the transport any more, and of control messages no    *)
(* more than it held when it closed, although posted messages and signals  *)
(* still reach the object; it holds some only if one failed as it closed.  *)
THEOREM NeverGoesBack == Spec => StateNeverGoesBack
<1>1. ChannelInv /\ [Next]_vars => Later(ch, ch')
  BY StepChannelInv
<1>2. ChannelInv /\ [Next]_vars => [Later(ch, ch')]_vars
  BY <1>1
<1> QED BY ChannelInvariant, <1>2, PTL DEF Spec, StateNeverGoesBack

===========================================================================
