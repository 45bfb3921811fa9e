---------------------------- MODULE DataChannel ----------------------------
(***************************************************************************)
(* One SCTP webrtc::DataChannel between the application and its provider   *)
(* (WebRtcSession and the cricket::DataChannel below it), from creation to *)
(* kClosed.  Every action is one task of the signaling thread, except      *)
(* RemoteReset, which is the worker thread taking the stream away before   *)
(* the signaling thread hears of it.                                       *)
(*                                                                         *)
(* The environment is arbitrary: the transport accepts, blocks or fails    *)
(* each message, ready signals come at any time, the peer sends whenever   *)
(* it can know of the channel, and the application calls in any order.     *)
(***************************************************************************)
EXTENDS DataChannelOps

CONSTANTS MaxSends,     \* bound on the application's calls of Send
          MaxArrivals,  \* bound on the messages the peer sends
          MaxControl    \* bound on the length of the control queue

ASSUME Bounds == {MaxSends, MaxArrivals, MaxControl} \subseteq Nat

VARIABLES
  ch,         \* the fields of the channel
  transport,  \* WebRtcSession::data_channel_
  stream,     \* the channel's stream id in the media channel's open_streams_
  posted,     \* MSG_CHANNELREADY of Init() waits in the signaling thread
  accepted,   \* history: number of messages for which Send returned true
  arrived,    \* history: number of the peer's messages OnDataReceived saw
  heard       \* history: a message from the peer was received

vars == << ch, transport, stream, posted, accepted, arrived, heard >>

(* "unassigned": the channel has no stream id.  "absent": it has, but the  *)
(* id is not in open_streams_.  "resetting": the worker thread removed it  *)
(* for the peer and MSG_STREAMCLOSEDREMOTELY is posted.                    *)
StreamState == {"unassigned", "absent", "open", "resetting"}

TypeOK ==
  /\ ch \in Channel
  /\ transport \in {"none", "up", "gone"}
  /\ stream \in StreamState
  /\ posted \in BOOLEAN
  /\ accepted \in Nat
  /\ arrived \in Nat
  /\ heard \in BOOLEAN

---------------------------------------------------------------------------
(* The provider.                                                           *)

(* AddSctpDataStream(): of its two calls to the worker thread only         *)
(* AddSendStream adds the id, which the media channel may refuse           *)
(* (SctpStreams); WebRtcSession ignores the answer.                        *)
Added == {"open", "absent"}

AddStream == stream' \in Added

(* The stream after a handler turned ch into c: DisconnectFromProvider     *)
(* takes the id out of open_streams_.                                      *)
StreamAfter(c) ==
  IF ch.connected /\ ~c.connected /\ stream = "open" THEN "absent" ELSE stream

(* What SendData answers for data: an error if there is no data channel or *)
(* the id is not in open_streams_ (a control message is not tested for it),*)
(* and otherwise what the socket says.                                     *)
DataAnswers == IF transport = "up" /\ stream = "open" THEN SendDataResult
                                                      ELSE {"error"}

(* The answers a call of OnChannelReady can meet in this state.            *)
ReadyAnswers ==
  { a \in Answers(ch) :
      /\ transport # "up" =>
           /\ a.control = 0 /\ a.blocked = 0
           /\ AsksUpdate(ch) => a.update = "error"
      /\ DataAnswers = {"error"} /\ ch.sendq # << >> =>
           a.data = 0 /\ a.stop = "error"
      /\ a.blocked + 1 <= MaxControl }

Handler(c) == ch' = c /\ stream' = StreamAfter(ch')

---------------------------------------------------------------------------
(* Creation.  A channel made by the application may precede the transport, *)
(* and with it its stream id unless the application chose one; but a       *)
(* transport that is ready has its DTLS role, so the id is allocated.  One *)
(* made for a peer's OPEN comes with both.                                 *)
Init ==
  \E role \in OpenHandshakeRole, ordered, ready \in BOOLEAN :
    /\ transport \in (IF role = "kAcker" THEN {"up"} ELSE {"none", "up"})
    /\ ch = [NewChannel(role, ordered) EXCEPT !.connected = transport = "up"]
    /\ stream \in
         (IF role # "kAcker" /\ ~ready THEN {"unassigned"} ELSE {}) \cup
         (IF transport = "up" THEN Added ELSE {"absent"})
    /\ posted = (ready /\ transport = "up")
    /\ accepted = 0
    /\ arrived = 0
    /\ heard = (role = "kAcker")

(* OnTransportChannelCreated(): connect, and add the stream of a channel   *)
(* that was given its id beforehand.                                       *)
OnTransportChannelCreated ==
  /\ transport = "none"
  /\ ch.state # "kClosed"
  /\ transport' = "up"
  /\ ch' = [ch EXCEPT !.connected = TRUE]
  /\ IF stream = "unassigned" THEN stream' = stream ELSE AddStream
  /\ UNCHANGED << posted, accepted, arrived, heard >>

(* SetSctpSid(), once the DTLS role is known.                              *)
SetSctpSid ==
  /\ transport = "up" /\ stream = "unassigned" /\ ch.state # "kClosed"
  /\ AddStream
  /\ UNCHANGED << ch, transport, posted, accepted, arrived, heard >>

---------------------------------------------------------------------------
(* Signals of the transport.                                               *)

Connected == ch.connected /\ transport = "up"

(* SignalReadyToSendData(true).  It follows the DTLS handshake, which      *)
(* decides the role, so the channel has its stream id by then.             *)
Ready(a) ==
  /\ Connected /\ stream # "unassigned"
  /\ Handler(OnChannelReady(ch, a))
  /\ UNCHANGED << transport, posted, accepted, arrived, heard >>

ReadySignal == \E a \in ReadyAnswers : Ready(a)

(* The MSG_CHANNELREADY that Init() posted: nothing cancels it when the    *)
(* channel closes or the transport goes away first.                        *)
ChannelReadyMessage ==
  /\ posted
  /\ posted' = FALSE
  /\ \E a \in ReadyAnswers : Handler(OnChannelReady(ch, a))
  /\ UNCHANGED << transport, accepted, arrived, heard >>

(* SignalReadyToSendData(false), which the channel handles although        *)
(* SctpDataMediaChannel only ever signals true.                            *)
NotReadySignal ==
  /\ Connected
  /\ Handler(OnChannelNotReady(ch))
  /\ UNCHANGED << transport, posted, accepted, arrived, heard >>

(* The peer knows of the channel once it can have received the OPEN, or at *)
(* once if no OPEN is sent to it.                                          *)
PeerKnows == ch.role = "kOpener" => ch.out # << >>

OpenAckArrives ==
  /\ Connected /\ ch.role = "kOpener" /\ PeerKnows
  /\ Handler(OnOpenAckReceived(ch))
  /\ heard' = TRUE
  /\ UNCHANGED << transport, posted, accepted, arrived >>

(* The media channel reports a message whether its stream is open or not.  *)
DataArrives ==
  /\ Connected /\ PeerKnows /\ stream # "unassigned"
  /\ arrived < MaxArrivals
  /\ arrived' = arrived + 1
  /\ Handler(OnDataReceived(ch, arrived + 1))
  /\ heard' = TRUE
  /\ UNCHANGED << transport, posted, accepted >>

(* The worker thread: the peer reset the stream, OnStreamResetEvent erases *)
(* it from open_streams_ and posts the news.                               *)
RemoteReset ==
  /\ transport = "up" /\ stream = "open" /\ PeerKnows
  /\ stream' = "resetting"
  /\ UNCHANGED << ch, transport, posted, accepted, arrived, heard >>

OnStreamClosedRemotely ==
  /\ transport = "up" /\ stream = "resetting"
  /\ ch' = IF ch.connected THEN Close(ch) ELSE ch
  /\ stream' = "absent"
  /\ UNCHANGED << transport, posted, accepted, arrived, heard >>

OnTransportChannelDestroyed ==
  /\ transport = "up"
  /\ transport' = "gone"
  /\ Handler(Close(ch))
  /\ UNCHANGED << posted, accepted, arrived, heard >>

---------------------------------------------------------------------------
(* The application.                                                        *)

AppSend ==
  /\ ch.state = "kOpen"
  /\ accepted < MaxSends
  /\ accepted' = accepted + 1
  /\ \E result \in DataAnswers : Handler(Send(ch, accepted + 1, result))
  /\ UNCHANGED << transport, posted, arrived, heard >>

AppClose ==
  /\ ch.state # "kClosed"
  /\ Handler(Close(ch))
  /\ UNCHANGED << transport, posted, accepted, arrived, heard >>

AppRegisterObserver ==
  /\ ~ch.observer
  /\ Handler(RegisterObserver(ch))
  /\ UNCHANGED << transport, posted, accepted, arrived, heard >>

AppUnregisterObserver ==
  /\ ch.observer
  /\ Handler(UnregisterObserver(ch))
  /\ UNCHANGED << transport, posted, accepted, arrived, heard >>

Next ==
  \/ OnTransportChannelCreated \/ SetSctpSid
  \/ ReadySignal \/ ChannelReadyMessage \/ NotReadySignal
  \/ OpenAckArrives \/ DataArrives
  \/ RemoteReset \/ OnStreamClosedRemotely \/ OnTransportChannelDestroyed
  \/ AppSend \/ AppClose \/ AppRegisterObserver \/ AppUnregisterObserver

Spec == Init /\ [][Next]_vars

(* A send buffer that drains: SENDER_DRY, the send threshold callback and  *)
(* the peer's acknowledgements bring a ready signal after which all that   *)
(* can be sent is sent.  It is assumed of a closing channel only.          *)
Flush ==
  /\ ch.state = "kClosing" /\ Connected
  /\ \E a \in ReadyAnswers :
       /\ a.control = ch.control
       /\ DataAnswers # {"error"} => a.data = Len(ch.sendq)
       /\ Ready(a)

FairSpec == Spec /\ WF_vars(Flush)

---------------------------------------------------------------------------
(* Properties.                                                             *)

Upto(n) == [i \in 1..n |-> i]

IsData(m) == m.type = "DATA"
DataOut(c) == {i \in DOMAIN c.out : IsData(c.out[i])}
DataSent == DataOut(ch)

(* What the application sends goes out once, in order and without a gap:   *)
(* of the first n messages Send returned true for, the transport accepted  *)
(* the first k, in their order, and the send queue holds the rest.  Only   *)
(* the message that made the channel close is lost, also when close        *)
(* follows while data is queued.                                           *)
SendFifo ==
  \E n \in 0..accepted : \E k \in 0..n :
    /\ {ch.out[i].id : i \in DataSent} = 1..k
    /\ \A i, j \in DataSent : i < j => ch.out[i].id < ch.out[j].id
    /\ ch.sendq = [i \in 1..(n - k) |-> k + i]
    /\ n + 1 >= accepted
    /\ ch.state \in {"kConnecting", "kOpen"} => n = accepted

(* What the peer sends reaches the observer once, in order and without a   *)
(* gap, across any registering and unregistering, until the channel        *)
(* closes; and an open channel holds nothing back from its observer.       *)
ReceiveFifo ==
  /\ \A i, j \in DOMAIN (ch.got \o ch.recvq) :
        i < j => (ch.got \o ch.recvq)[i] < (ch.got \o ch.recvq)[j]
  /\ ch.state \in {"kConnecting", "kOpen"} => ch.got \o ch.recvq = Upto(arrived)
  /\ ch.state = "kOpen" /\ ch.observer => ch.recvq = << >>

(* The peer cannot get data before the OPEN that tells it of the channel:  *)
(* an opener's first message is an ordered OPEN, and until something came  *)
(* back its data is ordered too.  An acker answers before it sends data.   *)
OpenBeforeData ==
  /\ ch.role = "kOpener" /\ ch.out # << >> =>
       ch.out[1].type = "OPEN" /\ ch.out[1].ordered
  /\ ch.role = "kAcker" /\ ch.out # << >> => ch.out[1].type = "ACK"
  /\ ch.role = "kOpener" /\ ~heard =>
       \A i \in DOMAIN ch.out : IsData(ch.out[i]) => ch.out[i].ordered

(* The ASSERT of SendQueuedDataMessages, that queued data means kOpen or   *)
(* kClosing; kClosing stands for something that waits in a queue, so that  *)
(* a ready signal is all it takes to end it; kClosed has no data and no    *)
(* provider; and kOpen is connected and has told the peer of the channel.  *)
QueuesMatchState ==
  /\ ch.sendq # << >> => ch.state \in {"kOpen", "kClosing"}
  /\ ch.state = "kClosing" => ch.sendq # << >> \/ ch.control > 0
  /\ ch.state = "kClosed" => ch.sendq = << >> /\ ~ch.connected
  /\ ch.state = "kOpen" =>
       /\ ch.handshake \in {"kHandshakeReady", "kHandshakeWaitingForAck"}
       /\ ch.connected

(* No step takes a channel back to an earlier state, whatever signal or    *)
(* posted message still reaches it.  A closed channel sends no more data:  *)
(* what it may still send are control messages it held when it closed.     *)
(* And it closes with control messages left over only if one of them has   *)
(* failed just then.                                                       *)
Later(c, d) ==
  /\ c.state = "kOpen" => d.state # "kConnecting"
  /\ c.state = "kClosing" => d.state \in {"kClosing", "kClosed"}
  /\ c.state = "kClosed" =>
       /\ d.state = "kClosed"
       /\ DataOut(d) = DataOut(c)
       /\ d.control <= c.control
       /\ Len(d.out) + d.control <= Len(c.out) + c.control
  /\ c.state # "kClosed" /\ d.state = "kClosed" =>
       d.control = 0 \/ d.control < c.control

StateNeverGoesBack == [][Later(ch, ch')]_vars

(* A closing channel whose stream still works does close: its queues drain *)
(* and it reaches kClosed.                                                 *)
CanFlush == transport = "up" /\ (ch.sendq # << >> => stream = "open")

ClosingEnds == ch.state = "kClosing" ~> (ch.state = "kClosed" \/ ~CanFlush)

(* datachannel.cc, OnTransportChannelDestroyed: "This function makes sure  *)
(* the DataChannel is disconnected and changes state to kClosed."  With    *)
(* a message queued behind a blocked transport it does neither.            *)
DestroyedIsClosed ==
  transport = "gone" => ch.state = "kClosed" /\ ~ch.connected

===========================================================================
