------------------------------ MODULE SctpSids ------------------------------
(***************************************************************************)
(* The life of a stream id: PeerConnection allocates it for a channel the  *)
(* application creates, or reserves it for one a peer's OPEN asks for, the *)
(* media channel (SctpStreams) opens and resets the stream, and when the   *)
(* channel closes PeerConnection releases the id for the next channel.     *)
(*                                                                         *)
(* The channels are those of DataChannel with a transport that is ready    *)
(* and never full, so a channel that closes is closed at once.             *)
(***************************************************************************)
EXTENDS Naturals, Sequences, FiniteSetsExt

CONSTANTS Peer, kMaxSctpSid, MaxAdds, MaxMessages,
          Client,     \* the peer whose DTLS role is SSL_CLIENT
          MaxCreates  \* bound on the channels the two peers create

ASSUME TwoEnds == \E server \in Peer : server # Client /\ Peer = {Client, server}
ASSUME AreNat == {kMaxSctpSid, MaxAdds, MaxMessages, MaxCreates} \subseteq Nat

VARIABLES
  open, queued, sent, outstanding, wire, events, adds, messages,
  inbox,    \* posts of cricket::DataChannel to the signaling thread
  used,     \* SctpSidAllocator::used_sids_
  channel,  \* sctp_data_channels_, by stream id
  created,  \* channels created by the application, by peer
  met,      \* history: the channels, by number, both ends had with a stream
            \* no former channel had
  refused,  \* history: the ends of channels whose stream AddStream refused
  closed    \* history: the channels, by number and id, that an end closed

(* A channel has the number of its creation: both ends of a channel have   *)
(* the same number, and no two channels that were created do.              *)
Number(p, n) == 2 * n + (IF p = Client THEN 0 ELSE 1)
Numbers == 2..(2 * MaxCreates + 1)

Sid == 0..kMaxSctpSid

Streams == INSTANCE SctpStreams WITH Body <- Numbers

streamVars == << open, queued, sent, outstanding, wire, events,
                 adds, messages >>
vars == << streamVars, inbox, used, channel, created, met, refused, closed >>

None == [state |-> "none", number |-> 0]

Post == [type : {"closedRemotely"}, sids : SUBSET Sid]
          \cup [type : {"message"}, sid : Sid, body : Numbers]

TypeOK ==
  /\ Streams!TypeOK
  /\ inbox \in [Peer -> Seq(Post)]
  /\ used \in [Peer -> SUBSET Sid]
  /\ channel \in [Peer -> [Sid -> [state : {"none", "opener", "acker", "open"},
                                   number : Numbers \cup {0}]]]
  /\ created \in [Peer -> 0..MaxCreates]
  /\ \A p \in Peer, s \in Sid :
        channel[p][s].number # 0 => channel[p][s].number % 2 = s % 2
  /\ met \subseteq Numbers
  /\ refused \subseteq Peer \X Numbers
  /\ closed \subseteq Numbers \X Sid

Init ==
  /\ Streams!Init
  /\ inbox = [p \in Peer |-> << >>]
  /\ used = [p \in Peer |-> {}]
  /\ channel = [p \in Peer |-> [s \in Sid |-> None]]
  /\ created = [p \in Peer |-> 0]
  /\ met = {}
  /\ refused = {}
  /\ closed = {}

Exists(p, s) == channel[p][s] # None

---------------------------------------------------------------------------
(* SctpSidAllocator.                                                       *)

IsSidAvailable(p, s) == s \in Sid /\ s \notin used[p]

(* A mutant: both roles take even ids.                                     *)
OfAnyRole(p, s) == s % 2 = 0

(* AllocateSid(): the lowest available even id for the client, odd for the *)
(* server.                                                                 *)
OfRole(p, s) == s % 2 = (IF p = Client THEN 0 ELSE 1)

Allocatable(p) == {s \in Sid : OfRole(p, s) /\ IsSidAvailable(p, s)}

---------------------------------------------------------------------------
(* The signaling thread.                                                   *)

(* InternalCreateDataChannel() with an available id, and AddSctpDataStream *)
(* of the new channel.  Of that function's two calls of the worker thread  *)
(* AddRecvStream() does nothing, so the streams change at one point of the *)
(* handler, AddSendStream(); what the worker handles before it, between    *)
(* the reservation and the call too, finds the stream unknown.  A refusal  *)
(* is ignored.                                                             *)
AddSendStream(p, s) ==
  IF Streams!AcceptsStream(p, s) THEN Streams!AddStream(p, s)
                                 ELSE UNCHANGED streamVars

HasRefused(p, s, number) ==
  refused \cup (IF Streams!AcceptsStream(p, s) THEN {} ELSE {<< p, number >>})

AddChannel(p, s, role, number) ==
  /\ used' = [used EXCEPT ![p] = @ \cup {s}]
  /\ channel' = [channel EXCEPT ![p][s] = [state |-> role, number |-> number]]
  /\ refused' = HasRefused(p, s, number)
  /\ met' = IF /\ role = "acker"
               /\ \A q \in Peer : << q, number >> \notin refused'
               /\ \A n \in Numbers : << n, s >> \notin closed
            THEN met \cup {number} ELSE met
  /\ AddSendStream(p, s)

CreateDataChannel(p) ==
  /\ \A q \in Peer \ {p} : created[p] + created[q] < MaxCreates
  /\ Allocatable(p) # {}
  /\ created' = [created EXCEPT ![p] = @ + 1]
  /\ AddChannel(p, Min(Allocatable(p)), "opener", Number(p, created[p] + 1))
  /\ UNCHANGED << inbox, closed >>

(* The MSG_CHANNELREADY a new channel posts to itself: the opener sends    *)
(* its OPEN.  The acker's OPEN_ACK changes nothing here.                   *)
OpenerReady(p, s) ==
  /\ channel[p][s].state = "opener"
  /\ channel' = [channel EXCEPT ![p][s].state = "open"]
  /\ Streams!SendData(p, s, channel[p][s].number, TRUE)
  /\ UNCHANGED << inbox, used, created, met, refused, closed >>

AckerReady(p, s) ==
  /\ channel[p][s].state = "acker"
  /\ channel' = [channel EXCEPT ![p][s].state = "open"]
  /\ UNCHANGED << streamVars, inbox, used, created, met, refused, closed >>

(* Mutants: the id is not released, or the stream is not removed.          *)
CloseChannelKeepsSid(p, s) ==
  /\ closed' = closed \cup {<< channel[p][s].number, s >>}
  /\ channel' = [channel EXCEPT ![p][s] = None]
  /\ UNCHANGED used
  /\ IF s \in open[p] THEN Streams!ResetStream(p, s) ELSE UNCHANGED streamVars

CloseChannelKeepsStream(p, s) ==
  /\ closed' = closed \cup {<< channel[p][s].number, s >>}
  /\ used' = [used EXCEPT ![p] = @ \ {s}]
  /\ channel' = [channel EXCEPT ![p][s] = None]
  /\ UNCHANGED streamVars

(* DataChannel::Close() to kClosed: RemoveSctpDataStream(), then           *)
(* SignalClosed and with it OnSctpDataChannelClosed(), which releases the  *)
(* id although its reset is only queued or sent.                           *)
CloseChannel(p, s) ==
  /\ closed' = closed \cup {<< channel[p][s].number, s >>}
  /\ used' = [used EXCEPT ![p] = @ \ {s}]
  /\ channel' = [channel EXCEPT ![p][s] = None]
  /\ IF s \in open[p] THEN Streams!ResetStream(p, s) ELSE UNCHANGED streamVars

AppClose(p, s) ==
  /\ Exists(p, s)
  /\ CloseChannel(p, s)
  /\ UNCHANGED << inbox, created, met, refused >>

(* Data sent on an open channel whose stream is not in open_streams_ gets  *)
(* SDR_ERROR, which closes the channel.                                    *)
AppSendFails(p, s) ==
  /\ channel[p][s].state = "open" /\ s \notin open[p]
  /\ CloseChannel(p, s)
  /\ UNCHANGED << inbox, created, met, refused >>

NextPost(p, type) == inbox[p] # << >> /\ Head(inbox[p]).type = type

(* A mutant: a channel does not test that the stream is its own.           *)
OnAnyStreamClosedRemotely(p) ==
  /\ NextPost(p, "closedRemotely")
  /\ inbox' = [inbox EXCEPT ![p] = Tail(@)]
  /\ \E s \in Sid : Exists(p, s) /\ CloseChannel(p, s)
  /\ UNCHANGED << created, met, refused >>

(* MSG_STREAMCLOSEDREMOTELY, one message for each stream of the event.     *)
OnStreamClosedRemotely(p) ==
  /\ NextPost(p, "closedRemotely")
  /\ \E s \in Head(inbox[p]).sids :
       /\ LET left == Head(inbox[p]).sids \ {s}
          IN  inbox' = [inbox EXCEPT ![p] =
                          IF left = {} THEN Tail(@)
                                       ELSE [@ EXCEPT ![1].sids = left]]
       /\ IF Exists(p, s) THEN CloseChannel(p, s)
                          ELSE UNCHANGED << streamVars, used, channel, closed >>
  /\ UNCHANGED << created, met, refused >>

(* MSG_DATARECEIVED with an OPEN: OnDataChannelOpenMessage() reserves the  *)
(* id, and ignores the OPEN if it is in use.                               *)
OnOpenMessage(p) ==
  /\ NextPost(p, "message")
  /\ inbox' = [inbox EXCEPT ![p] = Tail(@)]
  /\ LET m == Head(inbox[p])
     IN  IF IsSidAvailable(p, m.sid) THEN AddChannel(p, m.sid, "acker", m.body)
         ELSE UNCHANGED << streamVars, used, channel, met, refused >>
  /\ UNCHANGED << created, closed >>

---------------------------------------------------------------------------
(* The worker thread, whose signals cricket::DataChannel posts, and the    *)
(* SCTP stack.                                                             *)

(* A mutant: SignalStreamClosedRemotely is not emitted.                    *)
WorkerHandlesResetSilently(p) ==
  /\ Streams!OnIncomingReset(p) \/ Streams!OnResetFailed(p)
  /\ UNCHANGED << inbox, used, channel, created, met, refused, closed >>

WorkerHandlesReset(p) ==
  /\ \/ /\ Streams!OnIncomingReset(p)
        /\ LET sids == Streams!ClosedRemotely(p, Head(events[p]).sids)
           IN  inbox' = IF sids = {} THEN inbox
                        ELSE [inbox EXCEPT ![p] = Append(@,
                                [type |-> "closedRemotely", sids |-> sids])]
     \/ Streams!OnResetFailed(p) /\ UNCHANGED inbox
  /\ UNCHANGED << used, channel, created, met, refused, closed >>

WorkerLooksAtQueue(p) ==
  /\ Streams!OnOutgoingReset(p)
  /\ UNCHANGED << inbox, used, channel, created, met, refused, closed >>

WorkerReportsData(p) ==
  /\ Streams!OnDataFromSctp(p)
  /\ inbox' = [inbox EXCEPT ![p] = Append(@, Head(events[p]))]
  /\ UNCHANGED << used, channel, created, met, refused, closed >>

Stack(p) ==
  /\ Streams!StackReceives(p)
  /\ UNCHANGED << inbox, used, channel, created, met, refused, closed >>

Next ==
  \E p \in Peer :
    \/ CreateDataChannel(p)
    \/ \E s \in Sid : \/ OpenerReady(p, s) \/ AckerReady(p, s)
                      \/ AppClose(p, s) \/ AppSendFails(p, s)
    \/ OnStreamClosedRemotely(p) \/ OnOpenMessage(p)
    \/ WorkerHandlesReset(p) \/ WorkerLooksAtQueue(p) \/ WorkerReportsData(p)
    \/ Stack(p)

Spec == Init /\ [][Next]_vars

(* The two threads run their queues and the stack receives.                *)
Signaling(p) ==
  \/ OnStreamClosedRemotely(p) \/ OnOpenMessage(p)
  \/ \E s \in Sid : OpenerReady(p, s) \/ AckerReady(p, s)

Fairness ==
  \A p \in Peer :
    /\ WF_vars(Signaling(p))
    /\ WF_vars(WorkerHandlesReset(p) \/ WorkerReportsData(p))
    /\ WF_vars(Stack(p))

FairSpec == Spec /\ Fairness

---------------------------------------------------------------------------
(* Properties.                                                             *)

(* The allocator and the list of channels agree: an id is in use exactly   *)
(* as long as a channel has it, so none is leaked and none is given twice. *)
UsedIffChannel ==
  \A p \in Peer : used[p] = {s \in Sid : Exists(p, s)}

Pending(p) ==
  UNION {inbox[p][i].sids :
           i \in {j \in DOMAIN inbox[p] : inbox[p][j].type = "closedRemotely"}}

(* No channel loses its stream without notice: the stream of a channel is  *)
(* one of the media channel's open ones, or the news that the peer reset   *)
(* it is on the way to the channel, or AddStream never took it (of a       *)
(* former channel with that id, or kMaxSctpSid).                           *)
ChannelHasStream ==
  \A p \in Peer, s \in Sid :
    Exists(p, s) => \/ s \in open[p] \cup Pending(p)
                    \/ << p, channel[p][s].number >> \in refused

(* Nothing resets a stream by itself: the news that the peer closed closes *)
(* a channel only if an end of a channel with its id was closed before,    *)
(* however the resets of one id and another are gathered, refused, tried   *)
(* again and answered.                                                     *)
ClosedByNews(p, s) ==
  OnStreamClosedRemotely(p) /\ Exists(p, s) /\ channel'[p][s] = None

RemoteCloseHasACause ==
  [][\A p \in Peer : \A s \in Sid :
       ClosedByNews(p, s) => \E n \in Numbers : << n, s >> \in closed]_vars

(* That it was an end of that very channel is what datachannel.h has in    *)
(* mind when it says of SignalClosed that it "can be used to tell when the *)
(* channel's sid is free".  PeerConnection gives the id away on that       *)
(* signal, and a close of the former channel that is still on its way      *)
(* closes the new one.                                                     *)
RemoteCloseIsForThisChannel ==
  [][\A p \in Peer : \A s \in Sid :
       ClosedByNews(p, s) => << channel[p][s].number, s >> \in closed]_vars

IsClosed(n) == \E s \in Sid : << n, s >> \in closed

Gone(n) == \A p \in Peer, s \in Sid : Exists(p, s) => channel[p][s].number # n

(* Once one end of a channel that both ends had with a stream is closed,   *)
(* the other end closes too, whichever way the two peers' resets cross on  *)
(* the wire.  For the first channel of an id; the resets left from a       *)
(* former one can swallow those of the next.                               *)
CloseReachesPeer == \A n \in Numbers : n \in met /\ IsClosed(n) ~> Gone(n)

(* mediachannel.h has SignalStreamClosedRemotely "for notifying that the    *)
(* remote side has closed the DataChannel", so a channel one end closed    *)
(* goes away at both.  Not if the reset overtakes the OPEN inside the      *)
(* peer: the worker thread finds the stream unknown, which the comment     *)
(* there puts down to a retransmit, and then the signaling thread creates  *)
(* the channel, which nothing closes.                                      *)
CloseIsMutual == \A n \in Numbers : IsClosed(n) ~> Gone(n)

(* sctpdataengine.h calls kMaxSctpSid "the highest stream ID (Sid) that    *)
(* SCTP allows", and the allocator gives it away.  AddStream refuses it:   *)
(* the channel has no stream, and fails when data is first sent on it.     *)
HighestSidIsUsable ==
  \A p \in Peer :
    Exists(p, kMaxSctpSid) => kMaxSctpSid \in open[p] \cup Pending(p)

===========================================================================
