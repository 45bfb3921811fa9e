---------------------------- MODULE SctpStreams ----------------------------
(***************************************************************************)
(* cricket::SctpDataMediaChannel (talk/media/sctp/sctpdataengine.cc) at    *)
(* the two ends of one SCTP association: the sets of streams that are      *)
(* open, that wait to be reset and whose reset was sent, and the RE-CONFIG *)
(* exchange that moves a stream from one to the next.                      *)
(*                                                                         *)
(* Three things run concurrently at a peer.  The SCTP stack (usrsctp,      *)
(* external) takes chunks off the wire, answers them and posts events; the *)
(* worker thread handles an event and posts to the signaling thread; the   *)
(* signaling thread calls AddStream, ResetStream and SendData, which run   *)
(* on the worker thread by Invoke.  wire[p] and events[p] are the queues   *)
(* in front of the first two; the third belongs to SctpSids.               *)
(***************************************************************************)
EXTENDS Naturals, Sequences

CONSTANTS
  Peer,         \* the two ends
  Sid,          \* the stream ids in use
  kMaxSctpSid,  \* sctpdataengine.h
  Body,         \* what a message can carry
  MaxAdds,      \* bound on the streams added at a peer
  MaxMessages   \* bound on the messages sent

ASSUME TwoPeers == \E a, b \in Peer : a # b /\ Peer = {a, b}
ASSUME SidsAreNumbers == Sid \subseteq Nat /\ kMaxSctpSid \in Nat
ASSUME CountsAreNumbers == MaxAdds \in Nat /\ MaxMessages \in Nat

Other(p) == CHOOSE q \in Peer : q # p

VARIABLES
  open,         \* open_streams_
  queued,       \* queued_reset_streams_
  sent,         \* sent_reset_streams_
  outstanding,  \* the streams of the stack's unanswered reset request
  wire,         \* chunks on their way to the peer's stack
  events,       \* MSG_SCTPINBOUNDPACKETs posted to the worker thread
  adds,         \* history: streams added
  messages      \* history: messages sent by both peers

streamVars == << open, queued, sent, outstanding, wire, events,
                 adds, messages >>

Request == {"request"}
Answer == {"performed", "inProgress"}

(* A stack that performs a reset request answers "performed"; the one that *)
(* has a request of its own outstanding answers "inProgress".              *)
Chunk == [type : Request \cup Answer,
          sids : {sids \in SUBSET Sid : sids # {}}]
           \cup [type : {"message"}, sid : Sid, body : Body]

(* The SCTP_STREAM_RESET_EVENTs that change the sets, and data: flag       *)
(* INCOMING_SSN or FAILED.                                                 *)
Event == [type : {"incoming", "failed"}, sids : SUBSET Sid]
           \cup [type : {"message"}, sid : Sid, body : Body]

TypeOK ==
  /\ open \in [Peer -> SUBSET Sid]
  /\ queued \in [Peer -> SUBSET Sid]
  /\ sent \in [Peer -> SUBSET Sid]
  /\ outstanding \in [Peer -> SUBSET Sid]
  /\ wire \in [Peer -> Seq(Chunk)]
  /\ events \in [Peer -> Seq(Event)]
  /\ adds \in [Peer -> Nat]
  /\ messages \in Nat

Init ==
  /\ open = [p \in Peer |-> {}]
  /\ queued = [p \in Peer |-> {}]
  /\ sent = [p \in Peer |-> {}]
  /\ outstanding = [p \in Peer |-> {}]
  /\ wire = [p \in Peer |-> << >>]
  /\ events = [p \in Peer |-> << >>]
  /\ adds = [p \in Peer |-> 0]
  /\ messages = 0

Push(q, p, item) == q' = [q EXCEPT ![p] = Append(@, item)]
Pop(q, p) == q' = [q EXCEPT ![p] = Tail(@)]

---------------------------------------------------------------------------
(* Calls of the signaling thread.                                          *)

(* A mutant: the two closing sets are not looked at.                       *)
AcceptsClosingStream(p, s) == s < kMaxSctpSid /\ s \notin open[p]

AcceptsStream(p, s) ==
  s < kMaxSctpSid /\ s \notin open[p] \cup queued[p] \cup sent[p]

AddStream(p, s) ==
  /\ AcceptsStream(p, s)
  /\ adds[p] < MaxAdds
  /\ adds' = [adds EXCEPT ![p] = @ + 1]
  /\ open' = [open EXCEPT ![p] = @ \cup {s}]
  /\ UNCHANGED << queued, sent, outstanding, wire, events, messages >>

(* A mutant: an empty queue is not tested.                                 *)
SendAnyStreamResets(p, newQueued, newSent) ==
  IF newSent = {} /\ outstanding[p] = {}
  THEN /\ queued' = [queued EXCEPT ![p] = {}]
       /\ sent' = [sent EXCEPT ![p] = newQueued]
       /\ outstanding' = [outstanding EXCEPT ![p] = newQueued]
       /\ Push(wire, Other(p), [type |-> "request", sids |-> newQueued])
  ELSE /\ queued' = [queued EXCEPT ![p] = newQueued]
       /\ sent' = [sent EXCEPT ![p] = newSent]
       /\ UNCHANGED << outstanding, wire >>

(* SendQueuedStreamResets(), called last by the two handlers that change   *)
(* the sets, with the sets they computed.  One request goes out for all    *)
(* that is queued, unless one is still to be acknowledged; the call to the *)
(* stack fails when the stack has a request outstanding, and then the      *)
(* streams stay queued.                                                    *)
SendQueuedStreamResets(p, newQueued, newSent) ==
  IF newSent = {} /\ newQueued # {} /\ outstanding[p] = {}
  THEN /\ queued' = [queued EXCEPT ![p] = {}]
       /\ sent' = [sent EXCEPT ![p] = newQueued]
       /\ outstanding' = [outstanding EXCEPT ![p] = newQueued]
       /\ Push(wire, Other(p), [type |-> "request", sids |-> newQueued])
  ELSE /\ queued' = [queued EXCEPT ![p] = newQueued]
       /\ sent' = [sent EXCEPT ![p] = newSent]
       /\ UNCHANGED << outstanding, wire >>

ResetStream(p, s) ==
  /\ s \in open[p]
  /\ open' = [open EXCEPT ![p] = @ \ {s}]
  /\ SendQueuedStreamResets(p, queued[p] \cup {s}, sent[p])
  /\ UNCHANGED << events, adds, messages >>

(* SendData() with room in the send buffer.  Only data is tested against   *)
(* open_streams_, so a control message also goes out on a stream that is   *)
(* closed or closing.                                                      *)
SendData(p, s, body, control) ==
  /\ control \/ s \in open[p]
  /\ messages < MaxMessages
  /\ messages' = messages + 1
  /\ Push(wire, Other(p), [type |-> "message", sid |-> s, body |-> body])
  /\ UNCHANGED << open, queued, sent, outstanding, events, adds >>

---------------------------------------------------------------------------
(* The SCTP stack, external.  A request resets the streams in both         *)
(* directions: the receiver's incoming side at once, with an INCOMING      *)
(* event, and its outgoing side too unless its own request is outstanding. *)
(* The requester learns of the former only through the latter.             *)

Receives(p, types) == wire[p] # << >> /\ Head(wire[p]).type \in types

PerformsReset(p) ==
  /\ Receives(p, Request)
  /\ LET sids == Head(wire[p]).sids
         answer == IF outstanding[p] = {} THEN "performed" ELSE "inProgress"
     IN  /\ Push(events, p, [type |-> "incoming", sids |-> sids])
         /\ wire' = [wire EXCEPT
              ![p] = Tail(@),
              ![Other(p)] = Append(@, [type |-> answer, sids |-> sids])]
  /\ UNCHANGED << open, queued, sent, outstanding, adds, messages >>

ResetAnswered(p) ==
  /\ Receives(p, Answer)
  /\ LET c == Head(wire[p])
     IN  Push(events, p, IF c.type = "performed"
                         THEN [type |-> "incoming", sids |-> c.sids]
                         ELSE [type |-> "failed", sids |-> {}])
  /\ Pop(wire, p)
  /\ outstanding' = [outstanding EXCEPT ![p] = {}]
  /\ UNCHANGED << open, queued, sent, adds, messages >>

ReceivesMessage(p) ==
  /\ Receives(p, {"message"})
  /\ Push(events, p, Head(wire[p]))
  /\ Pop(wire, p)
  /\ UNCHANGED << open, queued, sent, outstanding, adds, messages >>

StackReceives(p) == PerformsReset(p) \/ ResetAnswered(p) \/ ReceivesMessage(p)

---------------------------------------------------------------------------
(* The worker thread.                                                      *)

(* Mutants: what was sent is not cleared, or not sent again.               *)
OnResetFailedKeepsSent(p) ==
  /\ events[p] # << >> /\ Head(events[p]).type = "failed"
  /\ Pop(events, p)
  /\ SendQueuedStreamResets(p, queued[p] \cup sent[p], sent[p])
  /\ UNCHANGED << open, adds, messages >>

OnResetFailedWaits(p) ==
  /\ events[p] # << >> /\ Head(events[p]).type = "failed"
  /\ Pop(events, p)
  /\ queued' = [queued EXCEPT ![p] = @ \cup sent[p]]
  /\ sent' = [sent EXCEPT ![p] = {}]
  /\ UNCHANGED << open, outstanding, wire, adds, messages >>

(* OnStreamResetEvent() with SCTP_STREAM_RESET_FAILED: try again with what *)
(* was sent; the stream ids of the event are garbage.                      *)
OnResetFailed(p) ==
  /\ events[p] # << >> /\ Head(events[p]).type = "failed"
  /\ Pop(events, p)
  /\ SendQueuedStreamResets(p, queued[p] \cup sent[p], {})
  /\ UNCHANGED << open, adds, messages >>

(* OnStreamResetEvent() with SCTP_STREAM_RESET_INCOMING_SSN.  For a stream *)
(* whose reset was sent this is the acknowledgement, for an open stream it *)
(* is the peer's close (SignalStreamClosedRemotely), for a queued one the  *)
(* peer was first.                                                         *)
ClosedRemotely(p, sids) == (sids \ sent[p]) \cap open[p]

(* A mutant: an acknowledgement does not end the wait for it.              *)
OnIncomingResetUnacknowledged(p) ==
  /\ events[p] # << >> /\ Head(events[p]).type = "incoming"
  /\ Pop(events, p)
  /\ LET sids == Head(events[p]).sids
         closed == ClosedRemotely(p, sids)
     IN  /\ open' = [open EXCEPT ![p] = @ \ closed]
         /\ SendQueuedStreamResets(p, queued[p] \ (sids \ (sent[p] \cup closed)),
                                   sent[p])
  /\ UNCHANGED << adds, messages >>

OnIncomingReset(p) ==
  /\ events[p] # << >> /\ Head(events[p]).type = "incoming"
  /\ Pop(events, p)
  /\ LET sids == Head(events[p]).sids
         closed == ClosedRemotely(p, sids)
     IN  /\ open' = [open EXCEPT ![p] = @ \ closed]
         /\ SendQueuedStreamResets(p, queued[p] \ (sids \ (sent[p] \cup closed)),
                                   sent[p] \ sids)
  /\ UNCHANGED << adds, messages >>

(* OnStreamResetEvent() with SCTP_STREAM_RESET_OUTGOING_SSN, which follows *)
(* an INCOMING one and only makes the handler look at the queue.  These    *)
(* events are not kept in events: one may come at any time.                *)
OnOutgoingReset(p) ==
  /\ SendQueuedStreamResets(p, queued[p], sent[p])
  /\ UNCHANGED << open, events, adds, messages >>

(* OnDataFromSctpToChannel(): a message is reported to the signaling       *)
(* thread whether its stream is known or not.                              *)
OnDataFromSctp(p) ==
  /\ events[p] # << >> /\ Head(events[p]).type = "message"
  /\ Pop(events, p)
  /\ UNCHANGED << open, queued, sent, outstanding, wire, adds, messages >>

WorkerHandles(p) == \/ OnResetFailed(p) \/ OnIncomingReset(p)
                    \/ OnOutgoingReset(p) \/ OnDataFromSctp(p)

---------------------------------------------------------------------------
(* On its own the component meets any caller: the signaling thread adds    *)
(* and resets streams and sends messages as it likes.                      *)

Next ==
  \E p \in Peer :
    \/ \E s \in Sid : AddStream(p, s) \/ ResetStream(p, s)
    \/ \E s \in Sid, body \in Body, control \in BOOLEAN :
          SendData(p, s, body, control)
    \/ StackReceives(p)
    \/ WorkerHandles(p)

Spec == Init /\ [][Next]_streamVars

(* Packets arrive, SCTP retransmits them, and the threads run their queues.*)
Fairness ==
  \A p \in Peer :
    /\ WF_streamVars(StackReceives(p))
    /\ WF_streamVars(OnResetFailed(p) \/ OnIncomingReset(p) \/ OnDataFromSctp(p))

FairSpec == Spec /\ Fairness

---------------------------------------------------------------------------
(* Properties.                                                             *)

(* A stream is in one of the three sets at most, so that AddStream and     *)
(* OnStreamResetEvent, which look in them one after the other, agree on    *)
(* what state it is in.                                                    *)
SetsDisjoint ==
  \A p \in Peer :
    /\ open[p] \cap queued[p] = {}
    /\ open[p] \cap sent[p] = {}
    /\ queued[p] \cap sent[p] = {}

(* An answer to p's request is on its way: it is with the peer's stack, on *)
(* the wire back, or posted to p's worker thread.                          *)
AnswerComes(p) ==
  \/ outstanding[p] # {} /\ sent[p] \subseteq outstanding[p]
  \/ \E i \in DOMAIN events[p] :
       \/ events[p][i].type = "failed"
       \/ events[p][i].type = "incoming" /\ sent[p] \subseteq events[p][i].sids

(* sent_reset_streams_ never waits for nothing: as long as it holds a      *)
(* stream, and so holds up every other reset, an answer to it comes.       *)
SentIsAnswered ==
  \A p \in Peer : sent[p] # {} => AnswerComes(p)

(* A queued reset is not forgotten: something is under way whose event     *)
(* makes OnStreamResetEvent try again.  Nothing else does: a failed call   *)
(* of usrsctp_setsockopt is not retried by itself.                         *)
QueuedIsRetried ==
  \A p \in Peer :
    queued[p] # {} =>
      outstanding[p] # {} \/ \E i \in DOMAIN events[p] :
                               events[p][i].type \in {"failed", "incoming"}

(* At most one chunk of the given types is in the queue, and it carries    *)
(* the given streams.                                                      *)
Has(queue, types) == \E i \in DOMAIN queue : queue[i].type \in types

AtMostOne(queue, types, sids) ==
  /\ \A i \in DOMAIN queue : queue[i].type \in types => queue[i].sids = sids
  /\ \A i, j \in DOMAIN queue :
       queue[i].type \in types /\ queue[j].type \in types => i = j

(* At most one reset request of a peer is under way: the wires hold its    *)
(* request or the answer, of the streams the stack waits for, never both.  *)
(* As no chunk names no stream, they hold neither when it waits for none.  *)
OneRequest ==
  \A p \in Peer :
    /\ AtMostOne(wire[Other(p)], Request, outstanding[p])
    /\ AtMostOne(wire[p], Answer, outstanding[p])
    /\ ~ (Has(wire[Other(p)], Request) /\ Has(wire[p], Answer))

(* The inductive invariant that SetsDisjoint, SentIsAnswered and           *)
(* QueuedIsRetried follow from.                                            *)
ResetInv ==
  TypeOK /\ SetsDisjoint /\ OneRequest /\ SentIsAnswered /\ QueuedIsRetried

(* Every reset completes, unless the two peers' requests collide for ever: *)
(* as only MaxAdds streams are ever added, both peers come to rest.        *)
Collision == \E p \in Peer : events[p] # << >> /\ Head(events[p]).type = "failed"

AtRest == \A p \in Peer : queued[p] = {} /\ sent[p] = {}

ResetCompletes == <>[]~Collision => (~AtRest ~> AtRest)

===========================================================================
