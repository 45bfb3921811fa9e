--------------------------- MODULE SctpSids_proof ---------------------------
(***************************************************************************)
(* Proofs about SctpSids, for any number of stream ids and of channels.    *)
(* What its media channel does is what SctpStreams does, so the theorems   *)
(* of SctpStreams_proof hold here too.                                     *)
(***************************************************************************)
EXTENDS SctpSids, SequenceLemmas, TLAPS

Media == INSTANCE SctpStreams_proof WITH Body <- Numbers

LEMMA Assumptions ==
  /\ \E a, b \in Peer : a # b /\ Peer = {a, b}
  /\ Sid \subseteq Nat /\ kMaxSctpSid \in Nat
  /\ MaxAdds \in Nat /\ MaxMessages \in Nat /\ MaxCreates \in Nat
  /\ Client \in Peer
BY TwoEnds, AreNat DEF Sid

---------------------------------------------------------------------------
(* The inductive invariant.  Beside the types and UsedIffChannel it says   *)
(* that a channel has a number, and that number and id agree in parity in  *)
(* every message under way, as they do in every channel.                   *)

PairedChunk == {c \in Streams!Chunk : c.type = "message" => c.body % 2 = c.sid % 2}
PairedEvent == {e \in Streams!Event : e.type = "message" => e.body % 2 = e.sid % 2}
PairedPost  == {m \in Post : m.type = "message" => m.body % 2 = m.sid % 2}

Carried == wire \in [Peer -> Seq(PairedChunk)] /\ events \in [Peer -> Seq(PairedEvent)]

Slot == [state : {"none", "opener", "acker", "open"}, number : Numbers \cup {0}]

Held(p, s) ==
  Exists(p, s) => /\ channel[p][s].state # "none"
                  /\ channel[p][s].number \in Numbers
                  /\ channel[p][s].number % 2 = s % 2

ChannelsOK ==
  /\ used \in [Peer -> SUBSET Sid]
  /\ channel \in [Peer -> [Sid -> Slot]]
  /\ \A p \in Peer, s \in Sid : Held(p, s)
  /\ UsedIffChannel

RestOK ==
  /\ inbox \in [Peer -> Seq(PairedPost)]
  /\ created \in [Peer -> 0..MaxCreates]
  /\ met \subseteq Numbers
  /\ refused \subseteq Peer \X Numbers /\ closed \subseteq Numbers \X Sid

SidsInv == Streams!TypeOK /\ Carried /\ ChannelsOK /\ RestOK

---------------------------------------------------------------------------
(* Queues.                                                                 *)

LEMMA Push1 ==
  ASSUME NEW S, NEW q \in [Peer -> Seq(S)], NEW p \in Peer, NEW item \in S
  PROVE  [q EXCEPT ![p] = Append(@, item)] \in [Peer -> Seq(S)]
OBVIOUS

LEMMA Pop1 ==
  ASSUME NEW S, NEW q \in [Peer -> Seq(S)], NEW p \in Peer, q[p] # << >>
  PROVE  [q EXCEPT ![p] = Tail(@)] \in [Peer -> Seq(S)] /\ Head(q[p]) \in S
OBVIOUS

LEMMA OtherEnd ==
  ASSUME NEW p \in Peer
  PROVE  Streams!Other(p) \in Peer /\ Streams!Other(p) # p
BY TwoEnds DEF Streams!Other

LEMMA RequestPaired ==
  ASSUME NEW type \in {"request", "performed", "inProgress"},
         NEW sids \in SUBSET Sid, sids # {}
  PROVE  [type |-> type, sids |-> sids] \in PairedChunk
<1>1. [type |-> type, sids |-> sids] \in Streams!Chunk
  BY DEF Streams!Chunk, Streams!Request, Streams!Answer
<1> QED BY <1>1 DEF PairedChunk

LEMMA EventPaired ==
  ASSUME NEW type \in {"incoming", "failed"}, NEW sids \in SUBSET Sid
  PROVE  [type |-> type, sids |-> sids] \in PairedEvent
<1>1. [type |-> type, sids |-> sids] \in Streams!Event
  BY DEF Streams!Event
<1> QED BY <1>1 DEF PairedEvent

LEMMA ChunkKinds ==
  ASSUME NEW c \in PairedChunk
  PROVE  /\ c.type = "message" => c \in PairedEvent
         /\ c.type # "message" => c.sids \in SUBSET Sid /\ c.sids # {}
<1>1. c \in Streams!Chunk /\ (c.type = "message" => c.body % 2 = c.sid % 2)
  BY DEF PairedChunk
<1>2. c.type = "message" => c \in Streams!Event
  BY <1>1 DEF Streams!Chunk, Streams!Event, Streams!Request, Streams!Answer
<1>3. c.type # "message" => c.sids \in SUBSET Sid /\ c.sids # {}
  BY <1>1 DEF Streams!Chunk
<1> QED BY <1>1, <1>2, <1>3 DEF PairedEvent

LEMMA EventKinds ==
  ASSUME NEW e \in PairedEvent
  PROVE  /\ e.type = "message" =>
              /\ e \in PairedPost /\ e.sid \in Sid /\ e.body \in Numbers
         /\ e.type # "message" => e.sids \in SUBSET Sid
<1>1. e \in Streams!Event /\ (e.type = "message" => e.body % 2 = e.sid % 2)
  BY DEF PairedEvent
<1>2. e.type = "message" => e \in Post /\ e.sid \in Sid /\ e.body \in Numbers
  BY <1>1 DEF Streams!Event, Post
<1>3. e.type # "message" => e.sids \in SUBSET Sid
  BY <1>1 DEF Streams!Event
<1> QED BY <1>1, <1>2, <1>3 DEF PairedPost

LEMMA PostKinds ==
  ASSUME NEW m \in PairedPost
  PROVE  /\ m.type = "message" =>
              m.sid \in Sid /\ m.body \in Numbers /\ m.body % 2 = m.sid % 2
         /\ m.type = "closedRemotely" =>
              /\ m.sids \in SUBSET Sid
              /\ \A sids \in SUBSET Sid : [m EXCEPT !.sids = sids] \in PairedPost
<1>1. m \in Post /\ (m.type = "message" => m.body % 2 = m.sid % 2)
  BY DEF PairedPost
<1>2. m.type = "message" => m.sid \in Sid /\ m.body \in Numbers
  BY <1>1 DEF Post
<1>3. ASSUME m.type = "closedRemotely", NEW sids \in SUBSET Sid
      PROVE  [m EXCEPT !.sids = sids] \in PairedPost
  <2>1. m \in [type : {"closedRemotely"}, sids : SUBSET Sid]
    BY <1>1, <1>3 DEF Post
  <2>2. [m EXCEPT !.sids = sids] \in [type : {"closedRemotely"}, sids : SUBSET Sid]
    BY <2>1
  <2> QED BY <2>2 DEF PairedPost, Post
<1>4. m.type = "closedRemotely" => m.sids \in SUBSET Sid
  BY <1>1 DEF Post
<1> QED BY <1>1, <1>2, <1>3, <1>4


---------------------------------------------------------------------------
(* The media channel.  What the handlers of SctpSids call of it are steps  *)
(* of SctpStreams that carry paired messages on.                           *)

Moves == [Streams!Next]_streamVars /\ Carried'

LEMMA Stays == Carried /\ UNCHANGED streamVars => Moves
BY DEF Moves, Carried, streamVars

LEMMA SendQueuedCarries ==
  ASSUME Streams!TypeOK, Carried, NEW p \in Peer,
         NEW STATE newQueued, newQueued \in SUBSET Sid, NEW STATE newSent,
         Streams!SendQueuedStreamResets(p, newQueued, newSent)
  PROVE  wire' \in [Peer -> Seq(PairedChunk)]
<1> DEFINE item == [type |-> "request", sids |-> newQueued]
           other == Streams!Other(p)
<1>1. other \in Peer /\ wire \in [Peer -> Seq(PairedChunk)]
  BY OtherEnd DEF Carried
<1>2. CASE newSent = {} /\ newQueued # {} /\ outstanding[p] = {}
  <2>1. item \in PairedChunk
    BY <1>2, RequestPaired
  <2>2. wire' = [wire EXCEPT ![other] = Append(@, item)]
    BY <1>2 DEF Streams!SendQueuedStreamResets, Streams!Push
  <2> HIDE DEF item, other
  <2> QED BY <1>1, <2>1, <2>2, Push1
<1>3. CASE ~(newSent = {} /\ newQueued # {} /\ outstanding[p] = {})
  BY <1>1, <1>3 DEF Streams!SendQueuedStreamResets
<1> QED BY <1>2, <1>3

LEMMA AddStreamMoves ==
  ASSUME Streams!TypeOK, Carried, NEW p \in Peer, NEW s \in Sid, AddSendStream(p, s)
  PROVE  Moves
<1>1. CASE Streams!AcceptsStream(p, s)
  <2>1. Streams!AddStream(p, s)
    BY <1>1 DEF AddSendStream
  <2>2. Streams!Next
    BY <2>1 DEF Streams!Next
  <2> QED BY <2>1, <2>2 DEF Moves, Carried, Streams!AddStream
<1>2. CASE ~Streams!AcceptsStream(p, s)
  BY <1>2, Stays DEF AddSendStream
<1> QED BY <1>1, <1>2

LEMMA ResetStreamMoves ==
  ASSUME Streams!TypeOK, Carried, NEW p \in Peer, NEW s \in Sid, Streams!ResetStream(p, s)
  PROVE  Moves
<1> DEFINE newQueued == queued[p] \cup {s}
           newSent == sent[p]
<1>1. newQueued \in SUBSET Sid
  BY DEF Streams!TypeOK
<1>2. Streams!SendQueuedStreamResets(p, newQueued, newSent) /\ events' = events
  BY DEF Streams!ResetStream
<1> HIDE DEF newQueued, newSent
<1>3. wire' \in [Peer -> Seq(PairedChunk)]
  BY <1>1, <1>2, SendQueuedCarries
<1>4. Streams!Next
  BY DEF Streams!Next
<1> QED BY <1>2, <1>3, <1>4 DEF Moves, Carried

LEMMA SendDataMoves ==
  ASSUME Streams!TypeOK, Carried, NEW p \in Peer, NEW s \in Sid,
         NEW n \in Numbers, n % 2 = s % 2, Streams!SendData(p, s, n, TRUE)
  PROVE  Moves
<1> DEFINE item == [type |-> "message", sid |-> s, body |-> n]
           other == Streams!Other(p)
<1>1. other \in Peer /\ wire \in [Peer -> Seq(PairedChunk)]
  BY OtherEnd DEF Carried
<1>2. item \in PairedChunk
  <2>1. item \in Streams!Chunk
    BY DEF Streams!Chunk
  <2> QED BY <2>1 DEF PairedChunk
<1>3. wire' = [wire EXCEPT ![other] = Append(@, item)] /\ events' = events
  BY DEF Streams!SendData, Streams!Push
<1>4. Streams!Next
  <2>1. \E body \in Numbers, control \in BOOLEAN : Streams!SendData(p, s, body, control)
    BY DEF Streams!SendData
  <2> QED BY <2>1 DEF Streams!Next
<1> HIDE DEF item, other
<1>5. wire' \in [Peer -> Seq(PairedChunk)]
  BY <1>1, <1>2, <1>3, Push1
<1> QED BY <1>3, <1>4, <1>5 DEF Moves, Carried

LEMMA StackMoves ==
  ASSUME Streams!TypeOK, Carried, NEW p \in Peer, Streams!StackReceives(p)
  PROVE  Moves
<1> DEFINE c == Head(wire[p])
           rest == [wire EXCEPT ![p] = Tail(@)]
           other == Streams!Other(p)
<1>1. /\ wire \in [Peer -> Seq(PairedChunk)] /\ events \in [Peer -> Seq(PairedEvent)]
      /\ other \in Peer /\ other # p
  BY OtherEnd DEF Carried
<1>2. wire[p] # << >>
  BY DEF Streams!StackReceives, Streams!PerformsReset, Streams!ResetAnswered,
         Streams!ReceivesMessage, Streams!Receives
<1>3. c \in PairedChunk /\ rest \in [Peer -> Seq(PairedChunk)]
  BY <1>1, <1>2, Pop1
<1>4. Streams!Next
  BY DEF Streams!Next
<1>5. CASE Streams!PerformsReset(p)
  <2> DEFINE answer == IF outstanding[p] = {} THEN "performed" ELSE "inProgress"
             item == [type |-> answer, sids |-> c.sids]
             e == [type |-> "incoming", sids |-> c.sids]
  <2>1. c.type = "request"
    BY <1>5 DEF Streams!PerformsReset, Streams!Receives, Streams!Request
  <2>2. c.sids \in SUBSET Sid /\ c.sids # {}
    BY <1>3, <2>1, ChunkKinds
  <2>3. item \in PairedChunk /\ e \in PairedEvent
    BY <2>2, RequestPaired, EventPaired
  <2>4. /\ wire' = [wire EXCEPT ![p] = Tail(@), ![other] = Append(@, item)]
        /\ events' = [events EXCEPT ![p] = Append(@, e)]
    BY <1>5 DEF Streams!PerformsReset, Streams!Push
  <2> HIDE DEF item, e, other
  <2>5. wire' = [rest EXCEPT ![other] = Append(@, item)]
    BY <1>1, <2>4
  <2> HIDE DEF rest
  <2>6. wire' \in [Peer -> Seq(PairedChunk)]
    BY <1>1, <1>3, <2>3, <2>5, Push1
  <2>7. events' \in [Peer -> Seq(PairedEvent)]
    BY <1>1, <2>3, <2>4, Push1
  <2> QED BY <1>4, <2>6, <2>7 DEF Moves, Carried
<1>6. CASE Streams!ResetAnswered(p)
  <2> DEFINE e == IF c.type = "performed" THEN [type |-> "incoming", sids |-> c.sids]
                                          ELSE [type |-> "failed", sids |-> {}]
  <2>1. c.type # "message"
    BY <1>6 DEF Streams!ResetAnswered, Streams!Receives, Streams!Answer
  <2>2. c.sids \in SUBSET Sid
    BY <1>3, <2>1, ChunkKinds
  <2>3. e \in PairedEvent
    BY <2>2, EventPaired
  <2>4. /\ wire' = rest
        /\ events' = [events EXCEPT ![p] = Append(@, e)]
    BY <1>6 DEF Streams!ResetAnswered, Streams!Push, Streams!Pop
  <2> HIDE DEF e
  <2>5. events' \in [Peer -> Seq(PairedEvent)]
    BY <1>1, <2>3, <2>4, Push1
  <2> QED BY <1>3, <1>4, <2>4, <2>5 DEF Moves, Carried
<1>7. CASE Streams!ReceivesMessage(p)
  <2>1. c.type = "message"
    BY <1>7 DEF Streams!ReceivesMessage, Streams!Receives
  <2>2. c \in PairedEvent
    BY <1>3, <2>1, ChunkKinds
  <2>3. /\ wire' = rest
        /\ events' = [events EXCEPT ![p] = Append(@, c)]
    BY <1>7 DEF Streams!ReceivesMessage, Streams!Push, Streams!Pop
  <2> HIDE DEF c
  <2>4. events' \in [Peer -> Seq(PairedEvent)]
    BY <1>1, <2>2, <2>3, Push1
  <2> QED BY <1>3, <1>4, <2>3, <2>4 DEF Moves, Carried
<1> QED BY <1>5, <1>6, <1>7 DEF Streams!StackReceives

LEMMA WorkerMoves ==
  ASSUME Streams!TypeOK, Carried, NEW p \in Peer, Streams!WorkerHandles(p)
  PROVE  Moves
<1>0. Streams!Next
  BY DEF Streams!Next
<1>1. wire \in [Peer -> Seq(PairedChunk)] /\ events \in [Peer -> Seq(PairedEvent)]
  BY DEF Carried
<1>2. ASSUME events[p] # << >>, Streams!Pop(events, p)
      PROVE  events' \in [Peer -> Seq(PairedEvent)]
  BY <1>1, <1>2, Pop1 DEF Streams!Pop
<1>3. CASE Streams!OnResetFailed(p)
  <2> DEFINE newQueued == queued[p] \cup sent[p]
             newSent == {}
  <2>1. newQueued \in SUBSET Sid
    BY DEF Streams!TypeOK
  <2>2. Streams!SendQueuedStreamResets(p, newQueued, newSent)
    BY <1>3 DEF Streams!OnResetFailed
  <2> HIDE DEF newQueued, newSent
  <2>3. wire' \in [Peer -> Seq(PairedChunk)]
    BY <2>1, <2>2, SendQueuedCarries
  <2> QED BY <1>0, <1>2, <1>3, <2>3 DEF Moves, Carried, Streams!OnResetFailed
<1>4. CASE Streams!OnIncomingReset(p)
  <2> DEFINE sids == Head(events[p]).sids
             closedHere == Streams!ClosedRemotely(p, sids)
             newQueued == queued[p] \ (sids \ (sent[p] \cup closedHere))
             newSent == sent[p] \ sids
  <2>1. newQueued \in SUBSET Sid
    BY DEF Streams!TypeOK
  <2>2. Streams!SendQueuedStreamResets(p, newQueued, newSent)
    BY <1>4 DEF Streams!OnIncomingReset
  <2> HIDE DEF newQueued, newSent
  <2>3. wire' \in [Peer -> Seq(PairedChunk)]
    BY <2>1, <2>2, SendQueuedCarries
  <2> QED BY <1>0, <1>2, <1>4, <2>3 DEF Moves, Carried, Streams!OnIncomingReset
<1>5. CASE Streams!OnOutgoingReset(p)
  <2> DEFINE newQueued == queued[p]
             newSent == sent[p]
  <2>1. newQueued \in SUBSET Sid
    BY DEF Streams!TypeOK
  <2>2. Streams!SendQueuedStreamResets(p, newQueued, newSent)
    BY <1>5 DEF Streams!OnOutgoingReset
  <2> HIDE DEF newQueued, newSent
  <2>3. wire' \in [Peer -> Seq(PairedChunk)]
    BY <2>1, <2>2, SendQueuedCarries
  <2> QED BY <1>0, <1>1, <1>5, <2>3 DEF Moves, Carried, Streams!OnOutgoingReset
<1>6. CASE Streams!OnDataFromSctp(p)
  BY <1>0, <1>1, <1>2, <1>6 DEF Moves, Carried, Streams!OnDataFromSctp
<1> QED BY <1>3, <1>4, <1>5, <1>6 DEF Streams!WorkerHandles

LEMMA CloseMoves ==
  ASSUME Streams!TypeOK, Carried, NEW p \in Peer, NEW s \in Sid,
         IF s \in open[p] THEN Streams!ResetStream(p, s) ELSE UNCHANGED streamVars
  PROVE  Moves
<1>1. CASE s \in open[p]
  BY <1>1, ResetStreamMoves
<1>2. CASE s \notin open[p]
  BY <1>2, Stays
<1> QED BY <1>1, <1>2

---------------------------------------------------------------------------
(* The channels of one peer.                                               *)

LEMMA SlotSet ==
  ASSUME NEW f \in [Peer -> [Sid -> Slot]], NEW p \in Peer, NEW s \in Sid, NEW r \in Slot
  PROVE  /\ [f EXCEPT ![p][s] = r] \in [Peer -> [Sid -> Slot]]
         /\ \A q \in Peer, t \in Sid :
              [f EXCEPT ![p][s] = r][q][t] = IF q = p /\ t = s THEN r ELSE f[q][t]
OBVIOUS

LEMMA SlotOpened ==
  ASSUME NEW f \in [Peer -> [Sid -> Slot]], NEW p \in Peer, NEW s \in Sid
  PROVE  [f EXCEPT ![p][s].state = "open"] =
           [f EXCEPT ![p][s] = [f[p][s] EXCEPT !.state = "open"]]
OBVIOUS

(* Setting one entry, and the allocator's set with it.                     *)
LEMMA SlotChanges ==
  ASSUME ChannelsOK, NEW p \in Peer, NEW s \in Sid, NEW STATE r, r \in Slot,
         channel' = [channel EXCEPT ![p][s] = r],
         r = None \/ /\ r # None /\ r.state # "none" /\ r.number \in Numbers
                     /\ r.number % 2 = s % 2,
         used' \in [Peer -> SUBSET Sid], \A q \in Peer : q # p => used'[q] = used[q],
         used'[p] = IF r = None THEN used[p] \ {s} ELSE used[p] \cup {s}
  PROVE  ChannelsOK'
<1>1. /\ channel \in [Peer -> [Sid -> Slot]] /\ used \in [Peer -> SUBSET Sid]
      /\ \A q \in Peer, t \in Sid : Held(q, t)
      /\ \A q \in Peer, t \in Sid : t \in used[q] <=> channel[q][t] # None
  BY DEF ChannelsOK, UsedIffChannel, Exists
<1>2. /\ channel' \in [Peer -> [Sid -> Slot]]
      /\ \A q \in Peer, t \in Sid :
           channel'[q][t] = IF q = p /\ t = s THEN r ELSE channel[q][t]
  BY <1>1, SlotSet
<1>3. ASSUME NEW q \in Peer, NEW t \in Sid PROVE Held(q, t)'
  <2>1. CASE q = p /\ t = s
    BY <1>2, <2>1 DEF Held, Exists
  <2>2. CASE ~(q = p /\ t = s)
    <3>1. channel'[q][t] = channel[q][t]
      BY <1>2, <2>2
    <3> QED BY <1>1, <3>1 DEF Held, Exists
  <2> QED BY <2>1, <2>2
<1>4. ASSUME NEW q \in Peer, NEW t \in Sid PROVE t \in used'[q] <=> channel'[q][t] # None
  <2>1. CASE q # p
    BY <1>1, <1>2, <2>1
  <2>2. CASE q = p /\ t # s
    <3>1. channel'[q][t] = channel[q][t] /\ (t \in used'[q] <=> t \in used[q])
      BY <1>2, <2>2
    <3> QED BY <1>1, <3>1
  <2>3. CASE q = p /\ t = s
    BY <1>2, <2>3
  <2> QED BY <2>1, <2>2, <2>3
<1>5. UsedIffChannel'
  BY <1>4 DEF UsedIffChannel, Exists
<1> QED BY <1>2, <1>3, <1>5 DEF ChannelsOK

LEMMA NoneSlot == None \in Slot
BY DEF None, Slot


---------------------------------------------------------------------------
(* The handlers of the signaling thread and of the worker thread.          *)

LEMMA SidsInvTypes ==
  ASSUME SidsInv
  PROVE  /\ Streams!TypeOK /\ Carried /\ ChannelsOK
         /\ wire \in [Peer -> Seq(PairedChunk)] /\ events \in [Peer -> Seq(PairedEvent)]
         /\ inbox \in [Peer -> Seq(PairedPost)]
         /\ used \in [Peer -> SUBSET Sid] /\ channel \in [Peer -> [Sid -> Slot]]
         /\ \A p \in Peer, s \in Sid : Held(p, s)
         /\ created \in [Peer -> 0..MaxCreates] /\ met \subseteq Numbers
         /\ refused \subseteq Peer \X Numbers /\ closed \subseteq Numbers \X Sid
         /\ open \in [Peer -> SUBSET Sid]
BY DEF SidsInv, Carried, ChannelsOK, RestOK, Streams!TypeOK

LEMMA AllocatedSid ==
  ASSUME NEW p \in Peer, Allocatable(p) # {}
  PROVE  Min(Allocatable(p)) \in {s \in Sid : OfRole(p, s) /\ s \notin used[p]}
<1>1. Allocatable(p) \subseteq {s \in Sid : OfRole(p, s) /\ s \notin used[p]}
  BY DEF Allocatable, IsSidAvailable
<1>2. Allocatable(p) \in SUBSET Nat
  BY <1>1, Assumptions
<1>3. PICK T \in SUBSET Nat : T = Allocatable(p)
  BY <1>2
<1>4. \E x \in T : \A y \in T : x <= y
  BY <1>3, NatMin
<1>5. Min(T) \in T
  BY <1>4 DEF Min
<1> QED BY <1>1, <1>3, <1>5

LEMMA NumberIs ==
  ASSUME NEW p \in Peer, NEW n \in 0..MaxCreates, n < MaxCreates
  PROVE  /\ n + 1 \in 0..MaxCreates
         /\ Number(p, n + 1) \in Numbers
         /\ Number(p, n + 1) % 2 = IF p = Client THEN 0 ELSE 1
<1>1. MaxCreates \in Nat /\ n \in Nat
  BY Assumptions
<1>2. /\ 2 * (n + 1) + 0 \in 2..(2 * MaxCreates + 1) /\ (2 * (n + 1) + 0) % 2 = 0
      /\ 2 * (n + 1) + 1 \in 2..(2 * MaxCreates + 1) /\ (2 * (n + 1) + 1) % 2 = 1
  BY <1>1
<1> QED BY <1>1, <1>2 DEF Number, Numbers

LEMMA AddChannelDoes ==
  ASSUME SidsInv, NEW p \in Peer, NEW s \in Sid, NEW role \in {"opener", "acker"},
         NEW n \in Numbers, n % 2 = s % 2, AddChannel(p, s, role, n)
  PROVE  /\ Moves /\ ChannelsOK'
         /\ met' \subseteq Numbers /\ refused' \subseteq Peer \X Numbers
<1> DEFINE r == [state |-> role, number |-> n]
<1>1. Streams!TypeOK /\ Carried
  BY SidsInvTypes
<1>2. Moves
  BY <1>1, AddStreamMoves DEF AddChannel
<1>3. r \in Slot /\ r.state # "none" /\ r.number = n
  BY DEF Slot
<1>4. r # None
  BY <1>3 DEF None
<1>5. /\ channel' = [channel EXCEPT ![p][s] = r]
      /\ used' = [used EXCEPT ![p] = @ \cup {s}]
      /\ met' \in {met, met \cup {n}}
      /\ refused' \in {refused, refused \cup {<< p, n >>}}
  BY DEF AddChannel, HasRefused
<1> HIDE DEF r
<1>6. ChannelsOK'
  <2>1. /\ used' \in [Peer -> SUBSET Sid] /\ used'[p] = used[p] \cup {s}
        /\ \A q \in Peer : q # p => used'[q] = used[q]
    BY <1>5, SidsInvTypes
  <2> QED BY <1>3, <1>4, <1>5, <2>1, SidsInvTypes, SlotChanges
<1>7. met' \subseteq Numbers /\ refused' \subseteq Peer \X Numbers
  BY <1>5, SidsInvTypes
<1> QED BY <1>2, <1>6, <1>7

LEMMA CloseChannelDoes ==
  ASSUME SidsInv, NEW p \in Peer, NEW s \in Sid, Exists(p, s), CloseChannel(p, s)
  PROVE  /\ Moves /\ ChannelsOK' /\ closed' \subseteq Numbers \X Sid
<1>1. Streams!TypeOK /\ Carried
  BY SidsInvTypes
<1>2. Moves
  BY <1>1, CloseMoves DEF CloseChannel
<1>3. /\ channel' = [channel EXCEPT ![p][s] = None]
      /\ used' = [used EXCEPT ![p] = @ \ {s}]
      /\ closed' = closed \cup {<< channel[p][s].number, s >>}
  BY DEF CloseChannel
<1>4. ChannelsOK'
  <2>1. /\ used' \in [Peer -> SUBSET Sid] /\ used'[p] = used[p] \ {s}
        /\ \A q \in Peer : q # p => used'[q] = used[q]
    BY <1>3, SidsInvTypes
  <2> QED BY <1>3, <2>1, SidsInvTypes, NoneSlot, SlotChanges
<1>5. channel[p][s].number \in Numbers
  BY SidsInvTypes DEF Held
<1> QED BY <1>2, <1>3, <1>4, <1>5, SidsInvTypes

LEMMA HeadReplaced ==
  ASSUME NEW q \in Seq(PairedPost), q # << >>, Head(q).type = "closedRemotely",
         NEW left \in SUBSET Sid
  PROVE  [q EXCEPT ![1].sids = left] \in Seq(PairedPost)
<1>1. Head(q) = q[1] /\ q[1] \in PairedPost /\ 1 \in 1..Len(q)
  OBVIOUS
<1>2. PICK r \in PairedPost : r = [q[1] EXCEPT !.sids = left]
  BY <1>1, PostKinds
<1>3. [q EXCEPT ![1] = r] \in Seq(PairedPost)
  BY <1>1
<1>4. [q EXCEPT ![1].sids = left] = [q EXCEPT ![1] = [q[1] EXCEPT !.sids = left]]
  OBVIOUS
<1> QED BY <1>2, <1>3, <1>4

(* All that a step does to the invariant.                                  *)
Does == Moves /\ ChannelsOK' /\ RestOK'

LEMMA CreatesLeft ==
  ASSUME SidsInv, NEW p \in Peer, CreateDataChannel(p)
  PROVE  created[p] < MaxCreates
<1>1. PICK q \in Peer : q # p
  BY TwoEnds
<1>2. created[p] + created[q] < MaxCreates
  BY <1>1 DEF CreateDataChannel
<1>3. created[p] \in Nat /\ created[q] \in Nat /\ MaxCreates \in Nat
  BY SidsInvTypes, Assumptions
<1> QED BY <1>2, <1>3

LEMMA CreateDataChannelDoes ==
  ASSUME SidsInv, NEW p \in Peer, CreateDataChannel(p)
  PROVE  Does
<1>1. PICK s \in Sid : s = Min(Allocatable(p)) /\ OfRole(p, s)
  BY AllocatedSid DEF CreateDataChannel
<1>2. PICK k \in 0..MaxCreates : k = created[p] /\ k < MaxCreates
  BY SidsInvTypes, CreatesLeft
<1>3. PICK n \in Numbers : n = Number(p, k + 1) /\ n % 2 = s % 2
  BY <1>1, <1>2, NumberIs DEF OfRole
<1>4. AddChannel(p, s, "opener", n)
  BY <1>1, <1>2, <1>3 DEF CreateDataChannel
<1>5. /\ Moves /\ ChannelsOK'
      /\ met' \subseteq Numbers /\ refused' \subseteq Peer \X Numbers
  BY <1>3, <1>4, AddChannelDoes
<1>6. created' \in [Peer -> 0..MaxCreates]
  <2>1. created' = [created EXCEPT ![p] = k + 1] /\ k + 1 \in 0..MaxCreates
    BY <1>2, NumberIs DEF CreateDataChannel
  <2> QED BY <2>1, SidsInvTypes
<1>7. inbox' = inbox /\ closed' = closed
  BY DEF CreateDataChannel
<1> QED BY <1>5, <1>6, <1>7, SidsInvTypes DEF Does, RestOK

LEMMA ReadyDoes ==
  ASSUME SidsInv, NEW p \in Peer, NEW s \in Sid, OpenerReady(p, s) \/ AckerReady(p, s)
  PROVE  Does
<1> DEFINE r == [channel[p][s] EXCEPT !.state = "open"]
<1>1. channel[p][s] \in Slot /\ channel[p][s].state \in {"opener", "acker"}
  BY SidsInvTypes DEF OpenerReady, AckerReady
<1>2. Exists(p, s)
  BY <1>1 DEF Exists, None
<1>3. /\ channel[p][s].number \in Numbers /\ channel[p][s].number % 2 = s % 2
      /\ s \in used[p]
  BY <1>2, SidsInvTypes DEF Held, ChannelsOK, UsedIffChannel
<1>4. r \in Slot /\ r.state = "open" /\ r.number = channel[p][s].number
  BY <1>1 DEF Slot
<1>5. r # None
  BY <1>4 DEF None
<1>6. channel' = [channel EXCEPT ![p][s] = r]
  BY SidsInvTypes, SlotOpened DEF OpenerReady, AckerReady
<1> HIDE DEF r
<1>7. ChannelsOK'
  <2>1. used' = used
    BY DEF OpenerReady, AckerReady
  <2>2. /\ used' \in [Peer -> SUBSET Sid] /\ used'[p] = used[p] \cup {s}
        /\ \A q \in Peer : q # p => used'[q] = used[q]
    BY <1>3, <2>1, SidsInvTypes
  <2> QED BY <1>3, <1>4, <1>5, <1>6, <2>2, SidsInvTypes, SlotChanges
<1>8. Moves
  <2>1. CASE OpenerReady(p, s)
    <3>1. PICK n \in Numbers : n = channel[p][s].number
      BY <1>3
    <3>2. n % 2 = s % 2
      BY <1>3, <3>1
    <3>3. Streams!SendData(p, s, n, TRUE)
      BY <2>1, <3>1 DEF OpenerReady, Streams!SendData, Streams!Push
    <3>4. Streams!TypeOK /\ Carried
      BY SidsInvTypes
    <3> QED BY <3>2, <3>3, <3>4, SendDataMoves
  <2>2. CASE AckerReady(p, s)
    BY <2>2, SidsInvTypes, Stays DEF AckerReady
  <2> QED BY <2>1, <2>2
<1>9. UNCHANGED << inbox, created, met, refused, closed >>
  BY DEF OpenerReady, AckerReady
<1> QED BY <1>7, <1>8, <1>9, SidsInvTypes DEF Does, RestOK

LEMMA CloseDoes ==
  ASSUME SidsInv, NEW p \in Peer, NEW s \in Sid, AppClose(p, s) \/ AppSendFails(p, s)
  PROVE  Does
<1>1. channel[p][s] \in Slot
  BY SidsInvTypes
<1>2. Exists(p, s) /\ CloseChannel(p, s)
  BY <1>1 DEF AppClose, AppSendFails, Exists, None
<1>3. Moves /\ ChannelsOK' /\ closed' \subseteq Numbers \X Sid
  BY <1>2, CloseChannelDoes
<1>4. UNCHANGED << inbox, created, met, refused >>
  BY DEF AppClose, AppSendFails
<1> QED BY <1>3, <1>4, SidsInvTypes DEF Does, RestOK

LEMMA UnchangedChannels ==
  ASSUME ChannelsOK, UNCHANGED << used, channel >>
  PROVE  ChannelsOK'
BY DEF ChannelsOK, UsedIffChannel, Held, Exists

LEMMA ClosedRemotelyDoes ==
  ASSUME SidsInv, NEW p \in Peer, OnStreamClosedRemotely(p)
  PROVE  Does
<1> DEFINE q == inbox[p]
<1>1. /\ q \in Seq(PairedPost) /\ q # << >> /\ Head(q).type = "closedRemotely"
      /\ Head(q) \in PairedPost /\ Head(q).sids \in SUBSET Sid
  <2>1. q \in Seq(PairedPost) /\ q # << >> /\ Head(q).type = "closedRemotely"
    BY SidsInvTypes DEF OnStreamClosedRemotely, NextPost
  <2>2. Head(q) \in PairedPost
    BY <2>1
  <2> QED BY <2>1, <2>2, PostKinds
<1>2. PICK s \in Head(q).sids :
        /\ inbox' = [inbox EXCEPT ![p] = IF Head(q).sids \ {s} = {} THEN Tail(@)
                                         ELSE [@ EXCEPT ![1].sids = Head(q).sids \ {s}]]
        /\ IF Exists(p, s) THEN CloseChannel(p, s)
                           ELSE UNCHANGED << streamVars, used, channel, closed >>
  BY DEF OnStreamClosedRemotely
<1>3. s \in Sid
  BY <1>1, <1>2
<1>4. inbox' \in [Peer -> Seq(PairedPost)]
  <2>1. PICK left \in SUBSET Sid : left = Head(q).sids \ {s}
    BY <1>1
  <2>2. Tail(q) \in Seq(PairedPost) /\ [q EXCEPT ![1].sids = left] \in Seq(PairedPost)
    <3>1. PICK g \in Seq(PairedPost) : g = q
      BY <1>1
    <3>2. g # << >> /\ Head(g).type = "closedRemotely"
      BY <1>1, <3>1
    <3>3. [g EXCEPT ![1].sids = left] \in Seq(PairedPost)
      BY <3>2, HeadReplaced
    <3>4. Tail(g) \in Seq(PairedPost)
      BY <3>2
    <3> QED BY <3>1, <3>3, <3>4
  <2>3. PICK r \in Seq(PairedPost) : inbox' = [inbox EXCEPT ![p] = r]
    BY <1>2, <2>1, <2>2
  <2> QED BY <2>3, SidsInvTypes
<1>5. Moves /\ ChannelsOK' /\ closed' \subseteq Numbers \X Sid
  <2>1. CASE Exists(p, s)
    BY <1>2, <1>3, <2>1, CloseChannelDoes
  <2>2. CASE ~Exists(p, s)
    BY <1>2, <2>2, SidsInvTypes, Stays, UnchangedChannels
  <2> QED BY <2>1, <2>2
<1>6. UNCHANGED << created, met, refused >>
  BY DEF OnStreamClosedRemotely
<1> QED BY <1>4, <1>5, <1>6, SidsInvTypes DEF Does, RestOK

LEMMA OpenMessageDoes ==
  ASSUME SidsInv, NEW p \in Peer, OnOpenMessage(p)
  PROVE  Does
<1> DEFINE q == inbox[p]
<1>1. q \in Seq(PairedPost) /\ q # << >> /\ Head(q).type = "message"
  BY SidsInvTypes DEF OnOpenMessage, NextPost
<1>2. PICK m \in PairedPost : m = Head(q) /\ m.type = "message"
  BY <1>1
<1>3. PICK s \in Sid, n \in Numbers : s = m.sid /\ n = m.body /\ n % 2 = s % 2
  BY <1>2, PostKinds
<1>4. \/ AddChannel(p, s, "acker", n)
      \/ UNCHANGED << streamVars, used, channel, met, refused >>
  BY <1>2, <1>3 DEF OnOpenMessage
<1>5. /\ Moves /\ ChannelsOK'
      /\ met' \subseteq Numbers /\ refused' \subseteq Peer \X Numbers
  <2>1. CASE AddChannel(p, s, "acker", n)
    BY <1>3, <2>1, AddChannelDoes
  <2>2. CASE UNCHANGED << streamVars, used, channel, met, refused >>
    BY <2>2, SidsInvTypes, Stays, UnchangedChannels
  <2> QED BY <1>4, <2>1, <2>2
<1>6. inbox' \in [Peer -> Seq(PairedPost)]
  <2>1. inbox' = [inbox EXCEPT ![p] = Tail(@)]
    BY DEF OnOpenMessage
  <2> QED BY <1>1, <2>1, SidsInvTypes, Pop1
<1>7. UNCHANGED << created, closed >>
  BY DEF OnOpenMessage
<1> QED BY <1>5, <1>6, <1>7, SidsInvTypes DEF Does, RestOK

LEMMA WorkerDoes ==
  ASSUME SidsInv, NEW p \in Peer,
         WorkerHandlesReset(p) \/ WorkerLooksAtQueue(p) \/ WorkerReportsData(p)
  PROVE  Does
<1>1. Streams!WorkerHandles(p)
  BY DEF WorkerHandlesReset, WorkerLooksAtQueue, WorkerReportsData, Streams!WorkerHandles
<1>2. Moves
  BY <1>1, SidsInvTypes, WorkerMoves
<1>3. UNCHANGED << used, channel, created, met, refused, closed >>
  BY DEF WorkerHandlesReset, WorkerLooksAtQueue, WorkerReportsData
<1>4. ChannelsOK'
  BY <1>3, SidsInvTypes, UnchangedChannels
<1>5. inbox' \in [Peer -> Seq(PairedPost)]
  <2>1. CASE WorkerHandlesReset(p)
    <3>1. PICK sids \in SUBSET Sid :
            inbox' \in {inbox, [inbox EXCEPT ![p] = Append(@,
                                  [type |-> "closedRemotely", sids |-> sids])]}
      <4>1. Streams!ClosedRemotely(p, Head(events[p]).sids) \in SUBSET Sid
        BY SidsInvTypes DEF Streams!ClosedRemotely
      <4> QED BY <2>1, <4>1 DEF WorkerHandlesReset
    <3>2. [type |-> "closedRemotely", sids |-> sids] \in PairedPost
      BY DEF PairedPost, Post
    <3>3. PICK post \in PairedPost :
            inbox' \in {inbox, [inbox EXCEPT ![p] = Append(@, post)]}
      BY <3>1, <3>2
    <3>4. [inbox EXCEPT ![p] = Append(@, post)] \in [Peer -> Seq(PairedPost)]
      BY SidsInvTypes, Push1
    <3> QED BY <3>3, <3>4, SidsInvTypes
  <2>2. CASE WorkerLooksAtQueue(p)
    BY <2>2, SidsInvTypes DEF WorkerLooksAtQueue
  <2>3. CASE WorkerReportsData(p)
    <3>1. /\ events[p] # << >> /\ Head(events[p]).type = "message"
          /\ inbox' = [inbox EXCEPT ![p] = Append(@, Head(events[p]))]
      BY <2>3 DEF WorkerReportsData, Streams!OnDataFromSctp
    <3>2. PICK e \in PairedEvent : e = Head(events[p])
      BY <3>1, SidsInvTypes, Pop1
    <3>3. e \in PairedPost
      BY <3>1, <3>2, EventKinds
    <3> QED BY <3>1, <3>2, <3>3, SidsInvTypes, Push1
  <2> QED BY <2>1, <2>2, <2>3
<1> QED BY <1>2, <1>3, <1>4, <1>5, SidsInvTypes DEF Does, RestOK

---------------------------------------------------------------------------
(* Streams and Media are one specification, named twice: what is proved of *)
(* Media, with all that SctpStreams_proof says, holds of Streams.          *)

LEMMA SameTypes == Media!TypeOK <=> Streams!TypeOK
BY DEF Media!TypeOK, Streams!TypeOK, Media!Chunk, Streams!Chunk, Media!Event,
       Streams!Event, Media!Request, Streams!Request, Media!Answer, Streams!Answer

LEMMA SameInit == Media!Init <=> Streams!Init
BY DEF Media!Init, Streams!Init

LEMMA SameCalls ==
  ASSUME NEW p, NEW s
  PROVE  /\ Media!AddStream(p, s) <=> Streams!AddStream(p, s)
         /\ Media!ResetStream(p, s) <=> Streams!ResetStream(p, s)
         /\ \A body, control : Media!SendData(p, s, body, control)
                                  <=> Streams!SendData(p, s, body, control)
<1>1. Media!AddStream(p, s) <=> Streams!AddStream(p, s)
  BY DEF Media!AddStream, Streams!AddStream, Media!AcceptsStream, Streams!AcceptsStream
<1>2. Media!ResetStream(p, s) <=> Streams!ResetStream(p, s)
  BY DEF Media!ResetStream, Streams!ResetStream, Media!SendQueuedStreamResets,
         Streams!SendQueuedStreamResets, Media!Push, Streams!Push, Media!Other,
         Streams!Other
<1>3. ASSUME NEW body, NEW control
      PROVE  Media!SendData(p, s, body, control)
               <=> Streams!SendData(p, s, body, control)
  BY DEF Media!SendData, Streams!SendData, Media!Push, Streams!Push, Media!Other,
         Streams!Other
<1> QED BY <1>1, <1>2, <1>3

LEMMA SameStack ==
  ASSUME NEW p
  PROVE  Media!StackReceives(p) <=> Streams!StackReceives(p)
<1>1. Media!PerformsReset(p) <=> Streams!PerformsReset(p)
  BY DEF Media!PerformsReset, Streams!PerformsReset, Media!Push, Streams!Push,
         Media!Other, Streams!Other, Media!Receives, Streams!Receives, Media!Request,
         Streams!Request
<1>2. Media!ResetAnswered(p) <=> Streams!ResetAnswered(p)
  BY DEF Media!ResetAnswered, Streams!ResetAnswered, Media!Push, Streams!Push, Media!Pop,
         Streams!Pop, Media!Receives, Streams!Receives, Media!Answer, Streams!Answer
<1>3. Media!ReceivesMessage(p) <=> Streams!ReceivesMessage(p)
  BY DEF Media!ReceivesMessage, Streams!ReceivesMessage, Media!Push, Streams!Push,
         Media!Pop, Streams!Pop, Media!Receives, Streams!Receives
<1> QED BY <1>1, <1>2, <1>3 DEF Media!StackReceives, Streams!StackReceives

LEMMA SameWorker ==
  ASSUME NEW p
  PROVE  Media!WorkerHandles(p) <=> Streams!WorkerHandles(p)
<1>1. Media!OnResetFailed(p) <=> Streams!OnResetFailed(p)
  BY DEF Media!OnResetFailed, Streams!OnResetFailed, Media!Pop, Streams!Pop,
         Media!SendQueuedStreamResets, Streams!SendQueuedStreamResets, Media!Push,
         Streams!Push, Media!Other, Streams!Other
<1>2. Media!OnIncomingReset(p) <=> Streams!OnIncomingReset(p)
  BY DEF Media!OnIncomingReset, Streams!OnIncomingReset, Media!Pop, Streams!Pop,
         Media!SendQueuedStreamResets, Streams!SendQueuedStreamResets, Media!Push,
         Streams!Push, Media!Other, Streams!Other, Media!ClosedRemotely,
         Streams!ClosedRemotely
<1>3. Media!OnOutgoingReset(p) <=> Streams!OnOutgoingReset(p)
  BY DEF Media!OnOutgoingReset, Streams!OnOutgoingReset, Media!SendQueuedStreamResets,
         Streams!SendQueuedStreamResets, Media!Push, Streams!Push, Media!Other,
         Streams!Other
<1>4. Media!OnDataFromSctp(p) <=> Streams!OnDataFromSctp(p)
  BY DEF Media!OnDataFromSctp, Streams!OnDataFromSctp, Media!Pop, Streams!Pop
<1> QED BY <1>1, <1>2, <1>3, <1>4 DEF Media!WorkerHandles, Streams!WorkerHandles

LEMMA SameNext ==
  [Media!Next]_Media!streamVars <=> [Streams!Next]_streamVars
<1>1. Media!Next <=> Streams!Next
  BY SameCalls, SameStack, SameWorker DEF Media!Next, Streams!Next
<1>2. UNCHANGED Media!streamVars <=> UNCHANGED streamVars
  BY DEF Media!streamVars, streamVars
<1> QED BY <1>1, <1>2

LEMMA SameSpec == Media!Spec <=> Streams!Spec
<1>1. [Media!Next]_Media!streamVars <=> [Streams!Next]_Streams!streamVars
  BY SameNext DEF Streams!streamVars, streamVars
<1> QED BY <1>1, SameInit, PTL DEF Media!Spec, Streams!Spec

LEMMA SameTypesNext == Media!TypeOK' <=> Streams!TypeOK'
BY SameTypes, PTL

LEMMA StackDoes ==
  ASSUME SidsInv, NEW p \in Peer, Stack(p)
  PROVE  Does
<1>1. /\ Streams!StackReceives(p)
      /\ UNCHANGED << inbox, used, channel, created, met, refused, closed >>
  BY DEF Stack
<1>2. Moves
  BY <1>1, SidsInvTypes, StackMoves
<1>3. ChannelsOK'
  BY <1>1, SidsInvTypes, UnchangedChannels
<1> QED BY <1>1, <1>2, <1>3, SidsInvTypes DEF Does, RestOK

LEMMA StepDoes == SidsInv /\ [Next]_vars => Does
<1> SUFFICES ASSUME SidsInv, [Next]_vars PROVE Does
  OBVIOUS
<1>1. ASSUME NEW p \in Peer, CreateDataChannel(p) PROVE Does
  BY <1>1, CreateDataChannelDoes
<1>3. ASSUME NEW p \in Peer, NEW s \in Sid, OpenerReady(p, s) \/ AckerReady(p, s) PROVE Does
  BY <1>3, ReadyDoes
<1>4. ASSUME NEW p \in Peer, NEW s \in Sid, AppClose(p, s) \/ AppSendFails(p, s) PROVE Does
  BY <1>4, CloseDoes
<1>5. ASSUME NEW p \in Peer, OnStreamClosedRemotely(p) PROVE Does
  BY <1>5, ClosedRemotelyDoes
<1>6. ASSUME NEW p \in Peer, OnOpenMessage(p) PROVE Does
  BY <1>6, OpenMessageDoes
<1>7. ASSUME NEW p \in Peer,
             WorkerHandlesReset(p) \/ WorkerLooksAtQueue(p) \/ WorkerReportsData(p)
      PROVE  Does
  BY <1>7, WorkerDoes
<1>8. ASSUME NEW p \in Peer, Stack(p) PROVE Does
  BY <1>8, StackDoes
<1>9. CASE UNCHANGED vars
  <2>1. Moves
    BY <1>9, SidsInvTypes, Stays DEF vars
  <2>2. ChannelsOK'
    BY <1>9, SidsInvTypes, UnchangedChannels DEF vars
  <2> QED BY <1>9, <2>1, <2>2, SidsInvTypes DEF Does, RestOK, vars
<1> QED BY <1>1, <1>3, <1>4, <1>5, <1>6, <1>7, <1>8, <1>9 DEF Next

LEMMA InitHolds == Init => SidsInv /\ Streams!Init
<1> SUFFICES ASSUME Init PROVE SidsInv
  BY DEF Init
<1>1. Streams!TypeOK
  BY Media!InitType, SameInit, SameTypes, Assumptions DEF Init
<1>2. Carried
  BY DEF Init, Streams!Init, Carried
<1>3. ChannelsOK
  <2>1. \A p \in Peer, s \in Sid : channel[p][s] = None
    BY DEF Init
  <2>2. \A p \in Peer, s \in Sid : ~Exists(p, s)
    BY <2>1 DEF Exists
  <2> QED BY <2>2, NoneSlot DEF Init, ChannelsOK, Held, UsedIffChannel
<1>4. RestOK
  BY Assumptions DEF Init, RestOK
<1> QED BY <1>1, <1>2, <1>3, <1>4 DEF SidsInv

LEMMA StepHolds == SidsInv /\ [Next]_vars => SidsInv' /\ [Streams!Next]_streamVars
<1> SUFFICES ASSUME SidsInv, [Next]_vars PROVE SidsInv' /\ [Streams!Next]_streamVars
  OBVIOUS
<1>1. [Streams!Next]_streamVars /\ Carried' /\ ChannelsOK' /\ RestOK'
  BY StepDoes DEF Does, Moves
<1>2. Media!TypeOK /\ [Media!Next]_Media!streamVars
  BY <1>1, SidsInvTypes, SameTypes, SameNext
<1>3. Media!TypeOK'
  BY <1>2, Media!NextType, Assumptions
<1>4. Streams!TypeOK'
  BY <1>3, SameTypesNext
<1> QED BY <1>1, <1>4 DEF SidsInv

LEMMA Invariant == Spec => []SidsInv
BY InitHolds, StepHolds, PTL DEF Spec

LEMMA InvImplies == SidsInv => TypeOK /\ UsedIffChannel
<1> SUFFICES ASSUME SidsInv PROVE TypeOK /\ UsedIffChannel
  OBVIOUS
<1>1. inbox \in [Peer -> Seq(Post)]
  <2>1. ASSUME NEW q \in Seq(PairedPost) PROVE q \in Seq(Post)
    BY DEF PairedPost
  <2> QED BY <2>1, SidsInvTypes
<1>2. ASSUME NEW p \in Peer, NEW s \in Sid, channel[p][s].number # 0
      PROVE  channel[p][s].number % 2 = s % 2
  <2>1. Exists(p, s)
    BY <1>2 DEF Exists, None
  <2> QED BY <2>1, SidsInvTypes DEF Held
<1>3. UsedIffChannel
  BY SidsInvTypes DEF ChannelsOK
<1> QED BY <1>1, <1>2, <1>3, SidsInvTypes DEF TypeOK, Slot

---------------------------------------------------------------------------

(* The state is of its type: queues of well-formed posts, channels whose   *)
(* number and id agree in parity, ids no greater than kMaxSctpSid.         *)
THEOREM TypeCorrect == Spec => []TypeOK
BY Invariant, InvImplies, PTL

(* used_sids_ of SctpSidAllocator holds exactly the ids of the channels in *)
(* sctp_data_channels_, whatever closes a channel and in whatever order.   *)
THEOREM SidsAgree == Spec => []UsedIffChannel
BY Invariant, InvImplies, PTL

(* What PeerConnection and the channels do to the media channel is what    *)
(* SctpStreams allows any caller: this module implements that one.         *)
THEOREM ImplementsStreams == Spec => Streams!Spec
<1>1. [Streams!Next]_streamVars <=> [Streams!Next]_Streams!streamVars
  BY DEF Streams!streamVars, streamVars
<1> QED BY <1>1, Invariant, InitHolds, StepHolds, PTL DEF Spec, Streams!Spec

(* So the three sets of streams stay disjoint, sent_reset_streams_ never   *)
(* waits for nothing and a queued reset is retried, with real callers too. *)
THEOREM ResetsHold ==
  Spec => [](Streams!SetsDisjoint /\ Streams!SentIsAnswered /\ Streams!QueuedIsRetried)
<1>1. /\ Media!SetsDisjoint <=> Streams!SetsDisjoint
      /\ Media!SentIsAnswered <=> Streams!SentIsAnswered
      /\ Media!QueuedIsRetried <=> Streams!QueuedIsRetried
  BY DEF Media!SetsDisjoint, Streams!SetsDisjoint, Media!SentIsAnswered,
         Streams!SentIsAnswered, Media!QueuedIsRetried, Streams!QueuedIsRetried,
         Media!AnswerComes, Streams!AnswerComes
<1>2. Media!Spec => /\ []Media!SetsDisjoint
                    /\ []Media!SentIsAnswered /\ []Media!QueuedIsRetried
  BY Media!StreamSetsDisjoint, Media!ResetsAreAnswered, Media!ResetsAreRetried,
     Assumptions, PTL
<1> QED BY <1>1, <1>2, ImplementsStreams, SameSpec, PTL

---------------------------------------------------------------------------
(* A channel has its stream for as long as it lives.                       *)

(* The news that stream t was reset is in the queue.                       *)
News(queue, t) ==
  \E i \in DOMAIN queue : queue[i].type = "closedRemotely" /\ t \in queue[i].sids

LEMMA PendingIs ==
  ASSUME NEW p \in Peer, NEW t
  PROVE  t \in Pending(p) <=> News(inbox[p], t)
BY DEF Pending, News

LEMMA NewsPushed ==
  ASSUME NEW q \in Seq(PairedPost), NEW m \in PairedPost, NEW t
  PROVE  /\ News(q, t) => News(Append(q, m), t)
         /\ m.type = "closedRemotely" /\ t \in m.sids => News(Append(q, m), t)
<1>1. /\ DOMAIN q = 1..Len(q) /\ Len(q) \in Nat
      /\ DOMAIN Append(q, m) = 1..(Len(q) + 1)
      /\ \A i \in 1..Len(q) : Append(q, m)[i] = q[i]
      /\ Append(q, m)[Len(q) + 1] = m
  OBVIOUS
<1>2. Len(q) + 1 \in DOMAIN Append(q, m) /\ DOMAIN q \subseteq DOMAIN Append(q, m)
  BY <1>1
<1> QED BY <1>1, <1>2 DEF News

LEMMA NewsTaken ==
  ASSUME NEW q \in Seq(PairedPost), q # << >>, NEW t,
         ~(Head(q).type = "closedRemotely" /\ t \in Head(q).sids), News(q, t)
  PROVE  News(Tail(q), t)
<1>1. /\ DOMAIN q = 1..Len(q) /\ Len(q) \in Nat \ {0} /\ Head(q) = q[1]
      /\ DOMAIN Tail(q) = 1..(Len(q) - 1)
      /\ \A i \in 1..(Len(q) - 1) : Tail(q)[i] = q[i + 1]
  OBVIOUS
<1>2. PICK i \in 1..Len(q) : q[i].type = "closedRemotely" /\ t \in q[i].sids
  BY <1>1 DEF News
<1>3. i # 1
  BY <1>1, <1>2
<1>4. i - 1 \in 1..(Len(q) - 1) /\ Tail(q)[i - 1] = q[i]
  <2>1. i - 1 \in 1..(Len(q) - 1) /\ (i - 1) + 1 = i
    BY <1>1, <1>3
  <2> QED BY <1>1, <2>1
<1> QED BY <1>1, <1>2, <1>4 DEF News

LEMMA NewsReplaced ==
  ASSUME NEW q \in Seq(PairedPost), q # << >>, Head(q).type = "closedRemotely",
         NEW left \in SUBSET Sid, NEW t, t \in Head(q).sids => t \in left, News(q, t)
  PROVE  News([q EXCEPT ![1].sids = left], t)
<1>1. /\ DOMAIN q = 1..Len(q) /\ Len(q) \in Nat \ {0} /\ Head(q) = q[1]
      /\ q[1] \in PairedPost /\ 1 \in 1..Len(q)
  OBVIOUS
<1>2. PICK r \in PairedPost : r = [q[1] EXCEPT !.sids = left]
  BY <1>1, PostKinds
<1>3. r.type = "closedRemotely" /\ r.sids = left
  BY <1>1, <1>2 DEF PairedPost, Post
<1>4. PICK g : g = [q EXCEPT ![1] = r]
  OBVIOUS
<1>5. DOMAIN g = DOMAIN q /\ g[1] = r /\ \A i \in 1..Len(q) : i # 1 => g[i] = q[i]
  BY <1>1, <1>4
<1>6. PICK i \in 1..Len(q) : q[i].type = "closedRemotely" /\ t \in q[i].sids
  BY <1>1 DEF News
<1>7. g[i].type = "closedRemotely" /\ t \in g[i].sids
  BY <1>1, <1>3, <1>5, <1>6
<1>8. News(g, t)
  BY <1>1, <1>5, <1>7 DEF News
<1>9. [q EXCEPT ![1].sids = left] = [q EXCEPT ![1] = [q[1] EXCEPT !.sids = left]]
  OBVIOUS
<1> QED BY <1>2, <1>4, <1>8, <1>9

(* What a step owes the channels that live on, and the ones that appear.   *)
Keeps ==
  /\ refused \subseteq refused'
  /\ \A q \in Peer, t \in Sid :
       Exists(q, t) /\ Exists(q, t)' =>
         /\ t \in open[q] => t \in open'[q] \/ News(inbox'[q], t)
         /\ News(inbox[q], t) => News(inbox'[q], t)

Starts ==
  \A q \in Peer, t \in Sid :
    /\ Exists(q, t) /\ Exists(q, t)' => channel'[q][t].number = channel[q][t].number
    /\ ~Exists(q, t) /\ Exists(q, t)' =>
         t \in open'[q] \/ << q, channel'[q][t].number >> \in refused'

LEMMA SameChannels ==
  ASSUME channel' = channel
  PROVE  Starts
BY DEF Starts, Exists

LEMMA SimplyKeeps ==
  ASSUME \A q \in Peer, t \in Sid : Exists(q, t) /\ Exists(q, t)' /\ t \in open[q]
                                       => t \in open'[q],
         inbox' = inbox, refused \subseteq refused'
  PROVE  Keeps
BY DEF Keeps

LEMMA AddStreamOpens ==
  ASSUME SidsInv, NEW p \in Peer, NEW s \in Sid, AddSendStream(p, s)
  PROVE  /\ Streams!AcceptsStream(p, s) => s \in open'[p]
         /\ \A q \in Peer, t \in Sid : t \in open[q] => t \in open'[q]
<1>1. CASE Streams!AcceptsStream(p, s)
  <2>1. open' = [open EXCEPT ![p] = @ \cup {s}]
    BY <1>1 DEF AddSendStream, Streams!AddStream
  <2> QED BY <2>1, SidsInvTypes
<1>2. CASE ~Streams!AcceptsStream(p, s)
  BY <1>2 DEF AddSendStream, streamVars
<1> QED BY <1>1, <1>2

LEMMA AddChannelStarts ==
  ASSUME SidsInv, NEW p \in Peer, NEW s \in Sid, NEW role \in {"opener", "acker"},
         NEW n \in Numbers, s \notin used[p], AddChannel(p, s, role, n)
  PROVE  /\ Starts /\ refused \subseteq refused'
         /\ \A q \in Peer, t \in Sid : t \in open[q] => t \in open'[q]
<1> DEFINE r == [state |-> role, number |-> n]
<1>1. AddSendStream(p, s) /\ channel' = [channel EXCEPT ![p][s] = r] /\ r \in Slot
  BY DEF AddChannel, Slot
<1>2. r.number = n
  OBVIOUS
<1> HIDE DEF r
<1>3. /\ \A q \in Peer, t \in Sid : ~(q = p /\ t = s) => channel'[q][t] = channel[q][t]
      /\ channel'[p][s] = r
  BY <1>1, SidsInvTypes, SlotSet
<1>4. ~Exists(p, s)
  BY SidsInvTypes DEF ChannelsOK, UsedIffChannel
<1>5. /\ refused \subseteq refused'
      /\ Streams!AcceptsStream(p, s) \/ << p, n >> \in refused'
  BY DEF AddChannel, HasRefused
<1>6. s \in open'[p] \/ << p, channel'[p][s].number >> \in refused'
  BY <1>1, <1>2, <1>3, <1>5, AddStreamOpens
<1> QED BY <1>1, <1>3, <1>4, <1>5, <1>6, AddStreamOpens DEF Starts, Exists

LEMMA CloseChannelKeeps ==
  ASSUME SidsInv, NEW p \in Peer, NEW s \in Sid, CloseChannel(p, s)
  PROVE  /\ Starts /\ ~Exists(p, s)'
         /\ \A q \in Peer, t \in Sid : Exists(q, t)' /\ t \in open[q] => t \in open'[q]
<1>1. channel' = [channel EXCEPT ![p][s] = None]
  BY DEF CloseChannel
<1>2. /\ \A q \in Peer, t \in Sid : ~(q = p /\ t = s) => channel'[q][t] = channel[q][t]
      /\ channel'[p][s] = None
  BY <1>1, SidsInvTypes, NoneSlot, SlotSet
<1>3. ~Exists(p, s)' /\ Starts
  BY <1>2 DEF Exists, Starts
<1>4. \A q \in Peer, t \in Sid : ~(q = p /\ t = s) /\ t \in open[q] => t \in open'[q]
  <2>1. CASE s \in open[p]
    <3>1. open' = [open EXCEPT ![p] = @ \ {s}]
      BY <2>1 DEF CloseChannel, Streams!ResetStream
    <3> QED BY <3>1, SidsInvTypes
  <2>2. CASE s \notin open[p]
    BY <2>2 DEF CloseChannel, streamVars
  <2> QED BY <2>1, <2>2
<1> QED BY <1>3, <1>4

LEMMA SignalingKeeps ==
  ASSUME SidsInv, NEW p \in Peer,
         \/ CreateDataChannel(p)
         \/ \E s \in Sid : \/ OpenerReady(p, s) \/ AckerReady(p, s)
                           \/ AppClose(p, s) \/ AppSendFails(p, s)
  PROVE  Keeps /\ Starts
<1>1. CASE CreateDataChannel(p)
  <2>1. PICK s \in Sid : s = Min(Allocatable(p)) /\ OfRole(p, s)
    BY <1>1, AllocatedSid DEF CreateDataChannel
  <2>2. PICK k \in 0..MaxCreates : k = created[p] /\ k < MaxCreates
    BY <1>1, SidsInvTypes, CreatesLeft
  <2>3. PICK n \in Numbers : n = Number(p, k + 1)
    BY <2>2, NumberIs
  <2>4. AddChannel(p, s, "opener", n) /\ inbox' = inbox
    BY <1>1, <2>1, <2>2, <2>3 DEF CreateDataChannel
  <2>5. s \notin used[p]
    BY <1>1, <2>1, AllocatedSid DEF CreateDataChannel
  <2> QED BY <2>4, <2>5, AddChannelStarts, SimplyKeeps
<1>3. ASSUME NEW s \in Sid, OpenerReady(p, s) \/ AckerReady(p, s)
      PROVE  Keeps /\ Starts
  <2> DEFINE r == [channel[p][s] EXCEPT !.state = "open"]
  <2>1. open' = open /\ inbox' = inbox /\ refused' = refused
    BY <1>3 DEF OpenerReady, AckerReady, Streams!SendData, streamVars
  <2>2. channel[p][s] \in Slot /\ channel[p][s].state \in {"opener", "acker"}
    BY <1>3, SidsInvTypes DEF OpenerReady, AckerReady
  <2>3. Exists(p, s)
    BY <2>2 DEF Exists, None
  <2>4. channel' = [channel EXCEPT ![p][s] = r] /\ r \in Slot
    BY <1>3, <2>2, SidsInvTypes, SlotOpened DEF OpenerReady, AckerReady, Slot
  <2>7. r.number = channel[p][s].number
    BY <2>2 DEF Slot
  <2> HIDE DEF r
  <2>5. /\ \A q \in Peer, t \in Sid : ~(q = p /\ t = s) => channel'[q][t] = channel[q][t]
        /\ channel'[p][s] = r
    BY <2>4, SidsInvTypes, SlotSet
  <2>6. Starts
    BY <2>3, <2>5, <2>7 DEF Starts, Exists
  <2> QED BY <2>1, <2>6, SimplyKeeps
<1>4. ASSUME NEW s \in Sid, AppClose(p, s) \/ AppSendFails(p, s)
      PROVE  Keeps /\ Starts
  <2>1. CloseChannel(p, s) /\ inbox' = inbox /\ refused' = refused
    BY <1>4 DEF AppClose, AppSendFails
  <2> QED BY <2>1, CloseChannelKeeps, SimplyKeeps
<1> QED BY <1>1, <1>3, <1>4

LEMMA ClosedRemotelyKeeps ==
  ASSUME SidsInv, NEW p \in Peer, OnStreamClosedRemotely(p)
  PROVE  Keeps /\ Starts
<1>1. PICK g \in Seq(PairedPost) : g = inbox[p]
  BY SidsInvTypes
<1>2. /\ g # << >> /\ Head(g).type = "closedRemotely"
      /\ Head(g) \in PairedPost /\ Head(g).sids \in SUBSET Sid
  <2>1. g # << >> /\ Head(g).type = "closedRemotely"
    BY <1>1 DEF OnStreamClosedRemotely, NextPost
  <2>2. Head(g) \in PairedPost
    BY <2>1
  <2> QED BY <2>1, <2>2, PostKinds
<1>3. PICK s \in Head(g).sids :
        /\ inbox' = [inbox EXCEPT ![p] = IF Head(g).sids \ {s} = {} THEN Tail(@)
                                         ELSE [@ EXCEPT ![1].sids = Head(g).sids \ {s}]]
        /\ IF Exists(p, s) THEN CloseChannel(p, s)
                           ELSE UNCHANGED << streamVars, used, channel, closed >>
  BY <1>1 DEF OnStreamClosedRemotely
<1>4. s \in Sid
  BY <1>2, <1>3
<1>5. PICK left \in SUBSET Sid : left = Head(g).sids \ {s}
  BY <1>2
<1>6. /\ inbox'[p] = IF left = {} THEN Tail(g) ELSE [g EXCEPT ![1].sids = left]
      /\ \A q \in Peer : q # p => inbox'[q] = inbox[q]
  BY <1>1, <1>3, <1>5, SidsInvTypes
<1>7. ASSUME NEW t \in Sid, t # s, News(g, t) PROVE News(inbox'[p], t)
  <2>1. CASE left = {}
    <3>1. News(Tail(g), t)
      BY <1>2, <1>5, <1>7, <2>1, NewsTaken
    <3> QED BY <1>6, <2>1, <3>1
  <2>2. CASE left # {}
    <3>1. News([g EXCEPT ![1].sids = left], t)
      BY <1>2, <1>5, <1>7, NewsReplaced
    <3> QED BY <1>6, <2>2, <3>1
  <2> QED BY <2>1, <2>2
<1>8. /\ Starts /\ ~Exists(p, s)'
      /\ \A q \in Peer, t \in Sid : Exists(q, t)' /\ t \in open[q] => t \in open'[q]
  <2>1. CASE Exists(p, s)
    BY <1>3, <1>4, <2>1, CloseChannelKeeps
  <2>2. CASE ~Exists(p, s)
    <3>1. channel' = channel /\ open' = open
      BY <1>3, <2>2 DEF streamVars
    <3> QED BY <2>2, <3>1, SameChannels DEF Exists
  <2> QED BY <2>1, <2>2
<1>9. ASSUME NEW q \in Peer, NEW t \in Sid, Exists(q, t)', News(inbox[q], t)
      PROVE  News(inbox'[q], t)
  <2>1. CASE q = p
    <3>1. t # s
      BY <1>8, <1>9, <2>1
    <3> QED BY <1>1, <1>7, <1>9, <2>1, <3>1
  <2>2. CASE q # p
    BY <1>6, <1>9, <2>2
  <2> QED BY <2>1, <2>2
<1>10. refused' = refused
  BY DEF OnStreamClosedRemotely
<1> QED BY <1>8, <1>9, <1>10 DEF Keeps

LEMMA OpenMessageKeeps ==
  ASSUME SidsInv, NEW p \in Peer, OnOpenMessage(p)
  PROVE  Keeps /\ Starts
<1>1. PICK g \in Seq(PairedPost) : g = inbox[p]
  BY SidsInvTypes
<1>2. g # << >> /\ Head(g).type = "message"
  BY <1>1 DEF OnOpenMessage, NextPost
<1>3. PICK m \in PairedPost : m = Head(g) /\ m.type = "message"
  BY <1>2
<1>4. PICK s \in Sid, n \in Numbers : s = m.sid /\ n = m.body
  BY <1>3, PostKinds
<1>5. \/ AddChannel(p, s, "acker", n) /\ s \notin used[p]
      \/ UNCHANGED << streamVars, used, channel, met, refused >>
  BY <1>1, <1>3, <1>4 DEF OnOpenMessage, IsSidAvailable
<1>6. /\ Starts /\ refused \subseteq refused'
      /\ \A q \in Peer, t \in Sid : t \in open[q] => t \in open'[q]
  <2>1. CASE AddChannel(p, s, "acker", n) /\ s \notin used[p]
    BY <2>1, AddChannelStarts
  <2>2. CASE UNCHANGED << streamVars, used, channel, met, refused >>
    BY <2>2, SameChannels DEF streamVars
  <2> QED BY <1>5, <2>1, <2>2
<1>7. inbox'[p] = Tail(g) /\ \A q \in Peer : q # p => inbox'[q] = inbox[q]
  BY <1>1, SidsInvTypes DEF OnOpenMessage
<1>8. ASSUME NEW q \in Peer, NEW t \in Sid, News(inbox[q], t)
      PROVE  News(inbox'[q], t)
  <2>1. CASE q = p
    BY <1>1, <1>2, <1>7, <1>8, <2>1, NewsTaken
  <2>2. CASE q # p
    BY <1>7, <1>8, <2>2
  <2> QED BY <2>1, <2>2
<1> QED BY <1>6, <1>8 DEF Keeps

LEMMA WorkerKeeps ==
  ASSUME SidsInv, NEW p \in Peer,
         WorkerHandlesReset(p) \/ WorkerLooksAtQueue(p) \/ WorkerReportsData(p)
  PROVE  Keeps /\ Starts
<1>1. channel' = channel /\ refused' = refused
  BY DEF WorkerHandlesReset, WorkerLooksAtQueue, WorkerReportsData
<1>2. Starts
  BY <1>1, SameChannels
<1>3. ASSUME NEW post \in PairedPost, inbox' = [inbox EXCEPT ![p] = Append(@, post)],
             NEW q \in Peer, NEW t \in Sid
      PROVE  /\ News(inbox[q], t) => News(inbox'[q], t)
             /\ q = p /\ post.type = "closedRemotely" /\ t \in post.sids
                  => News(inbox'[q], t)
  <2>1. PICK g \in Seq(PairedPost) : g = inbox[p]
    BY SidsInvTypes
  <2>2. inbox'[p] = Append(g, post) /\ (q # p => inbox'[q] = inbox[q])
    BY <1>3, <2>1, SidsInvTypes
  <2>3. /\ News(g, t) => News(Append(g, post), t)
        /\ post.type = "closedRemotely" /\ t \in post.sids => News(Append(g, post), t)
    BY NewsPushed
  <2>4. CASE q = p
    BY <2>1, <2>2, <2>3, <2>4
  <2>5. CASE q # p
    BY <2>2, <2>5
  <2> QED BY <2>4, <2>5
<1>4. CASE WorkerLooksAtQueue(p) \/ (Streams!OnResetFailed(p) /\ UNCHANGED inbox)
  <2>1. open' = open /\ inbox' = inbox
    BY <1>4 DEF WorkerLooksAtQueue, Streams!OnOutgoingReset, Streams!OnResetFailed
  <2> QED BY <1>1, <1>2, <2>1, SimplyKeeps
<1>5. CASE WorkerReportsData(p)
  <2>1. /\ events[p] # << >> /\ Head(events[p]).type = "message" /\ open' = open
        /\ inbox' = [inbox EXCEPT ![p] = Append(@, Head(events[p]))]
    BY <1>5 DEF WorkerReportsData, Streams!OnDataFromSctp
  <2>2. PICK e \in PairedEvent : e = Head(events[p])
    BY <2>1, SidsInvTypes, Pop1
  <2>3. e \in PairedPost
    BY <2>1, <2>2, EventKinds
  <2>4. \A q \in Peer, t \in Sid : News(inbox[q], t) => News(inbox'[q], t)
    BY <1>3, <2>1, <2>2, <2>3
  <2> QED BY <1>1, <1>2, <2>1, <2>4 DEF Keeps
<1>6. CASE WorkerHandlesReset(p) /\ ~(Streams!OnResetFailed(p) /\ UNCHANGED inbox)
  <2>1. PICK sids \in SUBSET Sid : sids = Streams!ClosedRemotely(p, Head(events[p]).sids)
    BY SidsInvTypes DEF Streams!ClosedRemotely
  <2>2. /\ open' = [open EXCEPT ![p] = @ \ sids]
        /\ inbox' = IF sids = {} THEN inbox
                    ELSE [inbox EXCEPT ![p] = Append(@,
                            [type |-> "closedRemotely", sids |-> sids])]
    BY <1>6, <2>1 DEF WorkerHandlesReset, Streams!OnIncomingReset
  <2>3. \A q \in Peer, t \in Sid :
          t \in open[q] /\ t \notin open'[q] => q = p /\ t \in sids
    BY <2>2, SidsInvTypes
  <2>4. CASE sids = {}
    BY <1>1, <1>2, <2>2, <2>3, <2>4, SimplyKeeps
  <2>5. CASE sids # {}
    <3>1. PICK post \in PairedPost : post = [type |-> "closedRemotely", sids |-> sids]
      BY DEF PairedPost, Post
    <3>2. inbox' = [inbox EXCEPT ![p] = Append(@, post)]
      BY <2>2, <2>5, <3>1
    <3>3. post.type = "closedRemotely" /\ post.sids = sids
      BY <3>1
    <3>4. \A q \in Peer, t \in Sid : News(inbox[q], t) => News(inbox'[q], t)
      BY <1>3, <3>2
    <3>5. \A t \in Sid : t \in sids => News(inbox'[p], t)
      BY <1>3, <3>2, <3>3
    <3>6. \A q \in Peer, t \in Sid :
            t \in open[q] => t \in open'[q] \/ News(inbox'[q], t)
      BY <2>3, <3>5
    <3> QED BY <1>1, <1>2, <3>4, <3>6 DEF Keeps
  <2> QED BY <2>4, <2>5
<1> QED BY <1>4, <1>5, <1>6

LEMMA StackKeeps ==
  ASSUME SidsInv, NEW p \in Peer, Stack(p)
  PROVE  Keeps /\ Starts
<1>1. channel' = channel /\ inbox' = inbox /\ open' = open /\ refused' = refused
  BY DEF Stack, Streams!StackReceives, Streams!PerformsReset, Streams!ResetAnswered,
         Streams!ReceivesMessage
<1> QED BY <1>1, SameChannels, SimplyKeeps

LEMMA StepKeeps == SidsInv /\ [Next]_vars => Keeps /\ Starts
<1> SUFFICES ASSUME SidsInv, [Next]_vars PROVE Keeps /\ Starts
  OBVIOUS
<1>1. ASSUME NEW p \in Peer,
             \/ CreateDataChannel(p)
             \/ \E s \in Sid : \/ OpenerReady(p, s) \/ AckerReady(p, s)
                               \/ AppClose(p, s) \/ AppSendFails(p, s)
      PROVE  Keeps /\ Starts
  BY <1>1, SignalingKeeps
<1>2. ASSUME NEW p \in Peer, OnStreamClosedRemotely(p) PROVE Keeps /\ Starts
  BY <1>2, ClosedRemotelyKeeps
<1>3. ASSUME NEW p \in Peer, OnOpenMessage(p) PROVE Keeps /\ Starts
  BY <1>3, OpenMessageKeeps
<1>4. ASSUME NEW p \in Peer,
             WorkerHandlesReset(p) \/ WorkerLooksAtQueue(p) \/ WorkerReportsData(p)
      PROVE  Keeps /\ Starts
  BY <1>4, WorkerKeeps
<1>5. ASSUME NEW p \in Peer, Stack(p) PROVE Keeps /\ Starts
  BY <1>5, StackKeeps
<1>6. CASE UNCHANGED vars
  <2>1. channel' = channel /\ inbox' = inbox /\ open' = open /\ refused' = refused
    BY <1>6 DEF vars, streamVars
  <2> QED BY <2>1, SameChannels, SimplyKeeps
<1> QED BY <1>1, <1>2, <1>3, <1>4, <1>5, <1>6 DEF Next

LEMMA StreamStays == SidsInv /\ ChannelHasStream /\ [Next]_vars => ChannelHasStream'
<1> SUFFICES ASSUME SidsInv, ChannelHasStream, [Next]_vars,
                    NEW p \in Peer, NEW s \in Sid, Exists(p, s)'
             PROVE  \/ s \in open'[p] \/ News(inbox'[p], s)
                    \/ << p, channel'[p][s].number >> \in refused'
  BY DEF ChannelHasStream, Pending, News
<1>1. Keeps /\ Starts
  BY StepKeeps
<1>2. CASE Exists(p, s)
  <2>1. \/ s \in open[p] \/ News(inbox[p], s)
        \/ << p, channel[p][s].number >> \in refused
    BY <1>2, PendingIs DEF ChannelHasStream
  <2> QED BY <1>1, <1>2, <2>1 DEF Keeps, Starts
<1>3. CASE ~Exists(p, s)
  BY <1>1, <1>3 DEF Starts
<1> QED BY <1>2, <1>3

---------------------------------------------------------------------------

(* No channel loses its stream without notice: unless AddStream refused it *)
(* at its creation, a channel has an open stream, or the news of the       *)
(* peer's reset is on its way, through every close, reset and reuse of the *)
(* id at either end.                                                       *)
THEOREM ChannelsKeepStreams == Spec => []ChannelHasStream
<1>1. Init => ChannelHasStream
  BY DEF Init, ChannelHasStream, Exists
<1> QED BY <1>1, Invariant, StreamStays, PTL DEF Spec

---------------------------------------------------------------------------
(* The resets of a stream id that are queued, sent, or on their way as a   *)
(* chunk, an event or a post.                                              *)

IsReset(x, s) == x.type # "message" /\ s \in x.sids

Lists(queues, s) == \E p \in Peer : \E x \in Range(queues[p]) : IsReset(x, s)

Mentioned(s) ==
  (\E p \in Peer : s \in queued[p] \cup sent[p]) \/ Lists(wire, s) \/ Lists(events, s)

Resetting(s) == Mentioned(s) \/ Lists(inbox, s)

LEMMA TailRange ==
  ASSUME NEW S, NEW q \in Seq(S), q # << >>
  PROVE  Range(Tail(q)) \subseteq Range(q) /\ Head(q) \in Range(q)
<1>1. /\ DOMAIN q = 1..Len(q) /\ Len(q) \in Nat \ {0} /\ Head(q) = q[1]
      /\ DOMAIN Tail(q) = 1..(Len(q) - 1)
      /\ \A i \in 1..(Len(q) - 1) : Tail(q)[i] = q[i + 1]
  OBVIOUS
<1>2. \A i \in 1..(Len(q) - 1) : i + 1 \in 1..Len(q)
  BY <1>1
<1>3. 1 \in DOMAIN q
  BY <1>1
<1> QED BY <1>1, <1>2, <1>3 DEF Range

Pushes(f, g, p, e) == g = [f EXCEPT ![p] = Append(@, e)]
Pops(f, g, p) == f[p] # << >> /\ g = [f EXCEPT ![p] = Tail(@)]

LEMMA PushedTo ==
  ASSUME NEW S, NEW f \in [Peer -> Seq(S)], NEW g, NEW p \in Peer, NEW e \in S,
         Pushes(f, g, p, e), NEW s
  PROVE  Lists(g, s) => Lists(f, s) \/ IsReset(e, s)
<1>1. PICK h \in Seq(S) : h = f[p]
  OBVIOUS
<1>2. g[p] = Append(h, e) /\ \A q \in Peer : q # p => g[q] = f[q]
  BY <1>1 DEF Pushes
<1>3. Range(g[p]) = Range(f[p]) \cup {e}
  BY <1>1, <1>2, AppendElements
<1>4. \A q \in Peer : \A x \in Range(g[q]) : x \in Range(f[q]) \/ x = e
  BY <1>2, <1>3
<1> QED BY <1>4 DEF Lists

LEMMA PoppedFrom ==
  ASSUME NEW S, NEW f \in [Peer -> Seq(S)], NEW g, NEW p \in Peer, Pops(f, g, p), NEW s
  PROVE  /\ Lists(g, s) => Lists(f, s)
         /\ IsReset(Head(f[p]), s) => Lists(f, s)
<1>1. PICK h \in Seq(S) : h = f[p] /\ h # << >>
  BY DEF Pops
<1>2. g[p] = Tail(h) /\ \A q \in Peer : q # p => g[q] = f[q]
  BY <1>1 DEF Pops
<1>3. Range(g[p]) \subseteq Range(f[p]) /\ Head(f[p]) \in Range(f[p])
  BY <1>1, <1>2, TailRange
<1>4. \A q \in Peer : \A x \in Range(g[q]) : x \in Range(f[q])
  BY <1>2, <1>3
<1> QED BY <1>3, <1>4 DEF Lists

---------------------------------------------------------------------------
(* The media channel resets no stream of its own accord.                   *)

Quiet == \A s \in Sid : Mentioned(s)' => Mentioned(s)

LEMMA SameQuiet ==
  ASSUME UNCHANGED << queued, sent, wire, events >>
  PROVE  Quiet
BY DEF Quiet, Mentioned

LEMMA SendQueuedLists ==
  ASSUME SidsInv, NEW p \in Peer, NEW STATE newQueued, newQueued \in SUBSET Sid,
         NEW STATE newSent,
         Streams!SendQueuedStreamResets(p, newQueued, newSent), NEW s
  PROVE  /\ \A q \in Peer : s \in queued'[q] \cup sent'[q] =>
              s \in queued[q] \cup sent[q] \/ s \in newQueued \cup newSent
         /\ Lists(wire', s) => Lists(wire, s) \/ s \in newQueued
<1> DEFINE item == [type |-> "request", sids |-> newQueued]
           other == Streams!Other(p)
<1>0. /\ other \in Peer /\ wire \in [Peer -> Seq(PairedChunk)]
      /\ queued \in [Peer -> SUBSET Sid] /\ sent \in [Peer -> SUBSET Sid]
  BY OtherEnd, SidsInvTypes DEF Streams!TypeOK
<1>1. CASE newSent = {} /\ newQueued # {} /\ outstanding[p] = {}
  <2>1. item \in PairedChunk
    BY <1>1, RequestPaired
  <2>2. /\ queued' = [queued EXCEPT ![p] = {}] /\ sent' = [sent EXCEPT ![p] = newQueued]
        /\ Pushes(wire, wire', other, item)
    BY <1>1 DEF Streams!SendQueuedStreamResets, Streams!Push, Pushes
  <2>3. IsReset(item, s) => s \in newQueued
    BY DEF IsReset
  <2> HIDE DEF item, other
  <2>4. Lists(wire', s) => Lists(wire, s) \/ IsReset(item, s)
    BY <1>0, <2>1, <2>2, PushedTo
  <2>5. \A q \in Peer : s \in queued'[q] \cup sent'[q] =>
              s \in queued[q] \cup sent[q] \/ s \in newQueued \cup newSent
    BY <1>0, <2>2
  <2> QED BY <2>3, <2>4, <2>5
<1>2. CASE ~(newSent = {} /\ newQueued # {} /\ outstanding[p] = {})
  <2>1. /\ queued' = [queued EXCEPT ![p] = newQueued]
        /\ sent' = [sent EXCEPT ![p] = newSent] /\ wire' = wire
    BY <1>2 DEF Streams!SendQueuedStreamResets
  <2> QED BY <1>0, <2>1
<1> QED BY <1>1, <1>2

LEMMA StackQuiet ==
  ASSUME SidsInv, NEW p \in Peer, Streams!StackReceives(p)
  PROVE  Quiet
<1> SUFFICES ASSUME NEW s \in Sid
             PROVE  Mentioned(s)' => Mentioned(s)
  BY DEF Quiet
<1> DEFINE c == Head(wire[p])
           rest == [wire EXCEPT ![p] = Tail(@)]
           other == Streams!Other(p)
<1>1. /\ wire \in [Peer -> Seq(PairedChunk)] /\ events \in [Peer -> Seq(PairedEvent)]
      /\ other \in Peer /\ other # p
  BY OtherEnd, SidsInvTypes
<1>2. wire[p] # << >> /\ queued' = queued /\ sent' = sent
  BY DEF Streams!StackReceives, Streams!PerformsReset, Streams!ResetAnswered,
         Streams!ReceivesMessage, Streams!Receives
<1>3. c \in PairedChunk /\ rest \in [Peer -> Seq(PairedChunk)]
  BY <1>1, <1>2, Pop1
<1>4. Pops(wire, rest, p)
  BY <1>2 DEF Pops
<1>5. /\ Lists(rest, s) => Lists(wire, s)
      /\ IsReset(c, s) => Lists(wire, s)
  <2> HIDE DEF rest
  <2> QED BY <1>1, <1>4, PoppedFrom
<1>6. ASSUME NEW e \in PairedEvent, Pushes(events, events', p, e),
             IsReset(e, s) => IsReset(c, s), Lists(wire', s) => Lists(wire, s)
      PROVE  Mentioned(s)' => Mentioned(s)
  <2>1. Lists(events', s) => Lists(events, s) \/ IsReset(e, s)
    BY <1>1, <1>6, PushedTo
  <2> HIDE DEF c, rest, other
  <2> QED BY <1>2, <1>5, <1>6, <2>1 DEF Mentioned
<1>7. CASE Streams!PerformsReset(p)
  <2> DEFINE answer == IF outstanding[p] = {} THEN "performed" ELSE "inProgress"
             item == [type |-> answer, sids |-> c.sids]
             e == [type |-> "incoming", sids |-> c.sids]
  <2>1. c.type = "request"
    BY <1>7 DEF Streams!PerformsReset, Streams!Receives, Streams!Request
  <2>2. c.sids \in SUBSET Sid /\ c.sids # {}
    BY <1>3, <2>1, ChunkKinds
  <2>3. item \in PairedChunk /\ e \in PairedEvent
    BY <2>2, RequestPaired, EventPaired
  <2>4. (IsReset(item, s) => IsReset(c, s)) /\ (IsReset(e, s) => IsReset(c, s))
    BY <2>1 DEF IsReset
  <2>5. /\ wire' = [wire EXCEPT ![p] = Tail(@), ![other] = Append(@, item)]
        /\ Pushes(events, events', p, e)
    BY <1>7 DEF Streams!PerformsReset, Streams!Push, Pushes
  <2> HIDE DEF item, e, other
  <2>6. Pushes(rest, wire', other, item)
    BY <1>1, <2>5 DEF Pushes
  <2> HIDE DEF rest
  <2>7. Lists(wire', s) => Lists(rest, s) \/ IsReset(item, s)
    BY <1>1, <1>3, <2>3, <2>6, PushedTo
  <2> HIDE DEF c
  <2> QED BY <1>5, <1>6, <2>3, <2>4, <2>5, <2>7
<1>8. CASE Streams!ResetAnswered(p)
  <2> DEFINE e == IF c.type = "performed" THEN [type |-> "incoming", sids |-> c.sids]
                                          ELSE [type |-> "failed", sids |-> {}]
  <2>1. c.type # "message"
    BY <1>8 DEF Streams!ResetAnswered, Streams!Receives, Streams!Answer
  <2>2. c.sids \in SUBSET Sid
    BY <1>3, <2>1, ChunkKinds
  <2>3. e \in PairedEvent
    BY <2>2, EventPaired
  <2>4. IsReset(e, s) => IsReset(c, s)
    BY <2>1 DEF IsReset
  <2>5. wire' = rest /\ Pushes(events, events', p, e)
    BY <1>8 DEF Streams!ResetAnswered, Streams!Push, Streams!Pop, Pushes
  <2> HIDE DEF e, rest, c
  <2> QED BY <1>5, <1>6, <2>3, <2>4, <2>5
<1>9. CASE Streams!ReceivesMessage(p)
  <2>1. c.type = "message"
    BY <1>9 DEF Streams!ReceivesMessage, Streams!Receives
  <2>2. c \in PairedEvent
    BY <1>3, <2>1, ChunkKinds
  <2>3. wire' = rest /\ Pushes(events, events', p, c)
    BY <1>9 DEF Streams!ReceivesMessage, Streams!Push, Streams!Pop, Pushes
  <2> HIDE DEF c, rest
  <2> QED BY <1>5, <1>6, <2>2, <2>3
<1> QED BY <1>7, <1>8, <1>9 DEF Streams!StackReceives

LEMMA WorkerQuiet ==
  ASSUME SidsInv, NEW p \in Peer, Streams!WorkerHandles(p)
  PROVE  Quiet
<1> SUFFICES ASSUME NEW s \in Sid
             PROVE  Mentioned(s)' => Mentioned(s)
  BY DEF Quiet
<1> DEFINE e == Head(events[p])
<1>1. events \in [Peer -> Seq(PairedEvent)]
  BY SidsInvTypes
<1>2. /\ queued \in [Peer -> SUBSET Sid] /\ sent \in [Peer -> SUBSET Sid]
  BY SidsInvTypes DEF Streams!TypeOK
<1>3. ASSUME events[p] # << >>, Streams!Pop(events, p)
      PROVE  Lists(events', s) => Lists(events, s)
  <2>1. Pops(events, events', p)
    BY <1>3 DEF Streams!Pop, Pops
  <2> QED BY <1>1, <2>1, PoppedFrom
<1>4. ASSUME NEW STATE newQueued, newQueued \in SUBSET Sid, NEW STATE newSent,
             newQueued \cup newSent \subseteq queued[p] \cup sent[p],
             Streams!SendQueuedStreamResets(p, newQueued, newSent),
             Lists(events', s) => Lists(events, s)
      PROVE  Mentioned(s)' => Mentioned(s)
  <2>1. /\ \A q \in Peer : s \in queued'[q] \cup sent'[q] =>
             s \in queued[q] \cup sent[q] \/ s \in newQueued \cup newSent
        /\ Lists(wire', s) => Lists(wire, s) \/ s \in newQueued
    BY <1>4, SendQueuedLists
  <2>2. s \in newQueued \cup newSent => s \in queued[p] \cup sent[p]
    BY <1>4
  <2> QED BY <1>4, <2>1, <2>2 DEF Mentioned
<1>5. CASE Streams!OnResetFailed(p)
  <2> DEFINE newQueued == queued[p] \cup sent[p]
             newSent == {}
  <2>1. newQueued \in SUBSET Sid /\ newQueued \cup newSent \subseteq queued[p] \cup sent[p]
    BY <1>2
  <2>2. Streams!SendQueuedStreamResets(p, newQueued, newSent)
    BY <1>5 DEF Streams!OnResetFailed
  <2>3. events[p] # << >> /\ Streams!Pop(events, p)
    BY <1>5 DEF Streams!OnResetFailed
  <2> HIDE DEF newQueued, newSent
  <2> QED BY <1>3, <1>4, <2>1, <2>2, <2>3
<1>6. CASE Streams!OnIncomingReset(p)
  <2> DEFINE sids == e.sids
             closedHere == Streams!ClosedRemotely(p, sids)
             newQueued == queued[p] \ (sids \ (sent[p] \cup closedHere))
             newSent == sent[p] \ sids
  <2>1. newQueued \in SUBSET Sid /\ newQueued \cup newSent \subseteq queued[p] \cup sent[p]
    BY <1>2
  <2>2. Streams!SendQueuedStreamResets(p, newQueued, newSent)
    BY <1>6 DEF Streams!OnIncomingReset
  <2>3. events[p] # << >> /\ Streams!Pop(events, p)
    BY <1>6 DEF Streams!OnIncomingReset
  <2> HIDE DEF newQueued, newSent
  <2> QED BY <1>3, <1>4, <2>1, <2>2, <2>3
<1>7. CASE Streams!OnOutgoingReset(p)
  <2> DEFINE newQueued == queued[p]
             newSent == sent[p]
  <2>1. newQueued \in SUBSET Sid /\ newQueued \cup newSent \subseteq queued[p] \cup sent[p]
    BY <1>2
  <2>2. Streams!SendQueuedStreamResets(p, newQueued, newSent) /\ events' = events
    BY <1>7 DEF Streams!OnOutgoingReset
  <2> HIDE DEF newQueued, newSent
  <2> QED BY <1>4, <2>1, <2>2
<1>8. CASE Streams!OnDataFromSctp(p)
  <2>1. /\ queued' = queued /\ sent' = sent /\ wire' = wire
        /\ events[p] # << >> /\ Streams!Pop(events, p)
    BY <1>8 DEF Streams!OnDataFromSctp
  <2> QED BY <1>3, <2>1 DEF Mentioned
<1> QED BY <1>5, <1>6, <1>7, <1>8 DEF Streams!WorkerHandles

LEMMA AddChannelQuiet ==
  ASSUME NEW p, NEW s, NEW role, NEW n, AddChannel(p, s, role, n)
  PROVE  Quiet
BY SameQuiet DEF AddChannel, AddSendStream, Streams!AddStream, streamVars

(* A close resets the stream of the channel and no other.                  *)
LEMMA CloseLists ==
  ASSUME SidsInv, NEW p \in Peer, NEW s \in Sid, CloseChannel(p, s), NEW t \in Sid
  PROVE  Mentioned(t)' => Mentioned(t) \/ t = s
<1>1. CASE s \in open[p]
  <2> DEFINE newQueued == queued[p] \cup {s}
             newSent == sent[p]
  <2>1. newQueued \in SUBSET Sid
    BY SidsInvTypes DEF Streams!TypeOK
  <2>2. Streams!SendQueuedStreamResets(p, newQueued, newSent) /\ events' = events
    BY <1>1 DEF CloseChannel, Streams!ResetStream
  <2>3. t \in newQueued \cup newSent => t \in queued[p] \cup sent[p] \/ t = s
    OBVIOUS
  <2> HIDE DEF newQueued, newSent
  <2>4. /\ \A q \in Peer : t \in queued'[q] \cup sent'[q] =>
             t \in queued[q] \cup sent[q] \/ t \in newQueued \cup newSent
        /\ Lists(wire', t) => Lists(wire, t) \/ t \in newQueued
    BY <2>1, <2>2, SendQueuedLists
  <2> QED BY <2>2, <2>3, <2>4 DEF Mentioned
<1>2. CASE s \notin open[p]
  BY <1>2, SameQuiet DEF CloseChannel, streamVars, Quiet
<1> QED BY <1>1, <1>2

LEMMA SendDataQuiet ==
  ASSUME SidsInv, NEW p \in Peer, NEW s \in Sid, NEW m \in Numbers, m % 2 = s % 2,
         Streams!SendData(p, s, m, TRUE)
  PROVE  Quiet
<1> DEFINE item == [type |-> "message", sid |-> s, body |-> m]
           other == Streams!Other(p)
<1>1. other \in Peer /\ wire \in [Peer -> Seq(PairedChunk)]
  BY OtherEnd, SidsInvTypes
<1>2. item \in PairedChunk
  <2>1. item \in Streams!Chunk
    BY DEF Streams!Chunk
  <2> QED BY <2>1 DEF PairedChunk
<1>3. Pushes(wire, wire', other, item) /\ UNCHANGED << events, queued, sent >>
  BY DEF Streams!SendData, Streams!Push, Pushes
<1>4. \A t : ~IsReset(item, t)
  BY DEF IsReset
<1> HIDE DEF item, other
<1>5. \A t : Lists(wire', t) => Lists(wire, t)
  BY <1>1, <1>2, <1>3, <1>4, PushedTo
<1> QED BY <1>3, <1>5 DEF Mentioned, Quiet

---------------------------------------------------------------------------
(* Resets come from closes.                                                *)

ClosedId(s) == \E n \in Numbers : << n, s >> \in closed

(* A reset of a stream is under way only if a channel with that id was     *)
(* closed at one end.                                                      *)
ResetsHaveACause == \A s \in Sid : Resetting(s) => ClosedId(s)

(* What a step does to the resets under way.                               *)
Traces ==
  /\ closed \subseteq closed'
  /\ \A s \in Sid : Resetting(s)' => Resetting(s) \/ ClosedId(s)'

LEMMA QuietTraces ==
  ASSUME Quiet, closed \subseteq closed',
         \A s \in Sid : Lists(inbox', s) => Resetting(s)
  PROVE  Traces
BY DEF Traces, Quiet, Resetting

LEMMA CloseTraces ==
  ASSUME SidsInv, NEW p \in Peer, NEW s \in Sid, Exists(p, s), CloseChannel(p, s),
         \A t \in Sid : Lists(inbox', t) => Lists(inbox, t)
  PROVE  Traces
<1>1. PICK m \in Numbers : m = channel[p][s].number
  BY SidsInvTypes DEF Held
<1>2. closed' = closed \cup {<< m, s >>}
  BY <1>1 DEF CloseChannel
<1>3. ClosedId(s)'
  BY <1>2 DEF ClosedId
<1>4. \A t \in Sid : Mentioned(t)' => Mentioned(t) \/ t = s
  BY CloseLists
<1> QED BY <1>2, <1>3, <1>4 DEF Traces, Resetting

LEMMA SignalingTraces ==
  ASSUME SidsInv, NEW p \in Peer,
         \/ CreateDataChannel(p)
         \/ \E s \in Sid : \/ OpenerReady(p, s) \/ AckerReady(p, s)
                           \/ AppClose(p, s) \/ AppSendFails(p, s)
  PROVE  Traces
<1>1. CASE CreateDataChannel(p)
  <2>1. Quiet /\ inbox' = inbox /\ closed' = closed
    BY <1>1, AddChannelQuiet DEF CreateDataChannel
  <2> QED BY <2>1, QuietTraces DEF Resetting
<1>2. ASSUME NEW s \in Sid, OpenerReady(p, s) \/ AckerReady(p, s) PROVE Traces
  <2>1. channel[p][s] \in Slot /\ channel[p][s].state \in {"opener", "acker"}
    BY <1>2, SidsInvTypes DEF OpenerReady, AckerReady
  <2>2. Exists(p, s)
    BY <2>1 DEF Exists, None
  <2>3. PICK m \in Numbers : m = channel[p][s].number /\ m % 2 = s % 2
    BY <2>2, SidsInvTypes DEF Held
  <2>4. Quiet
    <3>1. CASE OpenerReady(p, s)
      <4>1. Streams!SendData(p, s, m, TRUE)
        BY <2>3, <3>1 DEF OpenerReady, Streams!SendData, Streams!Push
      <4>2. m % 2 = s % 2
        BY <2>3
      <4> QED BY <4>1, <4>2, SendDataQuiet
    <3>2. CASE AckerReady(p, s)
      BY <3>2, SameQuiet DEF AckerReady, streamVars
    <3> QED BY <1>2, <3>1, <3>2
  <2>5. inbox' = inbox /\ closed' = closed
    BY <1>2 DEF OpenerReady, AckerReady
  <2> QED BY <2>4, <2>5, QuietTraces DEF Resetting
<1>3. ASSUME NEW s \in Sid, AppClose(p, s) \/ AppSendFails(p, s) PROVE Traces
  <2>1. channel[p][s] \in Slot
    BY SidsInvTypes
  <2>2. Exists(p, s) /\ CloseChannel(p, s) /\ inbox' = inbox
    BY <1>3, <2>1 DEF AppClose, AppSendFails, Exists, None
  <2> QED BY <2>2, CloseTraces
<1> QED BY <1>1, <1>2, <1>3

LEMMA ReplacedHead ==
  ASSUME NEW q \in Seq(PairedPost), q # << >>, Head(q).type = "closedRemotely",
         NEW left \in SUBSET Sid, left \subseteq Head(q).sids
  PROVE  \A x \in Range([q EXCEPT ![1].sids = left]) :
           \/ x \in Range(q)
           \/ x.type = "closedRemotely" /\ x.sids = left
<1>1. /\ DOMAIN q = 1..Len(q) /\ Len(q) \in Nat \ {0} /\ Head(q) = q[1]
      /\ q[1] \in PairedPost /\ 1 \in 1..Len(q)
  OBVIOUS
<1>2. PICK r \in PairedPost : r = [q[1] EXCEPT !.sids = left]
  BY <1>1, PostKinds
<1>3. r.type = "closedRemotely" /\ r.sids = left
  BY <1>1, <1>2 DEF PairedPost, Post
<1>4. PICK g : g = [q EXCEPT ![1] = r]
  OBVIOUS
<1>5. DOMAIN g = DOMAIN q /\ g[1] = r /\ \A i \in 1..Len(q) : i # 1 => g[i] = q[i]
  BY <1>1, <1>4
<1>6. [q EXCEPT ![1].sids = left] = [q EXCEPT ![1] = [q[1] EXCEPT !.sids = left]]
  OBVIOUS
<1>7. \A x \in Range(g) : x \in Range(q) \/ x = r
  BY <1>1, <1>5 DEF Range
<1> QED BY <1>2, <1>3, <1>4, <1>6, <1>7

LEMMA PostTaken ==
  ASSUME SidsInv, NEW p \in Peer, NEW s, OnStreamClosedRemotely(p),
         NEW left \in SUBSET Sid, left = Head(inbox[p]).sids \ {s},
         inbox' = [inbox EXCEPT ![p] = IF left = {} THEN Tail(@)
                                       ELSE [@ EXCEPT ![1].sids = left]],
         NEW t
  PROVE  Lists(inbox', t) => Lists(inbox, t)
<1>1. PICK g \in Seq(PairedPost) : g = inbox[p]
  BY SidsInvTypes
<1>2. g # << >> /\ Head(g).type = "closedRemotely" /\ left \subseteq Head(g).sids
  BY <1>1 DEF OnStreamClosedRemotely, NextPost
<1>3. /\ inbox'[p] = IF left = {} THEN Tail(g) ELSE [g EXCEPT ![1].sids = left]
      /\ \A q \in Peer : q # p => inbox'[q] = inbox[q]
  BY <1>1, SidsInvTypes
<1>4. Range(Tail(g)) \subseteq Range(g) /\ Head(g) \in Range(g)
  BY <1>2, TailRange
<1>5. \A x \in Range(inbox'[p]) :
        x \in Range(g) \/ (x.type = "closedRemotely" /\ x.sids \subseteq Head(g).sids)
  <2>1. CASE left = {}
    BY <1>3, <1>4, <2>1
  <2>2. CASE left # {}
    <3>1. \A x \in Range([g EXCEPT ![1].sids = left]) :
             x \in Range(g) \/ (x.type = "closedRemotely" /\ x.sids = left)
      BY <1>2, ReplacedHead
    <3> QED BY <1>2, <1>3, <2>2, <3>1
  <2> QED BY <2>1, <2>2
<1>6. ASSUME NEW x \in Range(inbox'[p])
      PROVE  IsReset(x, t) => \E y \in Range(g) : IsReset(y, t)
  BY <1>2, <1>4, <1>5 DEF IsReset
<1> QED BY <1>1, <1>3, <1>6 DEF Lists

(* The head of the inbox, the news of a stream, is taken from it, and the  *)
(* channel with that stream, if any, is closed.                            *)
LEMMA NewsOfStream ==
  ASSUME SidsInv, NEW p \in Peer, OnStreamClosedRemotely(p)
  PROVE  \E s \in Sid :
           /\ IsReset(Head(inbox[p]), s) /\ inbox[p] # << >>
           /\ \A t : Lists(inbox', t) => Lists(inbox, t)
           /\ IF Exists(p, s) THEN CloseChannel(p, s)
                              ELSE UNCHANGED << streamVars, used, channel, closed >>
<1>1. PICK s \in Head(inbox[p]).sids :
        /\ inbox' = [inbox EXCEPT ![p] =
                       IF Head(inbox[p]).sids \ {s} = {} THEN Tail(@)
                       ELSE [@ EXCEPT ![1].sids = Head(inbox[p]).sids \ {s}]]
        /\ IF Exists(p, s) THEN CloseChannel(p, s)
                           ELSE UNCHANGED << streamVars, used, channel, closed >>
  BY DEF OnStreamClosedRemotely
<1>2. inbox[p] # << >> /\ Head(inbox[p]).type = "closedRemotely"
  BY DEF OnStreamClosedRemotely, NextPost
<1>3. Head(inbox[p]).sids \in SUBSET Sid
  <2>1. Head(inbox[p]) \in PairedPost
    BY <1>2, SidsInvTypes, Pop1
  <2> QED BY <1>2, <2>1, PostKinds
<1>4. PICK left \in SUBSET Sid : left = Head(inbox[p]).sids \ {s}
  BY <1>3
<1>5. inbox' = [inbox EXCEPT ![p] = IF left = {} THEN Tail(@)
                                    ELSE [@ EXCEPT ![1].sids = left]]
  BY <1>1, <1>4
<1>6. \A t : Lists(inbox', t) => Lists(inbox, t)
  BY <1>4, <1>5, PostTaken
<1>7. IsReset(Head(inbox[p]), s) /\ s \in Sid
  BY <1>1, <1>2, <1>3 DEF IsReset
<1> QED BY <1>1, <1>2, <1>6, <1>7

LEMMA ClosedRemotelyTraces ==
  ASSUME SidsInv, NEW p \in Peer, OnStreamClosedRemotely(p)
  PROVE  Traces
<1>1. PICK s \in Sid :
        /\ \A t : Lists(inbox', t) => Lists(inbox, t)
        /\ IF Exists(p, s) THEN CloseChannel(p, s)
                           ELSE UNCHANGED << streamVars, used, channel, closed >>
  BY NewsOfStream
<1>2. CASE Exists(p, s)
  BY <1>1, <1>2, CloseTraces
<1>3. CASE ~Exists(p, s)
  <2>1. Quiet /\ closed' = closed
    BY <1>1, <1>3, SameQuiet DEF streamVars
  <2> QED BY <1>1, <2>1, QuietTraces DEF Resetting
<1> QED BY <1>2, <1>3

LEMMA OpenMessageTraces ==
  ASSUME SidsInv, NEW p \in Peer, OnOpenMessage(p)
  PROVE  Traces
<1>1. Pops(inbox, inbox', p) /\ closed' = closed
  BY DEF OnOpenMessage, NextPost, Pops
<1>2. \A t : Lists(inbox', t) => Lists(inbox, t)
  BY <1>1, SidsInvTypes, PoppedFrom
<1>3. Quiet
  <2>1. \/ AddChannel(p, Head(inbox[p]).sid, "acker", Head(inbox[p]).body)
        \/ UNCHANGED << streamVars, used, channel, met, refused >>
    BY DEF OnOpenMessage
  <2>2. CASE AddChannel(p, Head(inbox[p]).sid, "acker", Head(inbox[p]).body)
    BY <2>2, AddChannelQuiet
  <2>3. CASE UNCHANGED << streamVars, used, channel, met, refused >>
    BY <2>3, SameQuiet DEF streamVars
  <2> QED BY <2>1, <2>2, <2>3
<1> QED BY <1>1, <1>2, <1>3, QuietTraces DEF Resetting

LEMMA WorkerTraces ==
  ASSUME SidsInv, NEW p \in Peer,
         WorkerHandlesReset(p) \/ WorkerLooksAtQueue(p) \/ WorkerReportsData(p)
  PROVE  Traces
<1> DEFINE e == Head(events[p])
<1>1. closed' = closed
  BY DEF WorkerHandlesReset, WorkerLooksAtQueue, WorkerReportsData
<1>2. Quiet
  <2>1. Streams!WorkerHandles(p)
    BY DEF WorkerHandlesReset, WorkerLooksAtQueue, WorkerReportsData, Streams!WorkerHandles
  <2> QED BY <2>1, WorkerQuiet
<1>3. CASE inbox' = inbox
  BY <1>1, <1>2, <1>3, QuietTraces DEF Resetting
<1>4. ASSUME NEW post \in PairedPost, Pushes(inbox, inbox', p, post), NEW t
      PROVE  Lists(inbox', t) => Lists(inbox, t) \/ IsReset(post, t)
  BY <1>4, SidsInvTypes, PushedTo
<1>5. ASSUME events[p] # << >>, NEW t
      PROVE  IsReset(e, t) => Lists(events, t)
  <2>1. Pops(events, [events EXCEPT ![p] = Tail(@)], p)
    BY <1>5 DEF Pops
  <2>2. PICK g : g = [events EXCEPT ![p] = Tail(@)]
    OBVIOUS
  <2> QED BY <2>1, <2>2, SidsInvTypes, PoppedFrom
<1>6. CASE WorkerReportsData(p)
  <2>1. /\ events[p] # << >> /\ e.type = "message"
        /\ inbox' = [inbox EXCEPT ![p] = Append(@, e)]
    BY <1>6 DEF WorkerReportsData, Streams!OnDataFromSctp
  <2>2. e \in PairedPost
    <3>1. e \in PairedEvent
      BY <2>1, SidsInvTypes, Pop1
    <3> QED BY <2>1, <3>1, EventKinds
  <2>3. Pushes(inbox, inbox', p, e)
    BY <2>1 DEF Pushes
  <2>4. \A t : ~IsReset(e, t)
    BY <2>1 DEF IsReset
  <2> HIDE DEF e
  <2>5. \A t : Lists(inbox', t) => Lists(inbox, t)
    BY <1>4, <2>2, <2>3, <2>4
  <2> QED BY <1>1, <1>2, <2>5, QuietTraces DEF Resetting
<1>7. CASE WorkerHandlesReset(p) /\ inbox' # inbox
  <2>1. PICK sids : sids = Streams!ClosedRemotely(p, e.sids)
    OBVIOUS
  <2>2. /\ events[p] # << >> /\ e.type = "incoming"
        /\ inbox' = [inbox EXCEPT ![p] = Append(@,
                       [type |-> "closedRemotely", sids |-> sids])]
    BY <1>7, <2>1 DEF WorkerHandlesReset, Streams!OnIncomingReset
  <2>3. sids \subseteq e.sids /\ sids \in SUBSET Sid
    BY <2>1, SidsInvTypes DEF Streams!ClosedRemotely
  <2>4. PICK post \in PairedPost : post = [type |-> "closedRemotely", sids |-> sids]
    BY <2>3 DEF PairedPost, Post
  <2>5. Pushes(inbox, inbox', p, post)
    BY <2>2, <2>4 DEF Pushes
  <2>6. \A t : IsReset(post, t) => IsReset(e, t)
    BY <2>2, <2>3, <2>4 DEF IsReset
  <2> HIDE DEF e
  <2>7. \A t : Lists(inbox', t) => Resetting(t)
    BY <1>4, <1>5, <2>2, <2>5, <2>6 DEF Resetting, Mentioned
  <2> QED BY <1>1, <1>2, <2>7, QuietTraces
<1>8. WorkerLooksAtQueue(p) => inbox' = inbox
  BY DEF WorkerLooksAtQueue
<1> QED BY <1>3, <1>6, <1>7, <1>8

LEMMA StepTraces == SidsInv /\ [Next]_vars => Traces
<1> SUFFICES ASSUME SidsInv, [Next]_vars PROVE Traces
  OBVIOUS
<1>1. ASSUME NEW p \in Peer,
             \/ CreateDataChannel(p)
             \/ \E s \in Sid : \/ OpenerReady(p, s) \/ AckerReady(p, s)
                               \/ AppClose(p, s) \/ AppSendFails(p, s)
      PROVE  Traces
  BY <1>1, SignalingTraces
<1>2. ASSUME NEW p \in Peer, OnStreamClosedRemotely(p) PROVE Traces
  BY <1>2, ClosedRemotelyTraces
<1>3. ASSUME NEW p \in Peer, OnOpenMessage(p) PROVE Traces
  BY <1>3, OpenMessageTraces
<1>4. ASSUME NEW p \in Peer,
             WorkerHandlesReset(p) \/ WorkerLooksAtQueue(p) \/ WorkerReportsData(p)
      PROVE  Traces
  BY <1>4, WorkerTraces
<1>5. ASSUME NEW p \in Peer, Stack(p) PROVE Traces
  <2>1. Quiet /\ inbox' = inbox /\ closed' = closed
    BY <1>5, StackQuiet DEF Stack
  <2> QED BY <2>1, QuietTraces DEF Resetting
<1>6. CASE UNCHANGED vars
  <2>1. Quiet /\ inbox' = inbox /\ closed' = closed
    BY <1>6, SameQuiet DEF vars, streamVars
  <2> QED BY <2>1, QuietTraces DEF Resetting
<1> QED BY <1>1, <1>2, <1>3, <1>4, <1>5, <1>6 DEF Next

LEMMA InitCause == Init => ResetsHaveACause
<1> SUFFICES ASSUME Init, NEW s \in Sid PROVE ~Resetting(s)
  BY DEF ResetsHaveACause
<1>1. \A p \in Peer : /\ wire[p] = << >> /\ events[p] = << >> /\ inbox[p] = << >>
                     /\ queued[p] = {} /\ sent[p] = {}
  BY DEF Init, Streams!Init
<1>2. Range(<< >>) = {}
  BY DEF Range
<1> QED BY <1>1, <1>2 DEF Resetting, Mentioned, Lists

LEMMA StepCause == SidsInv /\ ResetsHaveACause /\ [Next]_vars => ResetsHaveACause'
BY StepTraces DEF Traces, ResetsHaveACause, ClosedId

LEMMA CloseIsCaused ==
  ASSUME SidsInv, ResetsHaveACause, NEW p \in Peer, NEW s \in Sid, ClosedByNews(p, s)
  PROVE  \E n \in Numbers : << n, s >> \in closed
<1>1. PICK t \in Sid :
        /\ IsReset(Head(inbox[p]), t) /\ inbox[p] # << >>
        /\ IF Exists(p, t) THEN CloseChannel(p, t)
                           ELSE UNCHANGED << streamVars, used, channel, closed >>
  BY NewsOfStream DEF ClosedByNews
<1>2. channel' = channel \/ channel' = [channel EXCEPT ![p][t] = None]
  BY <1>1 DEF CloseChannel
<1>3. t = s
  <2>1. channel'[p][s] # channel[p][s]
    BY DEF ClosedByNews, Exists
  <2> QED BY <1>2, <2>1, SidsInvTypes, NoneSlot, SlotSet
<1>4. Head(inbox[p]) \in Range(inbox[p])
  BY <1>1, SidsInvTypes, TailRange
<1>5. Resetting(s)
  BY <1>1, <1>3, <1>4 DEF Resetting, Lists
<1> QED BY <1>5 DEF ResetsHaveACause, ClosedId

---------------------------------------------------------------------------

(* The news that the peer closed closes a channel only if an end of a      *)
(* channel with its id was closed: no reset starts of itself, none changes *)
(* its stream on its way through queues, requests, answers, retries, and   *)
(* no news closes another channel than the one with that id.               *)
THEOREM RemoteClosesHaveACause == Spec => RemoteCloseHasACause
<1>1. SidsInv /\ ResetsHaveACause /\ [Next]_vars =>
        [\A p \in Peer : \A s \in Sid :
           ClosedByNews(p, s) => \E n \in Numbers : << n, s >> \in closed]_vars
  BY CloseIsCaused
<1> QED BY <1>1, InitCause, StepCause, Invariant, PTL DEF Spec, RemoteCloseHasACause

===========================================================================
