------------------------- MODULE SctpStreams_proof -------------------------
(***************************************************************************)
(* Proofs about SctpStreams, for any set of stream ids, any number of      *)
(* messages and any bound on the streams added.                            *)
(***************************************************************************)
EXTENDS SctpStreams, TLAPS

(* The other end is an end, and the other of it is oneself.                *)
LEMMA OtherPeer ==
  \A p \in Peer : /\ Other(p) \in Peer
                  /\ Other(p) # p
                  /\ Other(Other(p)) = p
                  /\ \A q \in Peer : q = p \/ q = Other(p)
BY TwoPeers DEF Other

(* Appending to one peer's queue, and taking its head, leaves queues of    *)
(* the same items.                                                         *)
LEMMA QueueTypes ==
  ASSUME NEW S, NEW q \in [Peer -> Seq(S)], NEW p \in Peer, NEW item \in S
  PROVE  /\ [q EXCEPT ![p] = Append(@, item)] \in [Peer -> Seq(S)]
         /\ q[p] # << >> => /\ [q EXCEPT ![p] = Tail(@)] \in [Peer -> Seq(S)]
                            /\ Head(q[p]) \in S
OBVIOUS

LEMMA PopType ==
  ASSUME NEW S, NEW q \in [Peer -> Seq(S)], NEW p \in Peer, q[p] # << >>
  PROVE  /\ [q EXCEPT ![p] = Tail(@)] \in [Peer -> Seq(S)]
         /\ Head(q[p]) \in S
OBVIOUS

LEMMA PushType ==
  ASSUME NEW S, NEW q \in [Peer -> Seq(S)], NEW r, NEW p \in Peer,
         NEW item \in S, r = [q EXCEPT ![p] = Append(@, item)]
  PROVE  r \in [Peer -> Seq(S)]
BY QueueTypes

(* The two queues that grow by Push.                                       *)
LEMMA PushWire ==
  ASSUME TypeOK, NEW p \in Peer, NEW item \in Chunk, Push(wire, Other(p), item)
  PROVE  wire' \in [Peer -> Seq(Chunk)]
<1>1. Other(p) \in Peer
  BY OtherPeer
<1>2. wire' = [wire EXCEPT ![Other(p)] = Append(@, item)]
  BY DEF Push
<1>3. wire \in [Peer -> Seq(Chunk)]
  BY DEF TypeOK
<1> QED BY <1>1, <1>2, <1>3, PushType

LEMMA PushEvents ==
  ASSUME TypeOK, NEW p \in Peer, NEW item \in Event, Push(events, p, item)
  PROVE  events' \in [Peer -> Seq(Event)]
<1>1. events' = [events EXCEPT ![p] = Append(@, item)]
  BY DEF Push
<1>2. events \in [Peer -> Seq(Event)]
  BY DEF TypeOK
<1> QED BY <1>1, <1>2, PushType

LEMMA PopEvents ==
  ASSUME TypeOK, NEW p \in Peer, events[p] # << >>, Pop(events, p)
  PROVE  events' \in [Peer -> Seq(Event)]
<1>1. events \in [Peer -> Seq(Event)]
  BY DEF TypeOK
<1> QED BY <1>1, PopType DEF Pop

LEMMA InitType == Init => TypeOK
BY DEF Init, TypeOK

LEMMA RequestIsChunk ==
  ASSUME NEW type \in Request \cup Answer,
         NEW sids \in SUBSET Sid, sids # {}
  PROVE  [type |-> type, sids |-> sids] \in Chunk
BY DEF Chunk, Request, Answer

LEMMA SendQueuedType ==
  ASSUME TypeOK, NEW p \in Peer,
         NEW STATE newQueued, newQueued \in SUBSET Sid,
         NEW STATE newSent, newSent \in SUBSET Sid,
         SendQueuedStreamResets(p, newQueued, newSent)
  PROVE  /\ queued' \in [Peer -> SUBSET Sid]
         /\ sent' \in [Peer -> SUBSET Sid]
         /\ outstanding' \in [Peer -> SUBSET Sid]
         /\ wire' \in [Peer -> Seq(Chunk)]
<1>1. CASE newSent = {} /\ newQueued # {} /\ outstanding[p] = {}
  <2>1. [type |-> "request", sids |-> newQueued] \in Chunk
    BY <1>1, RequestIsChunk DEF Request
  <2>2. Push(wire, Other(p), [type |-> "request", sids |-> newQueued])
    BY <1>1 DEF SendQueuedStreamResets
  <2>3. wire' \in [Peer -> Seq(Chunk)]
    BY <2>1, <2>2, PushWire
  <2> QED BY <1>1, <2>3 DEF TypeOK, SendQueuedStreamResets
<1>2. CASE ~(newSent = {} /\ newQueued # {} /\ outstanding[p] = {})
  BY <1>2 DEF TypeOK, SendQueuedStreamResets
<1> QED BY <1>1, <1>2

(* What is at the head of a peer's wire.                                   *)
LEMMA HeadType ==
  ASSUME NEW p \in Peer, wire \in [Peer -> Seq(Chunk)], wire[p] # << >>
  PROVE  /\ [wire EXCEPT ![p] = Tail(@)] \in [Peer -> Seq(Chunk)]
         /\ Head(wire[p]).type = "message" => Head(wire[p]) \in Event
         /\ Head(wire[p]).type # "message" =>
              Head(wire[p]).sids \in SUBSET Sid /\ Head(wire[p]).sids # {}
<1>1. Head(wire[p]) \in Chunk /\ [wire EXCEPT ![p] = Tail(@)] \in [Peer -> Seq(Chunk)]
  BY PopType
<1> QED BY <1>1 DEF Chunk, Event, Request, Answer

LEMMA NextType == TypeOK /\ [Next]_streamVars => TypeOK'
<1> SUFFICES ASSUME TypeOK, [Next]_streamVars PROVE TypeOK'
  OBVIOUS
<1>1. ASSUME NEW p \in Peer, NEW s \in Sid, AddStream(p, s) PROVE TypeOK'
  BY <1>1, CountsAreNumbers DEF TypeOK, AddStream
<1>2. ASSUME NEW p \in Peer, NEW s \in Sid, ResetStream(p, s) PROVE TypeOK'
  <2> DEFINE newQueued == queued[p] \cup {s}
  <2>1. newQueued \in SUBSET Sid /\ sent[p] \in SUBSET Sid
    BY DEF TypeOK
  <2>2. open' \in [Peer -> SUBSET Sid]
    BY <1>2 DEF TypeOK, ResetStream
  <2>3. SendQueuedStreamResets(p, newQueued, sent[p])
    BY <1>2 DEF ResetStream
  <2> HIDE DEF newQueued
  <2>4. /\ queued' \in [Peer -> SUBSET Sid]
        /\ sent' \in [Peer -> SUBSET Sid]
        /\ outstanding' \in [Peer -> SUBSET Sid]
        /\ wire' \in [Peer -> Seq(Chunk)]
    BY <2>1, <2>3, SendQueuedType
  <2> QED BY <1>2, <2>2, <2>4 DEF TypeOK, ResetStream
<1>3. ASSUME NEW p \in Peer, NEW s \in Sid, NEW body \in Body,
             NEW control \in BOOLEAN, SendData(p, s, body, control)
      PROVE  TypeOK'
  <2>1. [type |-> "message", sid |-> s, body |-> body] \in Chunk
    BY DEF Chunk
  <2>2. wire' \in [Peer -> Seq(Chunk)]
    BY <1>3, <2>1, PushWire DEF SendData
  <2> QED BY <1>3, <2>2, CountsAreNumbers DEF TypeOK, SendData
<1>4. ASSUME NEW p \in Peer, PerformsReset(p) PROVE TypeOK'
  <2> DEFINE c == Head(wire[p])
             answer == IF outstanding[p] = {} THEN "performed" ELSE "inProgress"
             item == [type |-> answer, sids |-> c.sids]
             rest == [wire EXCEPT ![p] = Tail(@)]
  <2>1. c.sids \in SUBSET Sid /\ c.sids # {} /\ rest \in [Peer -> Seq(Chunk)]
    BY <1>4, HeadType DEF PerformsReset, Receives, Request, TypeOK
  <2>2. item \in Chunk
    BY <2>1, RequestIsChunk DEF Answer
  <2>3. wire' = [rest EXCEPT ![Other(p)] = Append(@, item)]
    BY <1>4, OtherPeer DEF PerformsReset, TypeOK
  <2>4. Other(p) \in Peer
    BY OtherPeer
  <2> HIDE DEF item, rest
  <2>5. wire' \in [Peer -> Seq(Chunk)]
    BY <2>1, <2>2, <2>3, <2>4, PushType
  <2>6. [type |-> "incoming", sids |-> c.sids] \in Event
    BY <2>1 DEF Event
  <2>7. Push(events, p, [type |-> "incoming", sids |-> c.sids])
    BY <1>4 DEF PerformsReset
  <2>8. events' \in [Peer -> Seq(Event)]
    BY <2>6, <2>7, PushEvents
  <2> QED BY <1>4, <2>5, <2>8 DEF PerformsReset, TypeOK
<1>5. ASSUME NEW p \in Peer, ResetAnswered(p) PROVE TypeOK'
  <2> DEFINE c == Head(wire[p])
             e == IF c.type = "performed"
                  THEN [type |-> "incoming", sids |-> c.sids]
                  ELSE [type |-> "failed", sids |-> {}]
  <2>1. /\ c.sids \in SUBSET Sid
        /\ [wire EXCEPT ![p] = Tail(@)] \in [Peer -> Seq(Chunk)]
    BY <1>5, HeadType DEF ResetAnswered, Receives, Answer, TypeOK
  <2>2. e \in Event
    BY <2>1 DEF Event
  <2>3. Push(events, p, e)
    BY <1>5 DEF ResetAnswered
  <2>4. events' \in [Peer -> Seq(Event)]
    BY <2>2, <2>3, PushEvents
  <2> QED BY <1>5, <2>1, <2>4 DEF ResetAnswered, Pop, TypeOK
<1>6. ASSUME NEW p \in Peer, ReceivesMessage(p) PROVE TypeOK'
  <2>1. /\ Head(wire[p]) \in Event
        /\ [wire EXCEPT ![p] = Tail(@)] \in [Peer -> Seq(Chunk)]
    BY <1>6, HeadType DEF ReceivesMessage, Receives, TypeOK
  <2>2. events' \in [Peer -> Seq(Event)]
    BY <1>6, <2>1, PushEvents DEF ReceivesMessage
  <2> QED BY <1>6, <2>1, <2>2 DEF ReceivesMessage, Pop, TypeOK
<1>7. ASSUME NEW p \in Peer, OnResetFailed(p) PROVE TypeOK'
  <2>1. events' \in [Peer -> Seq(Event)]
    BY <1>7, PopEvents DEF OnResetFailed
  <2> DEFINE newQueued == queued[p] \cup sent[p]
  <2>2. newQueued \in SUBSET Sid
    BY DEF TypeOK
  <2>3. SendQueuedStreamResets(p, newQueued, {})
    BY <1>7 DEF OnResetFailed
  <2> HIDE DEF newQueued
  <2>4. /\ queued' \in [Peer -> SUBSET Sid]
        /\ sent' \in [Peer -> SUBSET Sid]
        /\ outstanding' \in [Peer -> SUBSET Sid]
        /\ wire' \in [Peer -> Seq(Chunk)]
    BY <2>2, <2>3, SendQueuedType
  <2> QED BY <1>7, <2>1, <2>4 DEF OnResetFailed, TypeOK
<1>8. ASSUME NEW p \in Peer, OnIncomingReset(p) PROVE TypeOK'
  <2>1. events' \in [Peer -> Seq(Event)]
    BY <1>8, PopEvents DEF OnIncomingReset
  <2> DEFINE sids == Head(events[p]).sids
             closed == ClosedRemotely(p, sids)
             newQueued == queued[p] \ (sids \ (sent[p] \cup closed))
             newSent == sent[p] \ sids
  <2>2. newQueued \in SUBSET Sid /\ newSent \in SUBSET Sid
    BY DEF TypeOK
  <2>3. SendQueuedStreamResets(p, newQueued, newSent)
    BY <1>8 DEF OnIncomingReset
  <2>4. open' = [open EXCEPT ![p] = @ \ closed]
    BY <1>8 DEF OnIncomingReset
  <2>5. open' \in [Peer -> SUBSET Sid]
    BY <2>4 DEF TypeOK
  <2> HIDE DEF sids, closed, newQueued, newSent
  <2>6. /\ queued' \in [Peer -> SUBSET Sid]
        /\ sent' \in [Peer -> SUBSET Sid]
        /\ outstanding' \in [Peer -> SUBSET Sid]
        /\ wire' \in [Peer -> Seq(Chunk)]
    BY <2>2, <2>3, SendQueuedType
  <2> QED BY <1>8, <2>1, <2>5, <2>6 DEF OnIncomingReset, TypeOK
<1>9. ASSUME NEW p \in Peer, OnDataFromSctp(p) PROVE TypeOK'
  BY <1>9, PopEvents DEF OnDataFromSctp, TypeOK
<1>11. ASSUME NEW p \in Peer, OnOutgoingReset(p) PROVE TypeOK'
  <2> DEFINE newQueued == queued[p]
             newSent == sent[p]
  <2>1. newQueued \in SUBSET Sid /\ newSent \in SUBSET Sid
    BY DEF TypeOK
  <2>2. SendQueuedStreamResets(p, newQueued, newSent)
    BY <1>11 DEF OnOutgoingReset
  <2> HIDE DEF newQueued, newSent
  <2>3. /\ queued' \in [Peer -> SUBSET Sid]
        /\ sent' \in [Peer -> SUBSET Sid]
        /\ outstanding' \in [Peer -> SUBSET Sid]
        /\ wire' \in [Peer -> Seq(Chunk)]
    BY <2>1, <2>2, SendQueuedType
  <2> QED BY <1>11, <2>3 DEF OnOutgoingReset, TypeOK
<1>10. CASE UNCHANGED streamVars
  BY <1>10 DEF TypeOK, streamVars
<1> QED
  BY <1>1, <1>2, <1>3, <1>4, <1>5, <1>6, <1>7, <1>8, <1>9, <1>10, <1>11
     DEF Next, StackReceives, WorkerHandles

(* All that the two peers hold has its type in every reachable state.      *)
THEOREM TypeCorrect == Spec => []TypeOK
BY InitType, NextType, PTL DEF Spec

---------------------------------------------------------------------------
(* The queues of chunks.  These lemmas say what appending to a queue and   *)
(* taking its head do to "at most one chunk of these types".               *)

LEMMA AppendOther ==
  ASSUME NEW s \in Seq(Chunk), NEW c \in Chunk, NEW types, c.type \notin types,
         NEW sids, AtMostOne(s, types, sids)
  PROVE  /\ AtMostOne(Append(s, c), types, sids)
         /\ Has(Append(s, c), types) <=> Has(s, types)
<1>1. /\ DOMAIN s = 1..Len(s) /\ Len(s) \in Nat
      /\ DOMAIN Append(s, c) = 1..(Len(s) + 1)
      /\ \A i \in 1..Len(s) : Append(s, c)[i] = s[i]
      /\ Append(s, c)[Len(s) + 1] = c
  OBVIOUS
<1>2. \A i \in DOMAIN Append(s, c) :
         Append(s, c)[i].type \in types => i \in DOMAIN s /\ Append(s, c)[i] = s[i]
  BY <1>1
<1>3. \A i \in DOMAIN s : i \in DOMAIN Append(s, c) /\ Append(s, c)[i] = s[i]
  BY <1>1
<1> QED BY <1>2, <1>3 DEF AtMostOne, Has

LEMMA AppendFirst ==
  ASSUME NEW s \in Seq(Chunk), NEW c \in Chunk, NEW types, ~Has(s, types)
  PROVE  AtMostOne(Append(s, c), types, c.sids)
<1>1. /\ DOMAIN s = 1..Len(s) /\ Len(s) \in Nat
      /\ DOMAIN Append(s, c) = 1..(Len(s) + 1)
      /\ \A i \in 1..Len(s) : Append(s, c)[i] = s[i]
      /\ Append(s, c)[Len(s) + 1] = c
  OBVIOUS
<1>2. \A i \in DOMAIN Append(s, c) :
         Append(s, c)[i].type \in types => i = Len(s) + 1
  BY <1>1 DEF Has
<1> QED BY <1>1, <1>2 DEF AtMostOne

LEMMA TailOf ==
  ASSUME NEW s \in Seq(Chunk), s # << >>, NEW types, NEW sids,
         AtMostOne(s, types, sids)
  PROVE  /\ AtMostOne(Tail(s), types, sids)
         /\ Has(Tail(s), types) => Has(s, types)
         /\ Head(s).type \in types =>
              Has(s, types) /\ ~Has(Tail(s), types) /\ Head(s).sids = sids
<1>1. /\ DOMAIN s = 1..Len(s) /\ Len(s) \in Nat \ {0}
      /\ DOMAIN Tail(s) = 1..(Len(s) - 1)
      /\ \A i \in 1..(Len(s) - 1) : Tail(s)[i] = s[i + 1]
      /\ Head(s) = s[1]
  OBVIOUS
<1>2. \A i \in DOMAIN Tail(s) :
         i \in Nat /\ i + 1 \in DOMAIN s /\ Tail(s)[i] = s[i + 1] /\ i + 1 # 1
  BY <1>1
<1>3. 1 \in DOMAIN s
  BY <1>1
<1>4. \A i, j \in DOMAIN Tail(s) : i + 1 = j + 1 => i = j
  BY <1>1
<1> QED BY <1>1, <1>2, <1>3, <1>4 DEF AtMostOne, Has

LEMMA NoneAtAll ==
  ASSUME NEW s \in Seq(Chunk), NEW types, "message" \notin types,
         AtMostOne(s, types, {})
  PROVE  ~Has(s, types)
<1>1. \A i \in DOMAIN s : s[i] \in Chunk
  OBVIOUS
<1>2. \A c \in Chunk : c.type # "message" => c.sids # {}
  BY DEF Chunk, Request, Answer
<1> QED BY <1>1, <1>2 DEF AtMostOne, Has

LEMMA NoneIsAtMostOne ==
  ASSUME NEW s, NEW types, NEW sids, ~Has(s, types)
  PROVE  AtMostOne(s, types, sids)
BY DEF AtMostOne, Has

---------------------------------------------------------------------------
(* What SendQueuedStreamResets(p, ...) does to the sets: either a request  *)
(* goes out for all that is queued, or everything stays as computed and    *)
(* there is a reason to wait.                                              *)
LEMMA SendQueuedEffect ==
  ASSUME TypeOK, NEW p \in Peer,
         NEW STATE newQueued, newQueued \in SUBSET Sid,
         NEW STATE newSent, newSent \in SUBSET Sid,
         SendQueuedStreamResets(p, newQueued, newSent)
  PROVE  /\ \A r \in Peer : r # p => /\ queued'[r] = queued[r]
                                     /\ sent'[r] = sent[r]
                                     /\ outstanding'[r] = outstanding[r]
         /\ \/ /\ newSent = {} /\ newQueued # {} /\ outstanding[p] = {}
               /\ queued'[p] = {} /\ sent'[p] = newQueued
               /\ outstanding'[p] = newQueued
            \/ /\ newQueued = {} \/ newSent # {} \/ outstanding[p] # {}
               /\ queued'[p] = newQueued /\ sent'[p] = newSent
               /\ outstanding'[p] = outstanding[p]
BY DEF TypeOK, SendQueuedStreamResets

(* SetsDisjoint.                                                           *)

LEMMA SendQueuedDisjoint ==
  ASSUME TypeOK, SetsDisjoint, NEW p \in Peer,
         NEW STATE newQueued, newQueued \in SUBSET Sid,
         NEW STATE newSent, newSent \in SUBSET Sid,
         SendQueuedStreamResets(p, newQueued, newSent),
         newQueued \cap newSent = {},
         \A r \in Peer : r # p => open'[r] = open[r],
         open'[p] \cap newQueued = {}, open'[p] \cap newSent = {}
  PROVE  SetsDisjoint'
<1>1. \A r \in Peer : r # p => /\ queued'[r] = queued[r]
                               /\ sent'[r] = sent[r]
  BY SendQueuedEffect
<1>2. \/ queued'[p] = {} /\ sent'[p] = newQueued
      \/ queued'[p] = newQueued /\ sent'[p] = newSent
  BY DEF TypeOK, SendQueuedStreamResets
<1> QED BY <1>1, <1>2 DEF SetsDisjoint

LEMMA DisjointStep == TypeOK /\ SetsDisjoint /\ [Next]_streamVars => SetsDisjoint'
<1> SUFFICES ASSUME TypeOK, SetsDisjoint, [Next]_streamVars PROVE SetsDisjoint'
  OBVIOUS
<1>1. ASSUME NEW p \in Peer, NEW s \in Sid, AddStream(p, s) PROVE SetsDisjoint'
  BY <1>1 DEF TypeOK, SetsDisjoint, AddStream, AcceptsStream
<1>2. ASSUME NEW p \in Peer, NEW s \in Sid, ResetStream(p, s) PROVE SetsDisjoint'
  <2> DEFINE newQueued == queued[p] \cup {s}
             newSent == sent[p]
  <2>1. newQueued \in SUBSET Sid /\ newSent \in SUBSET Sid
    BY DEF TypeOK
  <2>2. SendQueuedStreamResets(p, newQueued, newSent)
    BY <1>2 DEF ResetStream
  <2>3. newQueued \cap newSent = {}
    BY <1>2 DEF SetsDisjoint, ResetStream
  <2>4. /\ \A r \in Peer : r # p => open'[r] = open[r]
        /\ open'[p] = open[p] \ {s}
    BY <1>2 DEF TypeOK, ResetStream
  <2>5. open'[p] \cap newQueued = {} /\ open'[p] \cap newSent = {}
    BY <2>4 DEF SetsDisjoint
  <2> HIDE DEF newQueued, newSent
  <2> QED BY <2>1, <2>2, <2>3, <2>4, <2>5, SendQueuedDisjoint
<1>3. ASSUME NEW p \in Peer, OnResetFailed(p) PROVE SetsDisjoint'
  <2> DEFINE newQueued == queued[p] \cup sent[p]
  <2>1. newQueued \in SUBSET Sid
    BY DEF TypeOK
  <2>2. SendQueuedStreamResets(p, newQueued, {})
    BY <1>3 DEF OnResetFailed
  <2>3. \A r \in Peer : open'[r] = open[r]
    BY <1>3 DEF OnResetFailed
  <2>4. open'[p] \cap newQueued = {}
    BY <2>3 DEF SetsDisjoint
  <2> HIDE DEF newQueued
  <2> QED BY <2>1, <2>2, <2>3, <2>4, SendQueuedDisjoint
<1>4. ASSUME NEW p \in Peer, OnIncomingReset(p) PROVE SetsDisjoint'
  <2> DEFINE sids == Head(events[p]).sids
             closed == ClosedRemotely(p, sids)
             newQueued == queued[p] \ (sids \ (sent[p] \cup closed))
             newSent == sent[p] \ sids
  <2>1. newQueued \in SUBSET Sid /\ newSent \in SUBSET Sid
    BY DEF TypeOK
  <2>2. SendQueuedStreamResets(p, newQueued, newSent)
    BY <1>4 DEF OnIncomingReset
  <2>3. newQueued \cap newSent = {}
    BY DEF SetsDisjoint
  <2>4. /\ \A r \in Peer : r # p => open'[r] = open[r]
        /\ open'[p] = open[p] \ closed
    BY <1>4 DEF TypeOK, OnIncomingReset
  <2>5. open'[p] \cap newQueued = {} /\ open'[p] \cap newSent = {}
    BY <2>4 DEF SetsDisjoint
  <2> HIDE DEF newQueued, newSent
  <2> QED BY <2>1, <2>2, <2>3, <2>4, <2>5, SendQueuedDisjoint
<1>6. ASSUME NEW p \in Peer, OnOutgoingReset(p) PROVE SetsDisjoint'
  <2> DEFINE newQueued == queued[p]
             newSent == sent[p]
  <2>1. newQueued \in SUBSET Sid /\ newSent \in SUBSET Sid
    BY DEF TypeOK
  <2>2. SendQueuedStreamResets(p, newQueued, newSent) /\ open' = open
    BY <1>6 DEF OnOutgoingReset
  <2>3. \A r \in Peer : open'[r] = open[r]
    BY <2>2
  <2>4. /\ newQueued \cap newSent = {}
        /\ open'[p] \cap newQueued = {} /\ open'[p] \cap newSent = {}
    BY <2>3 DEF SetsDisjoint
  <2> HIDE DEF newQueued, newSent
  <2> QED BY <2>1, <2>2, <2>3, <2>4, SendQueuedDisjoint
<1>5. CASE UNCHANGED << open, queued, sent >>
  BY <1>5 DEF SetsDisjoint
<1> QED
  BY <1>1, <1>2, <1>3, <1>4, <1>5, <1>6
     DEF Next, StackReceives, WorkerHandles, streamVars, SendData,
         PerformsReset, ResetAnswered, ReceivesMessage, OnDataFromSctp

(* A stream is in at most one of the three sets.                           *)
THEOREM StreamSetsDisjoint == Spec => []SetsDisjoint
<1>1. Init => SetsDisjoint
  BY DEF Init, SetsDisjoint
<1> QED BY <1>1, TypeCorrect, DisjointStep, PTL DEF Spec

---------------------------------------------------------------------------
(* OneRequest.                                                             *)

LEMMA SendQueuedOneRequest ==
  ASSUME TypeOK, OneRequest, NEW p \in Peer,
         NEW STATE newQueued, newQueued \in SUBSET Sid,
         NEW STATE newSent, newSent \in SUBSET Sid,
         SendQueuedStreamResets(p, newQueued, newSent)
  PROVE  OneRequest'
<1> DEFINE q == Other(p)
           c == [type |-> "request", sids |-> newQueued]
<1>1. q \in Peer /\ q # p /\ Other(q) = p /\ (\A r \in Peer : r = p \/ r = q)
  BY OtherPeer
<1>2. wire[p] \in Seq(Chunk) /\ wire[q] \in Seq(Chunk)
  BY <1>1 DEF TypeOK
<1>3. CASE newSent = {} /\ newQueued # {} /\ outstanding[p] = {}
  <2>1. c \in Chunk /\ c.type = "request" /\ c.sids = newQueued
    BY <1>3, RequestIsChunk DEF Request
  <2>2. /\ wire'[p] = wire[p] /\ wire'[q] = Append(wire[q], c)
        /\ outstanding'[p] = newQueued /\ outstanding'[q] = outstanding[q]
    BY <1>1, <1>3 DEF SendQueuedStreamResets, Push, TypeOK
  <2>3. ~Has(wire[q], Request) /\ ~Has(wire[p], Answer)
    BY <1>2, <1>3, NoneAtAll DEF OneRequest, Request, Answer
  <2>4. AtMostOne(wire'[q], Request, outstanding'[p])
    BY <1>2, <2>1, <2>2, <2>3, AppendFirst
  <2>5. AtMostOne(wire'[p], Answer, outstanding'[p]) /\ ~Has(wire'[p], Answer)
    BY <2>2, <2>3, NoneIsAtMostOne
  <2>6. /\ AtMostOne(wire[p], Request, outstanding[q])
        /\ AtMostOne(wire[q], Answer, outstanding[q])
        /\ ~(Has(wire[p], Request) /\ Has(wire[q], Answer))
    BY <1>1 DEF OneRequest
  <2>7. /\ AtMostOne(wire'[q], Answer, outstanding'[q])
        /\ Has(wire'[q], Answer) <=> Has(wire[q], Answer)
    <3>1. c.type \notin Answer
      BY DEF Answer
    <3> QED BY <1>2, <2>1, <2>2, <2>6, <3>1, AppendOther
  <2> HIDE DEF q, c
  <2> QED BY <1>1, <2>2, <2>4, <2>5, <2>6, <2>7 DEF OneRequest, q
<1>4. CASE ~(newSent = {} /\ newQueued # {} /\ outstanding[p] = {})
  BY <1>4 DEF SendQueuedStreamResets, OneRequest
<1> QED BY <1>3, <1>4

(* A peer takes the head of its wire, and so does its stack.               *)
LEMMA OneRequestStep ==
  TypeOK /\ OneRequest /\ [Next]_streamVars => OneRequest'
<1> SUFFICES ASSUME TypeOK, OneRequest, [Next]_streamVars PROVE OneRequest'
  OBVIOUS
<1>1. ASSUME NEW p \in Peer, NEW s \in Sid, ResetStream(p, s) PROVE OneRequest'
  <2> DEFINE newQueued == queued[p] \cup {s}
             newSent == sent[p]
  <2>1. newQueued \in SUBSET Sid /\ newSent \in SUBSET Sid
    BY DEF TypeOK
  <2>2. SendQueuedStreamResets(p, newQueued, newSent)
    BY <1>1 DEF ResetStream
  <2> HIDE DEF newQueued, newSent
  <2> QED BY <2>1, <2>2, SendQueuedOneRequest
<1>2. ASSUME NEW p \in Peer, OnResetFailed(p) PROVE OneRequest'
  <2> DEFINE newQueued == queued[p] \cup sent[p]
  <2>1. newQueued \in SUBSET Sid
    BY DEF TypeOK
  <2>2. SendQueuedStreamResets(p, newQueued, {})
    BY <1>2 DEF OnResetFailed
  <2> HIDE DEF newQueued
  <2> QED BY <2>1, <2>2, SendQueuedOneRequest
<1>3. ASSUME NEW p \in Peer, OnIncomingReset(p) PROVE OneRequest'
  <2> DEFINE sids == Head(events[p]).sids
             newQueued == queued[p] \ (sids \ (sent[p] \cup ClosedRemotely(p, sids)))
             newSent == sent[p] \ sids
  <2>1. newQueued \in SUBSET Sid /\ newSent \in SUBSET Sid
    BY DEF TypeOK
  <2>2. SendQueuedStreamResets(p, newQueued, newSent)
    BY <1>3 DEF OnIncomingReset
  <2> HIDE DEF newQueued, newSent
  <2> QED BY <2>1, <2>2, SendQueuedOneRequest
<1>4. ASSUME NEW p \in Peer, NEW s \in Sid, NEW body \in Body,
             NEW control \in BOOLEAN, SendData(p, s, body, control)
      PROVE  OneRequest'
  <2> DEFINE q == Other(p)
             c == [type |-> "message", sid |-> s, body |-> body]
  <2>1. q \in Peer /\ q # p /\ Other(q) = p /\ (\A r \in Peer : r = p \/ r = q)
    BY OtherPeer
  <2>2. c \in Chunk /\ c.type \notin Request /\ c.type \notin Answer
    BY DEF Chunk, Request, Answer
  <2>3. /\ wire[q] \in Seq(Chunk) /\ outstanding' = outstanding
        /\ wire'[p] = wire[p] /\ wire'[q] = Append(wire[q], c)
    BY <1>4, <2>1 DEF SendData, Push, TypeOK
  <2>4. /\ AtMostOne(wire[q], Request, outstanding[p])
        /\ AtMostOne(wire[q], Answer, outstanding[q])
    BY <2>1 DEF OneRequest
  <2>5. /\ AtMostOne(wire'[q], Request, outstanding[p])
        /\ Has(wire'[q], Request) <=> Has(wire[q], Request)
    BY <2>2, <2>3, <2>4, AppendOther
  <2>6. /\ AtMostOne(wire'[q], Answer, outstanding[q])
        /\ Has(wire'[q], Answer) <=> Has(wire[q], Answer)
    BY <2>2, <2>3, <2>4, AppendOther
  <2> HIDE DEF q, c
  <2> QED BY <2>1, <2>3, <2>5, <2>6 DEF OneRequest, q
<1>5. ASSUME NEW p \in Peer, Receives(p, Request \cup Answer \cup {"message"}),
             wire'[p] = Tail(wire[p])
      PROVE  LET q == Other(p) IN
             /\ AtMostOne(wire'[p], Request, outstanding[q])
             /\ AtMostOne(wire'[p], Answer, outstanding[p])
             /\ Has(wire'[p], Request) => Has(wire[p], Request)
             /\ Has(wire'[p], Answer) => Has(wire[p], Answer)
             /\ Head(wire[p]).type \in Request =>
                  /\ ~Has(wire'[p], Request) /\ Has(wire[p], Request)
                  /\ Head(wire[p]).sids = outstanding[q]
             /\ Head(wire[p]).type \in Answer =>
                  /\ ~Has(wire'[p], Answer) /\ Has(wire[p], Answer)
                  /\ Head(wire[p]).sids = outstanding[p]
  <2>1. wire[p] \in Seq(Chunk) /\ wire[p] # << >>
    BY <1>5 DEF TypeOK, Receives
  <2>2. /\ AtMostOne(wire[p], Request, outstanding[Other(p)])
        /\ AtMostOne(wire[p], Answer, outstanding[p])
    BY OtherPeer DEF OneRequest
  <2> QED BY <1>5, <2>1, <2>2, TailOf
<1>6. ASSUME NEW p \in Peer, PerformsReset(p) PROVE OneRequest'
  <2> DEFINE q == Other(p)
             answer == IF outstanding[p] = {} THEN "performed" ELSE "inProgress"
             c == [type |-> answer, sids |-> Head(wire[p]).sids]
  <2>1. q \in Peer /\ q # p /\ Other(q) = p /\ (\A r \in Peer : r = p \/ r = q)
    BY OtherPeer
  <2>2. /\ Receives(p, Request) /\ outstanding' = outstanding
        /\ wire'[p] = Tail(wire[p])
        /\ wire'[q] = Append(wire[q], c)
        /\ wire[q] \in Seq(Chunk)
    BY <1>6, <2>1 DEF PerformsReset, TypeOK
  <2>3. c \in Chunk /\ c.type \in Answer /\ c.type \notin Request
    BY <2>2, HeadType, RequestIsChunk DEF TypeOK, Receives, Request, Answer
  <2>4. /\ AtMostOne(wire'[p], Request, outstanding[q])
        /\ AtMostOne(wire'[p], Answer, outstanding[p])
        /\ ~Has(wire'[p], Request) /\ Has(wire[p], Request)
        /\ Has(wire'[p], Answer) => Has(wire[p], Answer)
        /\ c.sids = outstanding[q]
    BY <1>5, <2>2 DEF Receives
  <2>5. /\ AtMostOne(wire[q], Request, outstanding[p])
        /\ ~Has(wire[q], Answer)
        /\ ~(Has(wire[q], Request) /\ Has(wire[p], Answer))
    BY <2>1, <2>4 DEF OneRequest
  <2>6. /\ AtMostOne(wire'[q], Request, outstanding[p])
        /\ Has(wire'[q], Request) <=> Has(wire[q], Request)
    BY <2>2, <2>3, <2>5, AppendOther
  <2>7. AtMostOne(wire'[q], Answer, outstanding[q])
    BY <2>2, <2>3, <2>4, <2>5, AppendFirst
  <2> HIDE DEF q, c
  <2> QED BY <2>1, <2>2, <2>4, <2>5, <2>6, <2>7 DEF OneRequest, q
<1>7. ASSUME NEW p \in Peer, ResetAnswered(p) PROVE OneRequest'
  <2> DEFINE q == Other(p)
  <2>1. q \in Peer /\ q # p /\ Other(q) = p /\ (\A r \in Peer : r = p \/ r = q)
    BY OtherPeer
  <2>2. /\ Receives(p, Answer)
        /\ outstanding'[p] = {} /\ outstanding'[q] = outstanding[q]
        /\ wire'[p] = Tail(wire[p]) /\ wire'[q] = wire[q]
    BY <1>7, <2>1 DEF ResetAnswered, Pop, TypeOK
  <2>3. /\ AtMostOne(wire'[p], Request, outstanding[q])
        /\ Has(wire'[p], Request) => Has(wire[p], Request)
        /\ ~Has(wire'[p], Answer) /\ Has(wire[p], Answer)
    BY <1>5, <2>2 DEF Receives
  <2>4. /\ ~Has(wire[q], Request)
        /\ AtMostOne(wire[q], Answer, outstanding[q])
        /\ ~(Has(wire[p], Request) /\ Has(wire[q], Answer))
    BY <2>1, <2>3 DEF OneRequest
  <2>5. /\ AtMostOne(wire'[p], Answer, outstanding'[p])
        /\ AtMostOne(wire'[q], Request, outstanding'[p])
    BY <2>2, <2>3, <2>4, NoneIsAtMostOne
  <2> HIDE DEF q
  <2> QED BY <2>1, <2>2, <2>3, <2>4, <2>5 DEF OneRequest, q
<1>8. ASSUME NEW p \in Peer, ReceivesMessage(p) PROVE OneRequest'
  <2> DEFINE q == Other(p)
  <2>1. q \in Peer /\ q # p /\ Other(q) = p /\ (\A r \in Peer : r = p \/ r = q)
    BY OtherPeer
  <2>2. /\ Receives(p, {"message"}) /\ outstanding' = outstanding
        /\ wire'[p] = Tail(wire[p]) /\ wire'[q] = wire[q]
    BY <1>8, <2>1 DEF ReceivesMessage, Pop, TypeOK
  <2>3. /\ AtMostOne(wire'[p], Request, outstanding[q])
        /\ AtMostOne(wire'[p], Answer, outstanding[p])
        /\ Has(wire'[p], Request) => Has(wire[p], Request)
        /\ Has(wire'[p], Answer) => Has(wire[p], Answer)
    BY <1>5, <2>2 DEF Receives
  <2> HIDE DEF q
  <2> QED BY <2>1, <2>2, <2>3 DEF OneRequest, q
<1>10. ASSUME NEW p \in Peer, OnOutgoingReset(p) PROVE OneRequest'
  <2> DEFINE newQueued == queued[p]
             newSent == sent[p]
  <2>1. newQueued \in SUBSET Sid /\ newSent \in SUBSET Sid
    BY DEF TypeOK
  <2>2. SendQueuedStreamResets(p, newQueued, newSent)
    BY <1>10 DEF OnOutgoingReset
  <2> HIDE DEF newQueued, newSent
  <2> QED BY <2>1, <2>2, SendQueuedOneRequest
<1>9. CASE UNCHANGED << wire, outstanding >>
  BY <1>9 DEF OneRequest
<1> QED
  BY <1>1, <1>2, <1>3, <1>4, <1>6, <1>7, <1>8, <1>9, <1>10
     DEF Next, StackReceives, WorkerHandles, streamVars, AddStream, OnDataFromSctp

---------------------------------------------------------------------------
(* SentIsAnswered and QueuedIsRetried.                                     *)

(* What is in a queue of events stays in it, except its head when taken.   *)
LEMMA AppendKeeps ==
  ASSUME NEW S, NEW s \in Seq(S), NEW e \in S
  PROVE  /\ \A i \in DOMAIN s : i \in DOMAIN Append(s, e) /\ Append(s, e)[i] = s[i]
         /\ \E i \in DOMAIN Append(s, e) : Append(s, e)[i] = e
<1>1. /\ DOMAIN s = 1..Len(s) /\ Len(s) \in Nat
      /\ DOMAIN Append(s, e) = 1..(Len(s) + 1)
      /\ \A i \in 1..Len(s) : Append(s, e)[i] = s[i]
      /\ Append(s, e)[Len(s) + 1] = e
  OBVIOUS
<1> QED BY <1>1

LEMMA TailKeeps ==
  ASSUME NEW S, NEW s \in Seq(S), s # << >>
  PROVE  \A i \in DOMAIN s :
           s[i] = Head(s) \/ \E j \in DOMAIN Tail(s) : Tail(s)[j] = s[i]
<1>1. /\ DOMAIN s = 1..Len(s) /\ Len(s) \in Nat \ {0}
      /\ DOMAIN Tail(s) = 1..(Len(s) - 1)
      /\ \A i \in 1..(Len(s) - 1) : Tail(s)[i] = s[i + 1]
      /\ Head(s) = s[1]
  OBVIOUS
<1>2. \A i \in DOMAIN s : i = 1 \/ (i - 1 \in DOMAIN Tail(s) /\ Tail(s)[i - 1] = s[i])
  BY <1>1
<1> QED BY <1>1, <1>2

(* The events that answer a request for the given streams, and those that  *)
(* make OnStreamResetEvent send the queued resets.                         *)
AnswerFor(sids) ==
  {e \in Event : e.type = "failed" \/ (e.type = "incoming" /\ sids \subseteq e.sids)}

Retrying == {e \in Event : e.type \in {"failed", "incoming"}}

Posted(queue, kind) == \E i \in DOMAIN queue : queue[i] \in kind

LEMMA PostedAnswer ==
  ASSUME TypeOK, NEW p \in Peer
  PROVE  /\ AnswerComes(p) <=>
              \/ outstanding[p] # {} /\ sent[p] \subseteq outstanding[p]
              \/ Posted(events[p], AnswerFor(sent[p]))
         /\ (\E i \in DOMAIN events[p] : events[p][i].type \in {"failed", "incoming"})
              <=> Posted(events[p], Retrying)
<1>1. \A i \in DOMAIN events[p] : events[p][i] \in Event
  BY DEF TypeOK
<1> QED BY <1>1 DEF AnswerComes, Posted, AnswerFor, Retrying

(* The two conjuncts for one peer, in these words.                         *)
Progress(p) ==
  /\ sent[p] # {} => \/ outstanding[p] # {} /\ sent[p] \subseteq outstanding[p]
                     \/ Posted(events[p], AnswerFor(sent[p]))
  /\ queued[p] # {} => outstanding[p] # {} \/ Posted(events[p], Retrying)

AllProgress == \A p \in Peer : Progress(p)

LEMMA ProgressIs ==
  TypeOK => (AllProgress <=> SentIsAnswered /\ QueuedIsRetried)
BY PostedAnswer DEF AllProgress, SentIsAnswered, QueuedIsRetried, Progress

LEMMA PostedAppend ==
  ASSUME NEW s \in Seq(Event), NEW e \in Event, NEW kind
  PROVE  /\ Posted(s, kind) => Posted(Append(s, e), kind)
         /\ e \in kind => Posted(Append(s, e), kind)
BY AppendKeeps DEF Posted

LEMMA PostedTail ==
  ASSUME NEW s \in Seq(Event), s # << >>, NEW kind, Posted(s, kind)
  PROVE  Head(s) \in kind \/ Posted(Tail(s), kind)
BY TailKeeps DEF Posted

(* The handlers that end in SendQueuedStreamResets().                      *)
LEMMA SendQueuedProgress ==
  ASSUME TypeOK, NEW p \in Peer,
         NEW STATE newQueued, newQueued \in SUBSET Sid,
         NEW STATE newSent, newSent \in SUBSET Sid,
         SendQueuedStreamResets(p, newQueued, newSent),
         newSent # {} => \/ outstanding[p] # {} /\ newSent \subseteq outstanding[p]
                         \/ Posted(events'[p], AnswerFor(newSent))
  PROVE  Progress(p)'
<1>1. \A sids : Posted(events'[p], AnswerFor(sids)) => Posted(events'[p], Retrying)
  BY DEF Posted, AnswerFor, Retrying
<1>2. CASE newSent = {} /\ newQueued # {} /\ outstanding[p] = {}
  <2>1. queued'[p] = {} /\ sent'[p] = newQueued /\ outstanding'[p] = newQueued
    BY <1>2 DEF TypeOK, SendQueuedStreamResets
  <2> QED BY <1>2, <2>1 DEF Progress
<1>3. CASE ~(newSent = {} /\ newQueued # {} /\ outstanding[p] = {})
  <2>1. /\ queued'[p] = newQueued /\ sent'[p] = newSent
        /\ outstanding'[p] = outstanding[p]
    BY <1>3 DEF TypeOK, SendQueuedStreamResets
  <2> QED BY <1>1, <1>3, <2>1 DEF Progress
<1> QED BY <1>2, <1>3

LEMMA OtherProgress ==
  ASSUME NEW p \in Peer, Progress(p),
         queued'[p] = queued[p], sent'[p] = sent[p],
         outstanding'[p] = outstanding[p], events'[p] = events[p]
  PROVE  Progress(p)'
BY DEF Progress

LEMMA ProgressStep ==
  ASSUME TypeOK, TypeOK', OneRequest, \A p \in Peer : Progress(p),
         [Next]_streamVars
  PROVE  \A p \in Peer : Progress(p)'
<1> DEFINE Same(r) == /\ queued'[r] = queued[r] /\ sent'[r] = sent[r]
                      /\ outstanding'[r] = outstanding[r]
                      /\ events'[r] = events[r]
<1>1. ASSUME NEW p \in Peer, \A r \in Peer : r # p => Same(r), Progress(p)'
      PROVE  \A r \in Peer : Progress(r)'
  <2> SUFFICES ASSUME NEW r \in Peer, r # p PROVE Progress(r)'
    BY <1>1
  <2> QED BY <1>1, OtherProgress
<1>2. ASSUME NEW p \in Peer, NEW s \in Sid, ResetStream(p, s)
      PROVE  \A r \in Peer : Progress(r)'
  <2> DEFINE newQueued == queued[p] \cup {s}
             newSent == sent[p]
  <2>1. newQueued \in SUBSET Sid /\ newSent \in SUBSET Sid
    BY DEF TypeOK
  <2>2. SendQueuedStreamResets(p, newQueued, newSent) /\ events' = events
    BY <1>2 DEF ResetStream
  <2>3. newSent # {} => \/ outstanding[p] # {} /\ newSent \subseteq outstanding[p]
                        \/ Posted(events'[p], AnswerFor(newSent))
    BY <2>2 DEF Progress
  <2> HIDE DEF newQueued, newSent
  <2>4. Progress(p)'
    BY <2>1, <2>2, <2>3, SendQueuedProgress
  <2>5. \A r \in Peer : r # p => Same(r)
    BY <2>2 DEF TypeOK, SendQueuedStreamResets
  <2> QED BY <1>1, <2>4, <2>5
<1>3. ASSUME NEW p \in Peer, OnResetFailed(p) PROVE \A r \in Peer : Progress(r)'
  <2> DEFINE newQueued == queued[p] \cup sent[p]
             newSent == {}
  <2>1. newQueued \in SUBSET Sid /\ newSent \in SUBSET Sid /\ newSent = {}
    BY DEF TypeOK
  <2>2. SendQueuedStreamResets(p, newQueued, newSent)
    BY <1>3 DEF OnResetFailed
  <2>3. \A r \in Peer : r # p => events'[r] = events[r]
    BY <1>3 DEF OnResetFailed, Pop, TypeOK
  <2> HIDE DEF newQueued, newSent
  <2>4. Progress(p)'
    BY <2>1, <2>2, SendQueuedProgress
  <2>5. \A r \in Peer : r # p => Same(r)
    BY <2>2, <2>3 DEF TypeOK, SendQueuedStreamResets
  <2> QED BY <1>1, <2>4, <2>5
<1>4. ASSUME NEW p \in Peer, OnIncomingReset(p) PROVE \A r \in Peer : Progress(r)'
  <2> DEFINE sids == Head(events[p]).sids
             newQueued == queued[p] \ (sids \ (sent[p] \cup ClosedRemotely(p, sids)))
             newSent == sent[p] \ sids
  <2>1. newQueued \in SUBSET Sid /\ newSent \in SUBSET Sid
    BY DEF TypeOK
  <2>2. SendQueuedStreamResets(p, newQueued, newSent)
    BY <1>4 DEF OnIncomingReset
  <2>3. /\ events[p] \in Seq(Event) /\ events[p] # << >>
        /\ Head(events[p]).type = "incoming"
        /\ events'[p] = Tail(events[p])
        /\ \A r \in Peer : r # p => events'[r] = events[r]
    BY <1>4 DEF OnIncomingReset, Pop, TypeOK
  <2>4. newSent # {} => \/ outstanding[p] # {} /\ newSent \subseteq outstanding[p]
                        \/ Posted(events'[p], AnswerFor(newSent))
    <3>1. ASSUME newSent # {}, Posted(events[p], AnswerFor(sent[p]))
          PROVE  Posted(events'[p], AnswerFor(newSent))
      <4>1. Head(events[p]) \notin AnswerFor(sent[p])
        BY <2>3, <3>1 DEF AnswerFor
      <4>2. Posted(Tail(events[p]), AnswerFor(sent[p]))
        BY <2>3, <3>1, <4>1, PostedTail
      <4> QED BY <2>3, <4>2 DEF Posted, AnswerFor
    <3> QED BY <3>1 DEF Progress
  <2> HIDE DEF newQueued, newSent
  <2>5. Progress(p)'
    BY <2>1, <2>2, <2>4, SendQueuedProgress
  <2>6. \A r \in Peer : r # p => Same(r)
    BY <2>2, <2>3 DEF TypeOK, SendQueuedStreamResets
  <2> QED BY <1>1, <2>5, <2>6
<1>5. ASSUME NEW p \in Peer, OnDataFromSctp(p) PROVE \A r \in Peer : Progress(r)'
  <2>1. /\ events[p] \in Seq(Event) /\ events[p] # << >>
        /\ Head(events[p]).type = "message"
        /\ events'[p] = Tail(events[p])
        /\ \A r \in Peer : r # p => events'[r] = events[r]
    BY <1>5 DEF OnDataFromSctp, Pop, TypeOK
  <2>2. UNCHANGED << queued, sent, outstanding >>
    BY <1>5 DEF OnDataFromSctp
  <2>3. /\ Head(events[p]) \notin AnswerFor(sent[p])
        /\ Head(events[p]) \notin Retrying
    BY <2>1 DEF AnswerFor, Retrying
  <2>4. /\ Posted(events[p], AnswerFor(sent[p])) => Posted(events'[p], AnswerFor(sent[p]))
        /\ Posted(events[p], Retrying) => Posted(events'[p], Retrying)
    BY <2>1, <2>3, PostedTail
  <2> QED BY <1>1, <2>1, <2>2, <2>4 DEF Progress
<1>6. ASSUME NEW p \in Peer, NEW e \in Event,
             events'[p] = Append(events[p], e),
             \A r \in Peer : r # p => events'[r] = events[r],
             UNCHANGED << queued, sent, outstanding >>
      PROVE  \A r \in Peer : Progress(r)'
  <2>1. /\ Posted(events[p], AnswerFor(sent[p])) => Posted(events'[p], AnswerFor(sent[p]))
        /\ Posted(events[p], Retrying) => Posted(events'[p], Retrying)
    BY <1>6, PostedAppend DEF TypeOK
  <2> QED BY <1>1, <1>6, <2>1 DEF Progress
<1>7. ASSUME NEW p \in Peer, PerformsReset(p) PROVE \A r \in Peer : Progress(r)'
  <2> DEFINE e == [type |-> "incoming", sids |-> Head(wire[p]).sids]
  <2>1. e \in Event
    BY <1>7, HeadType DEF PerformsReset, Receives, Request, TypeOK, Event
  <2>2. /\ events'[p] = Append(events[p], e)
        /\ \A r \in Peer : r # p => events'[r] = events[r]
        /\ UNCHANGED << queued, sent, outstanding >>
    BY <1>7 DEF PerformsReset, Push, TypeOK
  <2> QED BY <1>6, <2>1, <2>2
<1>8. ASSUME NEW p \in Peer, ReceivesMessage(p) PROVE \A r \in Peer : Progress(r)'
  <2> DEFINE e == Head(wire[p])
  <2>1. e \in Event
    BY <1>8, HeadType DEF ReceivesMessage, Receives, TypeOK
  <2>2. /\ events'[p] = Append(events[p], e)
        /\ \A r \in Peer : r # p => events'[r] = events[r]
        /\ UNCHANGED << queued, sent, outstanding >>
    BY <1>8 DEF ReceivesMessage, Push, TypeOK
  <2> QED BY <1>6, <2>1, <2>2
<1>9. ASSUME NEW p \in Peer, ResetAnswered(p) PROVE \A r \in Peer : Progress(r)'
  <2> DEFINE c == Head(wire[p])
             e == IF c.type = "performed" THEN [type |-> "incoming", sids |-> c.sids]
                                          ELSE [type |-> "failed", sids |-> {}]
  <2>1. /\ wire[p] \in Seq(Chunk) /\ wire[p] # << >> /\ c.type \in Answer
        /\ c.sids \in SUBSET Sid
    BY <1>9, HeadType DEF ResetAnswered, Receives, Answer, TypeOK
  <2>2. c.sids = outstanding[p]
    <3>1. AtMostOne(wire[p], Answer, outstanding[p])
      BY DEF OneRequest
    <3> QED BY <2>1, <3>1, TailOf
  <2>3. e \in Event
    BY <2>1 DEF Event
  <2>4. /\ events[p] \in Seq(Event) /\ events'[p] = Append(events[p], e)
        /\ \A r \in Peer : r # p => events'[r] = events[r]
        /\ UNCHANGED << queued, sent >>
        /\ \A r \in Peer : r # p => outstanding'[r] = outstanding[r]
    BY <1>9 DEF ResetAnswered, Push, TypeOK
  <2>5. e \in Retrying /\ (sent[p] \subseteq outstanding[p] => e \in AnswerFor(sent[p]))
    BY <2>2, <2>3 DEF Retrying, AnswerFor
  <2> HIDE DEF e
  <2>6. /\ Posted(events[p], AnswerFor(sent[p])) => Posted(events'[p], AnswerFor(sent[p]))
        /\ sent[p] \subseteq outstanding[p] => Posted(events'[p], AnswerFor(sent[p]))
        /\ Posted(events'[p], Retrying)
    BY <2>3, <2>4, <2>5, PostedAppend
  <2>7. Progress(p)'
    BY <2>4, <2>6 DEF Progress
  <2> QED BY <1>1, <2>4, <2>7
<1>11. ASSUME NEW p \in Peer, OnOutgoingReset(p) PROVE \A r \in Peer : Progress(r)'
  <2> DEFINE newQueued == queued[p]
             newSent == sent[p]
  <2>1. newQueued \in SUBSET Sid /\ newSent \in SUBSET Sid
    BY DEF TypeOK
  <2>2. SendQueuedStreamResets(p, newQueued, newSent) /\ events' = events
    BY <1>11 DEF OnOutgoingReset
  <2>3. newSent # {} => \/ outstanding[p] # {} /\ newSent \subseteq outstanding[p]
                        \/ Posted(events'[p], AnswerFor(newSent))
    BY <2>2 DEF Progress
  <2> HIDE DEF newQueued, newSent
  <2>4. Progress(p)'
    BY <2>1, <2>2, <2>3, SendQueuedProgress
  <2>5. \A r \in Peer : r # p => Same(r)
    BY <2>2 DEF TypeOK, SendQueuedStreamResets
  <2> QED BY <1>1, <2>4, <2>5
<1>10. CASE UNCHANGED << queued, sent, outstanding, events >>
  BY <1>10 DEF Progress
<1> QED
  BY <1>2, <1>3, <1>4, <1>5, <1>7, <1>8, <1>9, <1>10, <1>11
     DEF Next, StackReceives, WorkerHandles, streamVars, AddStream, SendData

LEMMA ResetInvInit == Init => ResetInv
<1> SUFFICES ASSUME Init PROVE ResetInv
  OBVIOUS
<1>1. TypeOK
  BY InitType
<1>2. SetsDisjoint
  BY DEF Init, SetsDisjoint
<1>3. \A p \in Peer : wire[p] = << >> /\ Other(p) \in Peer
  BY OtherPeer DEF Init
<1>4. OneRequest
  <2>1. \A types : ~Has(<< >>, types)
    BY DEF Has
  <2>2. \A types, sids : AtMostOne(<< >>, types, sids)
    BY DEF AtMostOne
  <2> QED BY <1>3, <2>1, <2>2 DEF OneRequest
<1>5. SentIsAnswered /\ QueuedIsRetried
  BY DEF Init, SentIsAnswered, QueuedIsRetried
<1> QED BY <1>1, <1>2, <1>4, <1>5 DEF ResetInv

LEMMA ResetInvStep == ResetInv /\ [Next]_streamVars => ResetInv'
<1> SUFFICES ASSUME ResetInv, [Next]_streamVars PROVE ResetInv'
  OBVIOUS
<1>1. TypeOK' /\ SetsDisjoint' /\ OneRequest'
  BY NextType, DisjointStep, OneRequestStep DEF ResetInv
<1>2. \A p \in Peer : Progress(p)
  BY ProgressIs DEF ResetInv, AllProgress
<1>3. AllProgress'
  BY <1>1, <1>2, ProgressStep DEF ResetInv, AllProgress
<1>4. SentIsAnswered' /\ QueuedIsRetried'
  BY <1>1, <1>3, ProgressIs, PTL
<1> QED BY <1>1, <1>4 DEF ResetInv

(* All conjuncts of the inductive invariant hold in every reachable state. *)
THEOREM ResetInvariant == Spec => []ResetInv
BY ResetInvInit, ResetInvStep, PTL DEF Spec

(* While sent_reset_streams_ holds a stream an answer to it is under way,  *)
(* so no reset waits behind one that nothing can end.                      *)
THEOREM ResetsAreAnswered == Spec => []SentIsAnswered
BY ResetInvariant, PTL DEF ResetInv

(* While a reset is queued, a request is outstanding or an event posted    *)
(* whose handler retries it: no reset is forgotten.                        *)
THEOREM ResetsAreRetried == Spec => []QueuedIsRetried
BY ResetInvariant, PTL DEF ResetInv

===========================================================================
