# A TLA+ model of the protocols of this WebRTC tree

This directory models four parts of `src/webrtc_m49/webrtc/src` (WebRTC M49):

- the SCTP data channels: the `webrtc::DataChannel` an application holds, the
  `SctpDataMediaChannel` below it, and the stream ids that `PeerConnection` hands from
  one channel to the next;
- `rtc::Thread` and `rtc::MessageQueue`, on which all of this runs;
- `PseudoTcp`, a TCP inside datagrams, and the byte stream it promises;
- `P2PTransportChannel` with its `Connection`s: which ICE connection is used.

TLC checks small instances of all four; TLAPS proves every safety property that a
passing run checks, and that `PseudoTcp` implements its byte stream and `SctpSids` its
media channel, for every size.

Paths below are relative to `src/webrtc_m49/webrtc/src/` unless they begin with
`src/`.

## 1. The repository and its components

The tree has 10,078 files; 2.46 million lines, of which 1.45 million are copies of
ffmpeg and x264 (`src/video_message`) and 0.16 million are opencore-amr
(`src/audio_message`).  The code that belongs to the program is WebRTC M49
(`src/webrtc_m49`) and a recorder built on it (`src/recorder`, 3,300 lines).

| Component | State it keeps | Operations | Interacts with | What makes it correct |
|---|---|---|---|---|
| `DataChannel` (`talk/app/webrtc/datachannel.cc`) | `state_`, `handshake_state_`, `writable_`, `connected_to_provider_`, three packet queues, observer | `Send`, `Close`, `RegisterObserver`, `OnDataReceived`, `OnChannelReady`, `OnTransportChannelCreated/Destroyed`, `OnStreamClosedRemotely`, posted `MSG_CHANNELREADY` | calls the provider (`WebRtcSession`); is called by signals of `cricket::DataChannel` on the signaling thread | order and completeness of messages both ways; the peer hears of the channel before its data; states only advance; a closing channel closes |
| `SctpDataMediaChannel` (`talk/media/sctp/sctpdataengine.cc`) | `open_streams_`, `queued_reset_streams_`, `sent_reset_streams_`, the usrsctp socket | `AddStream`, `ResetStream`, `SendData`, `OnStreamResetEvent`, `SendQueuedStreamResets` | usrsctp's callback thread posts to the worker thread; the signaling thread `Invoke`s; signals go up to `cricket::DataChannel` | a stream is in one set; every reset is answered or retried; both peers come to rest |
| `PeerConnection`, `WebRtcSession`, `cricket::DataChannel` (data part) | `sctp_data_channels_`, `SctpSidAllocator::used_sids_`, posted messages | create, OPEN from a peer, closed, posts between worker and signaling thread | all of the above | an id belongs to one channel; a close at one end reaches the other end, and that channel only |
| DCEP messages (`talk/app/webrtc/sctputils.cc`) | none | write and parse OPEN, OPEN_ACK | `DataChannel`, `WebRtcSession` | what is parsed is what was written |
| ICE: `P2PTransportChannel`, `Connection` (`webrtc/p2p/base`) | connections, best and pending best, ping and write states, route paths | pings, nomination, sorting, pruning, deletion by posted message | ports, transport, worker thread | one usable best connection; a deleted one is never used; nominations agree |
| `PseudoTcp` (`webrtc/p2p/base/pseudotcp.cc`) | TCP-like windows, timers, segment lists | `Send`, `Recv`, `NotifyPacket`, `NotifyClock`, `Close` | the stream above, packets below | bytes arrive once and in order; no live connection is given up |
| `rtc::Thread`, `MessageQueue` (`webrtc/base`) | message queue, delayed queue, pending sends | `Post`, `PostDelayed`, `Send`, `Clear`, `Quit` | all threads | order; no lost wake-up; mutual sends do not deadlock |
| STUN, TURN, DTLS (`webrtc/p2p/base`) | requests and timers, allocations, handshake state | request, time-out, refresh | ports | every request ends; stale answers are ignored |
| `WebRtcSession` signalling, transport controller, port allocator | offer/answer state, transport states | set descriptions, gather, aggregate | ICE, media channels | the state machine of JSEP |
| Jitter buffer, NACK, pacing (`webrtc/modules`) | frames, sequence numbers, budgets | insert, take, retransmit | media threads | sequence arithmetic across wrap-around |
| Recorder (`src/recorder/recorder_webrtc`) | what is being recorded, the open file, try-locks | `Init`, `Start`, `Stop`, `Destroy`, packet callbacks | a worker, an audio and a video thread | start and stop pair up; no lock cycle; no packet to a closed file |
| Recorder server, codecs, signal processing, devices, SDP text, wrappers, vendored libraries | | | | outside the model: I/O, numeric data paths, text, third-party code |

`PROJECT.json` lists them with their status.  The data channels came first because
they hold the densest protocol logic of the tree: three threads, two peers, a
retried exchange, ids that are reused, and handlers that depend on what the
transport answers.  The other three follow as the layers next to them: the threads
whose queues and waits the first model takes for granted, and the two transports of
the tree whose order of events no test controls.

### Hard behaviours

- Every call of `DataChannel` can be answered by success, block or error, also in
  the middle of a loop over a queue, and an error closes the channel inside the loop.
- The stream is taken away by the worker thread, while the signaling thread learns
  of it later by a posted message.
- The two peers' reset requests cross: a stack that has one outstanding refuses to
  perform the other's and refuses further ones of its own.
- A control message that fails closes the channel in the middle of a loop that goes on:
  what comes after it is sent by, or queued in, a closed channel.
- Ids carry no generation: a late close of a former channel looks like one of the
  present channel.
- A posted `MSG_CHANNELREADY` outlives what it was posted for.
- Two threads `Send` to each other while each waits for the other, and one wake-up
  signal serves the message loop and every waiting `Send` on top of it.
- `PseudoTcp`'s packets are lost, overtake each other and are refused by the network,
  while every timer may go off late; an ack or a window announcement is not repeated.
- An ICE connection that is to be deleted stays in the list until its message comes;
  sorting changes what it sorts and asks for the next sort.

`PROJECT.json` lists each hazard at its line with the properties that cover it.

## 2. Modules

| Module | Models | State and actions against the code |
|---|---|---|
| `DataChannelOps` | the methods of `DataChannel` | One operator per method, from the record of the fields to the next record; a handler with nested calls is their composition. What `provider_->SendData` answers is a parameter. |
| `DataChannel` | one channel, its provider and its environment | `ch` is the fields, `transport` is `WebRtcSession::data_channel_`, `stream` is what `open_streams_` says of its id, `posted` is `MSG_CHANNELREADY`. One action per task of the signaling thread; `RemoteReset` is the worker thread's part. |
| `SctpStreams` | `SctpDataMediaChannel` at both ends | The three sets are `open`, `queued`, `sent`; `outstanding` and `wire` belong to the SCTP stack; `events` is the worker thread's queue. `SendQueuedStreamResets` ends both handlers that change the sets, as in the code. |
| `SctpSids` | the composition with `PeerConnection` | `INSTANCE SctpStreams`; `used` is `used_sids_`, `channel` is `sctp_data_channels_`, `inbox` is what `cricket::DataChannel` posts to the signaling thread. Channels have numbers so that a reused id can be told from its former use; `met`, `refused` and `closed` are histories. |
| `ThreadQueue` | `rtc::Thread`, `rtc::MessageQueue` | `stack` is each thread's calls in progress: the message loop inside `Get` at the bottom, above it handlers, and the `Send`s they wait in. `sendlist`, `msgq`, `dmsgq`, `fStop` are the members of that name; `wake` is the socket server's signal; `ready` is the local variable of that name in `Send`. One action per step another thread can see: a critical section, a `WakeUp`, a read of `fStop_`, a `Wait`. |
| `PseudoTcp` | two `PseudoTcp` objects and the network | `tcb[e]` is the members of an end. One operator per function (`Queue`, `PutPacket`, `Transmit`, `AttemptSend`) and one per part of `process()`, composed in its order; one action per call (`Connect`, `Send`, `Recv`, `Close`, `NotifyPacket`, `NotifyClock`). `net` is the packets under way. |
| `ByteStream` | what a connection promises | no packets: per end what was written, what was read and what can be read next. `PseudoTcp` implements it (`Stream`). |
| `P2PTransportChannel` | one end of an ICE component | `ch` is the channel's members with `connections` inside; `posted` is `MSG_SORT` and the `MSG_DELETE`s. One operator per method of channel and connection, one action per event (candidate, ping, answer, error, data, timer, message). |
| `MCDataChannel`, `MCSctpStreams`, `MCSctpSids`, `MCThreadQueue`, `MCPseudoTcp`, `MCP2PTransportChannel` | TLC's instances | |
| `DataChannel_proof`, `DataChannelOrder_proof`, `SctpStreams_proof`, `SctpSids_proof`, `ThreadQueue_proof`, `P2PTransportChannel_proof`, `PseudoTcp_proof` | theorems | |
| `SequenceLemmas` | | lemmas about sequences, ranges and natural numbers that the proofs share |

`DataChannel` sees its media channel as an arbitrary environment (a stream may be
refused, open or taken away at any time); `SctpSids` sees the channels with a
transport that is ready and never full, so that closing takes one step.  Between
them each operation of the data path is modelled once in full.

### What is abstracted

- A message is its number.  The two queue limits of 16 MiB count messages of size
  one.  A message of length zero is not modelled: `Send` returns true and sends
  nothing for it.
- The control queue holds copies of one message, so it is a number.  The loop over it
  and the loop over the send queue are one operator each.  The action chooses how
  many control messages are accepted and how many block, and whether one fails before any has
  blocked; `MCDataChannel` has the loop itself, a fold of `SendControlMessage`, and TLC
  evaluates that both agree for every channel and all results of up to four messages
  (`LoopIsCounted`, which no proof uses).
- Of the two calls `AddSctpDataStream` makes of the worker thread, `AddRecvStream` does nothing
  (`sctpdataengine.cc:583-588`), so the stream is added at one point of the handler, by
  `AddSendStream`.  What the worker thread handles before that point finds the stream unknown,
  as it does before the handler begins.
- usrsctp is external and modelled from its use and from RFC 6525: a reset request
  asks for both directions; the receiver resets its incoming side, which is an INCOMING
  event there, and its outgoing side too, unless it has a request of its own
  outstanding; then it answers "in progress", and the requester gets a FAILED event,
  whose stream ids the code ignores.  A second request while one is outstanding is
  refused (`setsockopt` fails).  OUTGOING events, which only make the handler look at
  its queue, may come at any time.  The association neither loses nor reorders: SCTP
  retransmits below the events that are modelled here.
- The observer's callbacks do not call back into the channel.
- `ThreadQueue`: a message is its number in `issued`.  `Post` tests `fStop_` and appends
  in one step: a message that is appended after a `Quit()` the test did not see is
  left out; it would stay behind like the one of `thread_stop`.  A thread that does not loop is a
  thread in code of its own.
- `PseudoTcp`: byte *n* of a stream is the number *n*, so that packets carry no
  payload, and what a retransmission reads is a matter of sequence numbers, which
  `SegmentsFollow` relates to offsets of the send buffer.  Timers that are armed may go
  off at any time.  The congestion window is any value of a set, the RTT is left
  out.  A full network loses what comes next.  Whether the network refuses packets is one choice
  per handler.
- `P2PTransportChannel`: pings and data come from anywhere at any time.  A state that the
  code leaves after a while without an answer may be left at any update, one
  connection at a time: a code update that ages two is two updates here.  Messages
  of the worker thread are handled in any order, which includes theirs.
  Priorities are distinct, so the RTT never decides between connections, and constant: that
  of a peer-reflexive candidate changes once when it is signalled (`port.cc:1403-1407`), after
  which the code asks for a sort itself.

## 3. Runs

| Run | Instance | What it shows |
|---|---|---|
| `datachannel` | queues of 2, 3 sends, 3 arrivals, control queue of 2; all roles, ordered or not, with the transport there or not | `SendFifo`, `ReceiveFifo`, `OpenBeforeData`, `QueuesMatchState`, `StateNeverGoesBack`, `ClosingEnds` |
| `sctp_streams` | 2 peers, 2 streams, 2 adds at each peer, 1 message | `SetsDisjoint`, `SentIsAnswered`, `QueuedIsRetried`, `ResetCompletes` |
| `sctp_sids` | 2 peers, two channels created between them, both ends may close | `UsedIffChannel`, `ChannelHasStream`, `RemoteCloseHasACause`, `CloseReachesPeer` |
| `thread_queue` | `signaling` and `worker` send to each other, `app` sends to `signaling`, posts delayed messages to `worker` and stops it; 3 messages, at most 2 from a thread | `NoLostWakeUp`, `SenderStillWaits`, `OnlyCalleeReenters`, `PostsInOrder`, `SendsReturn`, `AllHandled` |
| `pseudotcp` | client with a buffer of 3 bytes, server with 4 bytes to send in segments of at most 2; 2 packets under way, each may be lost, overtaken or refused; both may close | `StreamIntact`, `SegmentsFollow`, `WindowIsRoom`, `NeverStalls`, `AckIsDue`, `UserIsWoken`, and the refinement `ImplementsStream` |
| `ice` | both roles, three possible connections on two networks, two at a time | `NoDangling`, `SortIsPosted`, `PendingIsTaken`, `AllTimedOutGo`, `SortIsFinal`, `NominatedStays`, `PrunedForBetter` |
| `datachannel_destroyed` | as `datachannel` | violated: the comment of `OnTransportChannelDestroyed` |
| `sids_ghost` | as `sctp_sids` | violated: a close that overtakes its OPEN inside the peer leaves a channel for ever |
| `sids_reuse` | two channels created at a peer | violated: a close of the former channel closes the next one with its id |
| `sids_last` | the highest id is 1 | violated: the highest id has no stream |
| `thread_stop` | as `thread_queue` | violated: what is queued before `Quit()` is delivered |
| `pseudotcp_data` | as `pseudotcp`, 3 bytes in segments of 1 | violated: an end that stores data before the connect message reads wrong bytes |

The bounds, and why they are enough.  Three sends against queues of two reach a full
queue, a blocked queue that drains in part, and a send behind it; a third arrival
overflows the received queue; two control messages are the least for which one can fail and
the next one block or go out of a closed channel.  Two adds per peer let a stream be added again
after its reset, while the peer's own reset of it is on the way; two streams let one
be queued while the other's reset is outstanding.  Two channels in `sctp_sids` are one at each
end, whose closes cross, or two at one end one after the other with the same id, so that a former
channel's resets meet the next one.  `kMaxSctpSid` is 2 or 3 rather than 1023:
the runs that pass use ids below it, and `sids_last` is about the id itself.  The
bounds on messages and adds of `SctpSids` are never reached; they belong to
`SctpStreams`.  No run uses symmetry, since two of the three state liveness and peers
differ by their role.

`thread_queue`: three messages are the least for two crossed `Send`s with something else
in a queue, or for a `Send` inside the handler of another while a third thread's waits;
every relation of callers (`CanSend`, `CanPost`, ...) is a constant, and the instance is
that of this code: the signaling and the worker thread invoke each other, other
threads invoke the signaling thread.  One tick of the clock tells a delayed message
that is due from one that is not.  Only one delayed message occurs, so that several of them
come in order is for the proof of `MessagesInOrder` to say.

`pseudotcp`: a receive buffer shorter than the data closes the window with data left;
segments of two bytes can be split by a window of one and acked together; two packets
under way are the least that can be reordered.  The limits 15, 30, 3 and 256 of the code are
`MaxXmit`, `MaxXmitConnecting`, `FastRetransmit` and `DupAcks`, set to 2, 2, 2 and 4 so that
retransmissions run out, a recovery begins (two duplicates) and the duplicate count
goes past its start.  Segments that come early, more than one of them, a split
segment, a recovery, a refused packet and a closed window with data behind it are all
reached.  A gap inside `m_rlist` after a recovery is not: it takes segments of one byte
and one more packet.

`ice`: two connections at a time on one network or on two; with deletion and creation all three
take their turns.  A third at the same time multiplies states and adds no new relation between the
best, the pending and another connection.

Deadlock is not checked: each system may rightly stop, when the channel is closed, all
streams are reset, all threads wait, both ends are closed, and the application, which nothing
obliges, does nothing more.  That threads never stop with a `Send` unreturned or a
message unhandled is stated instead: `SendsReturn` and `AllHandled` speak of exactly the states
where no thread can take a step.

Fairness.  `DataChannel`: weak fairness of `Flush`, a ready signal after which all that is
queued goes out, and of it only while the channel is closing.  `SCTP_SENDER_DRY_EVENT`, on which the code signals ready
(`sctpdataengine.cc:811`), follows whenever the association has drained, and SCTP goes on
sending as long as the association lives; a lost association shows as another
behaviour (`transport` gone), for which `ClosingEnds` promises nothing.  `SctpStreams`:
weak fairness of the stack's receiving (SCTP retransmits) and of the worker thread's
queue.  `OnOutgoingReset` gets none.  `SctpSids` adds the signaling thread's queue.  There is
one condition per thread; as channels are finitely many, every posted message is then handled.
Applications get no fairness.  The other three modules state none: their "goes on"
properties are invariants (there is a wake-up, a timer, a posted sort), which need no
assumption on scheduling and say why progress is possible.  `ResetCompletes` assumes that requests do not collide for
ever: two peers whose retries keep crossing are possible in the model, as they are
in the protocol.

`CloseReachesPeer` speaks of channels both ends had with a stream, and which are the first of
their id (`met`).  The other cases are `sids_ghost`, and that of an id given out again while
streams are still closing: what is left of the former channel's resets can swallow the next one's.
`ChannelHasStream` leaves out channels whose stream `AddStream` refused (`refused`), which
`sids_last` shows for the highest id and which happens to an id that is given out again too early.  `StreamIntact` and `ImplementsStream` speak of ends that stored no data before the
connect message; the other case is `pseudotcp_data`.  `NeverStalls` and `AckIsDue` leave out
an end whose last `attemptSend` was refused by the network, which the code leaves without a
timer until its user or its peer acts ("TODO: consider closing socket").
`PendingIsDelivered` fails, so `SendsReturn` and `AllHandled` are about threads that
were not stopped.

Seen while modelling, not claimed by any document: on the controlled side a
nominated connection that waits to become writable may be pruned by a sort for the
present best one; it is then pinged again only while that one is weak.
`OnNominated` of the connection that is already the best leaves an older pending one
in place.

## 4. Proofs

Assumptions: those named in the modules (`QueueLimits`, `Bounds`, `TwoPeers`,
`SidsAreNumbers`, `CountsAreNumbers`, `TwoEnds`, `AreNat`, `CallRelations`, `Limits`, `NoRing`,
`PriorityAssumption`, `FiniteAssumption`, `NoneAssumption`, `SortAssumption`, of which the last three say
that connections are finitely many and are not `NULL` or `MSG_SORT`; and, of `PseudoTcp`,
another `TwoEnds`, `Sizes` and `Modes`).  The bounds may be any numbers, so the results hold
for executions of any length.

`Sizes` asks of `PseudoTcp` what its constants are: a receive buffer shorter than the send buffer (60 K
and 90 K, `pseudotcp.cc:78`, which the constructor asserts), a connect message that fits into
it, a congestion window of at least one segment (it starts at two and never shrinks below one),
and a duplicate count that wraps (at 256) only after it has started a recovery (at 3).

`SctpStreams_proof`.  The inductive invariant is `ResetInv`: types, `SetsDisjoint`,
`SentIsAnswered`, `QueuedIsRetried`, and `OneRequest`, without which the others are not
inductive: at most one request or answer of a peer is on the wires, it names the streams
its stack waits for, and there is none if it waits for none.  `SentIsAnswered` needs it
when an answer is taken off the wire: its streams must be all that `sent` waits for.
Each action has a step, and under it one per conjunct it can disturb; lemmas about
appending to and taking from a queue carry the parts about wires and events.  Results:
`TypeCorrect`, `ResetInvariant`, `StreamSetsDisjoint`, `ResetsAreAnswered`,
`ResetsAreRetried`.

`DataChannel_proof`.  The inductive invariant is `ChannelInv`: types, `WellFormed(ch)` and
`Settled(ch)`, which together hold what `QueuesMatchState` says.  They are two because
`Settled`, that a closing channel has something queued, is true only between handlers: inside
one the queues drain before `UpdateState` looks at them.  Each operator of `DataChannelOps` has a lemma that it
keeps a channel well-formed and, for the action property, that it goes on (`Onward`): never back,
and nothing added to the control queue.  The second half makes the relation `Later` transitive,
which says how many control messages a channel closes with; the one step without it, the control message of
`UpdateConnecting`, comes last in its handler.  The loop over the control queue is the one
operator that sends from, and leaves messages in, a channel that is closed.
Results: `TypeCorrect`, `QueuesAndStateAgree`, `NeverGoesBack`.

`ThreadQueue_proof`.  All six safety properties of `thread_queue` and its types, for any
set of threads and any relations of who calls whom.  The inductive invariant `IInv` has four
parts.

- `StackOK(t)`: how calls nest.  The loop's `Get` is at the bottom and nowhere else; a
  handler is called by `Get` or by a `Send`, and by a `Send` only for a message of the thread it
  waits for; a `Send` is younger than everything below it.
- `QueuedFor`, `InOnePlace`, `Placed`: a message is in one of a queue, a running handler and the
  history, and it is in one of them.
- `SendsWait`: a sent message that is not answered has a `Send` that waits for it, and the
  other way round.  Without the second half `SendsReturn` cannot be shown, without the first
  `SenderStillWaits`.
- `Wakes(t)`: what a thread that has no signal has already seen, by the place it is in: a `Get` past
  the sends has none that it could take, a `Get` past the queue has none posted, and a waiting `Send`
  has none from its callee.  `AnswerWakes` is what makes this inductive: the signal
  of an answered `Send` may be consumed by a `Send` on top of it, whose `waited` says that it
  will give it back.
- `RunningInOrder`, `QueuedInOrder`: what was posted before a message that runs is over, and what
  was posted before a queued one is over, runs, or is in front of it.

`SendsReturn` needs one assumption the invariant does not give, `NoRing`: in the graph of who
sends to whom, no ring longer than two.  The code's own relations satisfy it
(signaling and worker thread invoke each other, others invoke the signaling thread), and
it cannot be done without: in a ring of three, each waits for the next and lets only the
next one in.  The proof follows the waiting threads along the edges: each waits for a thread
that waits, on an edge of smaller rank, and a set of natural numbers has a least
one (`NatMin`); an edge back is impossible, as the younger of two crossed `Send`s
would have been let in.

`P2PTransportChannel_proof`.  All eight properties of `ice`, two of them action properties, for any
finite set of connections, any networks and any distinct priorities.  The inductive
invariant has two parts.

- `Sound(ch)` holds after each call inside a handler, too: types, `Heard`, what the channel
  refers to exists (`Exists`), and what is pending was nominated and is not writable
  (`Pending`).
- `Settled(ch)` says what may be relied on while no sort is posted: nothing should take the
  best connection's place (`Chosen`), what users were told is true (`Reported`), and
  connections that have all timed out wait for their message (`TimedOutGo`).  `Chosen`
  is more than `SortIsPosted` says, which is why it is inductive: it compares the best
  connection with every other, and so still holds when one of them is deleted.
  `TimedOutGo` needs it for the same reason: when the last active connection is deleted, it was
  the best one, and then a sort is posted.

The argument goes by relations between two states of the channel.  `Step(w, v)`: what a
method does that is not a sort.  It keeps `Sound`, and if it changes anything a sort looks at, a
sort is posted; steps compose, so a handler is the composition of its calls, and
`StepKeepsSettled` says it once for all.  `ResortDoes`: a sort restores everything, from any
sound channel, and leaves it such that another changes nothing (`ResortStays`, hence
`SortsEnd`).  Its heart is `TrimDoes`: pruning spares every premier connection and the best one,
so the premiers and the best are the same afterwards, and with them what could be pruned next.
`Handled` is what all handlers do, and the action properties are two conjuncts of it.
`ReceiveData` alone changes the best connection with no sort posted; `FollowDoes` shows
that nothing is better than a connection that is writable and has just received.
That the order of connections has a first (`FirstExists`) is the one place where their number
being finite matters: a connection with the fewest better ones has none.

`DataChannelOrder_proof`.  The three properties about the order of a channel's messages.  They are
invariants of the history, and none is inductive by itself.  `OrderInv` adds to `ChannelInv`
three parts, each a relation between the channel and a history:

- `Sends(ch, accepted)`: the data in `out` are the messages 1 to k in order (`Carries`) and the
  queue holds k + 1 to n (`Waits`), where n is `accepted` or, after a close, may be one less.
- `Receives(ch, arrived)`: what the observer got, followed by what waits, ascends up to
  `arrived`, and is all of 1 to `arrived` while the channel is connecting or open.
- `Tells(ch, heard)`: the first message out is the one of the role; it is out once the
  handshake has left its first state, and until then no data may be queued; and an opener that
  has heard nothing is not `kHandshakeReady`.  The link from the handshake to `out` and to the
  queue is what `OpenBeforeData` leaves unsaid and its proof needs.

As for `ChannelInv`, there is one lemma per operator of `DataChannelOps`, and a handler is their
composition.  Two steps break a part in between: `UpdateConnecting` opens the channel before it
delivers what waited (`DeliverGood` asks for less than `Receives`), and a full receive queue is
dropped before the channel closes.

`SctpSids_proof`.  The inductive invariant `SidsInv` is the types, `UsedIffChannel` and the parity of
ids, which has to be carried along every way a number travels: in the OPEN on the wire
(`PairedChunk`), in the event (`PairedEvent`), in the post (`PairedPost`) and in the channel (`Held`).
The media channel is not proved about again.  Each handler is shown to make a step of
`SctpStreams` (`Moves`), which is the refinement `ImplementsStreams`; then everything
`SctpStreams_proof` proves, its types included, holds here by instantiation (`ResetsHold`).  `Streams`,
which the model instantiates, and `Media`, the instance that has the theorems, are shown to
be one specification.

`ChannelsKeepStreams` has no condition: a channel made on an id whose former stream is still being
reset, or on kMaxSctpSid, is refused its stream (`refused`), and that is the only way to be
without one.  The proof says of every
step what it owes the channels that live on (`Keeps`) and the new ones (`Starts`): only `CloseChannel` and
an incoming reset take a stream away, the first together with its channel, the second
together with the post of the news, and no post is dropped before its channel is closed.

`RemoteClosesHaveACause` is what can be said of remote closes when ids are given out again at any
time; that the channel which was closed is the same one is false, as `sids_reuse` shows, for no
number in a reset says which channel it is for.  The proof carries that every reset on its way,
queued, sent, on the wire, as an event or as a post, is of an id under which an end of a channel
was closed.

`PseudoTcp_proof`.  All seven invariants of `pseudotcp` and the refinement of `ByteStream`, for any
sizes of buffers, segments and windows, any limits of retransmission and any number of packets
under way.  The inductive invariant `IInv` has these parts:

- `SendOK`: the segments to send form a chain from `snd_una` on (`Chain`), the first k of them
  were sent and end at `snd_nxt` (`SentTo`), and the timer is armed when k > 0.
- `RecvOK`: what can be read and what is free make up the buffer, the window announced is no
  larger than what is free, and `rcv_nxt` counts what was stored.
- `Pair(s, r)`, of each end and its peer: what r has received, or stored early, ends
  at the end of a segment that s sent; s neither sends nor believes it may send past r's
  window.  The first half is what `SegmentsFollow` needs: an ack is a `rcv_nxt` of the peer, so
  it falls between segments, never inside one.
- `PacketOK`: the same of a packet under way, whose ack and window may be old.  That both
  remain true while the ends go on is because neither end takes anything back (`Goes`): ends of
  segments stay ends of segments, `rcv_nxt` and the right edge of the window only grow.
- `Lives` and `NoStall`: the user is told to wait only when there is nothing for him, and
  whoever waits for an ack or owes one has a timer.
- `IsRight`, of ends that are not in `early`: the bytes to be read, and those in the free part
  of the buffer that `m_rlist` speaks of, are at their places.

A handler works on a copy of an end's record, so all of this is said of any record, and
each part of a handler is a lemma from one record to the next: `Queue`, `Split`,
`Transmit`, the turn of `attemptSend`'s loop, the parts of `process()`, `Recover`.  The
two loops are recursive functions over a fixed range, and what their turns keep is
kept by all of them (`NatIsInductive`).  `Acked`, which counts the segments that an ack
covers, is where the chain is needed: `Total` of a prefix is the distance between the
first sequence number and its end.  For the refinement each action is shown to be a write, a
read, a close, an arrival, a spoiling or nothing for the users (`StreamWrites` and so on); the
window of the invariant gives the bound that `Write` has on how far a writer may be ahead.

Proving showed three definitions that were not quite what they should be.  `SegmentsFollow` says how
many segments were sent and where they end, which is stronger than comparing sums.
`WindowIsRoom` needed no exception for the connect message.  And an end counts as
`early` until it has the whole connect message: if that comes in two segments, which takes
a connect message longer than a segment, data stored between them goes as wrong as
before the first (the same case as `pseudotcp_data`).

`SequenceLemmas` has the facts about prefixes, removal, concatenation and ranges, and induction over
natural numbers in the form provers can use (`NatIsInductive`: a set that contains 0 and with n
also n + 1 contains all), which the library's theorems, whose hypothesis is an operator, are
not.

Only model-checked: the liveness properties `ClosingEnds`, `ResetCompletes` and
`CloseReachesPeer`, since fairness and ENABLED are outside the prover, and of course the counterexamples of the
six runs that are violated.  No module declares a RECURSIVE operator.

## 5. Not modelled, and why

- RTP data channels, `negotiated` ids chosen by the application in `SctpSids`, and
  `SetSend(false)`, which closes the socket under the sets.
- Ids that run out (`AllocateSid` failing), and the allocator after the transport was
  destroyed (`OnDataChannelDestroyed` swaps the list, so the ids stay taken).
- A failing `usrsctp_setsockopt` for other reasons than an outstanding request.
- The content of OPEN (label, protocol, reliability).
- `rtc::Thread`: `Peek`, `Dispose`, `PostAt`, message loops with a time limit, `Restart`, and
  starting and joining the system's thread.
- `PseudoTcp`: sequence numbers that wrap around, resets (no end sends one),
  `Close(true)` after which the user drops the end, MTU discovery, parsing of options and the
  window scale's negotiation, buffers that are resized.
- ICE: restarts and generations, role conflicts, TCP connections (whose `connected()` may
  be false), gathering, the intervals of pings, the RTT, route statistics, and the peer as a
  second model.
- The recorder.  A model needs states the program can be in, and after `Init` it has none that can be
  relied on: `SomaAudioRecord::Init` (`src/recorder/recorder_webrtc/source/SomaAudioRecord.cpp:92`)
  takes a raw pointer out of a temporary `scoped_refptr`, so the audio device is
  freed before VoiceEngine gets it; `SomaAudioDevice::Playing()` always answers true, so the
  play-out thread is never started; `SomaAviFile::Start` starts no recording, so its
  data calls always fail.  Its two hazards are listed without a property for that reason.
- The components of section 1 marked `not_modelled` in `PROJECT.json`.

## 6. Plan

In this order:

1. `MessagePipe`, an abstract specification: two bounded histories, what was sent and
   what was received, prefix-related; `DataChannelPair` composes two `DataChannelOps`
   channels over one association and is shown to implement it (`INSTANCE ... WITH`).  The
   transport's end of life, the association's `SetSend(false)` and the allocator join there,
   for the hazards that need them together: ids that stay taken after the transport's
   destruction, ids that run out, a reset that waits across a reconnect.
2. Observers that call back into the channel, which asks for handlers of `DataChannelOps`
   that can be suspended in the middle.
3. The STUN request manager and the TURN allocation above `P2PTransportChannel`.
