----------------------------- MODULE PseudoTcp -----------------------------
(***************************************************************************)
(* PseudoTcp (webrtc/p2p/base/pseudotcp.cc): a reliable byte stream on top *)
(* of packets that may be lost and reordered.  Two ends, and the network   *)
(* between them.                                                           *)
(*                                                                         *)
(* A handler is a function of the end's record: it takes the record, with  *)
(* the packets it has put out so far, through the steps of the code.       *)
(*                                                                         *)
(* The data byte with sequence number n is the number n, so a packet needs *)
(* no payload.  Time is abstract: a timer that is armed may go off at any  *)
(* moment.  The congestion window is any of the values CongestionWindow.   *)
(* Left out: resets, which no end sends, Close(true), after which the user *)
(* drops the end at once, changes of the MTU, the other options of the     *)
(* connect message, and sequence numbers that wrap around.                 *)
(***************************************************************************)
EXTENDS Integers, SequencesExt, FiniteSetsExt

CONSTANTS End,
          Connects,     \* the ends that call Connect()
          Closes,       \* the ends that call Close()
          Nagles,       \* the ends with m_use_nagling
          Mss,          \* m_mss
          ConnectLen,   \* the length of the connect message
          RcvBuf, SndBuf,     \* m_rbuf_len and m_sbuf_len
          WindowUnit,         \* 2 ^ m_rwnd_scale, and 2 ^ m_swnd_scale
          CongestionWindow,   \* the values of m_cwnd
          FastRetransmit,     \* 3: the duplicate acks that start a recovery
          DupAcks,            \* 256: m_dup_acks counts modulo this
          MaxXmit, MaxXmitConnecting,  \* 15 and 30: the limits of transmit()
          AckDelay,     \* whether m_ack_delay is positive
          MayRefuse,    \* the ends whose TcpWritePacket may fail
          Writes,       \* the lengths that users pass to Send()
          MaxData,      \* bound on the bytes that an end sends
          MaxNet        \* bound on the packets under way

ASSUME TwoEnds == \E a, b \in End : a # b /\ End = {a, b}
ASSUME Sizes ==
  /\ {Mss, ConnectLen, RcvBuf, SndBuf, WindowUnit, FastRetransmit, DupAcks,
      MaxXmit, MaxXmitConnecting, MaxNet} \subseteq Nat \ {0}
  /\ ConnectLen <= RcvBuf /\ RcvBuf < SndBuf
  /\ DupAcks > FastRetransmit
  /\ CongestionWindow \subseteq Nat /\ \A w \in CongestionWindow : w >= Mss
  /\ Writes \subseteq Nat \ {0}
  /\ MaxData \in [End -> Nat]
ASSUME Modes == /\ Connects \subseteq End /\ Closes \subseteq End
                /\ Nagles \subseteq End /\ MayRefuse \subseteq End
                /\ AckDelay \in BOOLEAN

VARIABLES
  tcb,    \* per end, the members of its PseudoTcp
  net,    \* the packets under way
  early,  \* history: the ends that stored data before the connect message
  failed  \* history: the ends whose last attemptSend() was refused

vars == << tcb, net, early, failed >>

Peer(e) == CHOOSE p \in End : p # e

(* What is in the receive buffer where nothing was written.                *)
Garbage == 0
Top == ConnectLen + Max({MaxData[e] : e \in End})
Byte == Garbage..Top
SeqNo == 0..Top

SSegment == [seq : SeqNo, len : 1..SndBuf, bCtrl : BOOLEAN,
             xmit : 0..Max({MaxXmit, MaxXmitConnecting})]
RSegment == [seq : SeqNo, len : 1..Mss]

Tcb == [state : {"LISTEN", "SYN_SENT", "SYN_RECEIVED", "ESTABLISHED", "CLOSED"},
        shutdown : BOOLEAN,
        rcv_nxt : SeqNo, rcv_wnd : 0..RcvBuf,
        rbuf : Seq(Byte),       \* what can be read
        nread : Nat,            \* how many bytes were read before
        ahead : Seq(Byte),      \* the free part of the buffer
        rlist : Seq(RSegment),
        bReadEnable : BOOLEAN,
        snd_una : SeqNo, snd_nxt : SeqNo, snd_wnd : Nat,
        slist : Seq(SSegment),
        sbuf : 0..SndBuf,       \* how many bytes m_sbuf holds
        bWriteEnable : BOOLEAN,
        rto : BOOLEAN,          \* m_rto_base is set
        t_ack : BOOLEAN,        \* m_t_ack is set
        dup_acks : 0..(DupAcks - 1), recover : SeqNo,
        lastack : SeqNo]        \* history: m_rcv_nxt in the last packet put out

Packet == [to : End, seq : Int, ack : SeqNo, ctl : BOOLEAN, len : 0..Mss,
           wnd : 0..RcvBuf]

TypeOK ==
  /\ tcb \in [End -> Tcb]
  /\ net \subseteq Packet
  /\ early \subseteq End /\ failed \subseteq End

(* PseudoTcp::PseudoTcp().                                                 *)
Init ==
  /\ tcb = [e \in End |->
       [state |-> "LISTEN", shutdown |-> FALSE,
        rcv_nxt |-> 0, rcv_wnd |-> RcvBuf, rbuf |-> << >>, nread |-> 0,
        ahead |-> [i \in 1..RcvBuf |-> Garbage], rlist |-> << >>,
        bReadEnable |-> TRUE,
        snd_una |-> 0, snd_nxt |-> 0, snd_wnd |-> 1, slist |-> << >>, sbuf |-> 0,
        bWriteEnable |-> FALSE, rto |-> FALSE, t_ack |-> FALSE,
        dup_acks |-> 0, recover |-> 0, lastack |-> 0]]
  /\ net = {} /\ early = {} /\ failed = {}

---------------------------------------------------------------------------
(* The queues.                                                             *)

Least(a, b) == IF a < b THEN a ELSE b

Total(segs) ==
  LET sum[i \in 0..Len(segs)] == IF i = 0 THEN 0 ELSE sum[i - 1] + segs[i].len
  IN  sum[Len(segs)]

InFlight(t) == t.snd_nxt - t.snd_una
Space(t) == RcvBuf - Len(t.rbuf)

(* queue(): the last segment grows if it is of the same kind and was not   *)
(* sent yet.                                                               *)
Queue(t, n, ctl) ==
  LET segs == t.slist
      i == Len(segs)
      grows == i > 0 /\ segs[i].bCtrl = ctl /\ segs[i].xmit = 0
  IN  [t EXCEPT
         !.sbuf = @ + n,
         !.slist = IF grows THEN [segs EXCEPT ![i].len = @ + n]
                   ELSE Append(segs, [seq |-> t.snd_una + t.sbuf, len |-> n,
                                      bCtrl |-> ctl, xmit |-> 0])]

(* queueConnectMessage().                                                  *)
QueueConnectMessage(t) ==
  Queue([t EXCEPT !.snd_wnd = ConnectLen], ConnectLen, TRUE)

(* packet().  A packet without data counts as sent even if it was refused. *)
PutPacket(t, seq, ctl, len) ==
  [t EXCEPT !.out = IF t.refuse THEN @ ELSE @ \cup
              {[to |-> t.peer, seq |-> seq, ack |-> t.rcv_nxt, ctl |-> ctl,
                len |-> len, wnd |-> t.rcv_wnd \div WindowUnit]},
            !.t_ack = FALSE,
            !.lastack = t.rcv_nxt]

(* transmit() of segment i, which no longer needs to be split.             *)
CanTransmit(t, i) ==
  /\ t.slist[i].xmit < IF t.state = "ESTABLISHED" THEN MaxXmit ELSE MaxXmitConnecting
  /\ ~t.refuse

Transmit(t, i) ==
  LET seg == t.slist[i]
  IN  [PutPacket(t, seg.seq, seg.bCtrl, seg.len) EXCEPT
         !.snd_nxt = IF seg.xmit = 0 THEN @ + seg.len ELSE @,
         !.slist[i].xmit = @ + 1,
         !.rto = TRUE]

Closedown(t) == [t EXCEPT !.state = "CLOSED"]

---------------------------------------------------------------------------
(* attemptSend().                                                          *)

(* With "Limited Transmit": two duplicate acks widen the window.           *)
Window(t) ==
  Least(t.snd_wnd, t.cwnd + IF t.dup_acks \in {1, 2} THEN t.dup_acks * Mss ELSE 0)
Useable(t) == IF InFlight(t) < Window(t) THEN Window(t) - InFlight(t) ELSE 0

(* What may be sent now, but no silly small part of a window.              *)
Available(t) ==
  LET n == Least(t.sbuf - InFlight(t), Mss)
  IN  IF n <= Useable(t) THEN n
      ELSE IF Useable(t) * 4 < Window(t) THEN 0 ELSE Useable(t)

NagleHolds(t) == t.nagling /\ t.snd_nxt > t.snd_una /\ Available(t) < Mss

(* A mutant: the second part has the sequence number of the first.         *)
SplitKeepsSeq(t, i, n) ==
  LET seg == t.slist[i]
  IN  IF seg.len <= n THEN t
      ELSE [t EXCEPT !.slist = InsertAt([@ EXCEPT ![i].len = n], i + 1,
                          [seg EXCEPT !.len = @ - n])]

Split(t, i, n) ==
  LET seg == t.slist[i]
  IN  IF seg.len <= n THEN t
      ELSE [t EXCEPT !.slist = InsertAt([t.slist EXCEPT ![i].len = n], i + 1,
                          [seg EXCEPT !.seq = seg.seq + n, !.len = seg.len - n])]

Unsent(t) == CHOOSE i \in DOMAIN t.slist :
               /\ t.slist[i].xmit = 0
               /\ \A k \in 1..(i - 1) : t.slist[k].xmit > 0

(* The next segment, cut to what is available; it stays cut if the network *)
(* refuses it.                                                             *)
SendNext(t) ==
  LET w == Split(t, Unsent(t), Available(t))
  IN  IF t.refuse THEN [w EXCEPT !.failed = TRUE] ELSE Transmit(w, Unsent(t))

(* The loop, and what it leaves: an ack that is due goes out, or waits for *)
(* its timer, if there was nothing to send.  It is not sent when Nagle's   *)
(* algorithm or a refused packet ends the loop.                            *)
MaySend(t) == Available(t) > 0 /\ ~NagleHolds(t) /\ ~t.failed

SendAll(t) ==
  LET after[i \in 0..SndBuf] ==
        IF i = 0 THEN t
        ELSE IF MaySend(after[i - 1]) THEN SendNext(after[i - 1]) ELSE after[i - 1]
  IN  after[SndBuf]

(* A mutant: the timer of a delayed ack is not set.                        *)
AttemptSendNoTimer(t, sflags) ==
  LET w == SendAll([t EXCEPT !.failed = FALSE])
      flags == IF w.snd_nxt > t.snd_nxt THEN "None" ELSE sflags
  IN  IF Available(w) > 0
      THEN w
      ELSE IF flags = "ImmediateAck" THEN PutPacket(w, w.snd_nxt, FALSE, 0) ELSE w

AttemptSend(t, sflags) ==
  LET w == SendAll([t EXCEPT !.failed = FALSE])
      flags == IF w.snd_nxt > t.snd_nxt THEN "None" ELSE sflags
  IN  IF Available(w) > 0
      THEN w
      ELSE IF flags = "ImmediateAck" \/ (flags = "DelayedAck" /\ w.t_ack)
      THEN PutPacket(w, w.snd_nxt, FALSE, 0)
      ELSE [w EXCEPT !.t_ack = @ \/ flags = "DelayedAck"]

---------------------------------------------------------------------------
(* process(), in the order of its parts.                                   *)

(* The connect message.                                                    *)
ProcessConnect(t, seg) ==
  CASE seg.ctl /\ t.state = "LISTEN" ->
         QueueConnectMessage([t EXCEPT !.state = "SYN_RECEIVED"])
    [] seg.ctl /\ t.state = "SYN_SENT" -> [t EXCEPT !.state = "ESTABLISHED"]
    [] OTHER -> t

(* A mutant: the last segment acked stays, with nothing left in it.        *)
AckedLeavesEmpty(segs, n) ==
  LET gone == {i \in DOMAIN segs : Total(SubSeq(segs, 1, i)) < n}
      k == Cardinality(gone)
      part == n - Total(SubSeq(segs, 1, k))
      rest == SubSeq(segs, k + 1, Len(segs))
  IN  IF part > 0 THEN [rest EXCEPT ![1].len = @ - part] ELSE rest

(* Acked bytes leave the queue.  A segment of which only a part was acked  *)
(* keeps its sequence number.                                              *)
Acked(segs, n) ==
  LET gone == {i \in DOMAIN segs : Total(SubSeq(segs, 1, i)) <= n}
      k == Cardinality(gone)
      part == n - Total(SubSeq(segs, 1, k))
      rest == SubSeq(segs, k + 1, Len(segs))
  IN  IF part > 0 THEN [rest EXCEPT ![1].len = @ - part] ELSE rest

(* The first segment is sent again; if it cannot be, the end closes.       *)
Retransmit(t) == IF CanTransmit(t, 1) THEN Transmit(t, 1) ELSE Closedown(t)

(* A mutant: the timer is off after every ack.                             *)
NewAckTimerOff(t, seg) ==
  LET w == [t EXCEPT !.snd_wnd = seg.wnd * WindowUnit,
                     !.snd_una = seg.ack,
                     !.rto = FALSE,
                     !.sbuf = @ - (seg.ack - t.snd_una),
                     !.slist = Acked(@, seg.ack - t.snd_una)]
  IN  IF w.dup_acks >= FastRetransmit /\ w.snd_una < w.recover
      THEN Retransmit(w) ELSE [w EXCEPT !.dup_acks = 0]

NewAck(t, seg) ==
  LET w == [t EXCEPT !.snd_wnd = seg.wnd * WindowUnit,
                     !.snd_una = seg.ack,
                     !.rto = seg.ack # t.snd_nxt,
                     !.sbuf = @ - (seg.ack - t.snd_una),
                     !.slist = Acked(@, seg.ack - t.snd_una)]
  IN  IF w.dup_acks >= FastRetransmit /\ w.snd_una < w.recover
      THEN Retransmit(w) ELSE [w EXCEPT !.dup_acks = 0]

SameAck(t, seg) ==
  LET w == [t EXCEPT !.snd_wnd = seg.wnd * WindowUnit]
      n == (w.dup_acks + 1) % DupAcks
  IN  CASE seg.len > 0 -> w
        [] seg.len = 0 /\ w.snd_una = w.snd_nxt -> [w EXCEPT !.dup_acks = 0]
        [] seg.len = 0 /\ w.snd_una # w.snd_nxt /\ n # FastRetransmit ->
             [w EXCEPT !.dup_acks = n]
        [] OTHER -> LET r == Retransmit([w EXCEPT !.dup_acks = n])
                    IN  [r EXCEPT !.recover = r.snd_nxt]

ProcessAck(t, seg) ==
  CASE seg.ack > t.snd_una /\ seg.ack <= t.snd_nxt -> NewAck(t, seg)
    [] seg.ack = t.snd_una -> SameAck(t, seg)
    [] OTHER -> t

(* "A bit hacky": any other packet ends the handshake.  The user is told   *)
(* when there is room in the send buffer.                                  *)
Refill == (SndBuf + RcvBuf) \div 2

(* A mutant: the user is told when the send buffer is empty.               *)
ProcessOpenWhenEmpty(t, seg) ==
  [t EXCEPT !.state = IF @ = "SYN_RECEIVED" /\ ~seg.ctl THEN "ESTABLISHED" ELSE @,
            !.bWriteEnable = @ /\ t.sbuf > 0]

ProcessOpen(t, seg) ==
  [t EXCEPT !.state = IF @ = "SYN_RECEIVED" /\ ~seg.ctl THEN "ESTABLISHED" ELSE @,
            !.bWriteEnable = @ /\ t.sbuf >= Refill]

AckFlags(t, seg) ==
  CASE seg.seq # t.rcv_nxt -> "ImmediateAck"
    [] seg.seq = t.rcv_nxt /\ seg.len # 0 ->
         IF AckDelay THEN "DelayedAck" ELSE "ImmediateAck"
    [] OTHER -> "None"

(* The segment without what was received before and what has no room.      *)
Fit(t, seg) ==
  LET first == Max({seg.seq, t.rcv_nxt})
      last == Least(seg.seq + seg.len, t.rcv_nxt + Space(t)) - 1
  IN  [seg EXCEPT !.seq = IF seg.seq + seg.len > t.rcv_nxt THEN first ELSE @,
                  !.len = IF seg.len > 0 /\ first <= last THEN last - first + 1 ELSE 0]

(* A mutant: a segment that comes early is written to the front.           *)
WriteAtFront(t, seg) ==
  [t EXCEPT !.ahead = [i \in DOMAIN @ |->
     IF i <= seg.len THEN seg.seq + i - 1 ELSE @[i]]]

(* WriteOffset() and ConsumeWriteBuffer() of the receive buffer.           *)
WriteAt(t, seg) ==
  [t EXCEPT !.ahead = [i \in DOMAIN @ |->
     IF i - 1 \in (seg.seq - t.rcv_nxt) .. (seg.seq - t.rcv_nxt + seg.len - 1)
     THEN t.rcv_nxt + i - 1 ELSE @[i]]]

(* A mutant: the window stays as it was.                                   *)
ConsumeKeepsWindow(t, n) ==
  [t EXCEPT !.rbuf = @ \o SubSeq(t.ahead, 1, n),
            !.ahead = SubSeq(@, n + 1, Len(@)),
            !.rcv_nxt = @ + n]

Consume(t, n) ==
  [t EXCEPT !.rbuf = @ \o SubSeq(t.ahead, 1, n),
            !.ahead = SubSeq(@, n + 1, Len(@)),
            !.rcv_nxt = @ + n,
            !.rcv_wnd = @ - n]

(* Segments that were stored early follow without a gap.                   *)
RecoverOne(t) ==
  LET seg == Head(t.rlist)
      n == seg.seq + seg.len - t.rcv_nxt
  IN  IF t.rlist = << >> \/ seg.seq > t.rcv_nxt THEN t
      ELSE [IF n > 0 THEN Consume(t, n) ELSE t EXCEPT !.rlist = Tail(@)]

Recover(t) ==
  LET after[i \in 0..Len(t.rlist)] == IF i = 0 THEN t ELSE RecoverOne(after[i - 1])
  IN  after[Len(t.rlist)]

(* The list is sorted by sequence number, a new segment before its equals. *)
Save(t, seg) ==
  LET before == {i \in DOMAIN t.rlist : t.rlist[i].seq < seg.seq}
  IN  [t EXCEPT !.rlist = InsertAt(@, Cardinality(before) + 1,
                                   [seq |-> seg.seq, len |-> seg.len])]

(* A mutant: data is stored after Close() too.                             *)
StoreAfterClose(t, seg) ==
  CASE seg.len = 0 -> t
    [] seg.len > 0 /\ seg.ctl ->
         IF seg.seq = t.rcv_nxt THEN [t EXCEPT !.rcv_nxt = @ + seg.len] ELSE t
    [] OTHER ->
         IF seg.seq = t.rcv_nxt
         THEN Recover(Consume(WriteAt(t, seg), seg.len))
         ELSE Save(WriteAt(t, seg), seg)

Store(t, seg) ==
  CASE seg.len = 0 -> t
    [] seg.len > 0 /\ (seg.ctl \/ t.shutdown) ->
         IF seg.seq = t.rcv_nxt THEN [t EXCEPT !.rcv_nxt = @ + seg.len] ELSE t
    [] OTHER ->
         IF seg.seq = t.rcv_nxt
         THEN Recover(Consume(WriteAt(t, seg), seg.len))
         ELSE Save(WriteAt(t, seg), seg)

(* If segments were recovered, the ack is immediate.  New data is told to  *)
(* the user.                                                               *)
ProcessData(t, seg) ==
  LET fit == Fit(t, seg)
      w == Store(t, fit)
      recovered == Len(w.rbuf) > Len(t.rbuf) + fit.len
      sent == AttemptSend(w, IF recovered THEN "ImmediateAck" ELSE AckFlags(t, seg))
  IN  [sent EXCEPT !.bReadEnable = @ /\ Len(w.rbuf) = Len(t.rbuf)]

Process(t, seg) ==
  LET w == ProcessAck(ProcessConnect(t, seg), seg)
  IN  IF w.state = "CLOSED" THEN w ELSE ProcessData(ProcessOpen(w, seg), seg)

---------------------------------------------------------------------------
(* The calls of the user and of the network.                               *)

(* What a handler of end e works on, and what is left of it.  A network    *)
(* that is full loses what comes next, and an end that is closed takes no  *)
(* packets.                                                                *)
Context(e) ==
  {[peer |-> Peer(e), out |-> {}, nagling |-> e \in Nagles, failed |-> FALSE,
    refuse |-> refuse, cwnd |-> cwnd] :
     refuse \in {FALSE, (e \in MayRefuse)}, cwnd \in CongestionWindow}

Working(e, c) ==
  LET t == tcb[e]
  IN  [state |-> t.state, shutdown |-> t.shutdown, rcv_nxt |-> t.rcv_nxt,
       rcv_wnd |-> t.rcv_wnd, rbuf |-> t.rbuf, nread |-> t.nread, ahead |-> t.ahead,
       rlist |-> t.rlist, bReadEnable |-> t.bReadEnable, snd_una |-> t.snd_una,
       snd_nxt |-> t.snd_nxt, snd_wnd |-> t.snd_wnd, slist |-> t.slist,
       sbuf |-> t.sbuf, bWriteEnable |-> t.bWriteEnable, rto |-> t.rto,
       t_ack |-> t.t_ack, dup_acks |-> t.dup_acks, recover |-> t.recover,
       lastack |-> t.lastack, peer |-> c.peer, out |-> c.out, nagling |-> c.nagling,
       failed |-> c.failed, refuse |-> c.refuse, cwnd |-> c.cwnd]

Result(e, w, rest) ==
  /\ tcb' = [tcb EXCEPT ![e] = [f \in DOMAIN @ |-> w[f]]]
  /\ LET all == {p \in rest \cup w.out : tcb'[p.to].state # "CLOSED"}
     IN  net' = IF Cardinality(all) <= MaxNet THEN all ELSE all \ w.out
  /\ failed' = IF w.failed THEN failed \cup {e} ELSE failed \ {e}

Connect(e) ==
  /\ e \in Connects /\ tcb[e].state = "LISTEN"
  /\ \E c \in Context(e) :
       Result(e, AttemptSend(QueueConnectMessage(
                   [Working(e, c) EXCEPT !.state = "SYN_SENT"]), "None"), net)
  /\ UNCHANGED early

(* NotifyPacket().                                                         *)
Receive(e) ==
  /\ tcb[e].state # "CLOSED"
  /\ \E p \in net, c \in Context(e) :
       /\ p.to = e
       /\ Result(e, Process(Working(e, c), p), net \ {p})
       /\ early' = IF tcb[e].rcv_nxt < ConnectLen /\ ~p.ctl /\ p.len > 0 /\ ~tcb[e].shutdown
                   THEN early \cup {e} ELSE early

(* Send(), which takes what there is room for.                             *)
Send(e) ==
  LET t == tcb[e]
      room == SndBuf - t.sbuf
      left == ConnectLen + MaxData[e] - t.snd_una - t.sbuf
  IN  /\ t.state = "ESTABLISHED"
      /\ \/ /\ room = 0
            /\ tcb' = [tcb EXCEPT ![e].bWriteEnable = TRUE]
            /\ UNCHANGED << net, failed >>
         \/ /\ room > 0 /\ left > 0
            /\ \E n \in Writes, c \in Context(e) :
                 Result(e, AttemptSend(Queue(Working(e, c), Min({n, room, left}), FALSE),
                                       "None"), net)
      /\ UNCHANGED early

(* Recv().  The window opens when enough was read, and only a window that  *)
(* was closed is announced at once.                                        *)
Recv(e) ==
  /\ tcb[e].state = "ESTABLISHED"
  /\ IF tcb[e].rbuf = << >>
     THEN /\ tcb' = [tcb EXCEPT ![e].bReadEnable = TRUE]
          /\ UNCHANGED << net, failed >>
     ELSE \E n \in 1..Len(tcb[e].rbuf), c \in Context(e) :
            LET t == Working(e, c)
                w == [t EXCEPT !.rbuf = SubSeq(@, n + 1, Len(@)),
                               !.nread = @ + n,
                               !.ahead = @ \o [i \in 1..n |-> Garbage]]
                opens == Space(w) - t.rcv_wnd >= Least(RcvBuf \div 2, Mss)
                v == [w EXCEPT !.rcv_wnd = IF opens THEN Space(w) ELSE @,
                               !.failed = e \in failed]
            IN  Result(e, IF opens /\ t.rcv_wnd = 0
                          THEN AttemptSend(v, "ImmediateAck") ELSE v, net)
  /\ UNCHANGED early

Close(e) ==
  /\ e \in Closes /\ ~tcb[e].shutdown
  /\ tcb' = [tcb EXCEPT ![e].shutdown = TRUE]
  /\ UNCHANGED << net, early, failed >>

(* clock_check(): when it returns false the user may destroy the end.      *)
Finished(e) ==
  /\ tcb[e].shutdown
  /\ \/ tcb[e].state # "ESTABLISHED"
     \/ tcb[e].sbuf = 0 /\ ~tcb[e].t_ack

(* NotifyClock(), with the timers that are due.                            *)
Timers(t) ==
  (IF t.rto THEN {"retransmit"} ELSE {})
    \cup (IF t.snd_wnd = 0 THEN {"probe"} ELSE {})
    \cup (IF t.t_ack THEN {"ack"} ELSE {})

(* A closed window is probed, or nothing was heard for 15 s.               *)
Probe(t, silent) ==
  IF silent THEN Closedown(t) ELSE PutPacket(t, t.snd_nxt - 1, FALSE, 0)

NotifyClock(e) ==
  /\ tcb[e].state # "CLOSED" /\ ~Finished(e)
  /\ \E due \in SUBSET Timers(tcb[e]) \ {{}}, c \in Context(e) :
     \E silent \in {FALSE, ("probe" \in due)} :
       LET t == [Working(e, c) EXCEPT !.failed = e \in failed]
           r == IF "retransmit" \in due THEN Retransmit(t) ELSE t
           p == IF "probe" \in due /\ r.state # "CLOSED" THEN Probe(r, silent) ELSE r
           a == IF "ack" \in due /\ p.state # "CLOSED" /\ p.t_ack
                THEN PutPacket(p, p.snd_nxt, FALSE, 0) ELSE p
       IN  Result(e, a, net)
  /\ UNCHANGED early

(* The network loses packets, and delivers them in any order.              *)
Lose ==
  /\ \E p \in net : net' = net \ {p}
  /\ UNCHANGED << tcb, early, failed >>

Next ==
  \/ Lose
  \/ \E e \in End : \/ Connect(e) \/ Receive(e) \/ NotifyClock(e)
                    \/ Send(e) \/ Recv(e) \/ Close(e)

Spec == Init /\ [][Next]_vars

---------------------------------------------------------------------------
(* Properties.                                                             *)

(* Whatever is lost and reordered, what can be read are the bytes the peer *)
(* sent, each once and in order: byte i of the stream comes at place i.    *)
Intact(e) ==
  \A i \in DOMAIN tcb[e].rbuf : tcb[e].rbuf[i] = ConnectLen + tcb[e].nread + i - 1

(* This holds of an end that stored no data before the connect message.    *)
StreamIntact == \A e \in End \ early : Intact(e)

(* The test PseudoTcpTest.TestSend wants it of every end: "Ensure we       *)
(* closed down OK and we got the right data."                              *)
RightData == \A e \in End : Intact(e)

(* The segments in slist follow each other from the first byte not acked   *)
(* on, and those that were sent come first.  So no ack falls inside a      *)
(* segment, whose sequence number would be wrong from then on, and the     *)
(* offsets from snd_una that packet() reads at are those of the bytes.     *)
SegmentsFollow ==
  \A e \in End : LET t == tcb[e]
                     From(i) == t.snd_una + Total(SubSeq(t.slist, 1, i))
                 IN  /\ \A i \in DOMAIN t.slist : t.slist[i].seq = From(i - 1)
                     /\ From(Len(t.slist)) = t.snd_una + t.sbuf
                     /\ \E k \in 0..Len(t.slist) :
                          /\ \A i \in DOMAIN t.slist : t.slist[i].xmit > 0 <=> i <= k
                          /\ From(k) = t.snd_nxt
                          /\ t.rto <=> k > 0

(* No end believes in more room than its peer has, whatever acks and       *)
(* window updates were lost or came late, so a peer that still listens     *)
(* never cuts a segment.                                                   *)
WindowIsRoom ==
  \A e \in End : LET t == tcb[e] p == tcb[Peer(e)]
                 IN  /\ p.rcv_wnd <= Space(p)
                     /\ t.snd_nxt <= p.rcv_nxt + Space(p)
                     /\ t.snd_una + t.snd_wnd <= p.rcv_nxt + p.rcv_wnd

(* As long as there is something to send, some timer is armed, so that the *)
(* end goes on even if every packet under way is lost; unless the network  *)
(* refused a packet when attemptSend() ran last.                           *)
NeverStalls ==
  \A e \in End \ failed :
    tcb[e].state # "CLOSED" /\ tcb[e].slist # << >> =>
      tcb[e].rto \/ tcb[e].snd_wnd = 0

(* What was received and not acked will be: by the timer of a delayed ack, *)
(* by a probe, or by a segment that is sent again.                         *)
AckIsDue ==
  \A e \in End \ failed :
    tcb[e].state # "CLOSED" /\ tcb[e].lastack # tcb[e].rcv_nxt =>
      tcb[e].t_ack \/ tcb[e].rto \/ tcb[e].snd_wnd = 0

(* A user who was told to wait is told when to go on: there is nothing to  *)
(* read, or the send buffer is too full, and then an ack will come.  (An   *)
(* end that closes on its own tells OnTcpClosed instead.)                  *)
UserIsWoken ==
  \A e \in End : LET t == tcb[e]
                 IN  t.state # "CLOSED" =>
                       /\ t.bReadEnable => t.rbuf = << >>
                       /\ t.bWriteEnable => t.sbuf >= Refill

(* The connection is a pair of byte streams, whatever the network does,    *)
(* between ends that did not store data before the connect message.        *)
Stream == INSTANCE ByteStream WITH
  First <- ConnectLen,
  written <- [e \in End |-> LET n == (tcb[e].snd_una + tcb[e].sbuf) - ConnectLen
                           IN  IF n < 0 THEN 0 ELSE n],
  nread <- [e \in End |-> tcb[e].nread],
  readable <- [e \in End |-> tcb[e].rbuf],
  closed <- [e \in End |-> tcb[e].shutdown],
  spoiled <- early

ImplementsStream == Stream!Spec

============================================================================
