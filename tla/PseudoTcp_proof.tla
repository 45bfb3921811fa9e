-------------------------- MODULE PseudoTcp_proof --------------------------
(***************************************************************************)
(* Proofs about PseudoTcp: its invariants hold, and it implements          *)
(* ByteStream, for any sizes of buffers, segments and windows, any limits  *)
(* of retransmission, any writes and any number of packets under way.      *)
(*                                                                         *)
(* The inductive invariant IInv says                                       *)
(*   of the segments to send (SendOK): they follow each other from snd_una *)
(*     on (Chain), the first k were sent, up to snd_nxt (SentTo), and the  *)
(*     timer is armed when k > 0 (Sent);                                   *)
(*   of the buffer (RecvOK): its parts have the size of the whole, and     *)
(*     rcv_nxt counts what was stored;                                     *)
(*   of an end and its peer (Pair): what one received or stored early ends *)
(*     at the end of a segment that the other sent, and what one may send  *)
(*     and believes in has room at the other;                              *)
(*   of the packets under way (PacketOK): the same of what they carry;     *)
(*   of the waiting (Lives, NoStall): whoever waits is woken or has a      *)
(*     timer;                                                              *)
(*   of the bytes (IsRight): those to be read, and those stored early, are *)
(*     the ones with that number.                                          *)
(* A handler works on a copy of an end's record, so what holds of it is    *)
(* stated of any record w, and each part of a handler is a lemma that      *)
(* leads from one record to the next.                                      *)
(***************************************************************************)
EXTENDS PseudoTcp, SequenceLemmas, FiniteSetTheorems

---------------------------------------------------------------------------
(* Numbers.                                                                *)
LEMMA Division ==
  ASSUME NEW n \in Nat, NEW u \in Nat \ {0}
  PROVE  n \div u \in 0..n /\ (n \div u) * u <= n
  OBVIOUS

LEMMA Product ==
  ASSUME NEW a \in Nat, NEW b \in Nat
  PROVE  a * b \in Nat
  OBVIOUS

LEMMA MaxOfTwo ==
  ASSUME NEW a \in Int, NEW b \in Int
  PROVE  /\ Max({a, b}) \in {a, b}
         /\ Max({a, b}) >= a /\ Max({a, b}) >= b
<1>1. \E x \in {a, b} : \A y \in {a, b} : x >= y
  OBVIOUS
<1> QED
  BY <1>1 DEF Max

LEMMA MinOfThree ==
  ASSUME NEW a \in Int, NEW b \in Int, NEW c \in Int
  PROVE  /\ Min({a, b, c}) \in {a, b, c}
         /\ Min({a, b, c}) <= a /\ Min({a, b, c}) <= b /\ Min({a, b, c}) <= c
<1>1. \E x \in {a, b, c} : \A y \in {a, b, c} : x <= y
  <2>1. CASE a <= b /\ a <= c
    BY <2>1
  <2>2. CASE b <= a /\ b <= c
    BY <2>2
  <2>3. CASE c <= a /\ c <= b
    BY <2>3
  <2> QED
    BY <2>1, <2>2, <2>3
<1> QED
  BY <1>1 DEF Min

LEMMA TheEnds ==
  /\ \A e \in End : Peer(e) \in End /\ Peer(e) # e /\ Peer(Peer(e)) = e
  /\ \A e, p \in End : p = e \/ p = Peer(e)
<1>1. PICK a, b \in End : a # b /\ End = {a, b}
  BY TwoEnds
<1>2. \A e \in End : Peer(e) \in End /\ Peer(e) # e
  BY <1>1 DEF Peer
<1> QED
  BY <1>1, <1>2

LEMMA TopBounds ==
  /\ Top \in Nat
  /\ \A e \in End : MaxData[e] \in Nat /\ ConnectLen + MaxData[e] <= Top
<1>1. PICK a, b \in End : a # b /\ End = {a, b}
  BY TwoEnds
<1>2. MaxData[a] \in Nat /\ MaxData[b] \in Nat /\ ConnectLen \in Nat
  BY Sizes
<1> DEFINE D == {MaxData[e] : e \in End}
<1>3. D = {MaxData[a], MaxData[b]}
  BY <1>1, Zenon
<1>4. /\ Max({MaxData[a], MaxData[b]}) \in {MaxData[a], MaxData[b]}
      /\ Max({MaxData[a], MaxData[b]}) >= MaxData[a]
      /\ Max({MaxData[a], MaxData[b]}) >= MaxData[b]
  <2>1. MaxData[a] \in Int /\ MaxData[b] \in Int
    BY <1>2
  <2> QED
    BY <2>1, MaxOfTwo, Zenon
<1> DEFINE m == Max({MaxData[a], MaxData[b]})
<1>5. Top = ConnectLen + Max(D)
  BY DEF Top
<1> HIDE DEF m
<1>6. m \in Nat /\ m >= MaxData[a] /\ m >= MaxData[b]
  BY <1>4, <1>2 DEF m
<1>7. Top = ConnectLen + m
  BY <1>3, <1>5 DEF m
<1> QED
  BY <1>1, <1>2, <1>7, <1>6

XmitTop == Max({MaxXmit, MaxXmitConnecting})
LEMMA XmitBounds ==
  XmitTop \in Nat /\ MaxXmit <= XmitTop /\ MaxXmitConnecting <= XmitTop /\ XmitTop > 0
<1>1. MaxXmit \in Nat \ {0} /\ MaxXmitConnecting \in Nat \ {0}
  BY Sizes
<1>2. /\ XmitTop \in {MaxXmit, MaxXmitConnecting}
      /\ XmitTop >= MaxXmit /\ XmitTop >= MaxXmitConnecting
  BY <1>1, MaxOfTwo DEF XmitTop
<1> QED
  BY <1>1, <1>2

(* Sequences.                                                              *)
IsConcat(r, s, t) ==
  /\ Len(r) = Len(s) + Len(t)
  /\ \A i \in 1..Len(s) : r[i] = s[i]
  /\ \A k \in 1..Len(t) : r[Len(s) + k] = t[k]
LEMMA ConcatParts ==
  ASSUME NEW S, NEW s \in Seq(S), NEW t \in Seq(S)
  PROVE  s \o t \in Seq(S) /\ IsConcat(s \o t, s, t)
<1>1. Len(s) \in Nat /\ Len(t) \in Nat
  OBVIOUS
<1>2. s \o t \in Seq(S) /\ Len(s \o t) = Len(s) + Len(t)
  OBVIOUS
<1>3. \A i \in 1..Len(s) : (s \o t)[i] = s[i]
  BY <1>1
<1>4. \A k \in 1..Len(t) : (s \o t)[Len(s) + k] = t[k]
  BY <1>1
<1>5. IsConcat(s \o t, s, t)
  BY <1>2, <1>3, <1>4 DEF IsConcat
<1> QED
  BY <1>2, <1>5

Inserted(v, s, i, e) ==
  /\ Len(v) = Len(s) + 1
  /\ \A k \in 1..(Len(s) + 1) : k < i => v[k] = s[k]
  /\ \A k \in 1..(Len(s) + 1) : k = i => v[k] = e
  /\ \A k \in 1..(Len(s) + 1), l \in 1..Len(s) : k > i /\ k = l + 1 => v[k] = s[l]

LEMMA InsertAtProperties ==
  ASSUME NEW S, NEW s \in Seq(S), NEW e \in S, NEW i \in 1..(Len(s) + 1)
  PROVE  InsertAt(s, i, e) \in Seq(S) /\ Inserted(InsertAt(s, i, e), s, i, e)
<1>1. Len(s) \in Nat
  OBVIOUS
<1> DEFINE a == SubSeq(s, 1, i - 1)
           b == SubSeq(s, i, Len(s))
<1>2. a \in Seq(S) /\ Len(a) = i - 1 /\ \A k \in 1..(i - 1) : a[k] = s[k]
  BY <1>1, SubSeqProperties
<1>3. b \in Seq(S) /\ Len(b) = Len(s) - i + 1
      /\ \A k \in 1..(Len(s) - i + 1) : b[k] = s[i + k - 1]
  BY <1>1, SubSeqProperties
<1>4. InsertAt(s, i, e) = a \o << e >> \o b
  BY DEF InsertAt
<1> HIDE DEF a, b
<1>5. << e >> \in Seq(S) /\ Len(<< e >>) = 1 /\ << e >>[1] = e
  OBVIOUS
<1> DEFINE c == a \o << e >>
<1>6. c \in Seq(S) /\ Len(c) = i /\ \A k \in 1..i : c[k] = IF k < i THEN s[k] ELSE e
  BY <1>2, <1>5, <1>1, SMTT(30)
<1>7. InsertAt(s, i, e) = c \o b
  BY <1>4
<1> HIDE DEF c
<1>8. /\ c \o b \in Seq(S) /\ Len(c \o b) = Len(s) + 1
      /\ \A k \in 1..(Len(s) + 1) : (c \o b)[k] = IF k <= i THEN c[k] ELSE b[k - i]
  <2>1. c \in Seq(S) /\ b \in Seq(S) /\ Len(c) = i /\ Len(c) + Len(b) = Len(s) + 1
    BY <1>6, <1>3, <1>1
  <2>2. c \o b \in Seq(S) /\ Len(c \o b) = Len(c) + Len(b)
    BY <2>1
  <2>3. \A k \in 1..(Len(c) + Len(b)) :
          (c \o b)[k] = IF k <= Len(c) THEN c[k] ELSE b[k - Len(c)]
    BY <2>1
  <2> QED
    BY <2>1, <2>2, <2>3
<1>9. \A k \in 1..(Len(s) + 1) : k < i => (c \o b)[k] = s[k]
  BY <1>1, <1>6, <1>8
<1>10. \A k \in 1..(Len(s) + 1) : k = i => (c \o b)[k] = e
  BY <1>1, <1>6, <1>8
<1>11. ASSUME NEW k \in 1..(Len(s) + 1), NEW l \in 1..Len(s), k > i, k = l + 1
       PROVE  (c \o b)[k] = s[l]
  <2>1. k - i \in 1..(Len(s) - i + 1) /\ i + (k - i) - 1 = l
    BY <1>11, <1>1
  <2> QED
    BY <2>1, <1>11, <1>8, <1>3, <1>1, SMTT(30)
<1> QED
  BY <1>7, <1>8, <1>9, <1>10, <1>11 DEF Inserted

LEMMA SuffixProperties ==
  ASSUME NEW S, NEW s \in Seq(S), NEW n \in 0..Len(s)
  PROVE  /\ SubSeq(s, n + 1, Len(s)) \in Seq(S)
         /\ Len(SubSeq(s, n + 1, Len(s))) = Len(s) - n
         /\ \A i \in 1..(Len(s) - n) : SubSeq(s, n + 1, Len(s))[i] = s[n + i]
<1>1. Len(s) \in Nat
  OBVIOUS
<1>2. \A i \in (n + 1)..Len(s) : s[i] \in S
  BY <1>1, ElementOfSeq
<1>3. CASE n < Len(s)
  BY <1>1, <1>2, <1>3, SubSeqProperties, Z3
<1>4. CASE n = Len(s)
  <2>1. SubSeq(s, n + 1, Len(s)) = << >>
    BY <1>1, <1>4
  <2> QED
    BY <2>1, <1>4, <1>1
<1> QED
  BY <1>3, <1>4, <1>1

---------------------------------------------------------------------------
(* The queue of segments to send: they follow each other from snd_una on.  *)

Seg == [seq : Nat, len : Nat \ {0}, bCtrl : BOOLEAN, xmit : 0..XmitTop]

Until(segs, una, i) == IF i = 0 THEN una ELSE segs[i].seq + segs[i].len

EndOf(s) == s.seq + s.len

Chain(segs, una, n) ==
  /\ segs \in Seq(Seg)
  /\ Len(segs) = 0 => n = 0
  /\ \A i \in 1..Len(segs) : i = 1 => segs[i].seq = una
  /\ \A i \in 1..Len(segs) : i = Len(segs) => EndOf(segs[i]) = una + n
  /\ \A i, j \in 1..Len(segs) : j = i + 1 => segs[j].seq = EndOf(segs[i])
  /\ \A i, j \in 1..Len(segs) : i < j => EndOf(segs[i]) <= segs[j].seq

LEMMA SegIsTyped ==
  ASSUME NEW segs \in Seq(Seg), NEW i \in 1..Len(segs)
  PROVE  /\ segs[i].seq \in Nat /\ segs[i].len \in Nat \ {0}
         /\ segs[i].bCtrl \in BOOLEAN /\ segs[i].xmit \in 0..XmitTop
<1>1. segs[i] \in Seg
  BY ElementOfSeq
<1> QED
  BY <1>1 DEF Seg

LEMMA TotalSteps ==
  ASSUME NEW segs, Len(segs) \in Nat
  PROVE  \E g : /\ g[0] = 0
                /\ \A i \in 1..Len(segs) : g[i] = g[i - 1] + segs[i].len
                /\ Total(segs) = g[Len(segs)]
<1> DEFINE Step(g, i) == IF i = 0 THEN 0 ELSE g[i - 1] + segs[i].len
           Good(n) == \E g : g = [i \in 0..n |-> Step(g, i)]
<1>1. Good(0)
  <2> DEFINE g == [i \in 0..0 |-> 0]
  <2>1. g = [i \in 0..0 |-> Step(g, i)]
    OBVIOUS
  <2> QED
    BY <2>1
<1>2. ASSUME NEW n \in Nat, Good(n)
      PROVE  Good(n + 1)
  <2>1. PICK g : g = [i \in 0..n |-> Step(g, i)]
    BY <1>2
  <2> DEFINE h == [i \in 0..(n + 1) |-> IF i <= n THEN g[i] ELSE g[n] + segs[n + 1].len]
  <2>2. ASSUME NEW i \in 0..(n + 1)
        PROVE  h[i] = Step(h, i)
    <3>1. CASE i <= n
      <4>1. h[i] = g[i]
        BY <3>1
      <4>2. g[i] = Step(g, i)
        BY <2>1, <3>1
      <4>3. i # 0 => h[i - 1] = g[i - 1]
        BY <3>1
      <4> QED
        BY <4>1, <4>2, <4>3
    <3>2. CASE i = n + 1
      <4>1. h[i] = g[n] + segs[n + 1].len /\ h[i - 1] = g[n]
        BY <3>2
      <4> QED
        BY <4>1, <3>2
    <3> QED
      BY <3>1, <3>2
  <2>3. h = [i \in 0..(n + 1) |-> h[i]]
    OBVIOUS
  <2> HIDE DEF h
  <2>4. h = [i \in 0..(n + 1) |-> Step(h, i)]
    BY <2>2, <2>3
  <2> QED
    BY <2>4
<1>3. \A n \in Nat : Good(n)
  <2> DEFINE P == {n \in Nat : Good(n)}
  <2>1. P \in SUBSET Nat /\ 0 \in P /\ \A n \in P : n + 1 \in P
    BY <1>1, <1>2
  <2>2. P = Nat
    <3> HIDE DEF P
    <3> QED
      BY <2>1, NatIsInductive
  <2> QED
    BY <2>2
<1>4. Good(Len(segs))
  BY <1>3
<1> DEFINE sum == CHOOSE g : g = [i \in 0..Len(segs) |-> Step(g, i)]
<1>5. sum = [i \in 0..Len(segs) |-> Step(sum, i)]
  BY <1>4
<1>6. Total(segs) = sum[Len(segs)]
  BY DEF Total
<1> HIDE DEF sum
<1>7. /\ sum[0] = 0
      /\ \A i \in 1..Len(segs) : sum[i] = sum[i - 1] + segs[i].len
  BY <1>5
<1> QED
  BY <1>6, <1>7

LEMMA TotalOfPrefix ==
  ASSUME NEW segs, NEW una \in Nat, NEW n \in Nat, Chain(segs, una, n),
         NEW k \in 0..Len(segs)
  PROVE  Total(SubSeq(segs, 1, k)) = Until(segs, una, k) - una
<1> DEFINE s == SubSeq(segs, 1, k)
<1>1. segs \in Seq(Seg) /\ Len(segs) \in Nat
  BY DEF Chain
<1>2. Len(s) = k /\ \A i \in 1..k : s[i] = segs[i]
  BY <1>1, PrefixProperties
<1> HIDE DEF s
<1>3. PICK g : /\ g[0] = 0
               /\ \A i \in 1..k : g[i] = g[i - 1] + segs[i].len
               /\ Total(s) = g[k]
  <2>1. PICK g : /\ g[0] = 0
                 /\ \A i \in 1..Len(s) : g[i] = g[i - 1] + s[i].len
                 /\ Total(s) = g[Len(s)]
    BY <1>2, TotalSteps, SMTT(30)
  <2> QED
    BY <2>1, <1>2
<1> DEFINE P == {i \in Nat : i <= k => g[i] = Until(segs, una, i) - una}
<1>4. 0 \in P
  BY <1>3 DEF Until
<1>5. ASSUME NEW i \in P
      PROVE  i + 1 \in P
  <2>1. SUFFICES ASSUME i + 1 <= k
                 PROVE  g[i + 1] = Until(segs, una, i + 1) - una
    OBVIOUS
  <2>2. i + 1 \in 1..k /\ i + 1 \in 1..Len(segs) /\ (i + 1) - 1 = i
    BY <2>1, <1>1
  <2>3. g[i + 1] = g[i] + segs[i + 1].len /\ g[i] = Until(segs, una, i) - una
    BY <2>2, <1>3, <2>1
  <2>4. segs[i + 1].seq = Until(segs, una, i)
    <3>1. CASE i = 0
      BY <3>1, <2>2 DEF Chain, Until
    <3>2. CASE i > 0
      <4>1. i \in 1..Len(segs)
        BY <3>2, <2>2, <1>1
      <4>2. segs[i + 1].seq = EndOf(segs[i])
        BY <4>1, <2>2 DEF Chain
      <4> QED
        BY <4>2, <3>2 DEF Until, EndOf
    <3> QED
      BY <3>1, <3>2
  <2>5. segs[i + 1].seq \in Nat /\ segs[i + 1].len \in Nat
    BY <2>2, <1>1, SegIsTyped
  <2>6. Until(segs, una, i + 1) = segs[i + 1].seq + segs[i + 1].len
    BY <2>2 DEF Until
  <2> QED
    BY <2>3, <2>4, <2>5, <2>6
<1>6. P = Nat
  <2>1. P \in SUBSET Nat
    OBVIOUS
  <2> HIDE DEF P
  <2> QED
    BY <2>1, <1>4, <1>5, NatIsInductive
<1>7. g[k] = Until(segs, una, k) - una
  BY <1>6, <1>1
<1> QED
  BY <1>3, <1>7 DEF s

---------------------------------------------------------------------------
(* What each assignment of the handlers leaves as it was.                  *)

TcbFields ==
  {"state", "shutdown", "rcv_nxt", "rcv_wnd", "rbuf", "nread", "ahead", "rlist",
   "bReadEnable", "snd_una", "snd_nxt", "snd_wnd", "slist", "sbuf", "bWriteEnable",
   "rto", "t_ack", "dup_acks", "recover", "lastack"}
CallFields == {"peer", "out", "nagling", "failed", "refuse", "cwnd"}
Fields == TcbFields \cup CallFields
IsWork(w) == w = [f \in Fields |-> w[f]]

KeepsSend(w, t) ==
  /\ w.snd_una = t.snd_una /\ w.snd_nxt = t.snd_nxt /\ w.snd_wnd = t.snd_wnd
  /\ w.slist = t.slist /\ w.sbuf = t.sbuf /\ w.rto = t.rto /\ w.recover = t.recover
KeepsRecv(w, t) ==
  /\ w.shutdown = t.shutdown /\ w.rcv_nxt = t.rcv_nxt /\ w.rcv_wnd = t.rcv_wnd
  /\ w.rbuf = t.rbuf /\ w.nread = t.nread /\ w.ahead = t.ahead /\ w.rlist = t.rlist
KeepsUser(w, t) == w.bReadEnable = t.bReadEnable /\ w.bWriteEnable = t.bWriteEnable
KeepsCall(w, t) ==
  w.peer = t.peer /\ w.nagling = t.nagling /\ w.refuse = t.refuse /\ w.cwnd = t.cwnd
KeepsOut(w, t) == w.out = t.out /\ w.t_ack = t.t_ack /\ w.lastack = t.lastack

SetsFailed(w, t, v) ==
  /\ IsWork(w) /\ w.failed = v
  /\ KeepsSend(w, t) /\ KeepsRecv(w, t) /\ KeepsUser(w, t) /\ KeepsCall(w, t)
  /\ KeepsOut(w, t) /\ w.state = t.state /\ w.dup_acks = t.dup_acks
LEMMA FailedEffect ==
  ASSUME NEW t, IsWork(t), NEW v
  PROVE  SetsFailed([t EXCEPT !.failed = v], t, v)
BY DEF SetsFailed, IsWork, Fields, TcbFields, CallFields,
       KeepsSend, KeepsRecv, KeepsUser, KeepsCall, KeepsOut

SetsDupAcks(w, t, v) ==
  /\ IsWork(w) /\ w.dup_acks = v
  /\ KeepsSend(w, t) /\ KeepsRecv(w, t) /\ KeepsUser(w, t) /\ KeepsCall(w, t)
  /\ KeepsOut(w, t) /\ w.state = t.state /\ w.failed = t.failed
LEMMA DupAcksEffect ==
  ASSUME NEW t, IsWork(t), NEW v
  PROVE  SetsDupAcks([t EXCEPT !.dup_acks = v], t, v)
BY DEF SetsDupAcks, IsWork, Fields, TcbFields, CallFields,
       KeepsSend, KeepsRecv, KeepsUser, KeepsCall, KeepsOut

SetsState(w, t, v) ==
  /\ IsWork(w) /\ w.state = v
  /\ KeepsSend(w, t) /\ KeepsRecv(w, t) /\ KeepsUser(w, t) /\ KeepsCall(w, t)
  /\ KeepsOut(w, t) /\ w.dup_acks = t.dup_acks /\ w.failed = t.failed
LEMMA StateEffect ==
  ASSUME NEW t, IsWork(t), NEW v
  PROVE  SetsState([t EXCEPT !.state = v], t, v)
BY DEF SetsState, IsWork, Fields, TcbFields, CallFields,
       KeepsSend, KeepsRecv, KeepsUser, KeepsCall, KeepsOut

SetsTAck(w, t, v) ==
  /\ IsWork(w) /\ w.t_ack = v /\ w.lastack = t.lastack /\ w.out = t.out
  /\ KeepsSend(w, t) /\ KeepsRecv(w, t) /\ KeepsUser(w, t) /\ KeepsCall(w, t)
  /\ w.state = t.state /\ w.dup_acks = t.dup_acks /\ w.failed = t.failed
LEMMA TAckEffect ==
  ASSUME NEW t, IsWork(t), NEW v
  PROVE  SetsTAck([t EXCEPT !.t_ack = v], t, v)
BY DEF SetsTAck, IsWork, Fields, TcbFields, CallFields,
       KeepsSend, KeepsRecv, KeepsUser, KeepsCall

PutsPacket(w, t, seq, ctl, len) ==
  /\ IsWork(w) /\ w.t_ack = FALSE /\ w.lastack = t.rcv_nxt
  /\ w.out = IF t.refuse THEN t.out
             ELSE t.out \cup {[to |-> t.peer, seq |-> seq, ack |-> t.rcv_nxt,
                               ctl |-> ctl, len |-> len,
                               wnd |-> t.rcv_wnd \div WindowUnit]}
  /\ KeepsSend(w, t) /\ KeepsRecv(w, t) /\ KeepsUser(w, t) /\ KeepsCall(w, t)
  /\ w.state = t.state /\ w.dup_acks = t.dup_acks /\ w.failed = t.failed

LEMMA PutPacketEffect ==
  ASSUME NEW t, IsWork(t), NEW seq, NEW ctl, NEW len
  PROVE  PutsPacket(PutPacket(t, seq, ctl, len), t, seq, ctl, len)
BY ZenonT(40) DEF PutPacket, PutsPacket, IsWork, Fields, TcbFields, CallFields,
       KeepsSend, KeepsRecv, KeepsUser, KeepsCall

Queued(t, n, ctl) ==
  IF Len(t.slist) > 0 /\ t.slist[Len(t.slist)].bCtrl = ctl /\ t.slist[Len(t.slist)].xmit = 0
  THEN [t.slist EXCEPT ![Len(t.slist)].len = @ + n]
  ELSE Append(t.slist, [seq |-> t.snd_una + t.sbuf, len |-> n, bCtrl |-> ctl, xmit |-> 0])
Queues(w, t, n, ctl) ==
  /\ IsWork(w) /\ w.sbuf = t.sbuf + n /\ w.slist = Queued(t, n, ctl)
  /\ w.snd_una = t.snd_una /\ w.snd_nxt = t.snd_nxt /\ w.snd_wnd = t.snd_wnd
  /\ w.rto = t.rto /\ w.recover = t.recover
  /\ KeepsRecv(w, t) /\ KeepsUser(w, t) /\ KeepsCall(w, t) /\ KeepsOut(w, t)
  /\ w.state = t.state /\ w.dup_acks = t.dup_acks /\ w.failed = t.failed

LEMMA QueueEffect ==
  ASSUME NEW t, IsWork(t), NEW n, NEW ctl
  PROVE  Queues(Queue(t, n, ctl), t, n, ctl)
<1>1. Queue(t, n, ctl) = [t EXCEPT !.sbuf = t.sbuf + n, !.slist = Queued(t, n, ctl)]
  BY DEF Queue, Queued
<1>2. PICK l : l = Queued(t, n, ctl)
  OBVIOUS
<1> DEFINE w == [t EXCEPT !.sbuf = t.sbuf + n, !.slist = l]
<1>3. /\ IsWork(w) /\ w.sbuf = t.sbuf + n /\ w.slist = l
      /\ w.snd_una = t.snd_una /\ w.snd_nxt = t.snd_nxt /\ w.snd_wnd = t.snd_wnd
      /\ w.rto = t.rto /\ w.recover = t.recover
      /\ KeepsRecv(w, t) /\ KeepsUser(w, t) /\ KeepsCall(w, t) /\ KeepsOut(w, t)
      /\ w.state = t.state /\ w.dup_acks = t.dup_acks /\ w.failed = t.failed
  BY DEF IsWork, Fields, TcbFields, CallFields, KeepsRecv, KeepsUser, KeepsCall, KeepsOut
<1> HIDE DEF w
<1>4. Queue(t, n, ctl) = w
  BY <1>1, <1>2 DEF w
<1>5. Queues(w, t, n, ctl)
  BY <1>2, <1>3 DEF Queues
<1> QED
  BY <1>4, <1>5

SetsSlist(w, t, v) ==
  /\ IsWork(w) /\ w.slist = v
  /\ w.snd_una = t.snd_una /\ w.snd_nxt = t.snd_nxt /\ w.snd_wnd = t.snd_wnd
  /\ w.sbuf = t.sbuf /\ w.rto = t.rto /\ w.recover = t.recover
  /\ KeepsRecv(w, t) /\ KeepsUser(w, t) /\ KeepsCall(w, t) /\ KeepsOut(w, t)
  /\ w.state = t.state /\ w.dup_acks = t.dup_acks /\ w.failed = t.failed
LEMMA SlistEffect ==
  ASSUME NEW t, IsWork(t), NEW v
  PROVE  SetsSlist([t EXCEPT !.slist = v], t, v)
BY DEF SetsSlist, IsWork, Fields, TcbFields, CallFields,
       KeepsRecv, KeepsUser, KeepsCall, KeepsOut

(* What transmit() does with the record that packet() leaves.              *)
Sends(w, p, nxt, ls) ==
  /\ IsWork(w) /\ w.snd_nxt = nxt /\ w.slist = ls /\ w.rto = TRUE
  /\ w.snd_una = p.snd_una /\ w.snd_wnd = p.snd_wnd
  /\ w.sbuf = p.sbuf /\ w.recover = p.recover
  /\ KeepsRecv(w, p) /\ KeepsUser(w, p) /\ KeepsCall(w, p) /\ KeepsOut(w, p)
  /\ w.state = p.state /\ w.dup_acks = p.dup_acks /\ w.failed = p.failed

LEMMA SentEffect ==
  ASSUME NEW p, IsWork(p), NEW nxt, NEW ls
  PROVE  Sends([p EXCEPT !.snd_nxt = nxt, !.slist = ls, !.rto = TRUE], p, nxt, ls)
BY DEF Sends, IsWork, Fields, TcbFields, CallFields, KeepsRecv, KeepsUser, KeepsCall, KeepsOut

LEMMA NestedExcept ==
  ASSUME NEW p, IsWork(p), NEW i, NEW nxt
  PROVE  [p EXCEPT !.snd_nxt = nxt, !.slist[i].xmit = @ + 1, !.rto = TRUE]
           = [p EXCEPT !.snd_nxt = nxt,
                       !.slist = [p.slist EXCEPT ![i] = [p.slist[i] EXCEPT !.xmit = @ + 1]],
                       !.rto = TRUE]
BY DEF IsWork, Fields, TcbFields, CallFields

SetsNewAck(w, t, wnd, una, rto, sbuf, ls) ==
  /\ IsWork(w) /\ w.snd_wnd = wnd /\ w.snd_una = una /\ w.rto = rto
  /\ w.sbuf = sbuf /\ w.slist = ls
  /\ w.snd_nxt = t.snd_nxt /\ w.recover = t.recover
  /\ KeepsRecv(w, t) /\ KeepsUser(w, t) /\ KeepsCall(w, t) /\ KeepsOut(w, t)
  /\ w.state = t.state /\ w.dup_acks = t.dup_acks /\ w.failed = t.failed
LEMMA NewAckEffect ==
  ASSUME NEW t, IsWork(t), NEW wnd, NEW una, NEW rto, NEW sbuf, NEW ls
  PROVE  SetsNewAck([t EXCEPT !.snd_wnd = wnd, !.snd_una = una, !.rto = rto, !.sbuf = sbuf,
                              !.slist = ls], t, wnd, una, rto, sbuf, ls)
BY ZenonT(40) DEF SetsNewAck, IsWork, Fields, TcbFields, CallFields,
       KeepsRecv, KeepsUser, KeepsCall, KeepsOut

SetsWindow(w, t, v) ==
  /\ IsWork(w) /\ w.snd_wnd = v
  /\ w.snd_una = t.snd_una /\ w.snd_nxt = t.snd_nxt /\ w.slist = t.slist
  /\ w.sbuf = t.sbuf /\ w.rto = t.rto /\ w.recover = t.recover
  /\ KeepsRecv(w, t) /\ KeepsUser(w, t) /\ KeepsCall(w, t) /\ KeepsOut(w, t)
  /\ w.state = t.state /\ w.dup_acks = t.dup_acks /\ w.failed = t.failed
LEMMA WindowEffect ==
  ASSUME NEW t, IsWork(t), NEW v
  PROVE  SetsWindow([t EXCEPT !.snd_wnd = v], t, v)
BY DEF SetsWindow, IsWork, Fields, TcbFields, CallFields,
       KeepsRecv, KeepsUser, KeepsCall, KeepsOut

SetsRecover(w, t, v) ==
  /\ IsWork(w) /\ w.recover = v
  /\ w.snd_una = t.snd_una /\ w.snd_nxt = t.snd_nxt /\ w.slist = t.slist
  /\ w.sbuf = t.sbuf /\ w.rto = t.rto /\ w.snd_wnd = t.snd_wnd
  /\ KeepsRecv(w, t) /\ KeepsUser(w, t) /\ KeepsCall(w, t) /\ KeepsOut(w, t)
  /\ w.state = t.state /\ w.dup_acks = t.dup_acks /\ w.failed = t.failed
LEMMA RecoverEffect ==
  ASSUME NEW t, IsWork(t), NEW v
  PROVE  SetsRecover([t EXCEPT !.recover = v], t, v)
BY DEF SetsRecover, IsWork, Fields, TcbFields, CallFields,
       KeepsRecv, KeepsUser, KeepsCall, KeepsOut

SetsOpen(w, t, state, bWriteEnable) ==
  /\ IsWork(w) /\ w.state = state /\ w.bWriteEnable = bWriteEnable
  /\ w.bReadEnable = t.bReadEnable
  /\ KeepsSend(w, t) /\ KeepsRecv(w, t) /\ KeepsCall(w, t) /\ KeepsOut(w, t)
  /\ w.dup_acks = t.dup_acks /\ w.failed = t.failed
LEMMA OpenEffect ==
  ASSUME NEW t, IsWork(t), NEW state, NEW bWriteEnable
  PROVE  SetsOpen([t EXCEPT !.state = state, !.bWriteEnable = bWriteEnable], t, state, bWriteEnable)
BY DEF SetsOpen, IsWork, Fields, TcbFields, CallFields,
       KeepsSend, KeepsRecv, KeepsUser, KeepsCall, KeepsOut

SetsAhead(w, t, v) ==
  /\ IsWork(w) /\ w.ahead = v
  /\ w.shutdown = t.shutdown /\ w.rcv_nxt = t.rcv_nxt /\ w.rcv_wnd = t.rcv_wnd
  /\ w.rbuf = t.rbuf /\ w.nread = t.nread /\ w.rlist = t.rlist
  /\ KeepsSend(w, t) /\ KeepsUser(w, t) /\ KeepsCall(w, t) /\ KeepsOut(w, t)
  /\ w.state = t.state /\ w.dup_acks = t.dup_acks /\ w.failed = t.failed
LEMMA AheadEffect ==
  ASSUME NEW t, IsWork(t), NEW v
  PROVE  SetsAhead([t EXCEPT !.ahead = v], t, v)
BY DEF SetsAhead, IsWork, Fields, TcbFields, CallFields,
       KeepsSend, KeepsUser, KeepsCall, KeepsOut

SetsRlist(w, t, v) ==
  /\ IsWork(w) /\ w.rlist = v
  /\ w.shutdown = t.shutdown /\ w.rcv_nxt = t.rcv_nxt /\ w.rcv_wnd = t.rcv_wnd
  /\ w.rbuf = t.rbuf /\ w.nread = t.nread /\ w.ahead = t.ahead
  /\ KeepsSend(w, t) /\ KeepsUser(w, t) /\ KeepsCall(w, t) /\ KeepsOut(w, t)
  /\ w.state = t.state /\ w.dup_acks = t.dup_acks /\ w.failed = t.failed
LEMMA RlistEffect ==
  ASSUME NEW t, IsWork(t), NEW v
  PROVE  SetsRlist([t EXCEPT !.rlist = v], t, v)
BY DEF SetsRlist, IsWork, Fields, TcbFields, CallFields,
       KeepsSend, KeepsUser, KeepsCall, KeepsOut

SetsRcvNxt(w, t, v) ==
  /\ IsWork(w) /\ w.rcv_nxt = v
  /\ w.shutdown = t.shutdown /\ w.rlist = t.rlist /\ w.rcv_wnd = t.rcv_wnd
  /\ w.rbuf = t.rbuf /\ w.nread = t.nread /\ w.ahead = t.ahead
  /\ KeepsSend(w, t) /\ KeepsUser(w, t) /\ KeepsCall(w, t) /\ KeepsOut(w, t)
  /\ w.state = t.state /\ w.dup_acks = t.dup_acks /\ w.failed = t.failed
LEMMA RcvNxtEffect ==
  ASSUME NEW t, IsWork(t), NEW v
  PROVE  SetsRcvNxt([t EXCEPT !.rcv_nxt = v], t, v)
BY DEF SetsRcvNxt, IsWork, Fields, TcbFields, CallFields,
       KeepsSend, KeepsUser, KeepsCall, KeepsOut

SetsConsume(w, t, n) ==
  /\ IsWork(w) /\ w.rbuf = t.rbuf \o SubSeq(t.ahead, 1, n)
  /\ w.ahead = SubSeq(t.ahead, n + 1, Len(t.ahead))
  /\ w.rcv_nxt = t.rcv_nxt + n /\ w.rcv_wnd = t.rcv_wnd - n
  /\ w.shutdown = t.shutdown /\ w.rlist = t.rlist /\ w.nread = t.nread
  /\ KeepsSend(w, t) /\ KeepsUser(w, t) /\ KeepsCall(w, t) /\ KeepsOut(w, t)
  /\ w.state = t.state /\ w.dup_acks = t.dup_acks /\ w.failed = t.failed
LEMMA ConsumeEffect ==
  ASSUME NEW t, IsWork(t), NEW n
  PROVE  SetsConsume(Consume(t, n), t, n)
BY ZenonT(40) DEF SetsConsume, Consume, IsWork, Fields, TcbFields, CallFields,
       KeepsSend, KeepsUser, KeepsCall, KeepsOut

SetsRead(w, t, rbuf, nread, ahead) ==
  /\ IsWork(w) /\ w.rbuf = rbuf /\ w.nread = nread /\ w.ahead = ahead
  /\ w.shutdown = t.shutdown /\ w.rlist = t.rlist
  /\ w.rcv_nxt = t.rcv_nxt /\ w.rcv_wnd = t.rcv_wnd
  /\ KeepsSend(w, t) /\ KeepsUser(w, t) /\ KeepsCall(w, t) /\ KeepsOut(w, t)
  /\ w.state = t.state /\ w.dup_acks = t.dup_acks /\ w.failed = t.failed
LEMMA ReadEffect ==
  ASSUME NEW t, IsWork(t), NEW rbuf, NEW nread, NEW ahead
  PROVE  SetsRead([t EXCEPT !.rbuf = rbuf, !.nread = nread, !.ahead = ahead], t, rbuf, nread, ahead)
BY DEF SetsRead, IsWork, Fields, TcbFields, CallFields,
       KeepsSend, KeepsUser, KeepsCall, KeepsOut

SetsOpens(w, t, rcv_wnd, isFailed) ==
  /\ IsWork(w) /\ w.rcv_wnd = rcv_wnd /\ w.failed = isFailed
  /\ w.shutdown = t.shutdown /\ w.rlist = t.rlist
  /\ w.rcv_nxt = t.rcv_nxt /\ w.rbuf = t.rbuf /\ w.nread = t.nread
  /\ w.ahead = t.ahead
  /\ KeepsSend(w, t) /\ KeepsUser(w, t) /\ KeepsCall(w, t) /\ KeepsOut(w, t)
  /\ w.state = t.state /\ w.dup_acks = t.dup_acks
LEMMA OpensEffect ==
  ASSUME NEW t, IsWork(t), NEW rcv_wnd, NEW isFailed
  PROVE  SetsOpens([t EXCEPT !.rcv_wnd = rcv_wnd, !.failed = isFailed], t, rcv_wnd, isFailed)
BY DEF SetsOpens, IsWork, Fields, TcbFields, CallFields,
       KeepsSend, KeepsUser, KeepsCall, KeepsOut

SetsReadEnable(w, t, v) ==
  /\ IsWork(w) /\ w.bReadEnable = v /\ w.bWriteEnable = t.bWriteEnable
  /\ KeepsSend(w, t) /\ KeepsRecv(w, t) /\ KeepsCall(w, t) /\ KeepsOut(w, t)
  /\ w.state = t.state /\ w.dup_acks = t.dup_acks /\ w.failed = t.failed
LEMMA ReadEnableEffect ==
  ASSUME NEW t, IsWork(t), NEW v
  PROVE  SetsReadEnable([t EXCEPT !.bReadEnable = v], t, v)
BY DEF SetsReadEnable, IsWork, Fields, TcbFields, CallFields,
       KeepsSend, KeepsRecv, KeepsCall, KeepsOut

---------------------------------------------------------------------------
(* The segments of the queue, of which the first k were sent.              *)

SegOK(s) == /\ s.bCtrl => EndOf(s) <= ConnectLen
            /\ ~s.bCtrl => s.seq >= ConnectLen
            /\ s.xmit > 0 => s.len <= Mss
AllOK(segs) == \A i \in 1..Len(segs) : SegOK(segs[i])

SentTo(segs, una, nxt, k) ==
  /\ k \in 0..Len(segs)
  /\ k = 0 => nxt = una
  /\ \A i \in 1..Len(segs) : i = k => nxt = EndOf(segs[i])
  /\ \A i \in 1..Len(segs) : segs[i].xmit > 0 <=> i <= k

EndIn(segs, una, x) ==
  \/ x \in 0..una
  \/ \E i \in 1..Len(segs) : segs[i].xmit > 0 /\ x = EndOf(segs[i])

LEMMA ConstantTypes ==
  /\ Mss \in Nat \ {0} /\ ConnectLen \in Nat \ {0} /\ RcvBuf \in Nat \ {0}
  /\ SndBuf \in Nat \ {0} /\ WindowUnit \in Nat \ {0} /\ FastRetransmit \in Nat \ {0}
  /\ DupAcks \in Nat \ {0} /\ MaxXmit \in Nat \ {0} /\ MaxXmitConnecting \in Nat \ {0}
  /\ ConnectLen <= RcvBuf /\ RcvBuf < SndBuf
BY Sizes

(* Segment k + 1 of segs is split into a and b.                            *)
Halves(s, a, b) ==
  /\ a.seq = s.seq /\ b.seq = EndOf(a) /\ a.len + b.len = s.len
  /\ a.bCtrl = s.bCtrl /\ b.bCtrl = s.bCtrl /\ a.xmit = s.xmit /\ b.xmit = s.xmit
SplitAt(v, segs, k, s, a, b) ==
  /\ segs[k + 1] = s
  /\ Len(v) = Len(segs) + 1 /\ v[k + 1] = a /\ v[k + 2] = b
  /\ \A i \in 1..Len(v), j \in 1..Len(segs) :
       (j <= k /\ i = j) \/ (j > k + 1 /\ i = j + 1) => v[i] = segs[j]

LEMMA SplitChain ==
  ASSUME NEW segs, NEW una \in Nat, NEW n \in Nat, NEW nxt, NEW k \in Nat,
         Chain(segs, una, n), SentTo(segs, una, nxt, k), k < Len(segs), AllOK(segs),
         NEW s \in Seg, NEW a \in Seg, NEW b \in Seg,
         Halves(s, a, b), NEW v \in Seq(Seg), SplitAt(v, segs, k, s, a, b)
  PROVE  /\ Chain(v, una, n) /\ SentTo(v, una, nxt, k) /\ AllOK(v)
         /\ \A x : EndIn(segs, una, x) => EndIn(v, una, x)
<1>1. segs \in Seq(Seg) /\ Len(segs) \in Nat /\ k + 1 \in 1..Len(segs)
  BY DEF Chain
<1>2. s = segs[k + 1]
  BY DEF SplitAt
<1>3. s.seq \in Nat /\ s.len \in Nat \ {0} /\ s.xmit \in 0..XmitTop
  BY DEF Seg
<1>4. /\ a.seq = s.seq /\ a.len \in Nat \ {0} /\ a.bCtrl = s.bCtrl /\ a.xmit = s.xmit
      /\ b.seq = a.seq + a.len /\ b.len \in Nat \ {0} /\ a.len + b.len = s.len
      /\ b.bCtrl = s.bCtrl /\ b.xmit = s.xmit
  BY DEF Seg, EndOf, Halves
<1>5. EndOf(a) = s.seq + a.len /\ EndOf(b) = EndOf(s) /\ EndOf(s) = s.seq + s.len
  BY <1>3, <1>4 DEF EndOf
<1>f. /\ EndOf(a) \in Nat /\ EndOf(s) \in Nat /\ EndOf(a) <= EndOf(s)
      /\ a.seq \in Nat /\ b.seq \in Nat /\ s.seq \in Nat /\ s.seq <= b.seq
  <2>1. a.seq = s.seq /\ s.seq \in Nat /\ EndOf(a) = s.seq + a.len /\ EndOf(s) = s.seq + s.len
    BY <1>3, <1>4, <1>5
  <2>2. a.len + b.len = s.len /\ a.len \in Nat /\ b.len \in Nat /\ s.len \in Nat
    BY <1>3, <1>4
  <2>3. b.seq = a.seq + a.len
    BY <1>4
  <2> QED
    BY <2>1, <2>2, <2>3, SMTT(30)
<1>6. s.xmit = 0
  <2>1. s.xmit > 0 <=> k + 1 <= k
    BY <1>1, <1>2 DEF SentTo
  <2> QED
    BY <2>1, <1>3, XmitBounds
<1>m. /\ Len(v) = Len(segs) + 1 /\ v[k + 1] = a /\ v[k + 2] = b
      /\ \A i \in 1..Len(v), j \in 1..Len(segs) :
           (j <= k /\ i = j) \/ (j > k + 1 /\ i = j + 1) => v[i] = segs[j]
  BY DEF SplitAt
<1>l. Len(v) = Len(segs) + 1
  BY <1>m
<1> DEFINE At(i, l) == \/ l \in 1..k /\ i = l /\ v[i] = segs[l]
                       \/ l \in (k + 2)..Len(segs) /\ i = l + 1 /\ v[i] = segs[l]
<1>7. ASSUME NEW i \in 1..Len(v)
      PROVE  \/ i = k + 1 /\ v[i] = a
             \/ i = k + 2 /\ v[i] = b
             \/ \E l \in 1..Len(segs) : At(i, l)
  <2>1. CASE i <= k
    <3>1. i \in 1..Len(segs) /\ v[i] = segs[i]
      BY <2>1, <1>1, <1>m
    <3> QED
      BY <3>1, <2>1
  <2>2. CASE i > k + 2
    <3> DEFINE l == i - 1
    <3>1. l \in 1..Len(segs) /\ l > k + 1 /\ i = l + 1
      BY <2>2, <1>1, <1>l
    <3> HIDE DEF l
    <3>2. v[i] = segs[l]
      BY <3>1, <1>m
    <3> QED
      BY <3>1, <3>2
  <2>3. CASE i = k + 1 \/ i = k + 2
    BY <2>3, <1>m
  <2> QED
    BY <2>1, <2>2, <2>3, <1>1
<1>8. \A i \in 1..Len(segs) : segs[i].seq \in Nat
  BY <1>1, SegIsTyped
<1>c. \A i \in 1..Len(segs) : segs[i].len \in Nat \ {0}
  BY <1>1, SegIsTyped
<1>d. \A i \in 1..Len(segs) : EndOf(segs[i]) \in Nat
  BY <1>8, <1>c DEF EndOf
<1>9. \A i \in 1..Len(segs) : i = 1 => segs[i].seq = una
  BY DEF Chain
<1>e. \A i \in 1..Len(segs) : i = Len(segs) => EndOf(segs[i]) = una + n
  BY DEF Chain
<1>a. \A i, j \in 1..Len(segs) : j = i + 1 => segs[j].seq = EndOf(segs[i])
  BY DEF Chain
<1>b. \A i, j \in 1..Len(segs) : i < j => EndOf(segs[i]) <= segs[j].seq
  BY DEF Chain
<1>10. ASSUME NEW i \in 1..Len(v)
       PROVE  /\ i = 1 => v[i].seq = una
              /\ i = Len(v) => EndOf(v[i]) = una + n
              /\ SegOK(v[i])
              /\ i = k => nxt = EndOf(v[i])
              /\ v[i].xmit > 0 <=> i <= k
  <2>1. CASE i = k + 1 /\ v[i] = a
    <3>1. SegOK(a)
      <4>1. SegOK(s)
        BY <1>1, <1>2 DEF AllOK
      <4>2. /\ a.seq = s.seq /\ a.bCtrl = s.bCtrl /\ ~(a.xmit > 0)
            /\ b.bCtrl = s.bCtrl /\ ~(b.xmit > 0)
        BY <1>4, <1>6
      <4> QED
        BY <4>1, <4>2, <1>f, <1>5, ConstantTypes DEF SegOK
    <3> QED
      <4>1. i = 1 => s.seq = una
        BY <2>1, <1>1, <1>2, <1>9
      <4>2. i # Len(v) /\ i # k /\ ~(i <= k)
        BY <2>1, <1>1, <1>l
      <4>3. ~(v[i].xmit > 0)
        BY <2>1, <1>4, <1>6
      <4> QED
        BY <3>1, <4>1, <4>2, <4>3, <2>1, <1>4
  <2>2. CASE i = k + 2 /\ v[i] = b
    <3>1. SegOK(b)
      <4>1. SegOK(s)
        BY <1>1, <1>2 DEF AllOK
      <4>2. /\ a.seq = s.seq /\ a.bCtrl = s.bCtrl /\ ~(a.xmit > 0)
            /\ b.bCtrl = s.bCtrl /\ ~(b.xmit > 0)
        BY <1>4, <1>6
      <4> QED
        BY <4>1, <4>2, <1>f, <1>5, ConstantTypes DEF SegOK
    <3>2. i = Len(v) => EndOf(s) = una + n
      BY <2>2, <1>1, <1>2, <1>e, <1>l
    <3> QED
      BY <3>1, <3>2, <2>2, <1>4, <1>5, <1>6, <1>l
  <2>3. ASSUME NEW l \in 1..Len(segs), At(i, l)
        PROVE  /\ i = 1 => v[i].seq = una
               /\ i = Len(v) => EndOf(v[i]) = una + n
               /\ SegOK(v[i])
               /\ i = k => nxt = EndOf(v[i])
               /\ v[i].xmit > 0 <=> i <= k
    <3>1. v[i] = segs[l] /\ (i = 1 => l = 1) /\ (i = Len(v) => l = Len(segs))
          /\ (i = k => l = k) /\ (i <= k <=> l <= k)
      BY <2>3, <1>1, <1>l
    <3>2. SegOK(segs[l]) /\ (l = k => nxt = EndOf(segs[l])) /\ (segs[l].xmit > 0 <=> l <= k)
      BY DEF AllOK, SentTo
    <3> QED
      BY <3>1, <3>2, <1>9, <1>e
  <2> QED
    BY <1>7, <2>1, <2>2, <2>3
<1>11. ASSUME NEW i \in 1..Len(v), NEW j \in 1..Len(v)
       PROVE  /\ j = i + 1 => v[j].seq = EndOf(v[i])
              /\ i < j => EndOf(v[i]) <= v[j].seq
  <2>0. \A l \in 1..Len(segs) : l <= k => EndOf(segs[l]) <= s.seq
    BY <1>1, <1>2, <1>b
  <2>1. \A l \in 1..Len(segs) : l = k => EndOf(segs[l]) = s.seq
    BY <1>1, <1>2, <1>a
  <2>5. \A l \in 1..Len(segs) : l > k + 1 => EndOf(s) <= segs[l].seq
    BY <1>1, <1>2, <1>b
  <2>6. \A l \in 1..Len(segs) : l = k + 2 => EndOf(s) = segs[l].seq
    BY <1>1, <1>2, <1>a
  <2>2. CASE i = k + 1 /\ v[i] = a
    <3>1. CASE j = k + 1 /\ v[j] = a
      BY <2>2, <3>1
    <3>2. CASE j = k + 2 /\ v[j] = b
      BY <2>2, <3>2, <1>3, <1>4, <1>5
    <3>3. ASSUME NEW l \in 1..Len(segs), At(j, l)
          PROVE  /\ j = i + 1 => v[j].seq = EndOf(v[i])
                 /\ i < j => EndOf(v[i]) <= v[j].seq
      <4>1. (i < j => l > k + 1) /\ v[j] = segs[l] /\ j # i + 1
        BY <2>2, <3>3
      <4>2. i < j => EndOf(s) <= segs[l].seq
        BY <4>1, <2>5
      <4>3. segs[l].seq \in Nat
        BY <1>8
      <4> QED
        BY <4>1, <4>2, <4>3, <2>2, <1>f, SMTT(30)
    <3> QED
      BY <3>1, <3>2, <3>3, <1>7
  <2>3. CASE i = k + 2 /\ v[i] = b
    <3>1. CASE j = k + 1 /\ v[j] = a
      BY <2>3, <3>1
    <3>2. CASE j = k + 2 /\ v[j] = b
      BY <2>3, <3>2
    <3>3. ASSUME NEW l \in 1..Len(segs), At(j, l)
          PROVE  /\ j = i + 1 => v[j].seq = EndOf(v[i])
                 /\ i < j => EndOf(v[i]) <= v[j].seq
      <4>1. (i < j => l > k + 1) /\ v[j] = segs[l] /\ (j = i + 1 => l = k + 2)
        BY <2>3, <3>3
      <4>2. (l > k + 1 => EndOf(s) <= segs[l].seq) /\ (l = k + 2 => EndOf(s) = segs[l].seq)
        BY <2>5, <2>6
      <4> QED
        BY <4>1, <4>2, <2>3, <1>5
    <3> QED
      BY <3>1, <3>2, <3>3, <1>7
  <2>4. ASSUME NEW l \in 1..Len(segs), At(i, l)
        PROVE  /\ j = i + 1 => v[j].seq = EndOf(v[i])
               /\ i < j => EndOf(v[i]) <= v[j].seq
    <3>1. CASE j = k + 1 /\ v[j] = a
      <4>1. i < j => l <= k /\ v[i] = segs[l] /\ (j = i + 1 => l = k)
        BY <2>4, <3>1
      <4>2. l <= k => EndOf(segs[l]) <= s.seq /\ (l = k => EndOf(segs[l]) = s.seq)
        BY <2>0, <2>1
      <4> QED
        BY <4>1, <4>2, <3>1, <1>4
    <3>2. CASE j = k + 2 /\ v[j] = b
      <4>1. j # i + 1 /\ v[i] = segs[l] /\ (i < j => l <= k)
        BY <2>4, <3>2
      <4>2. l <= k => EndOf(segs[l]) <= s.seq
        BY <2>0
      <4> QED
        BY <4>1, <4>2, <3>2, <1>f, <1>d
    <3>3. ASSUME NEW m \in 1..Len(segs), At(j, m)
          PROVE  /\ j = i + 1 => v[j].seq = EndOf(v[i])
                 /\ i < j => EndOf(v[i]) <= v[j].seq
      <4>1. v[i] = segs[l] /\ v[j] = segs[m] /\ (i < j => l < m)
            /\ (j = i + 1 => m = l + 1)
        BY <2>4, <3>3, <1>1
      <4> QED
        BY <4>1, <1>a, <1>b
    <3> QED
      BY <3>1, <3>2, <3>3, <1>7
  <2> QED
    BY <2>2, <2>3, <2>4, <1>7
<1>12. ASSUME NEW x, EndIn(segs, una, x)
       PROVE  EndIn(v, una, x)
  <2>1. CASE x \in 0..una
    BY <2>1 DEF EndIn
  <2>2. ASSUME NEW i \in 1..Len(segs), segs[i].xmit > 0, x = EndOf(segs[i])
        PROVE  EndIn(v, una, x)
    <3>1. i \in 1..k /\ i \in 1..Len(v) /\ i <= k
      BY <2>2, <1>1, <1>l DEF SentTo
    <3>2. v[i] = segs[i]
      BY <3>1, <1>m
    <3> QED
      BY <3>1, <3>2, <2>2 DEF EndIn
  <2> QED
    BY <2>1, <2>2, <1>12 DEF EndIn
<1>13. Chain(v, una, n)
  BY <1>10, <1>11, <1>1, <1>l DEF Chain
<1>14. SentTo(v, una, nxt, k)
  BY <1>10, <1>1, <1>l DEF SentTo
<1> QED
  BY <1>13, <1>14, <1>10, <1>12 DEF AllOK

LEMMA ChainFacts ==
  ASSUME NEW segs, NEW una \in Nat, NEW n \in Nat, Chain(segs, una, n)
  PROVE  /\ segs \in Seq(Seg) /\ Len(segs) \in Nat
         /\ \A i \in 1..Len(segs) : segs[i] \in Seg
         /\ \A i \in 1..Len(segs) : segs[i].seq \in Nat
         /\ \A i \in 1..Len(segs) : segs[i].len \in Nat \ {0}
         /\ \A i \in 1..Len(segs) : EndOf(segs[i]) \in Nat
         /\ \A i \in 1..Len(segs) : segs[i].seq < EndOf(segs[i])
         /\ \A i \in 1..Len(segs) : EndOf(segs[i]) <= una + n
         /\ \A i \in 1..Len(segs) : una <= segs[i].seq
         /\ \A i \in 1..Len(segs) : EndOf(segs[i]) = segs[i].seq + segs[i].len
<1>1. segs \in Seq(Seg) /\ Len(segs) \in Nat
  BY DEF Chain
<1>2. \A i \in 1..Len(segs) : segs[i] \in Seg
  BY <1>1, ElementOfSeq
<1>3. \A i \in 1..Len(segs) : segs[i].seq \in Nat
  BY <1>1, SegIsTyped
<1>4. \A i \in 1..Len(segs) : segs[i].len \in Nat \ {0}
  BY <1>1, SegIsTyped
<1>5. \A i \in 1..Len(segs) : EndOf(segs[i]) = segs[i].seq + segs[i].len
  BY DEF EndOf
<1>6. ASSUME NEW i \in 1..Len(segs)
      PROVE  EndOf(segs[i]) \in Nat
  <2>1. segs[i].seq \in Nat /\ segs[i].len \in Nat \ {0}
    BY <1>3, <1>4
  <2> QED
    BY <2>1, <1>5
<1>7. ASSUME NEW i \in 1..Len(segs)
      PROVE  segs[i].seq < EndOf(segs[i])
  <2>1. segs[i].seq \in Nat /\ segs[i].len \in Nat \ {0}
    BY <1>3, <1>4
  <2> QED
    BY <2>1, <1>5
<1>8. ASSUME NEW i \in 1..Len(segs)
      PROVE  EndOf(segs[i]) <= una + n
  <2> DEFINE l == Len(segs)
  <2>1. l \in 1..Len(segs) /\ l = Len(segs) /\ l >= i
    BY <1>1
  <2> HIDE DEF l
  <2>2. EndOf(segs[l]) = una + n
    BY <2>1 DEF Chain
  <2>3. i = l \/ i < l
    BY <2>1
  <2>4. i < l => EndOf(segs[i]) <= segs[l].seq
    BY <2>1 DEF Chain
  <2>5. segs[l].seq < EndOf(segs[l]) /\ segs[l].seq \in Nat /\ EndOf(segs[l]) \in Nat
        /\ EndOf(segs[i]) \in Nat
    BY <2>1, <1>3, <1>6, <1>7
  <2> QED
    BY <2>2, <2>3, <2>4, <2>5
<1>9. ASSUME NEW i \in 1..Len(segs)
      PROVE  una <= segs[i].seq
  <2> DEFINE l == 1
  <2>1. l \in 1..Len(segs) /\ l = 1 /\ l <= i
    BY <1>1
  <2> HIDE DEF l
  <2>2. segs[l].seq = una
    BY <2>1 DEF Chain
  <2>3. i = l \/ l < i
    BY <2>1
  <2>4. l < i => EndOf(segs[l]) <= segs[i].seq
    BY <2>1 DEF Chain
  <2>5. segs[l].seq < EndOf(segs[l]) /\ segs[i].seq \in Nat /\ EndOf(segs[l]) \in Nat
    BY <2>1, <1>3, <1>6, <1>7
  <2> QED
    BY <2>2, <2>3, <2>4, <2>5
<1> QED
  BY <1>1, <1>2, <1>3, <1>4, <1>5, <1>6, <1>7, <1>8, <1>9

(* Where the sent part ends.                                               *)
LEMMA SentFacts ==
  ASSUME NEW segs, NEW una \in Nat, NEW n \in Nat, NEW nxt, NEW k, Chain(segs, una, n),
         SentTo(segs, una, nxt, k)
  PROVE  /\ nxt \in Nat /\ k \in 0..Len(segs) /\ una <= nxt /\ nxt <= una + n
         /\ una = nxt <=> k = 0
         /\ nxt < una + n <=> k < Len(segs)
         /\ \A x \in Nat : EndIn(segs, una, x) => x <= nxt
         /\ EndIn(segs, una, nxt)
         /\ \A i \in 1..Len(segs) : i = k + 1 => segs[i].seq = nxt
<1>1. k \in 0..Len(segs) /\ Len(segs) \in Nat
  BY ChainFacts DEF SentTo
<1>2. k = 0 => nxt = una
  BY DEF SentTo
<1>3. \A i \in 1..Len(segs) : i = k => nxt = EndOf(segs[i])
  BY DEF SentTo
<1>4. k > 0 => k \in 1..Len(segs)
  BY <1>1
<1>5. k > 0 => nxt = EndOf(segs[k])
  BY <1>3, <1>4
<1>6. k > 0 => /\ EndOf(segs[k]) \in Nat /\ segs[k].seq \in Nat /\ una <= segs[k].seq
               /\ segs[k].seq < EndOf(segs[k]) /\ EndOf(segs[k]) <= una + n
  BY <1>4, ChainFacts
<1>7. nxt \in Nat /\ una <= nxt /\ nxt <= una + n /\ (una = nxt <=> k = 0)
  BY <1>1, <1>2, <1>5, <1>6
<1>8. k = Len(segs) => nxt = una + n
  <2>1. CASE k = 0 /\ k = Len(segs)
    BY <2>1, <1>2 DEF Chain
  <2>2. CASE k > 0 /\ k = Len(segs)
    <3>1. EndOf(segs[k]) = una + n
      BY <2>2, <1>4 DEF Chain
    <3> QED
      BY <3>1, <2>2, <1>5
  <2> QED
    BY <2>1, <2>2, <1>1
<1>9. \A i \in 1..Len(segs) : i = k + 1 => segs[i].seq = nxt
  <2>1. SUFFICES ASSUME NEW i \in 1..Len(segs), i = k + 1
                 PROVE  segs[i].seq = nxt
    OBVIOUS
  <2>2. CASE k = 0
    BY <2>1, <2>2, <1>2 DEF Chain
  <2>3. CASE k > 0
    <3>1. segs[i].seq = EndOf(segs[k])
      BY <2>1, <2>3, <1>4 DEF Chain
    <3> QED
      BY <3>1, <2>3, <1>5
  <2> QED
    BY <2>2, <2>3, <1>1
<1>10. k < Len(segs) => nxt < una + n
  <2>1. SUFFICES ASSUME k < Len(segs)
                 PROVE  nxt < una + n
    OBVIOUS
  <2>2. PICK i \in 1..Len(segs) : i = k + 1
    BY <2>1, <1>1
  <2>3. segs[i].seq = nxt /\ segs[i].seq < EndOf(segs[i]) /\ EndOf(segs[i]) <= una + n
        /\ EndOf(segs[i]) \in Nat
    BY <2>2, <1>9, ChainFacts
  <2> QED
    BY <2>3, <1>7
<1>11. ASSUME NEW x \in Nat, EndIn(segs, una, x)
       PROVE  x <= nxt
  <2>1. CASE x \in 0..una
    BY <2>1, <1>7
  <2>2. ASSUME NEW i \in 1..Len(segs), segs[i].xmit > 0, x = EndOf(segs[i])
        PROVE  x <= nxt
    <3>1. i <= k
      BY <2>2 DEF SentTo
    <3>2. k \in 1..Len(segs) /\ k > 0
      BY <3>1, <1>1
    <3>3. i < k => EndOf(segs[i]) <= segs[k].seq
      BY <3>2 DEF Chain
    <3>4. EndOf(segs[i]) \in Nat
      BY ChainFacts
    <3>5. i = k => EndOf(segs[i]) = nxt
      BY <3>2, <1>5
    <3>6. i < k => EndOf(segs[i]) <= nxt
      BY <3>2, <3>3, <3>4, <1>5, <1>6
    <3>7. i = k \/ i < k
      BY <3>1, <3>2
    <3> QED
      BY <3>5, <3>6, <3>7, <2>2, <1>7
  <2> QED
    BY <2>1, <2>2, <1>11 DEF EndIn
<1>12. EndIn(segs, una, nxt)
  <2>1. CASE k = 0
    BY <2>1, <1>2 DEF EndIn
  <2>2. CASE k > 0
    <3>1. segs[k].xmit > 0
      BY <2>2, <1>4 DEF SentTo
    <3> QED
      BY <3>1, <2>2, <1>4, <1>5 DEF EndIn
  <2> QED
    BY <2>1, <2>2, <1>1
<1> QED
  BY <1>1, <1>7, <1>8, <1>9, <1>10, <1>11, <1>12

(* Segment i, which was sent before or comes next, is sent.                *)
SentAlike(v, segs, i) ==
  /\ Len(v) = Len(segs)
  /\ \A j \in 1..Len(segs) : v[j].seq = segs[j].seq
  /\ \A j \in 1..Len(segs) : v[j].len = segs[j].len
  /\ \A j \in 1..Len(segs) : v[j].bCtrl = segs[j].bCtrl
  /\ \A j \in 1..Len(segs) : j # i => v[j].xmit = segs[j].xmit
  /\ v[i].xmit = segs[i].xmit + 1

LEMMA TransmitChain ==
  ASSUME NEW segs, NEW una \in Nat, NEW n \in Nat, NEW nxt, NEW k,
         Chain(segs, una, n), SentTo(segs, una, nxt, k), AllOK(segs),
         NEW i \in 1..Len(segs), i <= k + 1, segs[i].len <= Mss,
         NEW v \in Seq(Seg), SentAlike(v, segs, i),
         NEW l \in Nat, k < i => l = i, i <= k => l = k,
         NEW to \in Nat, k < i => to = EndOf(segs[i]), i <= k => to = nxt
  PROVE  /\ Chain(v, una, n) /\ SentTo(v, una, to, l) /\ AllOK(v)
         /\ \A x : EndIn(segs, una, x) => EndIn(v, una, x)
         /\ EndIn(v, una, EndOf(segs[i]))
<1>1. /\ Len(v) = Len(segs) /\ Len(segs) \in Nat
      /\ k \in 0..Len(segs)
  BY ChainFacts, SentFacts DEF SentAlike
<1>2. \A j \in 1..Len(segs) : v[j].seq = segs[j].seq
  BY DEF SentAlike
<1>3. \A j \in 1..Len(segs) : EndOf(v[j]) = EndOf(segs[j])
  BY DEF SentAlike, EndOf
<1>4. Chain(v, una, n)
  BY <1>1, <1>2, <1>3 DEF Chain
<1>5. \A j \in 1..Len(segs) : segs[j].xmit > 0 <=> j <= k
  BY DEF SentTo
<1>6. \A j \in 1..Len(segs) : segs[j].xmit \in Nat
  <2>1. ASSUME NEW j \in 1..Len(segs)
        PROVE  segs[j].xmit \in 0..XmitTop
    BY ChainFacts, SegIsTyped
  <2> QED
    BY <2>1, XmitBounds
<1>7. v[i].xmit > 0
  BY <1>6 DEF SentAlike
<1>8. \A j \in 1..Len(segs) : segs[j].xmit > 0 => v[j].xmit > 0
  BY <1>7 DEF SentAlike
<1>9. \A j \in 1..Len(segs) : v[j].xmit > 0 <=> j <= l
  <2>1. SUFFICES ASSUME NEW j \in 1..Len(segs)
                 PROVE  v[j].xmit > 0 <=> j <= l
    OBVIOUS
  <2>2. CASE j = i
    <3>1. j <= l
      BY <2>2, <1>1
    <3> QED
      BY <3>1, <2>2, <1>7
  <2>3. CASE j # i
    <3>1. j <= l <=> j <= k
      BY <2>3, <1>1
    <3>2. v[j].xmit = segs[j].xmit
      BY <2>3 DEF SentAlike
    <3> QED
      BY <3>1, <3>2, <1>5
  <2> QED
    BY <2>2, <2>3
<1>10. \A j \in 1..Len(v) : j = l => to = EndOf(v[j])
  <2>1. SUFFICES ASSUME NEW j \in 1..Len(segs), j = l
                 PROVE  to = EndOf(segs[j])
    BY <1>1, <1>3
  <2>2. CASE k < i
    BY <2>1, <2>2
  <2>3. CASE i <= k
    BY <2>1, <2>3 DEF SentTo
  <2> QED
    BY <2>2, <2>3, <1>1
<1>11. SentTo(v, una, to, l)
  <2>1. l \in 0..Len(v) /\ l # 0
    BY <1>1
  <2> QED
    BY <2>1, <1>1, <1>9, <1>10 DEF SentTo
<1>12. AllOK(v)
  <2>1. SUFFICES ASSUME NEW j \in 1..Len(segs)
                 PROVE  SegOK(v[j])
    BY <1>1 DEF AllOK
  <2>2. SegOK(segs[j])
    BY DEF AllOK
  <2>3. v[j].seq = segs[j].seq /\ v[j].len = segs[j].len /\ v[j].bCtrl = segs[j].bCtrl
    BY DEF SentAlike
  <2>4. j # i => v[j].xmit = segs[j].xmit
    BY DEF SentAlike
  <2>5. v[j].xmit > 0 => v[j].len <= Mss
    BY <2>2, <2>3, <2>4 DEF SegOK
  <2> QED
    BY <2>2, <2>3, <2>5, <1>3 DEF SegOK
<1>13. ASSUME NEW x, EndIn(segs, una, x)
       PROVE  EndIn(v, una, x)
  BY <1>13, <1>1, <1>3, <1>8 DEF EndIn
<1>14. EndIn(v, una, EndOf(segs[i]))
  BY <1>1, <1>3, <1>7 DEF EndIn
<1> QED
  BY <1>4, <1>11, <1>12, <1>13, <1>14

(* The last segment, not sent yet, grows by m bytes.                       *)
GrownBy(v, segs, m) ==
  /\ Len(v) = Len(segs)
  /\ \A j \in 1..Len(segs) : j < Len(segs) => v[j] = segs[j]
  /\ \A j \in 1..Len(segs) : v[j].seq = segs[j].seq
  /\ \A j \in 1..Len(segs) : v[j].bCtrl = segs[j].bCtrl
  /\ \A j \in 1..Len(segs) : v[j].xmit = segs[j].xmit
  /\ \A j \in 1..Len(segs) : j = Len(segs) => v[j].len = segs[j].len + m

LEMMA GrowChain ==
  ASSUME NEW segs, NEW una \in Nat, NEW n \in Nat, NEW nxt, NEW k,
         Chain(segs, una, n), SentTo(segs, una, nxt, k), AllOK(segs), Len(segs) > 0,
         NEW m \in Nat \ {0}, NEW ctl \in BOOLEAN,
         ctl => una + n + m <= ConnectLen,
         NEW l \in 1..Len(segs), l = Len(segs), segs[l].bCtrl = ctl, segs[l].xmit = 0,
         NEW v \in Seq(Seg), GrownBy(v, segs, m)
  PROVE  /\ Chain(v, una, n + m) /\ SentTo(v, una, nxt, k) /\ AllOK(v)
         /\ \A x : EndIn(segs, una, x) => EndIn(v, una, x)
<1>1. /\ Len(v) = Len(segs) /\ Len(segs) \in Nat /\ l = Len(segs) /\ l \in 1..Len(segs)
  BY ChainFacts DEF GrownBy
<1>2. k \in 0..Len(segs) /\ k < l
  <2>1. k \in 0..Len(segs)
    BY SentFacts
  <2>2. ~(l <= k)
    BY DEF SentTo
  <2> QED
    BY <2>1, <2>2, <1>1
<1>3. \A j \in 1..Len(segs) : j < l => v[j] = segs[j]
  BY <1>1 DEF GrownBy
<1>4. \A j \in 1..Len(segs) : v[j].seq = segs[j].seq
  BY DEF GrownBy
<1>5. \A j \in 1..Len(segs) : v[j].xmit = segs[j].xmit
  BY DEF GrownBy
<1>6. v[l].len = segs[l].len + m /\ v[l].bCtrl = ctl
  BY <1>1 DEF GrownBy
<1>7. EndOf(v[l]) = EndOf(segs[l]) + m /\ EndOf(segs[l]) = una + n
  <2>1. EndOf(segs[l]) = una + n
    BY <1>1 DEF Chain
  <2>2. segs[l].seq \in Nat /\ segs[l].len \in Nat
    BY ChainFacts
  <2> QED
    BY <2>1, <2>2, <1>4, <1>6, SMTT(30) DEF EndOf
<1>8. \A j \in 1..Len(segs) : j < l => EndOf(v[j]) = EndOf(segs[j])
  BY <1>3
<1>9. Chain(v, una, n + m)
  <2>1. \A i \in 1..Len(v) : i = 1 => v[i].seq = una
    BY <1>1, <1>4 DEF Chain
  <2>2. \A i \in 1..Len(v) : i = Len(v) => EndOf(v[i]) = una + (n + m)
    BY <1>1, <1>7
  <2>3. \A i, j \in 1..Len(v) : j = i + 1 => v[j].seq = EndOf(v[i])
    <3>1. SUFFICES ASSUME NEW i \in 1..Len(segs), NEW j \in 1..Len(segs), j = i + 1
                   PROVE  v[j].seq = EndOf(v[i])
      BY <1>1
    <3>2. i < l
      BY <3>1, <1>1
    <3>3. segs[j].seq = EndOf(segs[i])
      BY <3>1 DEF Chain
    <3> QED
      BY <3>2, <3>3, <1>4, <1>8
  <2>4. \A i, j \in 1..Len(v) : i < j => EndOf(v[i]) <= v[j].seq
    <3>1. SUFFICES ASSUME NEW i \in 1..Len(segs), NEW j \in 1..Len(segs), i < j
                   PROVE  EndOf(v[i]) <= v[j].seq
      BY <1>1
    <3>2. i < l
      BY <3>1, <1>1
    <3>3. EndOf(segs[i]) <= segs[j].seq
      BY <3>1 DEF Chain
    <3> QED
      BY <3>2, <3>3, <1>4, <1>8
  <2> QED
    BY <2>1, <2>2, <2>3, <2>4, <1>1 DEF Chain
<1>10. SentTo(v, una, nxt, k)
  <2>1. \A i \in 1..Len(v) : i = k => nxt = EndOf(v[i])
    BY <1>1, <1>2, <1>8 DEF SentTo
  <2>2. \A i \in 1..Len(v) : v[i].xmit > 0 <=> i <= k
    BY <1>1, <1>5 DEF SentTo
  <2> QED
    BY <2>1, <2>2, <1>1, <1>2 DEF SentTo
<1>11. AllOK(v)
  <2>1. SUFFICES ASSUME NEW j \in 1..Len(segs)
                 PROVE  SegOK(v[j])
    BY <1>1 DEF AllOK
  <2>2. SegOK(segs[j])
    BY DEF AllOK
  <2>3. CASE j < l
    BY <2>2, <2>3, <1>3
  <2>4. CASE j = l
    <3>1. ~(v[j].xmit > 0)
      BY <2>4, <1>5
    <3>2. ~ctl => v[j].seq >= ConnectLen
      BY <2>2, <2>4, <1>4 DEF SegOK
    <3>3. ctl => EndOf(v[j]) <= ConnectLen
      BY <2>4, <1>7
    <3> QED
      BY <3>1, <3>2, <3>3, <2>4, <1>6 DEF SegOK
  <2> QED
    BY <2>3, <2>4, <1>1
<1>12. ASSUME NEW x, EndIn(segs, una, x)
       PROVE  EndIn(v, una, x)
  <2>1. CASE x \in 0..una
    BY <2>1 DEF EndIn
  <2>2. ASSUME NEW i \in 1..Len(segs), segs[i].xmit > 0, x = EndOf(segs[i])
        PROVE  EndIn(v, una, x)
    <3>1. i # l /\ i < l
      BY <2>2, <1>1
    <3> QED
      BY <3>1, <2>2, <1>1, <1>5, <1>8 DEF EndIn
  <2> QED
    BY <2>1, <2>2, <1>12 DEF EndIn
<1> QED
  BY <1>9, <1>10, <1>11, <1>12

(* A segment of m bytes is appended.                                       *)
LongerBy(v, segs, s) ==
  /\ Len(v) = Len(segs) + 1
  /\ \A j \in 1..Len(segs) : v[j] = segs[j]
  /\ \A j \in 1..Len(v) : j = Len(segs) + 1 => v[j] = s

LEMMA AppendChain ==
  ASSUME NEW segs, NEW una \in Nat, NEW n \in Nat, NEW nxt, NEW k,
         Chain(segs, una, n), SentTo(segs, una, nxt, k), AllOK(segs),
         NEW m \in Nat \ {0}, NEW ctl \in BOOLEAN,
         ctl => una + n + m <= ConnectLen, ~ctl => una + n >= ConnectLen,
         NEW s \in Seg, s.seq = una + n, s.len = m, s.bCtrl = ctl, s.xmit = 0,
         NEW v \in Seq(Seg), LongerBy(v, segs, s)
  PROVE  /\ Chain(v, una, n + m) /\ SentTo(v, una, nxt, k) /\ AllOK(v)
         /\ \A x : EndIn(segs, una, x) => EndIn(v, una, x)
<1>1. /\ Len(v) = Len(segs) + 1 /\ Len(segs) \in Nat
  BY ChainFacts DEF LongerBy
<1>2. \A j \in 1..Len(segs) : v[j] = segs[j]
  BY DEF LongerBy
<1>3. PICK l \in 1..Len(v) : l = Len(segs) + 1 /\ l = Len(v) /\ v[l] = s
  BY <1>1 DEF LongerBy
<1>4. \A j \in 1..Len(v) : j = l \/ j \in 1..Len(segs)
  BY <1>1, <1>3
<1>5. EndOf(s) = una + (n + m) /\ s.seq = una + n
  BY DEF EndOf
<1>6. SegOK(s)
  BY <1>5 DEF SegOK
<1>7. Chain(v, una, n + m)
  <2>1. \A i \in 1..Len(v) : i = 1 => v[i].seq = una
    <3>1. SUFFICES ASSUME NEW i \in 1..Len(v), i = 1
                   PROVE  v[i].seq = una
      OBVIOUS
    <3>2. CASE Len(segs) = 0
      <4>1. i = l /\ n = 0
        BY <3>1, <3>2, <1>3 DEF Chain
      <4> QED
        BY <4>1, <1>3, <1>5
    <3>3. CASE Len(segs) # 0
      <4>1. i \in 1..Len(segs)
        BY <3>1, <3>3, <1>1
      <4> QED
        BY <4>1, <3>1, <1>2 DEF Chain
    <3> QED
      BY <3>2, <3>3
  <2>2. \A i \in 1..Len(v) : i = Len(v) => EndOf(v[i]) = una + (n + m)
    BY <1>3, <1>5
  <2>3. \A i, j \in 1..Len(v) : j = i + 1 => v[j].seq = EndOf(v[i])
    <3>1. SUFFICES ASSUME NEW i \in 1..Len(v), NEW j \in 1..Len(v), j = i + 1
                   PROVE  v[j].seq = EndOf(v[i])
      OBVIOUS
    <3>2. i \in 1..Len(segs)
      BY <3>1, <1>1
    <3>3. CASE j = l
      <4>1. i = Len(segs)
        BY <3>1, <3>3, <1>3, <1>1
      <4>2. EndOf(segs[i]) = una + n
        BY <4>1, <3>2 DEF Chain
      <4> QED
        BY <4>2, <3>2, <3>3, <1>2, <1>3, <1>5
    <3>4. CASE j \in 1..Len(segs)
      <4>1. segs[j].seq = EndOf(segs[i])
        BY <3>1, <3>2, <3>4 DEF Chain
      <4> QED
        BY <4>1, <3>2, <3>4, <1>2
    <3> QED
      BY <3>3, <3>4, <1>4
  <2>4. \A i, j \in 1..Len(v) : i < j => EndOf(v[i]) <= v[j].seq
    <3>1. SUFFICES ASSUME NEW i \in 1..Len(v), NEW j \in 1..Len(v), i < j
                   PROVE  EndOf(v[i]) <= v[j].seq
      OBVIOUS
    <3>2. i \in 1..Len(segs)
      BY <3>1, <1>1
    <3>3. CASE j = l
      <4>1. EndOf(segs[i]) <= una + n
        BY <3>2, ChainFacts
      <4> QED
        BY <4>1, <3>2, <3>3, <1>2, <1>3, <1>5
    <3>4. CASE j \in 1..Len(segs)
      <4>1. EndOf(segs[i]) <= segs[j].seq
        BY <3>1, <3>2, <3>4 DEF Chain
      <4> QED
        BY <4>1, <3>2, <3>4, <1>2
    <3> QED
      BY <3>3, <3>4, <1>4
  <2> QED
    BY <2>1, <2>2, <2>3, <2>4, <1>1 DEF Chain
<1>8. SentTo(v, una, nxt, k)
  <2>1. k \in 0..Len(segs) /\ k \in 0..Len(v) /\ ~(l <= k) /\ k # l
    BY SentFacts, <1>1, <1>3
  <2>2. \A i \in 1..Len(v) : i = k => nxt = EndOf(v[i])
    BY <1>2, <1>4, <2>1 DEF SentTo
  <2>3. \A i \in 1..Len(v) : v[i].xmit > 0 <=> i <= k
    <3>1. SUFFICES ASSUME NEW i \in 1..Len(v)
                   PROVE  v[i].xmit > 0 <=> i <= k
      OBVIOUS
    <3>2. CASE i = l
      BY <3>2, <2>1, <1>3
    <3>3. CASE i \in 1..Len(segs)
      BY <3>3, <1>2 DEF SentTo
    <3> QED
      BY <3>2, <3>3, <1>4
  <2> QED
    BY <2>1, <2>2, <2>3 DEF SentTo
<1>9. AllOK(v)
  <2>1. SUFFICES ASSUME NEW j \in 1..Len(v)
                 PROVE  SegOK(v[j])
    BY DEF AllOK
  <2>2. CASE j = l
    BY <2>2, <1>3, <1>6
  <2>3. CASE j \in 1..Len(segs)
    BY <2>3, <1>2 DEF AllOK
  <2> QED
    BY <2>2, <2>3, <1>4
<1>10. ASSUME NEW x, EndIn(segs, una, x)
       PROVE  EndIn(v, una, x)
  <2>1. CASE x \in 0..una
    BY <2>1 DEF EndIn
  <2>2. ASSUME NEW i \in 1..Len(segs), segs[i].xmit > 0, x = EndOf(segs[i])
        PROVE  EndIn(v, una, x)
    <3>1. i \in 1..Len(v) /\ v[i] = segs[i]
      BY <1>1, <1>2
    <3> QED
      BY <3>1, <2>2 DEF EndIn
  <2> QED
    BY <2>1, <2>2, <1>10 DEF EndIn
<1> QED
  BY <1>7, <1>8, <1>9, <1>10

(* The first j segments, all sent, are gone.                               *)
SuffixOf(v, segs, j) ==
  /\ Len(v) = Len(segs) - j
  /\ \A i \in 1..Len(v), l \in 1..Len(segs) : l = i + j => v[i] = segs[l]

Less(l, k, j) == l = k - j
AcksTo(segs, una, n, j, to, rest) ==
  to = EndOf(segs[j]) /\ rest = n - (to - una)

LEMMA AckChain ==
  ASSUME NEW segs, NEW una \in Nat, NEW n \in Nat, NEW nxt, NEW k,
         Chain(segs, una, n), SentTo(segs, una, nxt, k), AllOK(segs),
         NEW j \in 1..Len(segs), segs[j].xmit > 0,
         NEW to \in Nat, NEW rest \in Int, AcksTo(segs, una, n, j, to, rest),
         NEW left \in Int, Less(left, k, j),
         NEW v \in Seq(Seg), SuffixOf(v, segs, j)
  PROVE  /\ rest \in Nat /\ Chain(v, to, rest) /\ SentTo(v, to, nxt, left) /\ AllOK(v)
         /\ \A x \in Nat : EndIn(segs, una, x) => EndIn(v, to, x)
<1>0. k \in Int /\ left = k - j
  BY SentFacts DEF Less
<1>1. /\ Len(v) = Len(segs) - j /\ Len(segs) \in Nat
  BY ChainFacts DEF SuffixOf
<1>2. to = EndOf(segs[j]) /\ to \in Nat /\ una <= to /\ to <= una + n
  <2>1. segs[j].seq \in Nat /\ EndOf(segs[j]) \in Nat /\ segs[j].seq < EndOf(segs[j])
        /\ una <= segs[j].seq /\ EndOf(segs[j]) <= una + n
    BY ChainFacts
  <2> QED
    BY <2>1, SMTT(30) DEF AcksTo
<1>3. rest \in Nat /\ to + rest = una + n
  BY <1>2 DEF AcksTo
<1>4. \A i \in 1..Len(v) : \E l \in 1..Len(segs) : l = i + j /\ v[i] = segs[l]
  <2>1. SUFFICES ASSUME NEW i \in 1..Len(v)
                 PROVE  \E l \in 1..Len(segs) : l = i + j /\ v[i] = segs[l]
    OBVIOUS
  <2>2. PICK l \in 1..Len(segs) : l = i + j
    BY <1>1
  <2>3. v[i] = segs[l]
    BY <2>2 DEF SuffixOf
  <2> QED
    BY <2>2, <2>3
<1>5. j <= k /\ k \in 0..Len(segs)
  BY SentFacts DEF SentTo
<1>6. Chain(v, to, rest)
  <2>1. \A i \in 1..Len(v) : i = 1 => v[i].seq = to
    <3>1. SUFFICES ASSUME NEW i \in 1..Len(v), i = 1
                   PROVE  v[i].seq = to
      OBVIOUS
    <3>2. PICK l \in 1..Len(segs) : l = i + j /\ v[i] = segs[l]
      BY <1>4
    <3>3. l = j + 1
      BY <3>1, <3>2
    <3>4. segs[l].seq = EndOf(segs[j])
      BY <3>3 DEF Chain
    <3> QED
      BY <3>2, <3>4, <1>2
  <2>2. \A i \in 1..Len(v) : i = Len(v) => EndOf(v[i]) = to + rest
    <3>1. SUFFICES ASSUME NEW i \in 1..Len(v), i = Len(v)
                   PROVE  EndOf(v[i]) = to + rest
      OBVIOUS
    <3>2. PICK l \in 1..Len(segs) : l = i + j /\ v[i] = segs[l]
      BY <1>4
    <3>3. l = Len(segs)
      BY <3>1, <3>2, <1>1
    <3>4. EndOf(segs[l]) = una + n
      BY <3>3 DEF Chain
    <3> QED
      BY <3>2, <3>4, <1>3
  <2>3. \A i, m \in 1..Len(v) : m = i + 1 => v[m].seq = EndOf(v[i])
    <3>1. SUFFICES ASSUME NEW i \in 1..Len(v), NEW m \in 1..Len(v), m = i + 1
                   PROVE  v[m].seq = EndOf(v[i])
      OBVIOUS
    <3>2. PICK l \in 1..Len(segs) : l = i + j /\ v[i] = segs[l]
      BY <1>4
    <3>3. PICK p \in 1..Len(segs) : p = m + j /\ v[m] = segs[p]
      BY <1>4
    <3>4. p = l + 1
      BY <3>1, <3>2, <3>3
    <3>5. segs[p].seq = EndOf(segs[l])
      BY <3>4 DEF Chain
    <3> QED
      BY <3>2, <3>3, <3>5
  <2>4. \A i, m \in 1..Len(v) : i < m => EndOf(v[i]) <= v[m].seq
    <3>1. SUFFICES ASSUME NEW i \in 1..Len(v), NEW m \in 1..Len(v), i < m
                   PROVE  EndOf(v[i]) <= v[m].seq
      OBVIOUS
    <3>2. PICK l \in 1..Len(segs) : l = i + j /\ v[i] = segs[l]
      BY <1>4
    <3>3. PICK p \in 1..Len(segs) : p = m + j /\ v[m] = segs[p]
      BY <1>4
    <3>4. l < p
      BY <3>1, <3>2, <3>3
    <3>5. EndOf(segs[l]) <= segs[p].seq
      BY <3>4 DEF Chain
    <3> QED
      BY <3>2, <3>3, <3>5
  <2>5. Len(v) = 0 => rest = 0
    <3>1. SUFFICES ASSUME Len(v) = 0
                   PROVE  rest = 0
      OBVIOUS
    <3>2. j = Len(segs)
      BY <3>1, <1>1
    <3>3. EndOf(segs[j]) = una + n
      BY <3>2 DEF Chain
    <3> QED
      BY <3>3, <1>2, <1>3
  <2> QED
    BY <2>1, <2>2, <2>3, <2>4, <2>5 DEF Chain
<1>7. SentTo(v, to, nxt, k - j)
  <2>1. k - j \in 0..Len(v)
    BY <1>1, <1>5
  <2>2. k - j = 0 => nxt = to
    <3>1. k = j => nxt = EndOf(segs[j])
      BY DEF SentTo
    <3> QED
      BY <3>1, <1>2, <1>5
  <2>3. \A i \in 1..Len(v) : i = k - j => nxt = EndOf(v[i])
    <3>1. SUFFICES ASSUME NEW i \in 1..Len(v), i = k - j
                   PROVE  nxt = EndOf(v[i])
      OBVIOUS
    <3>2. PICK l \in 1..Len(segs) : l = i + j /\ v[i] = segs[l]
      BY <1>4
    <3>3. l = k
      BY <3>1, <3>2, <1>5
    <3> QED
      BY <3>2, <3>3 DEF SentTo
  <2>4. \A i \in 1..Len(v) : v[i].xmit > 0 <=> i <= k - j
    <3>1. SUFFICES ASSUME NEW i \in 1..Len(v)
                   PROVE  v[i].xmit > 0 <=> i <= k - j
      OBVIOUS
    <3>2. PICK l \in 1..Len(segs) : l = i + j /\ v[i] = segs[l]
      BY <1>4
    <3>3. segs[l].xmit > 0 <=> l <= k
      BY DEF SentTo
    <3>4. l <= k <=> i <= k - j
      BY <3>2, <1>5
    <3> QED
      BY <3>2, <3>3, <3>4
  <2> QED
    BY <2>1, <2>2, <2>3, <2>4 DEF SentTo
<1>8. AllOK(v)
  BY <1>4 DEF AllOK
<1>9. ASSUME NEW x \in Nat, EndIn(segs, una, x)
      PROVE  EndIn(v, to, x)
  <2>1. CASE x \in 0..una
    BY <2>1, <1>2 DEF EndIn
  <2>2. ASSUME NEW l \in 1..Len(segs), segs[l].xmit > 0, x = EndOf(segs[l])
        PROVE  EndIn(v, to, x)
    <3>1. CASE l <= j
      <4>1. l = j \/ l < j
        BY <3>1
      <4>2. l < j => EndOf(segs[l]) <= segs[j].seq
        BY DEF Chain
      <4>3. segs[j].seq \in Nat /\ EndOf(segs[j]) \in Nat /\ segs[j].seq < EndOf(segs[j])
        BY ChainFacts
      <4>4. x <= to
        BY <4>1, <4>2, <4>3, <2>2, <1>2
      <4> QED
        BY <4>4, <1>2 DEF EndIn
    <3>2. CASE l > j
      <4>1. PICK i \in 1..Len(v) : l = i + j
        <5> DEFINE i == l - j
        <5>1. i \in 1..Len(v) /\ l = i + j
          BY <3>2, <1>1
        <5> QED
          BY <5>1
      <4>2. v[i] = segs[l]
        BY <4>1 DEF SuffixOf
      <4> QED
        BY <4>1, <4>2, <2>2 DEF EndIn
    <3> QED
      BY <3>1, <3>2
  <2> QED
    BY <2>1, <2>2, <1>9 DEF EndIn
<1>10. SentTo(v, to, nxt, left)
  BY <1>0, <1>7
<1> QED
  BY <1>3, <1>6, <1>10, <1>8, <1>9

---------------------------------------------------------------------------
(* What holds of an end, also in the middle of a handler, and of the       *)
(* packets it has put out.                                                 *)

(* The two sides of an end, each with its peer.                            *)
Edge(t) == t.rcv_nxt + t.rcv_wnd
IsEnd(t, x) == EndIn(t.slist, t.snd_una, x)
Sent(t) == \E k : SentTo(t.slist, t.snd_una, t.snd_nxt, k) /\ (t.rto <=> k > 0)
Sum(t) == t.snd_una + t.sbuf

SendOK(t) ==
  /\ t.snd_una \in Nat /\ t.snd_wnd \in Nat /\ t.recover \in Nat /\ t.snd_nxt \in Nat
  /\ t.sbuf \in 0..SndBuf /\ t.rto \in BOOLEAN
  /\ Chain(t.slist, t.snd_una, t.sbuf) /\ AllOK(t.slist) /\ Sent(t)
  /\ t.recover <= t.snd_nxt

RSeg == [seq : Nat, len : 1..Mss]
Counts(t) ==
  /\ t.rcv_nxt <= ConnectLen => t.nread + Len(t.rbuf) = 0
  /\ t.rcv_nxt >= ConnectLen => t.rcv_nxt = ConnectLen + t.nread + Len(t.rbuf)
Fill(a, b, c) == a + b = c
RecvOK(t) ==
  /\ t.rcv_nxt \in Nat /\ t.rcv_wnd \in Nat /\ t.nread \in Nat /\ t.shutdown \in BOOLEAN
  /\ t.rbuf \in Seq(Byte) /\ t.ahead \in Seq(Byte) /\ t.rlist \in Seq(RSeg)
  /\ Fill(Len(t.rbuf), Len(t.ahead), RcvBuf)
  /\ t.rcv_wnd <= Len(t.ahead) /\ Edge(t) >= RcvBuf
  /\ ~t.shutdown => Counts(t)

(* What the sender s may count on of the receiver r.                       *)
Pair(s, r) ==
  /\ s.snd_una <= r.rcv_nxt /\ s.snd_una + s.snd_wnd <= Edge(r) /\ s.snd_nxt <= Edge(r)
  /\ IsEnd(s, r.rcv_nxt)
  /\ \A i \in 1..Len(r.rlist) : IsEnd(s, EndOf(r.rlist[i]))

DataOK(s, seq, ctl, len) ==
  len > 0 => /\ seq \in Nat /\ IsEnd(s, seq + len)
             /\ ctl => seq + len <= ConnectLen
             /\ ~ctl => seq >= ConnectLen
PacketOK(q, s, r) ==
  /\ q.seq \in Int /\ q.ctl \in BOOLEAN /\ q.len \in 0..Mss
  /\ DataOK(s, q.seq, q.ctl, q.len)
  /\ q.ack \in Nat /\ q.wnd \in 0..RcvBuf
  /\ q.ack <= s.rcv_nxt /\ q.ack + q.wnd * WindowUnit <= Edge(s)
  /\ IsEnd(r, q.ack)
IsPacket(q) == q \in [to : {q.to}, seq : {q.seq}, ack : {q.ack}, ctl : {q.ctl},
                      len : {q.len}, wnd : {q.wnd}]
OutOK(w, p) ==
  \A q \in w.out : q.to = w.peer /\ IsPacket(q) /\ PacketOK(q, w, p)

SendSide(w, p) == SendOK(w) /\ Pair(w, p)
RecvSide(w, p) == RecvOK(w) /\ Pair(p, w)
Acks(w) == w.lastack \in 0..w.rcv_nxt /\ w.t_ack \in BOOLEAN
Good(w, p) ==
  /\ IsWork(w) /\ SendSide(w, p) /\ RecvSide(w, p) /\ OutOK(w, p) /\ Acks(w)
  /\ w.refuse \in BOOLEAN /\ w.nagling \in BOOLEAN /\ w.cwnd \in CongestionWindow
  /\ w.dup_acks \in 0..(DupAcks - 1)

(* A handler that makes w of t takes nothing back.                         *)
Goes(w, t) ==
  /\ KeepsCall(w, t)
  /\ \A x \in Nat : IsEnd(t, x) => IsEnd(w, x)
  /\ t.rcv_nxt <= w.rcv_nxt /\ Edge(t) <= Edge(w) /\ t.snd_nxt <= w.snd_nxt

LEMMA SendKept ==
  ASSUME NEW w, NEW t, KeepsSend(w, t)
  PROVE  /\ Sum(w) = Sum(t) /\ \A x : IsEnd(w, x) <=> IsEnd(t, x)
         /\ \A p : SendSide(t, p) => SendSide(w, p)
BY DEF KeepsSend, SendSide, SendOK, Pair, IsEnd, Sent, Sum

LEMMA RecvKept ==
  ASSUME NEW w, NEW t, KeepsRecv(w, t)
  PROVE  /\ Edge(w) = Edge(t) /\ w.rcv_nxt = t.rcv_nxt
         /\ \A p : RecvSide(t, p) => RecvSide(w, p)
BY DEF KeepsRecv, RecvSide, RecvOK, Pair, Edge, Counts

LEMMA GoesOn ==
  ASSUME NEW v, NEW w, NEW t, Goes(v, w), Goes(w, t),
         t.rcv_nxt \in Nat, w.rcv_nxt \in Nat, v.rcv_nxt \in Nat,
         t.snd_nxt \in Nat, w.snd_nxt \in Nat, v.snd_nxt \in Nat,
         Edge(t) \in Nat, Edge(w) \in Nat, Edge(v) \in Nat
  PROVE  Goes(v, t)
BY DEF Goes, KeepsCall

LEMMA GoodTypes ==
  ASSUME NEW w, NEW p, Good(w, p)
  PROVE  /\ w.snd_una \in Nat /\ w.snd_nxt \in Nat /\ w.snd_wnd \in Nat
         /\ w.sbuf \in 0..SndBuf /\ w.recover \in Nat /\ w.rcv_nxt \in Nat /\ w.rcv_wnd \in Nat
         /\ Edge(w) \in Nat /\ w.cwnd \in Nat /\ w.dup_acks \in Nat
         /\ w.snd_una <= w.snd_nxt /\ w.snd_nxt <= w.snd_una + w.sbuf
<1>1. PICK k : SentTo(w.slist, w.snd_una, w.snd_nxt, k)
  BY DEF Good, SendSide, SendOK, Sent
<1>2. w.snd_una <= w.snd_nxt /\ w.snd_nxt <= w.snd_una + w.sbuf
  <2>1. w.snd_una \in Nat /\ w.sbuf \in Nat /\ Chain(w.slist, w.snd_una, w.sbuf)
    BY ConstantTypes DEF Good, SendSide, SendOK
  <2> QED
    BY <2>1, <1>1, SentFacts
<1>3. /\ w.snd_una \in Nat /\ w.snd_nxt \in Nat /\ w.snd_wnd \in Nat
      /\ w.sbuf \in 0..SndBuf /\ w.recover \in Nat
  BY DEF Good, SendSide, SendOK
<1>4. w.rcv_nxt \in Nat /\ w.rcv_wnd \in Nat
  BY DEF Good, RecvSide, RecvOK
<1>5. Edge(w) \in Nat
  BY <1>4 DEF Edge
<1>6. w.cwnd \in Nat /\ w.dup_acks \in Nat
  <2>1. CongestionWindow \subseteq Nat
    BY Sizes
  <2>2. w.cwnd \in CongestionWindow /\ w.dup_acks \in 0..(DupAcks - 1)
    BY DEF Good
  <2>3. w.cwnd \in Nat
    BY <2>1, <2>2
  <2>4. w.dup_acks \in Nat
    BY <2>2, ConstantTypes
  <2> QED
    BY <2>3, <2>4
<1> QED
  BY <1>2, <1>3, <1>4, <1>5, <1>6

LEMMA Filled ==
  ASSUME NEW a \in Nat, NEW b \in Nat, NEW c \in Nat, Fill(a, b, c)
  PROVE  a \in 0..c /\ b \in 0..c /\ b = c - a
BY DEF Fill

LEMMA RecvTypes ==
  ASSUME NEW w, RecvOK(w)
  PROVE  /\ w.rcv_nxt \in Nat /\ w.rcv_wnd \in 0..RcvBuf /\ Edge(w) = w.rcv_nxt + w.rcv_wnd
         /\ Len(w.rbuf) \in 0..RcvBuf /\ Len(w.ahead) \in 0..RcvBuf
         /\ Len(w.ahead) = RcvBuf - Len(w.rbuf)
<1>1. w.rcv_nxt \in Nat /\ w.rcv_wnd \in Nat /\ w.rcv_wnd <= Len(w.ahead)
  BY DEF RecvOK
<1>2. Len(w.rbuf) \in Nat /\ Len(w.ahead) \in Nat
  <2>1. w.rbuf \in Seq(Byte) /\ w.ahead \in Seq(Byte)
    BY DEF RecvOK
  <2> QED
    BY <2>1
<1>3. RcvBuf \in Nat
  BY ConstantTypes
<1>4. Len(w.rbuf) \in 0..RcvBuf /\ Len(w.ahead) \in 0..RcvBuf
      /\ Len(w.ahead) = RcvBuf - Len(w.rbuf)
  BY <1>2, <1>3, Filled DEF RecvOK
<1>5. w.rcv_wnd \in 0..RcvBuf
  BY <1>1, <1>3, <1>4
<1> QED
  BY <1>1, <1>4, <1>5 DEF Edge

LEMMA PacketKept ==
  ASSUME NEW q, NEW s, NEW r, PacketOK(q, s, r), NEW w, NEW v,
         \A x \in Nat : IsEnd(s, x) => IsEnd(w, x),
         \A x \in Nat : IsEnd(r, x) => IsEnd(v, x),
         s.rcv_nxt \in Nat, w.rcv_nxt \in Nat, Edge(s) \in Nat, Edge(w) \in Nat,
         s.rcv_nxt <= w.rcv_nxt, Edge(s) <= Edge(w)
  PROVE  PacketOK(q, w, v)
<1>1. q.seq \in Int /\ q.ctl \in BOOLEAN /\ q.len \in 0..Mss /\ q.ack \in Nat /\ q.wnd \in 0..RcvBuf
  BY DEF PacketOK
<1>2. q.ack <= w.rcv_nxt
  BY <1>1 DEF PacketOK
<1>3. q.ack + q.wnd * WindowUnit <= Edge(w)
  <2>1. q.wnd \in Nat /\ WindowUnit \in Nat
    BY <1>1, ConstantTypes
  <2>2. PICK m \in Nat : m = q.wnd * WindowUnit
    BY <2>1, Product
  <2>3. q.ack + m <= Edge(s)
    BY <2>2 DEF PacketOK
  <2>4. q.ack + m <= Edge(w)
    BY <2>3, <1>1
  <2> QED
    BY <2>4, <2>2
<1>4. IsEnd(v, q.ack)
  BY <1>1 DEF PacketOK
<1>5. DataOK(w, q.seq, q.ctl, q.len)
  <2>1. SUFFICES ASSUME q.len > 0
                 PROVE  DataOK(w, q.seq, q.ctl, q.len)
    BY DEF DataOK
  <2>2. DataOK(s, q.seq, q.ctl, q.len)
    BY DEF PacketOK
  <2>3. q.seq \in Nat /\ IsEnd(s, q.seq + q.len) /\ q.seq + q.len \in Nat
    BY <2>1, <2>2, <1>1 DEF DataOK
  <2>4. IsEnd(w, q.seq + q.len)
    BY <2>3
  <2> QED
    BY <2>2, <2>4 DEF DataOK
<1> QED
  BY <1>1, <1>2, <1>3, <1>4, <1>5 DEF PacketOK

LEMMA OutKept ==
  ASSUME NEW t, NEW w, NEW p, OutOK(t, p), Goes(w, t), w.out = t.out,
         t.rcv_nxt \in Nat, w.rcv_nxt \in Nat, Edge(t) \in Nat, Edge(w) \in Nat
  PROVE  OutOK(w, p)
<1>1. SUFFICES ASSUME NEW q \in w.out
               PROVE  q.to = w.peer /\ IsPacket(q) /\ PacketOK(q, w, p)
  BY DEF OutOK
<1>2. q \in t.out /\ q.to = t.peer /\ IsPacket(q) /\ PacketOK(q, t, p)
  BY <1>1 DEF OutOK
<1>3. w.peer = t.peer
  BY DEF Goes, KeepsCall
<1>4. PacketOK(q, w, p)
  BY <1>2, PacketKept DEF Goes
<1> QED
  BY <1>2, <1>3, <1>4

(* packet(): one more packet.                                              *)
LEMMA AddPacket ==
  ASSUME NEW t, NEW w, NEW p, OutOK(t, p), Goes(w, t), RecvSide(w, p),
         t.rcv_nxt \in Nat, Edge(t) \in Nat,
         NEW seq \in Int, NEW ctl \in BOOLEAN, NEW len \in 0..Mss, DataOK(w, seq, ctl, len),
         \A q \in w.out : q \in t.out \/ q = [to |-> w.peer, seq |-> seq, ack |-> w.rcv_nxt,
              ctl |-> ctl, len |-> len, wnd |-> w.rcv_wnd \div WindowUnit]
  PROVE  OutOK(w, p)
<1> DEFINE new == [to |-> w.peer, seq |-> seq, ack |-> w.rcv_nxt,
              ctl |-> ctl, len |-> len, wnd |-> w.rcv_wnd \div WindowUnit]
<1>1. /\ w.rcv_nxt \in Nat /\ w.rcv_wnd \in 0..RcvBuf /\ Edge(w) = w.rcv_nxt + w.rcv_wnd
      /\ WindowUnit \in Nat \ {0} /\ RcvBuf \in Nat
  BY RecvTypes, ConstantTypes DEF RecvSide
<1>2. PICK d : d = w.rcv_wnd \div WindowUnit
  OBVIOUS
<1>3. d \in 0..w.rcv_wnd /\ d * WindowUnit <= w.rcv_wnd
  BY <1>1, <1>2, Division
<1>4. /\ new.to = w.peer /\ new.seq = seq /\ new.ack = w.rcv_nxt /\ new.ctl = ctl
      /\ new.len = len /\ new.wnd = d
  BY <1>2
<1>5. IsPacket(new)
  BY DEF IsPacket
<1> HIDE DEF new
<1>6. d \in 0..RcvBuf
  BY <1>1, <1>3
<1>7. w.rcv_nxt + d * WindowUnit <= Edge(w)
  <2>1. PICK m \in Nat : m = d * WindowUnit
    BY <1>1, <1>3, Product
  <2> QED
    BY <2>1, <1>1, <1>3
<1>8. PacketOK(new, w, p)
  <2>1. IsEnd(p, w.rcv_nxt)
    BY DEF RecvSide, Pair
  <2> QED
    BY <2>1, <1>1, <1>4, <1>6, <1>7 DEF PacketOK
<1>9. ASSUME NEW q \in t.out
      PROVE  q.to = w.peer /\ IsPacket(q) /\ PacketOK(q, w, p)
  <2>1. q.to = t.peer /\ IsPacket(q) /\ PacketOK(q, t, p)
    BY DEF OutOK
  <2>2. Edge(w) \in Nat
    BY <1>1
  <2>3. PacketOK(q, w, p)
    BY <2>1, <2>2, <1>1, PacketKept DEF Goes
  <2> QED
    BY <2>1, <2>3 DEF Goes, KeepsCall
<1>10. ASSUME NEW q \in w.out
       PROVE  q \in t.out \/ q = new
  BY DEF new
<1> QED
  BY <1>4, <1>5, <1>8, <1>9, <1>10 DEF OutOK

LEMMA PutPacketGood ==
  ASSUME NEW t, NEW p, Good(t, p), NEW seq \in Int, NEW ctl \in BOOLEAN, NEW len \in 0..Mss,
         DataOK(t, seq, ctl, len)
  PROVE  LET w == PutPacket(t, seq, ctl, len)
         IN  /\ Good(w, p) /\ Goes(w, t) /\ KeepsSend(w, t) /\ KeepsRecv(w, t)
             /\ KeepsUser(w, t) /\ w.state = t.state /\ w.dup_acks = t.dup_acks
             /\ w.failed = t.failed /\ w.t_ack = FALSE /\ w.lastack = t.rcv_nxt
<1> DEFINE w == PutPacket(t, seq, ctl, len)
<1>2. IsWork(t) /\ t.rcv_nxt \in Nat /\ Edge(t) \in Nat /\ t.snd_nxt \in Nat
  BY GoodTypes DEF Good
<1>3. /\ IsWork(w) /\ w.t_ack = FALSE /\ w.lastack = t.rcv_nxt
      /\ w.out = IF t.refuse THEN t.out
                 ELSE t.out \cup {[to |-> t.peer, seq |-> seq, ack |-> t.rcv_nxt,
                                   ctl |-> ctl, len |-> len,
                                   wnd |-> t.rcv_wnd \div WindowUnit]}
      /\ KeepsSend(w, t) /\ KeepsRecv(w, t) /\ KeepsUser(w, t) /\ KeepsCall(w, t)
      /\ w.state = t.state /\ w.dup_acks = t.dup_acks /\ w.failed = t.failed
  <2>1. PutsPacket(w, t, seq, ctl, len)
    BY <1>2, PutPacketEffect
  <2> HIDE DEF w
  <2> QED
    BY <2>1 DEF PutsPacket
<1> HIDE DEF w
<1>4. SendSide(w, p) /\ \A x : IsEnd(w, x) <=> IsEnd(t, x)
  BY <1>3, SendKept DEF Good
<1>5. RecvSide(w, p) /\ Edge(w) = Edge(t) /\ w.rcv_nxt = t.rcv_nxt
  BY <1>3, RecvKept DEF Good
<1>6. Goes(w, t)
  <2>1. w.snd_nxt = t.snd_nxt
    BY <1>3 DEF KeepsSend
  <2> QED
    BY <2>1, <1>2, <1>3, <1>4, <1>5 DEF Goes
<1>7. DataOK(w, seq, ctl, len)
  BY <1>4 DEF DataOK
<1>8. w.peer = t.peer /\ w.rcv_wnd = t.rcv_wnd
  BY <1>3 DEF KeepsCall, KeepsRecv
<1>9. \A q \in w.out : q \in t.out \/ q = [to |-> w.peer, seq |-> seq, ack |-> w.rcv_nxt,
              ctl |-> ctl, len |-> len, wnd |-> w.rcv_wnd \div WindowUnit]
  BY <1>3, <1>5, <1>8
<1>10. OutOK(w, p)
  <2>1. OutOK(t, p)
    BY DEF Good
  <2> QED
    BY <2>1, <1>2, <1>5, <1>6, <1>7, <1>9, AddPacket
<1>11. Acks(w)
  <2>1. w.lastack \in 0..w.rcv_nxt
    BY <1>2, <1>3, <1>5
  <2>2. w.t_ack \in BOOLEAN
    BY <1>3
  <2> QED
    BY <2>1, <2>2 DEF Acks
<1>12. Good(w, p)
  BY <1>3, <1>4, <1>5, <1>10, <1>11 DEF Good, KeepsCall
<1> QED
  BY <1>3, <1>6, <1>12 DEF w

(* The receive half, what the user was told and the state are as before.   *)
Talks(w, t) == KeepsRecv(w, t) /\ KeepsUser(w, t) /\ w.state = t.state
AckPart(w) == w.lastack = w.rcv_nxt \/ w.t_ack \/ Sum(w) > w.snd_nxt

LEMMA GoodParts ==
  ASSUME NEW t, NEW p, Good(t, p)
  PROVE  /\ IsWork(t) /\ SendOK(t) /\ Pair(t, p) /\ RecvOK(t) /\ Pair(p, t) /\ OutOK(t, p)
         /\ Acks(t) /\ Chain(t.slist, t.snd_una, t.sbuf) /\ AllOK(t.slist)
         /\ t.sbuf \in Nat
         /\ \E k \in 0..Len(t.slist) : /\ SentTo(t.slist, t.snd_una, t.snd_nxt, k)
                                       /\ t.rto <=> k > 0
<1>1. \E k \in 0..Len(t.slist) : /\ SentTo(t.slist, t.snd_una, t.snd_nxt, k)
                                 /\ t.rto <=> k > 0
  BY DEF Good, SendSide, SendOK, Sent, SentTo
<1>2. t.sbuf \in Nat
  BY GoodTypes
<1> QED
  BY <1>1, <1>2 DEF Good, SendSide, RecvSide, SendOK

LEMMA PairGrows ==
  ASSUME NEW t, NEW p, Pair(t, p), NEW w,
         w.snd_una <= p.rcv_nxt, w.snd_una + w.snd_wnd <= Edge(p), w.snd_nxt <= Edge(p),
         p.rcv_nxt \in Nat, p.rlist \in Seq(RSeg),
         \A x \in Nat : IsEnd(t, x) => IsEnd(w, x)
  PROVE  Pair(w, p)
<1>1. IsEnd(t, p.rcv_nxt) /\ \A i \in 1..Len(p.rlist) : IsEnd(t, EndOf(p.rlist[i]))
  BY DEF Pair
<1>2. ASSUME NEW i \in 1..Len(p.rlist)
      PROVE  EndOf(p.rlist[i]) \in Nat
  <2>1. p.rlist[i] \in RSeg
    BY ElementOfSeq
  <2>2. p.rlist[i].seq \in Nat /\ p.rlist[i].len \in 1..Mss
    BY <2>1 DEF RSeg
  <2> QED
    BY <2>2, SMTT(30) DEF EndOf
<1>3. \A i \in 1..Len(p.rlist) : IsEnd(w, EndOf(p.rlist[i]))
  BY <1>1, <1>2
<1> QED
  BY <1>1, <1>3 DEF Pair

(* A step that changes only what is sent.                                  *)
LEMMA SendSideGood ==
  ASSUME NEW t, NEW p, Good(t, p), NEW w, IsWork(w), KeepsRecv(w, t), KeepsCall(w, t),
         w.out = t.out, w.lastack = t.lastack, w.t_ack \in BOOLEAN,
         w.dup_acks \in 0..(DupAcks - 1),
         SendOK(w), w.snd_una <= p.rcv_nxt, w.snd_una + w.snd_wnd <= Edge(p),
         w.snd_nxt <= Edge(p), t.snd_nxt <= w.snd_nxt, p.rcv_nxt \in Nat, p.rlist \in Seq(RSeg),
         \A x \in Nat : IsEnd(t, x) => IsEnd(w, x)
  PROVE  Good(w, p) /\ Goes(w, t)
<1>1. Pair(w, p)
  BY GoodParts, PairGrows
<1>2. RecvSide(w, p) /\ Edge(w) = Edge(t) /\ w.rcv_nxt = t.rcv_nxt
  BY RecvKept DEF Good
<1>3. t.rcv_nxt \in Nat /\ Edge(t) \in Nat
  BY GoodTypes
<1>4. Goes(w, t)
  BY <1>2, <1>3 DEF Goes
<1>5. OutOK(w, p)
  BY <1>2, <1>3, <1>4, OutKept DEF Good
<1>6. Acks(w)
  BY <1>2 DEF Good, Acks
<1> QED
  BY <1>1, <1>2, <1>4, <1>5, <1>6 DEF Good, SendSide, KeepsCall

(* What a handler of an end knows of the peer.                             *)
PeerOK(p) ==
  /\ SendOK(p) /\ RecvOK(p) /\ Sum(p) <= Top

LEMMA QueueGood ==
  ASSUME NEW t, NEW p, Good(t, p), PeerOK(p), NEW n \in Nat \ {0}, NEW ctl \in BOOLEAN,
         t.sbuf + n <= SndBuf, ctl => Sum(t) + n <= ConnectLen, ~ctl => Sum(t) >= ConnectLen
  PROVE  LET w == Queue(t, n, ctl)
         IN  /\ Good(w, p) /\ Goes(w, t) /\ Talks(w, t) /\ Sum(w) = Sum(t) + n
             /\ w.sbuf = t.sbuf + n /\ w.snd_nxt = t.snd_nxt /\ w.failed = t.failed
             /\ AckPart(t) => AckPart(w)
<1> DEFINE w == Queue(t, n, ctl)
<1>1. Queues(w, t, n, ctl)
  BY GoodParts, QueueEffect
<1> HIDE DEF w
<1>2. /\ t.snd_una \in Nat /\ t.snd_nxt \in Nat /\ t.snd_wnd \in Nat
      /\ t.sbuf \in Nat /\ t.rcv_nxt \in Nat /\ SndBuf \in Nat
  BY GoodTypes, ConstantTypes
<1>3. PICK k \in 0..Len(t.slist) : /\ SentTo(t.slist, t.snd_una, t.snd_nxt, k)
                                   /\ t.rto <=> k > 0
  BY GoodParts
<1>4. /\ Chain(t.slist, t.snd_una, t.sbuf) /\ AllOK(t.slist)
      /\ t.slist \in Seq(Seg) /\ Len(t.slist) \in Nat
  BY GoodParts, <1>2, ChainFacts
<1> DEFINE segs == t.slist
           v == Queued(t, n, ctl)
           una == t.snd_una
           m == t.sbuf
           nxt == t.snd_nxt
<1>5. ctl => una + m + n <= ConnectLen
  BY DEF Sum
<1>6. ~ctl => una + m >= ConnectLen
  BY DEF Sum
<1>7. /\ Chain(v, una, m + n) /\ SentTo(v, una, nxt, k) /\ AllOK(v)
      /\ \A x : EndIn(segs, una, x) => EndIn(v, una, x)
  <2>1. CASE Len(segs) > 0 /\ segs[Len(segs)].bCtrl = ctl /\ segs[Len(segs)].xmit = 0
    <3>1. v = [segs EXCEPT ![Len(segs)].len = @ + n]
      BY <2>1 DEF Queued
    <3>2. PICK l \in 1..Len(segs) : l = Len(segs)
      BY <2>1, <1>4
    <3>3. segs[l] \in Seg /\ segs[l].len \in Nat \ {0}
      BY <1>2, <1>4, ChainFacts
    <3>4. v = [segs EXCEPT ![l] = [segs[l] EXCEPT !.len = @ + n]]
      BY <3>1, <3>2
    <3>5. [segs[l] EXCEPT !.len = @ + n] \in Seg
      BY <3>3 DEF Seg
    <3>6. v \in Seq(Seg) /\ GrownBy(v, segs, n)
      <4>1. v \in Seq(Seg) /\ Len(v) = Len(segs) /\ v[l] = [segs[l] EXCEPT !.len = @ + n]
            /\ \A j \in 1..Len(segs) : j # l => v[j] = segs[j]
        BY <3>4, <3>5, <1>4
      <4>2. v[l].seq = segs[l].seq /\ v[l].bCtrl = segs[l].bCtrl /\ v[l].xmit = segs[l].xmit
            /\ v[l].len = segs[l].len + n
        BY <4>1, <3>3 DEF Seg
      <4> HIDE DEF v, segs
      <4>3. ASSUME NEW j \in 1..Len(segs)
            PROVE  /\ j < Len(segs) => v[j] = segs[j]
                   /\ v[j].seq = segs[j].seq /\ v[j].bCtrl = segs[j].bCtrl
                   /\ v[j].xmit = segs[j].xmit
                   /\ j = Len(segs) => v[j].len = segs[j].len + n
        <5>1. CASE j = l
          BY <5>1, <4>2, <3>2
        <5>2. CASE j # l
          BY <5>2, <4>1, <3>2
        <5> QED
          BY <5>1, <5>2
      <4> QED
        BY <4>1, <4>3 DEF GrownBy
    <3> HIDE DEF v
    <3> QED
      BY <3>2, <3>6, <2>1, <1>2, <1>3, <1>4, <1>5, GrowChain
  <2>2. CASE ~(Len(segs) > 0 /\ segs[Len(segs)].bCtrl = ctl /\ segs[Len(segs)].xmit = 0)
    <3> DEFINE s == [seq |-> una + m, len |-> n, bCtrl |-> ctl, xmit |-> 0]
    <3>1. v = Append(segs, s)
      BY <2>2 DEF Queued
    <3>2. s \in Seg /\ s.seq = una + m /\ s.len = n /\ s.bCtrl = ctl /\ s.xmit = 0
      BY <1>2, XmitBounds DEF Seg
    <3> HIDE DEF s
    <3>3. v \in Seq(Seg) /\ LongerBy(v, segs, s)
      BY <3>1, <3>2, <1>4 DEF LongerBy
    <3> HIDE DEF v
    <3> QED
      BY <3>2, <3>3, <1>2, <1>3, <1>4, <1>5, <1>6, AppendChain, SMTT(30)
  <2> QED
    BY <2>1, <2>2
<1> HIDE DEF v
<1>8. /\ w.slist = v /\ w.snd_una = una /\ w.sbuf = m + n /\ w.snd_nxt = nxt
      /\ w.snd_wnd = t.snd_wnd /\ w.rto = t.rto /\ w.recover = t.recover
  BY <1>1 DEF Queues, v
<1>9. SendOK(w)
  <2>1. Sent(w)
    BY <1>3, <1>7, <1>8 DEF Sent
  <2>2. w.sbuf \in 0..SndBuf
    BY <1>8, <1>2
  <2>3. SendOK(t)
    BY GoodParts
  <2> QED
    BY <2>1, <2>2, <2>3, <1>7, <1>8, <1>2 DEF SendOK
<1>10. \A x \in Nat : IsEnd(t, x) => IsEnd(w, x)
  BY <1>7, <1>8 DEF IsEnd
<1>11. Pair(t, p) /\ p.rcv_nxt \in Nat /\ p.rlist \in Seq(RSeg)
  BY GoodParts DEF PeerOK, RecvOK
<1>12. /\ IsWork(w) /\ KeepsRecv(w, t) /\ KeepsCall(w, t) /\ KeepsUser(w, t)
       /\ w.out = t.out /\ w.lastack = t.lastack /\ w.t_ack = t.t_ack
       /\ w.dup_acks = t.dup_acks /\ w.failed = t.failed /\ w.state = t.state
  BY <1>1 DEF Queues, KeepsOut
<1>13. w.t_ack \in BOOLEAN /\ w.dup_acks \in 0..(DupAcks - 1)
  BY <1>12 DEF Good, Acks
<1>14. Good(w, p) /\ Goes(w, t)
  <2>1. w.snd_una <= p.rcv_nxt /\ w.snd_una + w.snd_wnd <= Edge(p)
        /\ w.snd_nxt <= Edge(p) /\ t.snd_nxt <= w.snd_nxt
    BY <1>8, <1>11, <1>2 DEF Pair
  <2> QED
    BY <2>1, <1>9, <1>10, <1>11, <1>12, <1>13, SendSideGood
<1>15. Sum(w) = Sum(t) + n
  BY <1>8, <1>2 DEF Sum
<1>16. AckPart(t) => AckPart(w)
  <2>1. w.rcv_nxt = t.rcv_nxt
    BY <1>12 DEF KeepsRecv
  <2>2. Sum(t) \in Nat
    BY <1>2, SMTT(30) DEF Sum
  <2> QED
    BY <2>1, <2>2, <1>12, <1>15, <1>8, <1>2 DEF AckPart
<1> QED
  BY <1>14, <1>15, <1>16, <1>8, <1>12 DEF Talks, w

---------------------------------------------------------------------------
(* transmit(), and the splitting of a segment.                             *)

(* transmit() of segment i, which was sent before or comes next.           *)
NextAfter(t, i) == IF t.slist[i].xmit = 0 THEN t.snd_nxt + t.slist[i].len ELSE t.snd_nxt
Marked(t, i) == [t.slist EXCEPT ![i] = [t.slist[i] EXCEPT !.xmit = @ + 1]]

LEMMA TransmitEffect ==
  ASSUME NEW t, IsWork(t), NEW i
  PROVE  \E q : /\ PutsPacket(q, t, t.slist[i].seq, t.slist[i].bCtrl, t.slist[i].len)
                /\ Sends(Transmit(t, i), q, NextAfter(t, i), Marked(t, i))
<1> DEFINE q == PutPacket(t, t.slist[i].seq, t.slist[i].bCtrl, t.slist[i].len)
           nxt == IF t.slist[i].xmit = 0 THEN q.snd_nxt + t.slist[i].len ELSE q.snd_nxt
<1>1. PutsPacket(q, t, t.slist[i].seq, t.slist[i].bCtrl, t.slist[i].len)
  BY PutPacketEffect
<1>2. Transmit(t, i) = [q EXCEPT !.snd_nxt = nxt, !.slist[i].xmit = @ + 1, !.rto = TRUE]
  BY DEF Transmit
<1> HIDE DEF q
<1>3. IsWork(q) /\ q.slist = t.slist /\ q.snd_nxt = t.snd_nxt
  BY <1>1 DEF PutsPacket, KeepsSend
<1>4. nxt = NextAfter(t, i)
  BY <1>3 DEF NextAfter
<1> HIDE DEF nxt
<1>5. Transmit(t, i) = [q EXCEPT !.snd_nxt = nxt,
                       !.slist = [q.slist EXCEPT ![i] = [q.slist[i] EXCEPT !.xmit = @ + 1]],
                       !.rto = TRUE]
  BY <1>2, <1>3, NestedExcept
<1>6. PICK ls : ls = [q.slist EXCEPT ![i] = [q.slist[i] EXCEPT !.xmit = @ + 1]]
  OBVIOUS
<1>7. ls = Marked(t, i)
  BY <1>3, <1>6 DEF Marked
<1>8. Transmit(t, i) = [q EXCEPT !.snd_nxt = nxt, !.slist = ls, !.rto = TRUE]
  BY <1>5, <1>6, Zenon
<1>9. Sends(Transmit(t, i), q, nxt, ls)
  <2>1. Sends([q EXCEPT !.snd_nxt = nxt, !.slist = ls, !.rto = TRUE], q, nxt, ls)
    BY <1>3, SentEffect
  <2> QED
    BY <1>8, <2>1, Zenon
<1> QED
  BY <1>1, <1>4, <1>7, <1>9

LEMMA TransmitGood ==
  ASSUME NEW t, NEW p, Good(t, p), PeerOK(p), NEW i \in 1..Len(t.slist),
         \A j \in 1..Len(t.slist) : j < i => t.slist[j].xmit > 0,
         t.slist[i].len <= Mss, t.slist[i].xmit < XmitTop,
         t.slist[i].xmit = 0 => t.snd_nxt + t.slist[i].len <= Edge(p)
  PROVE  LET w == Transmit(t, i)
         IN  /\ Good(w, p) /\ Goes(w, t) /\ Talks(w, t) /\ Sum(w) = Sum(t)
             /\ w.sbuf = t.sbuf /\ w.snd_nxt = NextAfter(t, i) /\ w.failed = t.failed
             /\ w.rto = TRUE /\ AckPart(w) /\ w.snd_wnd = t.snd_wnd /\ w.lastack = t.rcv_nxt
             /\ w.dup_acks = t.dup_acks
<1> DEFINE w == Transmit(t, i)
           segs == t.slist
           v == Marked(t, i)
           una == t.snd_una
           m == t.sbuf
           nxt == t.snd_nxt
           to == NextAfter(t, i)
<1>1. PICK q : /\ PutsPacket(q, t, t.slist[i].seq, t.slist[i].bCtrl, t.slist[i].len)
               /\ Sends(w, q, to, v)
  BY GoodParts, TransmitEffect
<1> HIDE DEF w
<1>2. /\ una \in Nat /\ nxt \in Nat /\ t.snd_wnd \in Nat
      /\ m \in Nat /\ t.rcv_nxt \in Nat /\ SndBuf \in Nat /\ Edge(t) \in Nat
  BY GoodTypes, ConstantTypes, SMTT(30)
<1>3. PICK k \in 0..Len(segs) : SentTo(segs, una, nxt, k) /\ (t.rto <=> k > 0)
  BY GoodParts
<1>4. /\ Chain(segs, una, m) /\ AllOK(segs) /\ segs \in Seq(Seg) /\ Len(segs) \in Nat
  BY GoodParts, <1>2, ChainFacts
<1>5. /\ segs[i] \in Seg /\ segs[i].seq \in Nat /\ segs[i].len \in Nat \ {0}
      /\ segs[i].bCtrl \in BOOLEAN /\ segs[i].xmit \in 0..XmitTop /\ XmitTop \in Nat
  <2>1. XmitTop \in Nat
    BY XmitBounds
  <2> QED
    BY <2>1, <1>2, <1>4, SegIsTyped, ElementOfSeq
<1>6. i <= k + 1
  <2>1. CASE i = 1
    BY <2>1, <1>3
  <2>2. CASE i # 1
    <3>1. PICK j \in 1..Len(segs) : j = i - 1 /\ j < i
      BY <2>2, <1>4
    <3>2. segs[j].xmit > 0
      BY <3>1
    <3>3. j <= k
      BY <3>2, <1>3 DEF SentTo
    <3> QED
      BY <3>1, <3>3, <1>3
  <2> QED
    BY <2>1, <2>2
<1>7. segs[i].xmit > 0 <=> i <= k
  BY <1>3 DEF SentTo
<1>8. segs[i].xmit = 0 <=> k < i
  BY <1>3, <1>5, <1>7
<1>9. v \in Seq(Seg) /\ SentAlike(v, segs, i)
  <2> DEFINE s == [segs[i] EXCEPT !.xmit = @ + 1]
  <2>1. s \in Seg /\ s.seq = segs[i].seq /\ s.len = segs[i].len /\ s.bCtrl = segs[i].bCtrl
        /\ s.xmit = segs[i].xmit + 1
    BY <1>5, SMTT(30) DEF Seg
  <2>2. v = [segs EXCEPT ![i] = s]
    BY DEF Marked
  <2> HIDE DEF s, v
  <2>3. v \in Seq(Seg) /\ Len(v) = Len(segs) /\ v[i] = s
        /\ \A j \in 1..Len(segs) : j # i => v[j] = segs[j]
    BY <2>1, <2>2, <1>4
  <2>4. ASSUME NEW j \in 1..Len(segs)
        PROVE  /\ v[j].seq = segs[j].seq /\ v[j].len = segs[j].len
               /\ v[j].bCtrl = segs[j].bCtrl /\ (j # i => v[j].xmit = segs[j].xmit)
    <3>1. CASE j = i
      BY <3>1, <2>1, <2>3
    <3>2. CASE j # i
      BY <3>2, <2>3
    <3> QED
      BY <3>1, <3>2
  <2> QED
    BY <2>1, <2>3, <2>4 DEF SentAlike
<1>10. segs[i].seq + segs[i].len = EndOf(segs[i])
  BY DEF EndOf
<1>11. /\ k < i => to = EndOf(segs[i])
       /\ i <= k => to = nxt
       /\ to \in Nat /\ nxt <= to
  <2>1. i <= k => to = nxt
    BY <1>5, <1>7 DEF NextAfter
  <2>2. k < i => to = nxt + segs[i].len
    BY <1>8 DEF NextAfter
  <2>3. k < i => segs[i].seq = nxt
    BY <1>2, <1>3, <1>4, <1>6, SentFacts, SMTT(30)
  <2> HIDE DEF to
  <2>4. CASE k < i
    <3>1. PICK b \in Nat, n \in Nat \ {0} : b = segs[i].seq /\ n = segs[i].len
      BY <1>5
    <3>2. nxt = b /\ to = b + n /\ EndOf(segs[i]) = b + n
      BY <3>1, <2>2, <2>3, <2>4, <1>10
    <3>3. to \in Nat /\ nxt <= to /\ to = EndOf(segs[i])
      BY <3>2
    <3>4. ~(i <= k)
      BY <2>4, <1>3
    <3> QED
      BY <3>3, <3>4
  <2>5. CASE i <= k
    <3>1. ~(k < i)
      BY <2>5, <1>3
    <3> QED
      BY <3>1, <2>1, <2>5, <1>2
  <2>6. k < i \/ i <= k
    BY <1>3
  <2> QED
    BY <2>4, <2>5, <2>6
<1>12. PICK l \in Nat : (k < i => l = i) /\ (i <= k => l = k)
  BY <1>3, SMTT(30)
<1> HIDE DEF v, to
<1>13. /\ Chain(v, una, m) /\ SentTo(v, una, to, l) /\ AllOK(v)
       /\ \A x : EndIn(segs, una, x) => EndIn(v, una, x)
       /\ EndIn(v, una, EndOf(segs[i]))
  BY <1>2, <1>3, <1>4, <1>6, <1>9, <1>11, <1>12, TransmitChain
<1>14. /\ IsWork(w) /\ w.slist = v /\ w.snd_una = una /\ w.sbuf = m /\ w.snd_nxt = to
       /\ w.snd_wnd = t.snd_wnd /\ w.rto = TRUE /\ w.recover = t.recover
       /\ w.dup_acks = t.dup_acks /\ w.failed = t.failed /\ w.state = t.state
       /\ w.t_ack = FALSE /\ w.lastack = t.rcv_nxt
  BY <1>1 DEF Sends, PutsPacket, KeepsSend, KeepsOut
<1>15. KeepsRecv(w, t) /\ KeepsUser(w, t) /\ KeepsCall(w, t)
  BY <1>1 DEF Sends, PutsPacket, KeepsRecv, KeepsUser, KeepsCall
<1>16. SendOK(w)
  <2>1. l > 0
    BY <1>3, <1>12
  <2>2. Sent(w)
    BY <2>1, <1>13, <1>14 DEF Sent
  <2>3. SendOK(t)
    BY GoodParts
  <2>4. t.recover \in Nat /\ t.recover <= nxt /\ m \in 0..SndBuf
    BY <2>3 DEF SendOK
  <2>5. w.recover \in Nat /\ w.recover <= w.snd_nxt
    BY <2>4, <1>2, <1>11, <1>14
  <2>6. Chain(w.slist, w.snd_una, w.sbuf) /\ AllOK(w.slist) /\ w.rto \in BOOLEAN
    BY <1>13, <1>14
  <2>7. w.snd_una \in Nat /\ w.snd_wnd \in Nat /\ w.snd_nxt \in Nat /\ w.sbuf \in 0..SndBuf
    BY <2>4, <1>2, <1>11, <1>14
  <2> QED
    BY <2>2, <2>5, <2>6, <2>7 DEF SendOK
<1>17. \A x \in Nat : IsEnd(t, x) => IsEnd(w, x)
  BY <1>13, <1>14 DEF IsEnd
<1>18. SendSide(w, p)
  <2>1. Pair(t, p) /\ p.rcv_nxt \in Nat /\ p.rlist \in Seq(RSeg)
    BY GoodParts DEF PeerOK, RecvOK
  <2>2. w.snd_nxt <= Edge(p)
    <3>1. i <= k => to <= Edge(p)
      BY <2>1, <1>11 DEF Pair
    <3>2. k < i => to <= Edge(p)
      BY <1>8 DEF NextAfter, to
    <3> QED
      BY <3>1, <3>2, <1>3, <1>14
  <2>3. w.snd_una <= p.rcv_nxt /\ w.snd_una + w.snd_wnd <= Edge(p)
    BY <2>1, <1>14 DEF Pair
  <2>4. Pair(w, p)
    BY <2>1, <2>2, <2>3, <1>17, PairGrows
  <2> QED
    BY <2>4, <1>16 DEF SendSide
<1>19. RecvSide(w, p) /\ Edge(w) = Edge(t) /\ w.rcv_nxt = t.rcv_nxt
  BY <1>15, RecvKept DEF Good
<1>20. Goes(w, t)
  BY <1>2, <1>11, <1>14, <1>15, <1>17, <1>19 DEF Goes
<1>21. OutOK(w, p)
  <2>1. DataOK(w, segs[i].seq, segs[i].bCtrl, segs[i].len)
    <3>1. IsEnd(w, segs[i].seq + segs[i].len)
      BY <1>10, <1>13, <1>14 DEF IsEnd
    <3>2. SegOK(segs[i])
      BY <1>4 DEF AllOK
    <3> QED
      BY <3>1, <3>2, <1>5, <1>10 DEF DataOK, SegOK
  <2>2. w.out = q.out /\ w.peer = t.peer /\ w.rcv_wnd = t.rcv_wnd
    BY <1>1, <1>15 DEF Sends, KeepsOut, KeepsCall, KeepsRecv
  <2>3. q.out = IF t.refuse THEN t.out
                ELSE t.out \cup {[to |-> t.peer, seq |-> segs[i].seq, ack |-> t.rcv_nxt,
                                  ctl |-> segs[i].bCtrl, len |-> segs[i].len,
                                  wnd |-> t.rcv_wnd \div WindowUnit]}
    BY <1>1 DEF PutsPacket
  <2>4. \A o \in w.out : o \in t.out \/ o = [to |-> w.peer, seq |-> segs[i].seq,
            ack |-> w.rcv_nxt, ctl |-> segs[i].bCtrl, len |-> segs[i].len,
            wnd |-> w.rcv_wnd \div WindowUnit]
    BY <2>2, <2>3, <1>19
  <2>5. segs[i].seq \in Int /\ segs[i].bCtrl \in BOOLEAN /\ segs[i].len \in 0..Mss
    BY <1>5, ConstantTypes
  <2>6. OutOK(t, p)
    BY GoodParts
  <2> QED
    BY <2>1, <2>4, <2>5, <2>6, <1>2, <1>19, <1>20, AddPacket, SMTT(30)
<1>22. Acks(w) /\ AckPart(w)
  <2>1. w.lastack \in 0..w.rcv_nxt
    BY <1>2, <1>14, <1>19
  <2> QED
    BY <2>1, <1>14, <1>19 DEF Acks, AckPart
<1>23. Good(w, p)
  BY <1>14, <1>15, <1>18, <1>19, <1>21, <1>22 DEF Good, KeepsCall
<1>24. Sum(w) = Sum(t)
  BY <1>14 DEF Sum
<1> QED
  BY <1>14, <1>15, <1>20, <1>22, <1>23, <1>24 DEF Talks, w, to

(* A step that keeps what is sent and received.                            *)
LEMMA SameGood ==
  ASSUME NEW t, NEW p, Good(t, p), NEW w, IsWork(w), KeepsSend(w, t), KeepsRecv(w, t),
         KeepsCall(w, t), w.out = t.out, w.lastack = t.lastack, w.t_ack \in BOOLEAN,
         w.dup_acks \in 0..(DupAcks - 1)
  PROVE  /\ Good(w, p) /\ Goes(w, t) /\ Sum(w) = Sum(t)
         /\ w.t_ack = t.t_ack => (AckPart(w) <=> AckPart(t))
<1>1. SendSide(w, p) /\ Sum(w) = Sum(t) /\ \A x : IsEnd(w, x) <=> IsEnd(t, x)
  BY SendKept DEF Good
<1>2. RecvSide(w, p) /\ Edge(w) = Edge(t) /\ w.rcv_nxt = t.rcv_nxt
  BY RecvKept DEF Good
<1>3. t.rcv_nxt \in Nat /\ Edge(t) \in Nat /\ t.snd_nxt \in Nat
  BY GoodTypes
<1>4. w.snd_nxt = t.snd_nxt
  BY DEF KeepsSend
<1>5. Goes(w, t)
  BY <1>1, <1>2, <1>3, <1>4 DEF Goes
<1>6. OutOK(w, p)
  BY <1>2, <1>3, <1>5, OutKept DEF Good
<1>7. Acks(w)
  BY <1>2 DEF Good, Acks
<1>8. w.t_ack = t.t_ack => (AckPart(w) <=> AckPart(t))
  BY <1>1, <1>2, <1>4 DEF AckPart
<1>9. Good(w, p)
  BY <1>1, <1>2, <1>6, <1>7 DEF Good, KeepsCall
<1> QED
  BY <1>1, <1>5, <1>8, <1>9

(* Segment i, not sent yet, is cut to n bytes.                             *)
Cut(t, i, n) ==
  InsertAt([t.slist EXCEPT ![i].len = n], i + 1,
           [t.slist[i] EXCEPT !.seq = t.slist[i].seq + n, !.len = t.slist[i].len - n])

LEMMA CutIs ==
  ASSUME NEW t, NEW n \in Nat \ {0}, NEW i \in 1..Len(t.slist), t.slist \in Seq(Seg),
         t.slist[i].len > n, NEW k \in Nat, i = k + 1
  PROVE  \E a, b \in Seg : /\ Halves(t.slist[i], a, b) /\ a.len = n
                           /\ Cut(t, i, n) \in Seq(Seg)
                           /\ SplitAt(Cut(t, i, n), t.slist, k, t.slist[i], a, b)
<1> DEFINE segs == t.slist
           s == segs[i]
           a == [s EXCEPT !.len = n]
           b == [s EXCEPT !.seq = s.seq + n, !.len = s.len - n]
           v == Cut(t, i, n)
<1>1. /\ Len(segs) \in Nat /\ s \in Seg /\ s.seq \in Nat /\ s.len \in Nat \ {0}
      /\ s.bCtrl \in BOOLEAN /\ s.xmit \in 0..XmitTop
  BY SegIsTyped, ElementOfSeq
<1>2. a \in Seg /\ a.seq = s.seq /\ a.len = n /\ a.bCtrl = s.bCtrl /\ a.xmit = s.xmit
  BY <1>1 DEF Seg
<1>3. b \in Seg /\ b.seq = s.seq + n /\ b.len = s.len - n /\ b.bCtrl = s.bCtrl /\ b.xmit = s.xmit
  <2>1. s.len - n \in Nat \ {0} /\ s.seq + n \in Nat
    BY <1>1
  <2> QED
    BY <2>1, <1>1 DEF Seg
<1> DEFINE u == [segs EXCEPT ![i] = a]
<1>4. v = InsertAt(u, i + 1, b)
  BY DEF Cut
<1> HIDE DEF a, b, v
<1>5. u \in Seq(Seg) /\ Len(u) = Len(segs) /\ u[i] = a
      /\ \A j \in 1..Len(segs) : j # i => u[j] = segs[j]
  BY <1>1, <1>2
<1> HIDE DEF u
<1>6. i + 1 \in 1..(Len(u) + 1)
  BY <1>1, <1>5
<1> DEFINE c == i + 1
<1>7. v \in Seq(Seg) /\ Inserted(v, u, c, b)
  <2>1. c \in 1..(Len(u) + 1) /\ u \in Seq(Seg) /\ b \in Seg
    BY <1>3, <1>5, <1>6
  <2>2. v = InsertAt(u, c, b)
    BY <1>4
  <2> HIDE DEF c
  <2>3. InsertAt(u, c, b) \in Seq(Seg) /\ Inserted(InsertAt(u, c, b), u, c, b)
    BY <2>1, InsertAtProperties
  <2> QED
    BY <2>2, <2>3
<1>8. /\ v \in Seq(Seg) /\ Len(v) = Len(segs) + 1
      /\ \A j \in 1..(Len(segs) + 1) : j < c => v[j] = u[j]
      /\ \A j \in 1..(Len(segs) + 1) : j = c => v[j] = b
      /\ \A j \in 1..(Len(segs) + 1), l \in 1..Len(segs) : j > c /\ j = l + 1 => v[j] = u[l]
  BY <1>5, <1>7 DEF Inserted
<1>9. v[i] = a
  BY <1>1, <1>5, <1>8
<1>10. v[k + 1] = a /\ v[k + 2] = b
  <2>1. k + 2 \in 1..(Len(segs) + 1) /\ k + 2 = i + 1
    BY <1>1
  <2> QED
    BY <2>1, <1>8, <1>9
<1>11. ASSUME NEW l \in 1..Len(v), NEW j \in 1..Len(segs),
              (j <= k /\ l = j) \/ (j > k + 1 /\ l = j + 1)
       PROVE  v[l] = segs[j]
  <2>1. CASE j <= k /\ l = j
    <3>1. l \in 1..(Len(segs) + 1) /\ l < i + 1 /\ j # i
      BY <2>1, <1>1, <1>8
    <3> QED
      BY <3>1, <2>1, <1>5, <1>8
  <2>2. CASE j > k + 1 /\ l = j + 1
    <3>1. l \in 1..(Len(segs) + 1) /\ l > i + 1 /\ j # i
      BY <2>2, <1>1, <1>8
    <3> QED
      BY <3>1, <2>2, <1>5, <1>8
  <2> QED
    BY <2>1, <2>2, <1>11
<1>12. segs[k + 1] = s
  OBVIOUS
<1>13. SplitAt(v, segs, k, s, a, b)
  BY <1>8, <1>10, <1>11, <1>12 DEF SplitAt
<1>14. Halves(s, a, b)
  <2>1. a.len + b.len = s.len /\ b.seq = a.seq + a.len
    BY <1>1, <1>2, <1>3
  <2> QED
    BY <2>1, <1>2, <1>3 DEF Halves, EndOf
<1> QED
  BY <1>2, <1>3, <1>8, <1>13, <1>14 DEF v

FirstUnsent(t, i) ==
  /\ i \in 1..Len(t.slist) /\ t.slist[i].xmit = 0
  /\ \A j \in 1..Len(t.slist) : j < i => t.slist[j].xmit > 0

LEMMA SplitGood ==
  ASSUME NEW t, NEW p, Good(t, p), PeerOK(p), NEW n \in Nat \ {0}, NEW i, FirstUnsent(t, i)
  PROVE  LET w == Split(t, i, n)
         IN  /\ Good(w, p) /\ Goes(w, t) /\ Talks(w, t) /\ Sum(w) = Sum(t)
             /\ w.sbuf = t.sbuf /\ w.snd_nxt = t.snd_nxt /\ w.failed = t.failed
             /\ w.snd_wnd = t.snd_wnd /\ w.dup_acks = t.dup_acks /\ KeepsOut(w, t)
             /\ w.rto = t.rto
             /\ FirstUnsent(w, i) /\ w.slist[i].len <= n /\ w.slist[i].len \in Nat \ {0}
<1> DEFINE w == Split(t, i, n)
           segs == t.slist
           una == t.snd_una
           m == t.sbuf
           nxt == t.snd_nxt
<1>1. /\ una \in Nat /\ nxt \in Nat /\ t.snd_wnd \in Nat /\ t.recover \in Nat
      /\ m \in Nat /\ t.rcv_nxt \in Nat /\ SndBuf \in Nat /\ Edge(t) \in Nat
  BY GoodTypes, ConstantTypes
<1>2. PICK k \in 0..Len(segs) : SentTo(segs, una, nxt, k) /\ (t.rto <=> k > 0)
  BY GoodParts
<1>3. /\ Chain(segs, una, m) /\ AllOK(segs) /\ segs \in Seq(Seg) /\ Len(segs) \in Nat
  BY GoodParts, <1>1, ChainFacts
<1>4. i \in 1..Len(segs) /\ segs[i].xmit = 0
      /\ \A j \in 1..Len(segs) : j < i => segs[j].xmit > 0
  BY DEF FirstUnsent
<1>5. i = k + 1
  <2>1. ~(i <= k)
    BY <1>2, <1>4 DEF SentTo
  <2>2. ASSUME i > k + 1
        PROVE  FALSE
    <3>1. PICK j \in 1..Len(segs) : j = k + 1 /\ j < i
      BY <2>2, <1>2, <1>3, <1>4
    <3>2. j <= k
      BY <3>1, <1>2, <1>4 DEF SentTo
    <3> QED
      BY <3>1, <3>2, <1>2
  <2> QED
    BY <2>1, <2>2, <1>2, <1>4
<1>6. /\ segs[i] \in Seg /\ segs[i].len \in Nat \ {0} /\ k \in Nat /\ k < Len(segs)
  BY <1>2, <1>3, <1>4, <1>5, SegIsTyped, ElementOfSeq
<1>7. CASE segs[i].len <= n
  <2>1. w = t
    BY <1>7 DEF Split
  <2>2. Goes(t, t)
    BY <1>1 DEF Goes, KeepsCall
  <2>3. /\ Good(t, p) /\ Goes(t, t) /\ Talks(t, t) /\ KeepsOut(t, t)
        /\ FirstUnsent(t, i) /\ t.slist[i].len <= n /\ t.slist[i].len \in Nat \ {0}
    BY <2>2, <1>6, <1>7 DEF Talks, KeepsOut, KeepsRecv, KeepsUser
  <2> HIDE DEF w
  <2> QED
    BY <2>1, <2>3 DEF w
<1>8. CASE segs[i].len > n
  <2> DEFINE v == Cut(t, i, n)
  <2>1. PICK a \in Seg, b \in Seg : Halves(segs[i], a, b) /\ a.len = n /\ v \in Seq(Seg)
                                    /\ SplitAt(v, segs, k, segs[i], a, b)
    BY <1>2, <1>3, <1>4, <1>5, <1>6, <1>8, CutIs
  <2>2. w = [t EXCEPT !.slist = v]
    <3>1. ~(segs[i].len <= n)
      BY <1>6, <1>8
    <3> QED
      BY <3>1 DEF Split, Cut
  <2> HIDE DEF v, w
  <2>3. /\ Chain(v, una, m) /\ SentTo(v, una, nxt, k) /\ AllOK(v)
        /\ \A x : EndIn(segs, una, x) => EndIn(v, una, x)
    BY <2>1, <1>1, <1>2, <1>3, <1>6, SplitChain
  <2>4. SetsSlist(w, t, v)
    BY <2>2, GoodParts, SlistEffect
  <2>5. /\ IsWork(w) /\ w.slist = v /\ w.snd_una = una /\ w.sbuf = m /\ w.snd_nxt = nxt
        /\ w.snd_wnd = t.snd_wnd /\ w.rto = t.rto /\ w.recover = t.recover
        /\ w.dup_acks = t.dup_acks /\ w.failed = t.failed /\ w.state = t.state
        /\ KeepsRecv(w, t) /\ KeepsUser(w, t) /\ KeepsCall(w, t) /\ KeepsOut(w, t)
    BY <2>4 DEF SetsSlist
  <2>6. SendOK(w)
    <3>1. Sent(w)
      BY <2>3, <2>5, <1>2 DEF Sent
    <3>2. SendOK(t)
      BY GoodParts
    <3> QED
      BY <3>1, <3>2, <2>3, <2>5 DEF SendOK
  <2>7. \A x \in Nat : IsEnd(t, x) => IsEnd(w, x)
    BY <2>3, <2>5 DEF IsEnd
  <2>8. Pair(t, p) /\ p.rcv_nxt \in Nat /\ p.rlist \in Seq(RSeg)
    BY GoodParts DEF PeerOK, RecvOK
  <2>9. Good(w, p) /\ Goes(w, t)
    <3>1. w.snd_una <= p.rcv_nxt /\ w.snd_una + w.snd_wnd <= Edge(p)
          /\ w.snd_nxt <= Edge(p) /\ t.snd_nxt <= w.snd_nxt
      BY <2>5, <2>8, <1>1 DEF Pair
    <3>2. w.out = t.out /\ w.lastack = t.lastack /\ w.t_ack \in BOOLEAN
          /\ w.dup_acks \in 0..(DupAcks - 1)
      BY <2>5 DEF KeepsOut, Good, Acks
    <3> QED
      BY <3>1, <3>2, <2>5, <2>6, <2>7, <2>8, SendSideGood
  <2>10. FirstUnsent(w, i) /\ w.slist[i] = a
    <3>1. v[i] = a /\ Len(v) = Len(segs) + 1
      BY <2>1, <1>5 DEF SplitAt
    <3>2. a.xmit = 0
      BY <2>1, <1>4 DEF Halves
    <3>3. ASSUME NEW j \in 1..Len(v), j < i
          PROVE  v[j].xmit > 0
      <4>1. j \in 1..Len(segs) /\ j <= k
        BY <3>3, <1>3, <1>4, <1>5
      <4>2. v[j] = segs[j]
        BY <4>1, <2>1 DEF SplitAt
      <4> QED
        BY <4>1, <4>2, <3>3, <1>4
    <3>4. i \in 1..Len(v)
      BY <3>1, <1>3, <1>4
    <3> QED
      BY <3>1, <3>2, <3>3, <3>4, <2>5 DEF FirstUnsent
  <2>11. Sum(w) = Sum(t)
    BY <2>5 DEF Sum
  <2>12. w.slist[i].len <= n /\ w.slist[i].len \in Nat \ {0}
    BY <2>1, <2>10
  <2> QED
    BY <2>5, <2>9, <2>10, <2>11, <2>12 DEF Talks, w
<1> QED
  BY <1>6, <1>7, <1>8

---------------------------------------------------------------------------
(* attemptSend().                                                          *)

LEMMA WindowOf ==
  ASSUME NEW t, t.snd_wnd \in Nat, t.cwnd \in Nat, t.dup_acks \in Nat
  PROVE  /\ Window(t) \in Nat /\ Window(t) <= t.snd_wnd
         /\ Window(t) = t.snd_wnd \/ Window(t) >= t.cwnd
<1>1. PICK m \in Nat : m = IF t.dup_acks \in {1, 2} THEN t.dup_acks * Mss ELSE 0
  BY ConstantTypes, Product
<1>2. Window(t) = Least(t.snd_wnd, t.cwnd + m)
  BY <1>1 DEF Window
<1> HIDE DEF Window
<1>3. t.cwnd + m \in Nat /\ t.cwnd + m >= t.cwnd
  OBVIOUS
<1> QED
  BY <1>2, <1>3 DEF Least

(* What is available can be sent, and is nothing only if it must be.       *)
LEMMA AvailableOf ==
  ASSUME NEW t, NEW p, Good(t, p)
  PROVE  /\ Available(t) \in Nat /\ Available(t) <= Mss
         /\ Available(t) > 0 => /\ t.snd_nxt + Available(t) <= t.snd_una + t.snd_wnd
                                /\ t.snd_nxt + Available(t) <= Sum(t)
         /\ Available(t) = 0 /\ t.snd_nxt = t.snd_una => t.sbuf = 0 \/ t.snd_wnd = 0
<1>1. /\ t.snd_una \in Nat /\ t.snd_nxt \in Nat /\ t.snd_wnd \in Nat
      /\ t.sbuf \in Nat /\ t.cwnd \in Nat /\ t.dup_acks \in Nat
      /\ t.snd_una <= t.snd_nxt /\ t.snd_nxt <= t.snd_una + t.sbuf
  BY GoodTypes
<1>2. Mss \in Nat \ {0}
  BY ConstantTypes
<1>3. t.cwnd > 0
  <2>1. t.cwnd >= Mss
    BY Sizes DEF Good
  <2> QED
    BY <2>1, <1>1, <1>2
<1>4. PICK f \in Nat : f = InFlight(t) /\ t.snd_nxt = t.snd_una + f /\ f <= t.sbuf
  BY <1>1 DEF InFlight
<1>5. PICK w \in Nat : w = Window(t) /\ w <= t.snd_wnd /\ (w = t.snd_wnd \/ w >= t.cwnd)
  BY <1>1, WindowOf
<1>6. PICK u \in Nat : /\ u = Useable(t) /\ (u > 0 => f + u <= w)
                       /\ (f = 0 => u = w)
  <2>1. Useable(t) = IF f < w THEN w - f ELSE 0
    BY <1>4, <1>5 DEF Useable
  <2> QED
    BY <2>1
<1>7. PICK n \in Nat : n = Least(t.sbuf - f, Mss) /\ n <= t.sbuf - f /\ n <= Mss
                       /\ (n = 0 => t.sbuf = f)
  BY <1>1, <1>2, <1>4 DEF Least
<1>8. Available(t) = IF n <= u THEN n ELSE IF u * 4 < w THEN 0 ELSE u
  BY <1>4, <1>5, <1>6, <1>7 DEF Available
<1>9. PICK a \in Nat : a = Available(t) /\ a = IF n <= u THEN n ELSE IF u * 4 < w THEN 0 ELSE u
  BY <1>8
<1>10. a <= n /\ a <= u
  BY <1>9
<1>11. a <= Mss
  BY <1>2, <1>7, <1>10
<1>12. a > 0 => /\ t.snd_nxt + a <= t.snd_una + t.snd_wnd
                /\ t.snd_nxt + a <= t.snd_una + t.sbuf
  BY <1>1, <1>4, <1>5, <1>6, <1>7, <1>10
<1>13. a = 0 /\ t.snd_nxt = t.snd_una => t.sbuf = 0 \/ t.snd_wnd = 0
  <2>1. SUFFICES ASSUME a = 0, t.snd_nxt = t.snd_una, t.sbuf # 0
                 PROVE  t.snd_wnd = 0
    OBVIOUS
  <2>2. f = 0 /\ n > 0 /\ u = w
    BY <2>1, <1>1, <1>4, <1>6, <1>7
  <2>3. w = 0
    BY <2>1, <2>2, <1>9
  <2> QED
    BY <2>3, <1>1, <1>3, <1>5
<1> QED
  BY <1>9, <1>11, <1>12, <1>13 DEF Sum

LEMMA UnsentOf ==
  ASSUME NEW t, NEW p, Good(t, p), t.snd_nxt < Sum(t)
  PROVE  FirstUnsent(t, Unsent(t)) /\ t.slist[Unsent(t)].seq = t.snd_nxt
<1>1. t.snd_una \in Nat /\ t.sbuf \in Nat /\ t.snd_nxt \in Nat
  BY GoodTypes
<1>2. PICK k \in 0..Len(t.slist) : SentTo(t.slist, t.snd_una, t.snd_nxt, k)
  BY GoodParts
<1>3. Chain(t.slist, t.snd_una, t.sbuf) /\ t.slist \in Seq(Seg) /\ Len(t.slist) \in Nat
  BY <1>1, GoodParts, ChainFacts
<1>4. k < Len(t.slist)
  BY <1>1, <1>2, <1>3, SentFacts DEF Sum
<1>5. PICK i \in 1..Len(t.slist) : i = k + 1
  BY <1>2, <1>3, <1>4
<1>6. DOMAIN t.slist = 1..Len(t.slist)
  BY <1>3
<1>7. \A j \in 1..Len(t.slist) : t.slist[j].xmit > 0 <=> j <= k
  BY <1>2 DEF SentTo
<1>8. t.slist[i].xmit = 0
  <2>1. ~(t.slist[i].xmit > 0)
    BY <1>2, <1>5, <1>7
  <2>2. t.slist[i].xmit \in 0..XmitTop /\ XmitTop \in Nat
    BY <1>3, SegIsTyped, XmitBounds
  <2> QED
    BY <2>1, <2>2
<1>9. \A j \in 1..(i - 1) : t.slist[j].xmit > 0
  BY <1>2, <1>4, <1>5, <1>7
<1> DEFINE Is(j) == j \in DOMAIN t.slist /\ t.slist[j].xmit = 0
                    /\ \A l \in 1..(j - 1) : t.slist[l].xmit > 0
<1>10. Is(i)
  BY <1>6, <1>8, <1>9
<1>11. Unsent(t) = CHOOSE j \in DOMAIN t.slist : t.slist[j].xmit = 0
                                    /\ \A l \in 1..(j - 1) : t.slist[l].xmit > 0
  BY DEF Unsent
<1>12. Is(Unsent(t))
  BY <1>10, <1>11
<1> DEFINE u == Unsent(t)
<1> HIDE DEF u
<1>13. u \in 1..Len(t.slist) /\ t.slist[u].xmit = 0
       /\ \A l \in 1..(u - 1) : t.slist[l].xmit > 0
  BY <1>6, <1>12 DEF u
<1>14. u = i
  <2>1. ~(u <= k)
    BY <1>7, <1>13
  <2>2. ~(i < u)
    <3>1. SUFFICES ASSUME i < u
                   PROVE  FALSE
      OBVIOUS
    <3>2. i \in 1..(u - 1)
      BY <3>1, <1>13
    <3>3. t.slist[i].xmit > 0
      BY <3>2, <1>13
    <3> QED
      BY <3>3, <1>8
  <2> QED
    BY <2>1, <2>2, <1>2, <1>5, <1>13
<1>15. \A j \in 1..Len(t.slist) : j < u => t.slist[j].xmit > 0
  BY <1>2, <1>5, <1>7, <1>14
<1>16. t.slist[u].seq = t.snd_nxt
  BY <1>1, <1>2, <1>3, <1>5, <1>14, SentFacts
<1> QED
  BY <1>13, <1>15, <1>16 DEF FirstUnsent, u

(* What attemptSend() makes of t.                                          *)
SendsFrom(w, t, p) ==
  /\ Good(w, p) /\ Goes(w, t) /\ Talks(w, t) /\ Sum(w) = Sum(t) /\ w.sbuf = t.sbuf
  /\ w.snd_wnd = t.snd_wnd /\ w.dup_acks = t.dup_acks
  /\ w.snd_nxt = t.snd_nxt => w.lastack = t.lastack /\ w.t_ack = t.t_ack
  /\ w.snd_nxt # t.snd_nxt => w.lastack = w.rcv_nxt

LEMMA SendNextGood ==
  ASSUME NEW t, NEW p, Good(t, p), PeerOK(p), MaySend(t)
  PROVE  /\ SendsFrom(SendNext(t), t, p)
         /\ SendNext(t).failed = TRUE \/ SendNext(t).snd_nxt > t.snd_nxt
<1> DEFINE n == Available(t)
           i == Unsent(t)
           w == Split(t, i, n)
<1>1. /\ t.snd_una \in Nat /\ t.snd_nxt \in Nat /\ t.snd_wnd \in Nat /\ Sum(t) \in Nat
      /\ t.rcv_nxt \in Nat /\ Edge(t) \in Nat
  BY GoodTypes DEF Sum
<1>2. /\ n \in Nat \ {0} /\ n <= Mss /\ t.snd_nxt + n <= t.snd_una + t.snd_wnd
      /\ t.snd_nxt + n <= Sum(t)
  BY AvailableOf DEF MaySend
<1> HIDE DEF n
<1>3. FirstUnsent(t, i)
  <2>1. t.snd_nxt < Sum(t)
    BY <1>1, <1>2
  <2> QED
    BY <2>1, UnsentOf
<1> HIDE DEF i
<1>4. /\ Good(w, p) /\ Goes(w, t) /\ Talks(w, t) /\ Sum(w) = Sum(t)
      /\ w.sbuf = t.sbuf /\ w.snd_nxt = t.snd_nxt /\ w.failed = t.failed
      /\ w.snd_wnd = t.snd_wnd /\ w.dup_acks = t.dup_acks /\ KeepsOut(w, t)
      /\ FirstUnsent(w, i) /\ w.slist[i].len <= n /\ w.slist[i].len \in Nat \ {0}
  BY <1>2, <1>3, SplitGood
<1> HIDE DEF w
<1>5. SendNext(t) = IF t.refuse THEN [w EXCEPT !.failed = TRUE] ELSE Transmit(w, i)
  BY DEF SendNext, w, i, n
<1>6. CASE t.refuse
  <2> DEFINE v == [w EXCEPT !.failed = TRUE]
  <2>1. SetsFailed(v, w, TRUE)
    BY <1>4, GoodParts, FailedEffect
  <2> HIDE DEF v
  <2>2. /\ IsWork(v) /\ v.failed = TRUE /\ KeepsSend(v, w) /\ KeepsRecv(v, w)
        /\ KeepsUser(v, w) /\ KeepsCall(v, w) /\ KeepsOut(v, w) /\ v.state = w.state
        /\ v.dup_acks = w.dup_acks
    BY <2>1 DEF SetsFailed
  <2>3. v.out = w.out /\ v.lastack = w.lastack /\ v.t_ack = w.t_ack
    BY <2>2 DEF KeepsOut
  <2>4. v.t_ack \in BOOLEAN /\ v.dup_acks \in 0..(DupAcks - 1)
    BY <2>2, <2>3, <1>4 DEF Good, Acks
  <2>5. Good(v, p) /\ Goes(v, w) /\ Sum(v) = Sum(w)
    BY <2>2, <2>3, <2>4, <1>4, SameGood
  <2>6. Goes(v, t)
    BY <2>5, <1>1, <1>4, GoodTypes, GoesOn
  <2>7. v.snd_nxt = t.snd_nxt /\ v.sbuf = t.sbuf /\ v.snd_wnd = t.snd_wnd
        /\ v.lastack = t.lastack /\ v.t_ack = t.t_ack
    BY <2>2, <2>3, <1>4 DEF KeepsSend, KeepsOut
  <2>8. Talks(v, t)
    BY <2>2, <1>4 DEF Talks, KeepsRecv, KeepsUser
  <2>9. SendNext(t) = v
    BY <1>5, <1>6 DEF v
  <2> QED
    BY <2>2, <2>5, <2>6, <2>7, <2>8, <2>9, <1>4 DEF SendsFrom
<1>7. CASE ~t.refuse
  <2> DEFINE v == Transmit(w, i)
  <2>1. Pair(w, p) /\ Edge(p) \in Nat
    BY <1>4, GoodParts, RecvTypes DEF PeerOK
  <2>2. /\ i \in 1..Len(w.slist) /\ w.slist[i].xmit = 0
        /\ \A j \in 1..Len(w.slist) : j < i => w.slist[j].xmit > 0
    BY <1>4 DEF FirstUnsent
  <2>3. w.slist[i].len <= Mss
    BY <1>2, <1>4, ConstantTypes
  <2>4. w.snd_nxt + w.slist[i].len <= Edge(p)
    <3>1. w.snd_una = t.snd_una
      BY <1>1, <1>4, GoodTypes DEF Sum
    <3>2. w.snd_una + w.snd_wnd <= Edge(p)
      BY <2>1 DEF Pair
    <3> QED
      BY <3>1, <3>2, <2>1, <1>1, <1>2, <1>4
  <2>5. w.slist[i].xmit < XmitTop
    BY <2>2, XmitBounds
  <2>6. /\ Good(v, p) /\ Goes(v, w) /\ Talks(v, w) /\ Sum(v) = Sum(w)
        /\ v.sbuf = w.sbuf /\ v.snd_nxt = NextAfter(w, i)
        /\ v.snd_wnd = w.snd_wnd /\ v.dup_acks = w.dup_acks /\ v.lastack = w.rcv_nxt
    BY <2>2, <2>3, <2>4, <2>5, <1>4, TransmitGood, ZenonT(40)
  <2> HIDE DEF v
  <2>7. v.snd_nxt = t.snd_nxt + w.slist[i].len /\ v.snd_nxt > t.snd_nxt
    BY <2>2, <2>6, <1>1, <1>4 DEF NextAfter
  <2>8. Goes(v, t)
    BY <2>6, <1>1, <1>4, GoodTypes, GoesOn
  <2>9. Talks(v, t) /\ v.rcv_nxt = w.rcv_nxt
    BY <2>6, <1>4 DEF Talks, KeepsRecv, KeepsUser
  <2>10. v.snd_nxt # t.snd_nxt
    BY <2>7, <1>1
  <2>11. SendNext(t) = v
    BY <1>5, <1>7 DEF v
  <2> QED
    BY <2>6, <2>7, <2>8, <2>9, <2>10, <2>11, <1>4 DEF SendsFrom
<1>8. t.refuse \in BOOLEAN
  BY DEF Good
<1> QED
  BY <1>6, <1>7, <1>8

(* The loop of attemptSend() as a function of its turns.                   *)
Turn(w) == IF MaySend(w) THEN SendNext(w) ELSE w

LEMMA SendAllTurns ==
  ASSUME NEW t
  PROVE  \E g : /\ g[0] = t
                /\ \A i \in 1..SndBuf, j \in 0..SndBuf : i = j + 1 => g[i] = Turn(g[j])
                /\ SendAll(t) = g[SndBuf]
<1> DEFINE Step(g, i) == IF i = 0 THEN t ELSE Turn(g[i - 1])
           Exists(n) == \E g : g = [i \in 0..n |-> Step(g, i)]
<1>1. Exists(0)
  <2> DEFINE g == [i \in 0..0 |-> t]
  <2>1. g = [i \in 0..0 |-> Step(g, i)]
    OBVIOUS
  <2> QED
    BY <2>1
<1>2. ASSUME NEW n \in Nat, Exists(n)
      PROVE  Exists(n + 1)
  <2>1. PICK g : g = [i \in 0..n |-> Step(g, i)]
    BY <1>2
  <2> DEFINE h == [i \in 0..(n + 1) |-> IF i <= n THEN g[i] ELSE Turn(g[n])]
  <2>2. ASSUME NEW i \in 0..(n + 1)
        PROVE  h[i] = Step(h, i)
    <3>1. CASE i <= n
      <4>1. h[i] = g[i]
        BY <3>1
      <4>2. g[i] = Step(g, i)
        BY <2>1, <3>1
      <4>3. i # 0 => h[i - 1] = g[i - 1]
        BY <3>1
      <4> QED
        BY <4>1, <4>2, <4>3
    <3>2. CASE i = n + 1
      <4>1. h[i] = Turn(g[n]) /\ h[i - 1] = g[n]
        BY <3>2
      <4> QED
        BY <4>1, <3>2
    <3> QED
      BY <3>1, <3>2
  <2>3. h = [i \in 0..(n + 1) |-> h[i]]
    OBVIOUS
  <2> HIDE DEF h
  <2>4. h = [i \in 0..(n + 1) |-> Step(h, i)]
    BY <2>2, <2>3
  <2> QED
    BY <2>4
<1>3. \A n \in Nat : Exists(n)
  <2> DEFINE P == {n \in Nat : Exists(n)}
  <2>1. P \in SUBSET Nat /\ 0 \in P /\ \A n \in P : n + 1 \in P
    BY <1>1, <1>2
  <2>2. P = Nat
    <3> HIDE DEF P
    <3> QED
      BY <2>1, NatIsInductive
  <2> QED
    BY <2>2
<1>4. Exists(SndBuf)
  BY <1>3, ConstantTypes
<1> DEFINE Code(g, i) == IF i = 0 THEN t
                         ELSE IF MaySend(g[i - 1]) THEN SendNext(g[i - 1]) ELSE g[i - 1]
           after == CHOOSE g : g = [i \in 0..SndBuf |-> Code(g, i)]
<1>5. after = [i \in 0..SndBuf |-> Code(after, i)]
  <2>1. PICK g : g = [i \in 0..SndBuf |-> Step(g, i)]
    BY <1>4
  <2>2. g = [i \in 0..SndBuf |-> Code(g, i)]
    BY <2>1 DEF Turn
  <2> QED
    BY <2>2
<1>6. SendAll(t) = after[SndBuf]
  BY DEF SendAll
<1> HIDE DEF after
<1>7. after[0] = t
  BY <1>5, ConstantTypes
<1>8. ASSUME NEW i \in 1..SndBuf, NEW j \in 0..SndBuf, i = j + 1
      PROVE  after[i] = Turn(after[j])
  <2>1. i \in 0..SndBuf /\ i # 0 /\ i - 1 = j
    BY <1>8, ConstantTypes
  <2> QED
    BY <2>1, <1>5 DEF Turn
<1> QED
  BY <1>6, <1>7, <1>8

LEMMA SendsOn ==
  ASSUME NEW v, NEW w, NEW t, NEW p, SendsFrom(w, t, p), SendsFrom(v, w, p), Good(t, p)
  PROVE  SendsFrom(v, t, p)
<1>1. /\ Good(w, p) /\ Goes(w, t) /\ Talks(w, t) /\ Sum(w) = Sum(t) /\ w.sbuf = t.sbuf
      /\ w.snd_wnd = t.snd_wnd /\ w.dup_acks = t.dup_acks
      /\ w.snd_nxt = t.snd_nxt => w.lastack = t.lastack /\ w.t_ack = t.t_ack
      /\ w.snd_nxt # t.snd_nxt => w.lastack = w.rcv_nxt
  BY DEF SendsFrom
<1>2. /\ Good(v, p) /\ Goes(v, w) /\ Talks(v, w) /\ Sum(v) = Sum(w) /\ v.sbuf = w.sbuf
      /\ v.snd_wnd = w.snd_wnd /\ v.dup_acks = w.dup_acks
      /\ v.snd_nxt = w.snd_nxt => v.lastack = w.lastack /\ v.t_ack = w.t_ack
      /\ v.snd_nxt # w.snd_nxt => v.lastack = v.rcv_nxt
  BY DEF SendsFrom
<1>3. Goes(v, t)
  BY <1>1, <1>2, GoodTypes, GoesOn
<1>4. Talks(v, t) /\ v.rcv_nxt = w.rcv_nxt
  BY <1>1, <1>2 DEF Talks, KeepsRecv, KeepsUser
<1>5. t.snd_nxt \in Nat /\ w.snd_nxt \in Nat /\ v.snd_nxt \in Nat
      /\ t.snd_nxt <= w.snd_nxt /\ w.snd_nxt <= v.snd_nxt
  BY <1>1, <1>2, GoodTypes DEF Goes
<1>6. v.snd_nxt = t.snd_nxt => w.snd_nxt = t.snd_nxt /\ v.snd_nxt = w.snd_nxt
  BY <1>5
<1>7. v.snd_nxt = t.snd_nxt => v.lastack = t.lastack /\ v.t_ack = t.t_ack
  BY <1>1, <1>2, <1>6
<1>8. v.snd_nxt # t.snd_nxt => v.lastack = v.rcv_nxt
  BY <1>1, <1>2, <1>4
<1> QED
  BY <1>1, <1>2, <1>3, <1>4, <1>7, <1>8 DEF SendsFrom

LEMMA SendsNothing ==
  ASSUME NEW t, NEW p, Good(t, p)
  PROVE  SendsFrom(t, t, p)
<1>1. t.snd_nxt \in Nat /\ t.rcv_nxt \in Nat /\ Edge(t) \in Nat
  BY GoodTypes
<1>2. Goes(t, t)
  BY <1>1 DEF Goes, KeepsCall
<1> QED
  BY <1>2 DEF SendsFrom, Talks, KeepsRecv, KeepsUser

LEMMA SendAllGood ==
  ASSUME NEW t, NEW p, Good(t, p), PeerOK(p)
  PROVE  SendsFrom(SendAll(t), t, p) /\ ~MaySend(SendAll(t))
<1>1. PICK g : /\ g[0] = t
               /\ \A i \in 1..SndBuf, j \in 0..SndBuf : i = j + 1 => g[i] = Turn(g[j])
               /\ SendAll(t) = g[SndBuf]
  BY SendAllTurns
<1>2. SndBuf \in Nat /\ t.snd_nxt \in Nat /\ t.snd_una \in Nat /\ t.sbuf \in 0..SndBuf
      /\ t.snd_una <= t.snd_nxt
  BY GoodTypes, ConstantTypes
<1> DEFINE Done(w, i) == SendsFrom(w, t, p) /\ (MaySend(w) => w.snd_nxt >= t.snd_nxt + i)
           P == {i \in Nat : i <= SndBuf => Done(g[i], i)}
<1>3. 0 \in P
  BY <1>1, <1>2, SendsNothing
<1>4. ASSUME NEW j \in P
      PROVE  j + 1 \in P
  <2>1. SUFFICES ASSUME j + 1 <= SndBuf
                 PROVE  Done(g[j + 1], j + 1)
    OBVIOUS
  <2>2. PICK i \in 1..SndBuf : i = j + 1
    BY <2>1, <1>2
  <2>3. j \in 0..SndBuf /\ Done(g[j], j)
    BY <2>2, <1>2
  <2>4. g[i] = Turn(g[j])
    BY <2>2, <2>3, <1>1
  <2> DEFINE w == g[j]
             v == g[i]
  <2> HIDE DEF w, v
  <2>5. SendsFrom(w, t, p) /\ (MaySend(w) => w.snd_nxt >= t.snd_nxt + j) /\ v = Turn(w)
    BY <2>3, <2>4 DEF w, v
  <2>6. Done(v, i)
    <3>1. CASE ~MaySend(w)
      <4>1. v = w
        BY <3>1, <2>5 DEF Turn
      <4> QED
        BY <4>1, <3>1, <2>5
    <3>2. CASE MaySend(w)
      <4>1. v = SendNext(w)
        BY <3>2, <2>5 DEF Turn
      <4>2. Good(w, p)
        BY <2>5 DEF SendsFrom
      <4>3. SendsFrom(v, w, p) /\ (v.failed = TRUE \/ v.snd_nxt > w.snd_nxt)
        BY <4>1, <4>2, <3>2, SendNextGood
      <4>4. SendsFrom(v, t, p)
        BY <4>3, <2>5, SendsOn
      <4>5. MaySend(v) => v.snd_nxt > w.snd_nxt
        BY <4>3 DEF MaySend
      <4>6. w.snd_nxt \in Nat /\ v.snd_nxt \in Nat
        BY <4>2, <4>4, GoodTypes DEF SendsFrom
      <4>7. MaySend(v) => v.snd_nxt >= t.snd_nxt + i
        BY <4>5, <4>6, <3>2, <2>2, <2>5, <1>2
      <4> QED
        BY <4>4, <4>7
    <3> QED
      BY <3>1, <3>2
  <2> QED
    BY <2>2, <2>6 DEF v
<1>5. P = Nat
  <2>1. P \in SUBSET Nat
    OBVIOUS
  <2> HIDE DEF P
  <2> QED
    BY <2>1, <1>3, <1>4, NatIsInductive
<1>6. Done(g[SndBuf], SndBuf)
  BY <1>2, <1>5
<1> DEFINE w == SendAll(t)
<1> HIDE DEF w
<1>7. SendsFrom(w, t, p) /\ (MaySend(w) => w.snd_nxt >= t.snd_nxt + SndBuf)
  BY <1>1, <1>6 DEF w
<1>8. ~MaySend(w)
  <2>1. SUFFICES ASSUME MaySend(w)
                 PROVE  FALSE
    OBVIOUS
  <2>2. Good(w, p) /\ Sum(w) = Sum(t)
    BY <1>7 DEF SendsFrom
  <2>3. Available(w) \in Nat /\ Available(w) > 0
    BY <2>1, <2>2, AvailableOf DEF MaySend
  <2>4. w.snd_nxt + Available(w) <= Sum(w)
    BY <2>2, <2>3, AvailableOf
  <2>5. w.snd_nxt \in Nat
    BY <2>2, GoodTypes
  <2>6. Sum(t) <= t.snd_nxt + SndBuf /\ Sum(t) \in Nat
    BY <1>2 DEF Sum
  <2>7. w.snd_nxt >= t.snd_nxt + SndBuf
    BY <2>1, <1>7
  <2> QED
    BY <2>2, <2>3, <2>4, <2>5, <2>6, <2>7, <1>2
<1> QED
  BY <1>7, <1>8 DEF w

(* Nothing waits without a timer.                                          *)
NoStall(w) == w.sbuf = 0 \/ w.rto \/ w.snd_wnd = 0

LEMMA AttemptSendGood ==
  ASSUME NEW t, NEW p, Good(t, p), PeerOK(p), NEW sflags
  PROVE  LET w == AttemptSend(t, sflags)
         IN  /\ Good(w, p) /\ Goes(w, t) /\ Talks(w, t) /\ Sum(w) = Sum(t) /\ w.sbuf = t.sbuf
             /\ ~w.failed => NoStall(w)
             /\ sflags \in {"ImmediateAck", "DelayedAck"} \/ AckPart(t) => AckPart(w)
<1> DEFINE s == [t EXCEPT !.failed = FALSE]
<1>1. SetsFailed(s, t, FALSE)
  BY GoodParts, FailedEffect
<1> HIDE DEF s
<1>2. /\ IsWork(s) /\ s.failed = FALSE /\ KeepsSend(s, t) /\ KeepsRecv(s, t)
      /\ KeepsUser(s, t) /\ KeepsCall(s, t) /\ s.state = t.state /\ s.dup_acks = t.dup_acks
      /\ s.out = t.out /\ s.lastack = t.lastack /\ s.t_ack = t.t_ack
  BY <1>1 DEF SetsFailed, KeepsOut
<1>3. s.t_ack \in BOOLEAN /\ s.dup_acks \in 0..(DupAcks - 1)
  BY <1>2 DEF Good, Acks
<1>4. Good(s, p) /\ Goes(s, t) /\ Sum(s) = Sum(t) /\ s.sbuf = t.sbuf /\ s.snd_nxt = t.snd_nxt
  BY <1>2, <1>3, SameGood DEF KeepsSend
<1>5. SendsFrom(s, t, p)
  BY <1>2, <1>4 DEF SendsFrom, KeepsSend, Talks
<1> DEFINE w == SendAll(s)
<1>6. SendsFrom(w, t, p) /\ ~MaySend(w)
  BY <1>4, <1>5, SendAllGood, SendsOn
<1>7. PICK flags : flags = IF w.snd_nxt > t.snd_nxt THEN "None" ELSE sflags
  OBVIOUS
<1>8. AttemptSend(t, sflags) =
        IF Available(w) > 0 THEN w
        ELSE IF flags = "ImmediateAck" \/ (flags = "DelayedAck" /\ w.t_ack)
        THEN PutPacket(w, w.snd_nxt, FALSE, 0)
        ELSE [w EXCEPT !.t_ack = w.t_ack \/ flags = "DelayedAck"]
  BY <1>7 DEF AttemptSend, s
<1> HIDE DEF w
<1>9. /\ Good(w, p) /\ Goes(w, t) /\ Talks(w, t) /\ Sum(w) = Sum(t) /\ w.sbuf = t.sbuf
      /\ w.snd_nxt = t.snd_nxt => w.lastack = t.lastack /\ w.t_ack = t.t_ack
      /\ w.snd_nxt # t.snd_nxt => w.lastack = w.rcv_nxt
  BY <1>6 DEF SendsFrom
<1>10. /\ w.snd_una \in Nat /\ w.snd_nxt \in Nat /\ w.snd_wnd \in Nat /\ Sum(w) \in Nat
       /\ w.sbuf \in Nat /\ w.rcv_nxt \in Nat /\ Edge(w) \in Nat /\ t.snd_nxt \in Nat
       /\ t.snd_nxt <= w.snd_nxt /\ w.snd_una <= w.snd_nxt /\ w.rcv_nxt = t.rcv_nxt
       /\ t.rcv_nxt \in Nat /\ Edge(t) \in Nat
  BY <1>9, GoodTypes DEF Sum, Goes, Talks, KeepsRecv
<1>11. ~w.failed => NoStall(w)
  <2>1. SUFFICES ASSUME ~w.failed
                 PROVE  NoStall(w)
    OBVIOUS
  <2>2. Available(w) = 0 \/ NagleHolds(w)
    BY <2>1, <1>6, <1>9, AvailableOf DEF MaySend
  <2>3. PICK k \in 0..Len(w.slist) : /\ SentTo(w.slist, w.snd_una, w.snd_nxt, k)
                                     /\ w.rto <=> k > 0
    BY <1>9, GoodParts
  <2>4. CASE w.snd_nxt # w.snd_una
    <3>1. k # 0
      BY <2>3, <2>4 DEF SentTo
    <3>2. w.rto
      BY <3>1, <2>3
    <3> QED
      BY <3>2 DEF NoStall
  <2>5. CASE w.snd_nxt = w.snd_una
    <3>1. ~NagleHolds(w)
      BY <2>5, <1>10 DEF NagleHolds
    <3>2. w.sbuf = 0 \/ w.snd_wnd = 0
      BY <3>1, <2>2, <2>5, <1>9, AvailableOf
    <3> QED
      BY <3>2 DEF NoStall
  <2> QED
    BY <2>4, <2>5
<1>12. w.snd_nxt # t.snd_nxt \/ AckPart(t) => AckPart(w)
  BY <1>9, <1>10 DEF AckPart
<1> DEFINE a == AttemptSend(t, sflags)
<1> HIDE DEF a
<1>13. CASE Available(w) > 0
  <2>1. a = w
    BY <1>8, <1>13 DEF a
  <2>2. AckPart(w)
    <3>1. Available(w) \in Nat /\ w.snd_nxt + Available(w) <= Sum(w)
      BY <1>9, <1>13, AvailableOf
    <3> QED
      BY <3>1, <1>10, <1>13 DEF AckPart
  <2> QED
    BY <2>1, <2>2, <1>9, <1>11 DEF a
<1>14. CASE ~(Available(w) > 0) /\ (flags = "ImmediateAck" \/ (flags = "DelayedAck" /\ w.t_ack))
  <2> DEFINE q == PutPacket(w, w.snd_nxt, FALSE, 0)
  <2>1. a = q
    BY <1>8, <1>14 DEF a
  <2>2. w.snd_nxt \in Int /\ FALSE \in BOOLEAN /\ 0 \in 0..Mss /\ DataOK(w, w.snd_nxt, FALSE, 0)
    BY <1>10, ConstantTypes DEF DataOK
  <2>3. /\ Good(q, p) /\ Goes(q, w) /\ KeepsSend(q, w) /\ KeepsRecv(q, w)
        /\ KeepsUser(q, w) /\ q.state = w.state /\ q.dup_acks = w.dup_acks
        /\ q.failed = w.failed /\ q.t_ack = FALSE /\ q.lastack = w.rcv_nxt
    BY <2>2, <1>9, PutPacketGood
  <2> HIDE DEF q
  <2>4. Goes(q, t)
    BY <2>3, <1>9, <1>10, GoodTypes, GoesOn
  <2>5. Talks(q, t) /\ q.rcv_nxt = w.rcv_nxt
    BY <2>3, <1>9 DEF Talks, KeepsRecv, KeepsUser
  <2>6. Sum(q) = Sum(t) /\ q.sbuf = t.sbuf
    BY <2>3, <1>9 DEF Sum, KeepsSend
  <2>7. ~q.failed => NoStall(q)
    BY <2>3, <1>11 DEF NoStall, KeepsSend
  <2>8. AckPart(q)
    BY <2>3, <2>5 DEF AckPart
  <2> QED
    BY <2>1, <2>3, <2>4, <2>5, <2>6, <2>7, <2>8 DEF a
<1>15. CASE ~(Available(w) > 0)
            /\ ~(flags = "ImmediateAck" \/ (flags = "DelayedAck" /\ w.t_ack))
  <2> DEFINE b == w.t_ack \/ flags = "DelayedAck"
             q == [w EXCEPT !.t_ack = b]
  <2>1. a = q
    BY <1>8, <1>15 DEF a
  <2>2. b \in BOOLEAN
    OBVIOUS
  <2> HIDE DEF b
  <2>3. SetsTAck(q, w, b)
    BY <1>9, GoodParts, TAckEffect
  <2> HIDE DEF q
  <2>4. /\ IsWork(q) /\ q.t_ack = b /\ q.lastack = w.lastack /\ q.out = w.out
        /\ KeepsSend(q, w) /\ KeepsRecv(q, w) /\ KeepsUser(q, w) /\ KeepsCall(q, w)
        /\ q.state = w.state /\ q.dup_acks = w.dup_acks /\ q.failed = w.failed
    BY <2>3 DEF SetsTAck
  <2>5. q.dup_acks \in 0..(DupAcks - 1)
    BY <2>4, <1>9 DEF Good
  <2>6. Good(q, p) /\ Goes(q, w) /\ Sum(q) = Sum(w)
    BY <2>2, <2>4, <2>5, <1>9, SameGood
  <2>7. Goes(q, t)
    BY <2>6, <1>9, <1>10, GoodTypes, GoesOn
  <2>8. Talks(q, t) /\ q.rcv_nxt = w.rcv_nxt
    BY <2>4, <1>9 DEF Talks, KeepsRecv, KeepsUser
  <2>9. q.sbuf = w.sbuf /\ q.snd_nxt = w.snd_nxt /\ q.rto = w.rto /\ q.snd_wnd = w.snd_wnd
    BY <2>4 DEF KeepsSend
  <2>10. ~q.failed => NoStall(q)
    BY <2>4, <2>9, <1>11 DEF NoStall
  <2>11. AckPart(w) => AckPart(q)
    BY <2>4, <2>6, <2>8, <2>9 DEF AckPart, b
  <2>12. flags = "DelayedAck" => AckPart(q)
    BY <2>4 DEF AckPart, b
  <2>13. sflags \in {"ImmediateAck", "DelayedAck"} /\ ~(flags = "DelayedAck") => AckPart(w)
    <3>1. sflags \in {"ImmediateAck", "DelayedAck"} /\ ~(flags = "DelayedAck") => flags # sflags
      BY <1>15
    <3>2. flags # sflags => w.snd_nxt # t.snd_nxt
      BY <1>7, <1>10
    <3> QED
      BY <3>1, <3>2, <1>12
  <2> QED
    BY <2>1, <2>6, <2>7, <2>8, <2>9, <2>10, <2>11, <2>12, <2>13, <1>9, <1>12 DEF a
<1> QED
  BY <1>13, <1>14, <1>15 DEF a

---------------------------------------------------------------------------
(* The acks: process() up to what is received.                             *)

StateOK(t) ==
  /\ t.state \in {"LISTEN", "SYN_SENT", "SYN_RECEIVED", "ESTABLISHED", "CLOSED"}
  /\ t.state = "LISTEN" => Sum(t) = 0
  /\ t.state \notin {"LISTEN", "CLOSED"} => Sum(t) >= ConnectLen

LEMMA ConnectGood ==
  ASSUME NEW t, NEW p, Good(t, p), PeerOK(p), Sum(t) = 0
  PROVE  LET w == QueueConnectMessage(t)
         IN  /\ Good(w, p) /\ Goes(w, t) /\ Talks(w, t) /\ Sum(w) = ConnectLen
             /\ w.sbuf = ConnectLen /\ w.failed = t.failed /\ (AckPart(t) => AckPart(w))
<1> DEFINE s == [t EXCEPT !.snd_wnd = ConnectLen]
           w == Queue(s, ConnectLen, TRUE)
<1>1. SetsWindow(s, t, ConnectLen)
  BY GoodParts, WindowEffect
<1> HIDE DEF s
<1>2. /\ IsWork(s) /\ s.snd_wnd = ConnectLen
      /\ s.snd_una = t.snd_una /\ s.snd_nxt = t.snd_nxt /\ s.slist = t.slist
      /\ s.sbuf = t.sbuf /\ s.rto = t.rto /\ s.recover = t.recover
      /\ KeepsRecv(s, t) /\ KeepsUser(s, t) /\ KeepsCall(s, t) /\ KeepsOut(s, t)
      /\ s.state = t.state /\ s.dup_acks = t.dup_acks /\ s.failed = t.failed
  BY <1>1 DEF SetsWindow
<1>3. t.snd_una = 0 /\ t.sbuf = 0 /\ t.snd_nxt \in Nat
  BY GoodTypes DEF Sum
<1>4. ConnectLen \in Nat \ {0} /\ ConnectLen <= SndBuf /\ ConnectLen <= RcvBuf
      /\ SndBuf \in Nat /\ RcvBuf \in Nat
  BY ConstantTypes
<1>5. SendOK(s)
  <2>1. SendOK(t)
    BY GoodParts
  <2> QED
    BY <2>1, <1>2, <1>4 DEF SendOK, Sent
<1>6. Pair(t, p) /\ p.rcv_nxt \in Nat /\ p.rlist \in Seq(RSeg)
  BY GoodParts DEF PeerOK, RecvOK
<1>7. Edge(p) >= RcvBuf /\ Edge(p) \in Nat
  BY RecvTypes DEF PeerOK, RecvOK
<1>8. Good(s, p) /\ Goes(s, t)
  <2>1. s.snd_una <= p.rcv_nxt /\ s.snd_una + s.snd_wnd <= Edge(p)
        /\ s.snd_nxt <= Edge(p) /\ t.snd_nxt <= s.snd_nxt
    BY <1>2, <1>3, <1>4, <1>6, <1>7 DEF Pair
  <2>2. s.out = t.out /\ s.lastack = t.lastack /\ s.t_ack \in BOOLEAN
        /\ s.dup_acks \in 0..(DupAcks - 1)
    BY <1>2 DEF KeepsOut, Good, Acks
  <2>3. \A x \in Nat : IsEnd(t, x) => IsEnd(s, x)
    BY <1>2 DEF IsEnd
  <2> QED
    BY <2>1, <2>2, <2>3, <1>2, <1>5, <1>6, SendSideGood
<1>9. Sum(s) = 0 /\ s.sbuf = 0
  BY <1>2, <1>3 DEF Sum
<1>10. AckPart(t) => AckPart(s)
  BY <1>2 DEF AckPart, KeepsOut, KeepsRecv, Sum
<1>11. s.sbuf + ConnectLen <= SndBuf /\ Sum(s) + ConnectLen <= ConnectLen
  BY <1>4, <1>9
<1>12. /\ Good(w, p) /\ Goes(w, s) /\ Talks(w, s) /\ Sum(w) = Sum(s) + ConnectLen
       /\ w.sbuf = s.sbuf + ConnectLen /\ w.failed = s.failed
       /\ AckPart(s) => AckPart(w)
  BY <1>4, <1>8, <1>11, QueueGood
<1> HIDE DEF w
<1>13. Goes(w, t)
  BY <1>8, <1>12, GoodTypes, GoesOn
<1>14. Talks(w, t)
  BY <1>2, <1>12 DEF Talks, KeepsRecv, KeepsUser
<1>15. w = QueueConnectMessage(t)
  BY DEF QueueConnectMessage, w, s
<1>16. Sum(w) = ConnectLen /\ w.sbuf = ConnectLen
  BY <1>4, <1>9, <1>12
<1>17. AckPart(t) => AckPart(w)
  BY <1>10, <1>12
<1>18. w.failed = t.failed
  BY <1>2, <1>12
<1> QED
  BY <1>12, <1>13, <1>14, <1>15, <1>16, <1>17, <1>18

(* What the handling of an ack makes of t.                                 *)
AcksFrom(w, t, p) ==
  /\ Good(w, p) /\ Goes(w, t) /\ KeepsRecv(w, t) /\ KeepsUser(w, t) /\ Sum(w) = Sum(t)
  /\ w.failed = t.failed /\ (w.state = t.state \/ w.state = "CLOSED")
  /\ AckPart(t) => AckPart(w)

LEMMA AcksOn ==
  ASSUME NEW v, NEW w, NEW t, NEW p, AcksFrom(w, t, p), AcksFrom(v, w, p), Good(t, p)
  PROVE  AcksFrom(v, t, p)
<1>1. Goes(v, t)
  BY GoodTypes, GoesOn DEF AcksFrom
<1> QED
  BY <1>1 DEF AcksFrom, KeepsRecv, KeepsUser

LEMMA DupAcksGood ==
  ASSUME NEW t, NEW p, Good(t, p), NEW n \in 0..(DupAcks - 1), NEW w, SetsDupAcks(w, t, n)
  PROVE  AcksFrom(w, t, p)
<1>1. /\ IsWork(w) /\ w.dup_acks = n
      /\ KeepsSend(w, t) /\ KeepsRecv(w, t) /\ KeepsUser(w, t) /\ KeepsCall(w, t)
      /\ w.state = t.state /\ w.failed = t.failed
      /\ w.out = t.out /\ w.lastack = t.lastack /\ w.t_ack = t.t_ack
  BY DEF SetsDupAcks, KeepsOut
<1>2. w.t_ack \in BOOLEAN
  BY <1>1 DEF Good, Acks
<1>3. Good(w, p) /\ Goes(w, t) /\ Sum(w) = Sum(t) /\ (AckPart(w) <=> AckPart(t))
  BY <1>1, <1>2, SameGood
<1> QED
  BY <1>1, <1>3 DEF AcksFrom

LEMMA RetransmitGood ==
  ASSUME NEW t, NEW p, Good(t, p), PeerOK(p), Len(t.slist) > 0, t.slist[1].xmit > 0
  PROVE  /\ AcksFrom(Retransmit(t), t, p) /\ Retransmit(t).snd_nxt = t.snd_nxt
         /\ Retransmit(t).sbuf = t.sbuf
         /\ NoStall(t) => NoStall(Retransmit(t))
<1>1. /\ t.snd_una \in Nat /\ t.sbuf \in Nat /\ t.snd_nxt \in Nat
      /\ t.rcv_nxt \in Nat /\ Edge(t) \in Nat
  BY GoodTypes
<1>2. /\ Chain(t.slist, t.snd_una, t.sbuf) /\ AllOK(t.slist)
      /\ t.slist \in Seq(Seg) /\ Len(t.slist) \in Nat
  BY <1>1, GoodParts, ChainFacts
<1>3. 1 \in 1..Len(t.slist)
  BY <1>2
<1>4. CASE CanTransmit(t, 1)
  <2> DEFINE w == Transmit(t, 1)
  <2>1. t.slist[1].xmit < XmitTop
    <3>1. \/ t.slist[1].xmit < MaxXmit
          \/ t.slist[1].xmit < MaxXmitConnecting
      BY <1>4 DEF CanTransmit
    <3>2. t.slist[1].xmit \in 0..XmitTop /\ XmitTop \in Nat
      BY <1>2, <1>3, SegIsTyped, XmitBounds
    <3> QED
      BY <3>1, <3>2, XmitBounds, ConstantTypes
  <2>2. t.slist[1].len <= Mss
    BY <1>2, <1>3 DEF AllOK, SegOK
  <2>3. t.slist[1].xmit # 0 /\ \A j \in 1..Len(t.slist) : j < 1 => t.slist[j].xmit > 0
    OBVIOUS
  <2>4. /\ Good(w, p) /\ Goes(w, t) /\ Talks(w, t) /\ Sum(w) = Sum(t)
        /\ w.snd_nxt = NextAfter(t, 1) /\ w.failed = t.failed /\ w.rto = TRUE /\ AckPart(w)
        /\ w.sbuf = t.sbuf
    BY <2>1, <2>2, <2>3, <1>3, TransmitGood
  <2> HIDE DEF w
  <2>5. Retransmit(t) = w
    BY <1>4 DEF Retransmit, w
  <2>6. w.snd_nxt = t.snd_nxt
    BY <2>3, <2>4 DEF NextAfter
  <2>7. NoStall(w)
    BY <2>4 DEF NoStall
  <2> QED
    BY <2>4, <2>5, <2>6, <2>7 DEF AcksFrom, Talks
<1>5. CASE ~CanTransmit(t, 1)
  <2> DEFINE w == [t EXCEPT !.state = "CLOSED"]
  <2>1. Retransmit(t) = w
    BY <1>5 DEF Retransmit, Closedown
  <2>2. SetsState(w, t, "CLOSED")
    BY GoodParts, StateEffect
  <2> HIDE DEF w
  <2>3. /\ IsWork(w) /\ w.state = "CLOSED" /\ KeepsSend(w, t) /\ KeepsRecv(w, t)
        /\ KeepsUser(w, t) /\ KeepsCall(w, t) /\ KeepsOut(w, t)
        /\ w.dup_acks = t.dup_acks /\ w.failed = t.failed
        /\ w.out = t.out /\ w.lastack = t.lastack /\ w.t_ack = t.t_ack
    BY <2>2 DEF SetsState, KeepsOut
  <2>4. w.t_ack \in BOOLEAN /\ w.dup_acks \in 0..(DupAcks - 1)
    BY <2>3 DEF Good, Acks
  <2>5. Good(w, p) /\ Goes(w, t) /\ Sum(w) = Sum(t) /\ (AckPart(w) <=> AckPart(t))
    BY <2>3, <2>4, SameGood
  <2>6. w.snd_nxt = t.snd_nxt /\ w.sbuf = t.sbuf /\ (NoStall(t) => NoStall(w))
    BY <2>3 DEF KeepsSend, NoStall
  <2> QED
    BY <2>1, <2>3, <2>5, <2>6 DEF AcksFrom
<1> QED
  BY <1>4, <1>5

(* What is left of the queue when an ack reaches the end of segment j.     *)
EndsAt(segs, una, j, m) == EndOf(segs[j]) = una + m

LEMMA AckedIs ==
  ASSUME NEW segs, NEW una \in Nat, NEW n \in Nat, Chain(segs, una, n),
         NEW j \in 1..Len(segs), NEW m \in Nat, EndsAt(segs, una, j, m)
  PROVE  Acked(segs, m) \in Seq(Seg) /\ SuffixOf(Acked(segs, m), segs, j)
<1>1. segs \in Seq(Seg) /\ Len(segs) \in Nat /\ DOMAIN segs = 1..Len(segs)
  BY ChainFacts
<1>2. ASSUME NEW i \in 1..Len(segs)
      PROVE  Total(SubSeq(segs, 1, i)) = EndOf(segs[i]) - una
  <2>1. i \in 0..Len(segs) /\ i # 0
    BY <1>1
  <2>2. Total(SubSeq(segs, 1, i)) = Until(segs, una, i) - una
    BY <2>1, TotalOfPrefix
  <2> QED
    BY <2>1, <2>2 DEF Until, EndOf
<1>3. ASSUME NEW i \in 1..Len(segs)
      PROVE  Total(SubSeq(segs, 1, i)) <= m <=> i <= j
  <2>1. EndOf(segs[i]) \in Nat /\ EndOf(segs[j]) \in Nat
        /\ segs[i].seq \in Nat /\ segs[j].seq \in Nat
        /\ segs[i].seq < EndOf(segs[i]) /\ segs[j].seq < EndOf(segs[j])
    BY ChainFacts
  <2>2. i < j => EndOf(segs[i]) <= segs[j].seq
    BY DEF Chain
  <2>3. j < i => EndOf(segs[j]) <= segs[i].seq
    BY DEF Chain
  <2>4. Total(SubSeq(segs, 1, i)) <= m <=> EndOf(segs[i]) <= EndOf(segs[j])
    BY <2>1, <1>2 DEF EndsAt
  <2>5. i = j \/ i < j \/ j < i
    BY <1>1
  <2> QED
    BY <2>1, <2>2, <2>3, <2>4, <2>5, <1>1
<1> DEFINE gone == {i \in DOMAIN segs : Total(SubSeq(segs, 1, i)) <= m}
           k == Cardinality(gone)
           part == m - Total(SubSeq(segs, 1, k))
           rest == SubSeq(segs, k + 1, Len(segs))
<1>4. gone = 1..j
  BY <1>1, <1>3
<1>5. Cardinality(1..j) = j
  <2>1. j \in Nat /\ 1 \in Int /\ j \in Int
    BY <1>1
  <2>2. Cardinality(1..j) = IF 1 > j THEN 0 ELSE j - 1 + 1
    BY <2>1, FS_Interval
  <2> QED
    BY <2>1, <2>2
<1>6. k = j
  BY <1>4, <1>5
<1>7. Acked(segs, m) = IF part > 0 THEN [rest EXCEPT ![1].len = @ - part] ELSE rest
  BY DEF Acked
<1> HIDE DEF gone, k
<1>8. part = 0
  <2>1. Total(SubSeq(segs, 1, j)) = EndOf(segs[j]) - una
    BY <1>2
  <2>2. Total(SubSeq(segs, 1, j)) = m
    BY <2>1 DEF EndsAt
  <2> QED
    BY <2>2, <1>6
<1> HIDE DEF part
<1>9. Acked(segs, m) = rest
  BY <1>7, <1>8
<1>10. rest = SubSeq(segs, j + 1, Len(segs))
  BY <1>6
<1> DEFINE v == SubSeq(segs, j + 1, Len(segs))
<1>11. /\ v \in Seq(Seg) /\ Len(v) = Len(segs) - j
       /\ \A i \in 1..(Len(segs) - j) : v[i] = segs[j + i]
  <2>1. j \in 0..Len(segs)
    BY <1>1
  <2> QED
    BY <2>1, <1>1, SuffixProperties
<1> HIDE DEF v, rest
<1>12. SuffixOf(v, segs, j)
  <2>1. ASSUME NEW i \in 1..Len(v), NEW l \in 1..Len(segs), l = i + j
        PROVE  v[i] = segs[l]
    BY <2>1, <1>1, <1>11
  <2> QED
    BY <2>1, <1>11 DEF SuffixOf
<1>13. Acked(segs, m) = v
  BY <1>9, <1>10 DEF v
<1> QED
  BY <1>11, <1>12, <1>13

LEMMA SomeSent ==
  ASSUME NEW segs, NEW una \in Nat, NEW n \in Nat, NEW nxt, NEW k, Chain(segs, una, n),
         SentTo(segs, una, nxt, k)
  PROVE  nxt > una <=> k > 0
<1>1. k \in 0..Len(segs) /\ Len(segs) \in Nat
  BY ChainFacts DEF SentTo
<1>2. k = 0 => nxt = una
  BY DEF SentTo
<1>3. k > 0 => k \in 1..Len(segs)
  BY <1>1
<1>4. k > 0 => nxt = EndOf(segs[k])
  BY <1>3 DEF SentTo
<1>5. k > 0 => /\ EndOf(segs[k]) \in Nat /\ segs[k].seq \in Nat /\ una <= segs[k].seq
               /\ segs[k].seq < EndOf(segs[k])
  BY <1>3, ChainFacts
<1> QED
  BY <1>1, <1>2, <1>4, <1>5

LEMMA NewAckGood ==
  ASSUME NEW t, NEW p, Good(t, p), PeerOK(p), NEW seg, seg.ack \in Nat, seg.wnd \in Nat,
         seg.ack > t.snd_una, seg.ack <= t.snd_nxt, IsEnd(t, seg.ack),
         seg.ack <= p.rcv_nxt, seg.ack + seg.wnd * WindowUnit <= Edge(p)
  PROVE  AcksFrom(NewAck(t, seg), t, p)
<1> DEFINE una == t.snd_una
           n == t.sbuf
           segs == t.slist
           to == seg.ack
           m == to - una
           wnd == seg.wnd * WindowUnit
           rest == n - m
           v == Acked(segs, m)
           rto == to # t.snd_nxt
           s == [t EXCEPT !.snd_wnd = wnd, !.snd_una = to, !.rto = rto, !.sbuf = rest,
                          !.slist = v]
<1>1. /\ una \in Nat /\ n \in Nat /\ t.snd_nxt \in Nat /\ t.recover \in Nat
      /\ t.rcv_nxt \in Nat /\ Edge(t) \in Nat /\ to \in Nat /\ m \in Nat /\ to > una
      /\ n <= SndBuf /\ SndBuf \in Nat
  BY GoodTypes, ConstantTypes
<1>2. wnd \in Nat
  BY Product, ConstantTypes
<1>3. PICK k \in 0..Len(segs) : SentTo(segs, una, t.snd_nxt, k) /\ (t.rto <=> k > 0)
  BY GoodParts
<1>4. /\ Chain(segs, una, n) /\ AllOK(segs) /\ segs \in Seq(Seg) /\ Len(segs) \in Nat
  BY <1>1, GoodParts, ChainFacts
<1>5. PICK j \in 1..Len(segs) : segs[j].xmit > 0 /\ to = EndOf(segs[j])
  <2>1. to \notin 0..una
    BY <1>1
  <2> QED
    BY <2>1 DEF IsEnd, EndIn
<1>6. EndsAt(segs, una, j, m)
  BY <1>1, <1>5, SMTT(30) DEF EndsAt
<1>7. NewAck(t, seg) = IF s.dup_acks >= FastRetransmit /\ s.snd_una < s.recover
                       THEN Retransmit(s) ELSE [s EXCEPT !.dup_acks = 0]
  BY DEF NewAck
<1>8. SetsNewAck(s, t, wnd, to, rto, rest, v)
  BY GoodParts, NewAckEffect
<1> HIDE DEF s
<1>9. v \in Seq(Seg) /\ SuffixOf(v, segs, j)
  BY <1>1, <1>4, <1>6, AckedIs
<1> HIDE DEF v
<1>d. PICK d \in Int : Less(d, k, j)
  <2>1. k - j \in Int /\ Less(k - j, k, j)
    BY <1>4 DEF Less
  <2> QED
    BY <2>1
<1>r. rest \in Int /\ rest <= n /\ AcksTo(segs, una, n, j, to, rest)
  BY <1>1, <1>5 DEF AcksTo
<1> HIDE DEF rest
<1>10. /\ rest \in Nat /\ Chain(v, to, rest) /\ SentTo(v, to, t.snd_nxt, d) /\ AllOK(v)
       /\ \A x \in Nat : EndIn(segs, una, x) => EndIn(v, to, x)
  BY <1>1, <1>3, <1>4, <1>5, <1>9, <1>d, <1>r, AckChain
<1>11. /\ IsWork(s) /\ s.snd_wnd = wnd /\ s.snd_una = to /\ s.rto = rto
       /\ s.sbuf = rest /\ s.slist = v /\ s.snd_nxt = t.snd_nxt /\ s.recover = t.recover
       /\ KeepsRecv(s, t) /\ KeepsUser(s, t) /\ KeepsCall(s, t) /\ KeepsOut(s, t)
       /\ s.state = t.state /\ s.dup_acks = t.dup_acks /\ s.failed = t.failed
  BY <1>8 DEF SetsNewAck
<1>12. d \in 0..Len(v) /\ (to # t.snd_nxt <=> d > 0)
  <2> DEFINE nxt == t.snd_nxt
  <2>1. to \in Nat /\ rest \in Nat /\ Chain(v, to, rest) /\ SentTo(v, to, nxt, d)
    BY <1>1, <1>10
  <2> HIDE DEF nxt, to
  <2>2. d \in 0..Len(v)
    BY <2>1, SentFacts
  <2>3. nxt > to <=> d > 0
    BY <2>1, SomeSent
  <2>4. nxt >= to /\ nxt \in Nat
    BY <2>1, SentFacts
  <2> QED
    BY <2>1, <2>2, <2>3, <2>4 DEF nxt, to
<1>13. SendOK(s)
  <2>1. Sent(s)
    BY <1>10, <1>11, <1>12 DEF Sent
  <2>2. SendOK(t)
    BY GoodParts
  <2>3. s.recover <= s.snd_nxt /\ s.recover \in Nat /\ s.snd_nxt \in Nat
    BY <2>2, <1>1, <1>11 DEF SendOK
  <2>4. s.sbuf \in 0..SndBuf
    BY <1>1, <1>r, <1>10, <1>11
  <2>5. s.rto \in BOOLEAN
    BY <1>11
  <2>6. s.snd_una \in Nat /\ s.snd_wnd \in Nat
    BY <1>1, <1>2, <1>11
  <2>7. Chain(s.slist, s.snd_una, s.sbuf) /\ AllOK(s.slist)
    BY <1>10, <1>11
  <2> QED
    BY <2>1, <2>3, <2>4, <2>5, <2>6, <2>7 DEF SendOK
<1>14. Pair(t, p) /\ p.rcv_nxt \in Nat /\ p.rlist \in Seq(RSeg)
  BY GoodParts DEF PeerOK, RecvOK
<1>15. Good(s, p) /\ Goes(s, t)
  <2>1. s.snd_una <= p.rcv_nxt /\ s.snd_una + s.snd_wnd <= Edge(p)
        /\ s.snd_nxt <= Edge(p) /\ t.snd_nxt <= s.snd_nxt
    BY <1>11, <1>14, <1>1 DEF Pair
  <2>2. s.out = t.out /\ s.lastack = t.lastack /\ s.t_ack \in BOOLEAN
        /\ s.dup_acks \in 0..(DupAcks - 1)
    BY <1>11 DEF KeepsOut, Good, Acks
  <2>3. \A x \in Nat : IsEnd(t, x) => IsEnd(s, x)
    BY <1>10, <1>11 DEF IsEnd
  <2> QED
    BY <2>1, <2>2, <2>3, <1>11, <1>13, <1>14, SendSideGood
<1>16. Sum(s) = Sum(t)
  BY <1>1, <1>11, SMTT(30) DEF Sum, rest
<1>17. AckPart(t) => AckPart(s)
  BY <1>11, <1>16 DEF AckPart, KeepsOut, KeepsRecv
<1>18. AcksFrom(s, t, p)
  BY <1>11, <1>15, <1>16, <1>17 DEF AcksFrom
<1>19. CASE s.dup_acks >= FastRetransmit /\ s.snd_una < s.recover
  <2>1. to # t.snd_nxt
    BY <1>19, <1>11, <1>13, <1>1 DEF SendOK
  <2>2. d \in 0..Len(v) /\ d > 0
    BY <2>1, <1>12
  <2>3. Len(v) > 0 /\ Len(v) \in Nat
    BY <2>2, <1>9
  <2>4. v[1].xmit > 0
    <3>1. 1 \in 1..Len(v) /\ 1 <= d
      BY <2>2, <2>3
    <3> QED
      BY <3>1, <1>10 DEF SentTo
  <2>5. AcksFrom(Retransmit(s), s, p)
    BY <2>3, <2>4, <1>11, <1>15, RetransmitGood
  <2>6. NewAck(t, seg) = Retransmit(s)
    BY <1>7, <1>19
  <2> QED
    BY <2>5, <2>6, <1>18, AcksOn
<1>20. CASE ~(s.dup_acks >= FastRetransmit /\ s.snd_una < s.recover)
  <2> DEFINE q == [s EXCEPT !.dup_acks = 0]
  <2>1. NewAck(t, seg) = q
    BY <1>7, <1>20
  <2>2. SetsDupAcks(q, s, 0)
    BY <1>11, DupAcksEffect
  <2> HIDE DEF q
  <2>3. AcksFrom(q, s, p)
    BY <2>2, <1>15, DupAcksGood, ConstantTypes
  <2> QED
    BY <2>1, <2>3, <1>18, AcksOn
<1> QED
  BY <1>19, <1>20

LEMMA WindowGood ==
  ASSUME NEW t, NEW p, Good(t, p), PeerOK(p), NEW v \in Nat, t.snd_una + v <= Edge(p),
         NEW w, SetsWindow(w, t, v)
  PROVE  AcksFrom(w, t, p)
<1>1. /\ IsWork(w) /\ w.snd_wnd = v
      /\ w.snd_una = t.snd_una /\ w.snd_nxt = t.snd_nxt /\ w.slist = t.slist
      /\ w.sbuf = t.sbuf /\ w.rto = t.rto /\ w.recover = t.recover
      /\ KeepsRecv(w, t) /\ KeepsUser(w, t) /\ KeepsCall(w, t) /\ KeepsOut(w, t)
      /\ w.state = t.state /\ w.dup_acks = t.dup_acks /\ w.failed = t.failed
  BY DEF SetsWindow
<1>2. SendOK(w)
  <2>1. SendOK(t)
    BY GoodParts
  <2> QED
    BY <2>1, <1>1 DEF SendOK, Sent
<1>3. Pair(t, p) /\ p.rcv_nxt \in Nat /\ p.rlist \in Seq(RSeg)
  BY GoodParts DEF PeerOK, RecvOK
<1>4. Good(w, p) /\ Goes(w, t)
  <2>1. w.snd_una <= p.rcv_nxt /\ w.snd_una + w.snd_wnd <= Edge(p)
        /\ w.snd_nxt <= Edge(p) /\ t.snd_nxt <= w.snd_nxt
    BY <1>1, <1>3, GoodTypes DEF Pair
  <2>2. w.out = t.out /\ w.lastack = t.lastack /\ w.t_ack \in BOOLEAN
        /\ w.dup_acks \in 0..(DupAcks - 1)
    BY <1>1 DEF KeepsOut, Good, Acks
  <2>3. \A x \in Nat : IsEnd(t, x) => IsEnd(w, x)
    BY <1>1 DEF IsEnd
  <2> QED
    BY <2>1, <2>2, <2>3, <1>1, <1>2, <1>3, SendSideGood
<1>5. Sum(w) = Sum(t)
  BY <1>1 DEF Sum
<1>6. AckPart(t) => AckPart(w)
  BY <1>1, <1>5 DEF AckPart, KeepsOut, KeepsRecv
<1> QED
  BY <1>1, <1>4, <1>5, <1>6 DEF AcksFrom

LEMMA SetRecoverGood ==
  ASSUME NEW t, NEW p, Good(t, p), PeerOK(p), NEW w, SetsRecover(w, t, t.snd_nxt)
  PROVE  AcksFrom(w, t, p)
<1>1. /\ IsWork(w) /\ w.recover = t.snd_nxt
      /\ w.snd_una = t.snd_una /\ w.snd_nxt = t.snd_nxt /\ w.slist = t.slist
      /\ w.sbuf = t.sbuf /\ w.rto = t.rto /\ w.snd_wnd = t.snd_wnd
      /\ KeepsRecv(w, t) /\ KeepsUser(w, t) /\ KeepsCall(w, t) /\ KeepsOut(w, t)
      /\ w.state = t.state /\ w.dup_acks = t.dup_acks /\ w.failed = t.failed
  BY DEF SetsRecover
<1>2. SendOK(w)
  <2>1. SendOK(t)
    BY GoodParts
  <2> QED
    BY <2>1, <1>1 DEF SendOK, Sent
<1>3. Pair(t, p) /\ p.rcv_nxt \in Nat /\ p.rlist \in Seq(RSeg)
  BY GoodParts DEF PeerOK, RecvOK
<1>4. Good(w, p) /\ Goes(w, t)
  <2>1. w.snd_una <= p.rcv_nxt /\ w.snd_una + w.snd_wnd <= Edge(p)
        /\ w.snd_nxt <= Edge(p) /\ t.snd_nxt <= w.snd_nxt
    BY <1>1, <1>3, GoodTypes DEF Pair
  <2>2. w.out = t.out /\ w.lastack = t.lastack /\ w.t_ack \in BOOLEAN
        /\ w.dup_acks \in 0..(DupAcks - 1)
    BY <1>1 DEF KeepsOut, Good, Acks
  <2>3. \A x \in Nat : IsEnd(t, x) => IsEnd(w, x)
    BY <1>1 DEF IsEnd
  <2> QED
    BY <2>1, <2>2, <2>3, <1>1, <1>2, <1>3, SendSideGood
<1>5. Sum(w) = Sum(t)
  BY <1>1 DEF Sum
<1>6. AckPart(t) => AckPart(w)
  BY <1>1, <1>5 DEF AckPart, KeepsOut, KeepsRecv
<1> QED
  BY <1>1, <1>4, <1>5, <1>6 DEF AcksFrom

LEMMA FirstWasSent ==
  ASSUME NEW t, NEW p, Good(t, p), t.snd_una # t.snd_nxt
  PROVE  Len(t.slist) > 0 /\ t.slist[1].xmit > 0
<1>1. t.snd_una \in Nat /\ t.sbuf \in Nat /\ t.snd_nxt \in Nat /\ t.snd_una <= t.snd_nxt
  BY GoodTypes, GoodParts
<1>2. PICK k \in 0..Len(t.slist) : SentTo(t.slist, t.snd_una, t.snd_nxt, k)
  BY GoodParts
<1>3. Chain(t.slist, t.snd_una, t.sbuf) /\ Len(t.slist) \in Nat
  BY <1>1, GoodParts, ChainFacts
<1>4. k > 0
  BY <1>1, <1>2, <1>3, SomeSent
<1>5. 1 \in 1..Len(t.slist) /\ 1 <= k
  BY <1>2, <1>3, <1>4
<1> QED
  BY <1>5, <1>2, <1>3 DEF SentTo

LEMMA SameAckGood ==
  ASSUME NEW t, NEW p, Good(t, p), PeerOK(p), NEW seg, seg.ack \in Nat, seg.wnd \in Nat,
         seg.len \in Nat, seg.ack = t.snd_una, seg.ack + seg.wnd * WindowUnit <= Edge(p)
  PROVE  AcksFrom(SameAck(t, seg), t, p)
<1>1. PICK v \in Nat : v = seg.wnd * WindowUnit
  BY Product, ConstantTypes
<1> DEFINE w == [t EXCEPT !.snd_wnd = v]
           n == (w.dup_acks + 1) % DupAcks
           m == (t.dup_acks + 1) % DupAcks
<1>2. SetsWindow(w, t, v)
  BY GoodParts, WindowEffect
<1>3. [t EXCEPT !.snd_wnd = seg.wnd * WindowUnit] = w
  BY <1>1
<1>4. SameAck(t, seg) =
        CASE seg.len > 0 -> w
          [] seg.len = 0 /\ w.snd_una = w.snd_nxt -> [w EXCEPT !.dup_acks = 0]
          [] seg.len = 0 /\ w.snd_una # w.snd_nxt /\ n # FastRetransmit ->
               [w EXCEPT !.dup_acks = n]
          [] OTHER -> LET r == Retransmit([w EXCEPT !.dup_acks = n])
                      IN  [r EXCEPT !.recover = r.snd_nxt]
  BY <1>3 DEF SameAck
<1> HIDE DEF w
<1>5. AcksFrom(w, t, p) /\ Good(w, p) /\ IsWork(w)
  <2>1. t.snd_una + v <= Edge(p)
    BY <1>1
  <2>2. AcksFrom(w, t, p)
    BY <1>2, <2>1, WindowGood
  <2> QED
    BY <2>2 DEF AcksFrom, Good
<1>6. n \in 0..(DupAcks - 1)
  <2>1. w.dup_acks \in Nat /\ DupAcks \in Nat \ {0}
    BY <1>5, GoodTypes, ConstantTypes
  <2> QED
    BY <2>1
<1> HIDE DEF n
<1>7. CASE seg.len > 0
  BY <1>7, <1>4, <1>5
<1>8. CASE seg.len = 0 /\ w.snd_una = w.snd_nxt
  <2> DEFINE q == [w EXCEPT !.dup_acks = 0]
  <2>1. SameAck(t, seg) = q
    BY <1>8, <1>4
  <2>2. SetsDupAcks(q, w, 0)
    BY <1>5, DupAcksEffect
  <2> HIDE DEF q
  <2>3. 0 \in 0..(DupAcks - 1)
    BY ConstantTypes
  <2>4. AcksFrom(q, w, p)
    BY <2>2, <2>3, <1>5, DupAcksGood
  <2> QED
    BY <2>1, <2>4, <1>5, AcksOn
<1> DEFINE q == [w EXCEPT !.dup_acks = n]
<1>9. SetsDupAcks(q, w, n)
  BY <1>5, DupAcksEffect
<1>10. CASE seg.len = 0 /\ w.snd_una # w.snd_nxt /\ n # FastRetransmit
  <2>1. SameAck(t, seg) = q
    BY <1>10, <1>4
  <2> HIDE DEF q
  <2>2. AcksFrom(q, w, p)
    BY <1>9, <1>6, <1>5, DupAcksGood
  <2> QED
    BY <2>1, <2>2, <1>5, AcksOn
<1>11. CASE seg.len = 0 /\ w.snd_una # w.snd_nxt /\ n = FastRetransmit
  <2> DEFINE r == Retransmit(q)
             s == [r EXCEPT !.recover = r.snd_nxt]
  <2>1. SameAck(t, seg) = s
    BY <1>11, <1>4
  <2> HIDE DEF q
  <2>2. AcksFrom(q, w, p) /\ Good(q, p)
    BY <1>9, <1>6, <1>5, DupAcksGood DEF AcksFrom
  <2>3. q.snd_una # q.snd_nxt
    BY <1>9, <1>11 DEF SetsDupAcks, KeepsSend
  <2>4. AcksFrom(r, q, p) /\ Good(r, p) /\ IsWork(r)
    BY <2>2, <2>3, FirstWasSent, RetransmitGood DEF AcksFrom, Good
  <2> HIDE DEF r
  <2>5. SetsRecover(s, r, r.snd_nxt)
    BY <2>4, RecoverEffect
  <2> HIDE DEF s
  <2>6. AcksFrom(s, r, p)
    BY <2>4, <2>5, SetRecoverGood
  <2>7. AcksFrom(q, t, p)
    BY <2>2, <1>5, AcksOn
  <2>8. AcksFrom(r, t, p)
    BY <2>7, <2>4, AcksOn
  <2> QED
    BY <2>1, <2>8, <2>6, AcksOn
<1> QED
  BY <1>7, <1>8, <1>10, <1>11

LEMMA AcksNothing ==
  ASSUME NEW t, NEW p, Good(t, p)
  PROVE  AcksFrom(t, t, p)
<1>1. Goes(t, t)
  BY GoodTypes DEF Goes, KeepsCall
<1> QED
  BY <1>1 DEF AcksFrom, KeepsRecv, KeepsUser

LEMMA ProcessAckGood ==
  ASSUME NEW t, NEW p, Good(t, p), PeerOK(p), NEW seg, PacketOK(seg, p, t)
  PROVE  AcksFrom(ProcessAck(t, seg), t, p)
<1>1. /\ seg.ack \in Nat /\ seg.wnd \in Nat /\ seg.len \in Nat
      /\ seg.ack <= p.rcv_nxt /\ seg.ack + seg.wnd * WindowUnit <= Edge(p)
      /\ IsEnd(t, seg.ack)
  <2>1. seg.wnd \in 0..RcvBuf /\ seg.len \in 0..Mss
    BY DEF PacketOK
  <2>2. seg.wnd \in Nat /\ seg.len \in Nat
    BY <2>1, ConstantTypes
  <2> QED
    BY <2>2 DEF PacketOK
<1>2. CASE seg.ack > t.snd_una /\ seg.ack <= t.snd_nxt
  <2>0. t.snd_una \in Nat /\ seg.ack # t.snd_una
    BY <1>1, <1>2, GoodTypes
  <2>1. ProcessAck(t, seg) = NewAck(t, seg)
    BY <2>0, <1>2 DEF ProcessAck
  <2>2. AcksFrom(NewAck(t, seg), t, p)
    BY <1>1, <1>2, NewAckGood
  <2> QED
    BY <2>1, <2>2
<1>3. CASE seg.ack = t.snd_una
  <2>1. ~(seg.ack > t.snd_una)
    BY <1>1, <1>3
  <2>2. ProcessAck(t, seg) = SameAck(t, seg)
    BY <1>3, <2>1 DEF ProcessAck
  <2>3. AcksFrom(SameAck(t, seg), t, p)
    BY <1>1, <1>3, SameAckGood
  <2> QED
    BY <2>2, <2>3
<1>4. CASE ~(seg.ack > t.snd_una /\ seg.ack <= t.snd_nxt) /\ seg.ack # t.snd_una
  <2>1. ProcessAck(t, seg) = t
    BY <1>4 DEF ProcessAck
  <2> QED
    BY <2>1, AcksNothing
<1> QED
  BY <1>2, <1>3, <1>4

(* ProcessConnect() and ProcessOpen().                                     *)
LEMMA StateGood ==
  ASSUME NEW t, NEW p, Good(t, p), NEW v, NEW w, SetsState(w, t, v)
  PROVE  /\ Good(w, p) /\ Goes(w, t) /\ KeepsRecv(w, t) /\ KeepsUser(w, t) /\ Sum(w) = Sum(t)
         /\ w.state = v /\ w.failed = t.failed /\ (AckPart(t) => AckPart(w))
         /\ w.sbuf = t.sbuf
<1>1. /\ IsWork(w) /\ w.state = v /\ KeepsSend(w, t) /\ KeepsRecv(w, t)
      /\ KeepsUser(w, t) /\ KeepsCall(w, t) /\ KeepsOut(w, t)
      /\ w.dup_acks = t.dup_acks /\ w.failed = t.failed
      /\ w.out = t.out /\ w.lastack = t.lastack /\ w.t_ack = t.t_ack
  BY DEF SetsState, KeepsOut
<1>2. w.t_ack \in BOOLEAN /\ w.dup_acks \in 0..(DupAcks - 1)
  BY <1>1 DEF Good, Acks
<1>3. Good(w, p) /\ Goes(w, t) /\ Sum(w) = Sum(t) /\ (AckPart(w) <=> AckPart(t))
  BY <1>1, <1>2, SameGood
<1> QED
  BY <1>1, <1>3 DEF KeepsSend

Joins(w, t, p) ==
  /\ Good(w, p) /\ Goes(w, t) /\ KeepsRecv(w, t) /\ KeepsUser(w, t) /\ w.failed = t.failed
  /\ StateOK(w) /\ w.state # "CLOSED" /\ t.sbuf <= w.sbuf
  /\ Sum(w) = Sum(t) \/ (Sum(w) = ConnectLen /\ Sum(t) = 0)
  /\ AckPart(t) => AckPart(w)

LEMMA ProcessConnectGood ==
  ASSUME NEW t, NEW p, Good(t, p), PeerOK(p), StateOK(t), t.state # "CLOSED", NEW seg
  PROVE  Joins(ProcessConnect(t, seg), t, p)
<1>1. t.sbuf \in Nat /\ Sum(t) \in Nat
  BY GoodTypes, GoodParts DEF Sum
<1>2. CASE seg.ctl /\ t.state = "LISTEN"
  <2> DEFINE s == [t EXCEPT !.state = "SYN_RECEIVED"]
             w == QueueConnectMessage(s)
  <2>1. ProcessConnect(t, seg) = w
    BY <1>2 DEF ProcessConnect
  <2>2. SetsState(s, t, "SYN_RECEIVED")
    BY GoodParts, StateEffect
  <2> HIDE DEF s
  <2>3. /\ Good(s, p) /\ Goes(s, t) /\ KeepsRecv(s, t) /\ KeepsUser(s, t) /\ Sum(s) = Sum(t)
        /\ s.state = "SYN_RECEIVED" /\ s.failed = t.failed /\ (AckPart(t) => AckPart(s))
        /\ s.sbuf = t.sbuf
    BY <2>2, StateGood
  <2>4. Sum(t) = 0
    BY <1>2 DEF StateOK
  <2>5. /\ Good(w, p) /\ Goes(w, s) /\ Talks(w, s) /\ Sum(w) = ConnectLen
        /\ w.failed = s.failed /\ (AckPart(s) => AckPart(w)) /\ w.sbuf = ConnectLen
    BY <2>3, <2>4, ConnectGood
  <2> HIDE DEF w
  <2>6. Goes(w, t)
    BY <2>3, <2>5, GoodTypes, GoesOn
  <2>7. KeepsRecv(w, t) /\ KeepsUser(w, t) /\ w.state = "SYN_RECEIVED"
    BY <2>3, <2>5 DEF Talks, KeepsRecv, KeepsUser
  <2>8. StateOK(w)
    BY <2>5, <2>7, ConstantTypes DEF StateOK
  <2>9. t.sbuf <= w.sbuf
    <3>1. t.sbuf = 0
      BY <2>4, GoodTypes DEF Sum
    <3> QED
      BY <3>1, <2>5, ConstantTypes
  <2> QED
    BY <2>1, <2>3, <2>4, <2>5, <2>6, <2>7, <2>8, <2>9 DEF Joins
<1>3. CASE seg.ctl /\ t.state = "SYN_SENT"
  <2> DEFINE s == [t EXCEPT !.state = "ESTABLISHED"]
  <2>1. ProcessConnect(t, seg) = s
    BY <1>3 DEF ProcessConnect
  <2>2. SetsState(s, t, "ESTABLISHED")
    BY GoodParts, StateEffect
  <2> HIDE DEF s
  <2>3. /\ Good(s, p) /\ Goes(s, t) /\ KeepsRecv(s, t) /\ KeepsUser(s, t) /\ Sum(s) = Sum(t)
        /\ s.state = "ESTABLISHED" /\ s.failed = t.failed /\ (AckPart(t) => AckPart(s))
        /\ s.sbuf = t.sbuf
    BY <2>2, StateGood
  <2>4. StateOK(s)
    BY <1>3, <2>3 DEF StateOK
  <2> QED
    BY <2>1, <2>3, <2>4, <1>1 DEF Joins
<1>4. CASE ~(seg.ctl /\ t.state = "LISTEN") /\ ~(seg.ctl /\ t.state = "SYN_SENT")
  <2>1. ProcessConnect(t, seg) = t
    BY <1>4 DEF ProcessConnect
  <2>2. AcksFrom(t, t, p)
    BY AcksNothing
  <2> QED
    BY <2>1, <2>2, <1>1 DEF Joins, AcksFrom
<1> QED
  BY <1>2, <1>3, <1>4

Woken(w) == w.bWriteEnable => w.sbuf >= Refill
Opened(w, t, p) ==
  /\ Good(w, p) /\ Goes(w, t) /\ KeepsRecv(w, t) /\ w.bReadEnable = t.bReadEnable
  /\ Sum(w) = Sum(t) /\ w.failed = t.failed /\ (AckPart(t) => AckPart(w))
  /\ StateOK(w) /\ w.state # "CLOSED" /\ Woken(w) /\ w.bWriteEnable \in BOOLEAN
LEMMA ProcessOpenGood ==
  ASSUME NEW t, NEW p, Good(t, p), StateOK(t), t.state # "CLOSED",
         t.bWriteEnable \in BOOLEAN, NEW seg
  PROVE  Opened(ProcessOpen(t, seg), t, p)
<1>1. PICK s : s = IF t.state = "SYN_RECEIVED" /\ ~seg.ctl THEN "ESTABLISHED" ELSE t.state
  OBVIOUS
<1>2. PICK b : b = (t.bWriteEnable /\ t.sbuf >= Refill)
  OBVIOUS
<1> DEFINE w == [t EXCEPT !.state = s, !.bWriteEnable = b]
<1>3. ProcessOpen(t, seg) = w
  BY <1>1, <1>2 DEF ProcessOpen
<1>4. SetsOpen(w, t, s, b)
  BY GoodParts, OpenEffect
<1> HIDE DEF w
<1>5. /\ IsWork(w) /\ w.state = s /\ w.bWriteEnable = b /\ w.bReadEnable = t.bReadEnable
      /\ KeepsSend(w, t) /\ KeepsRecv(w, t) /\ KeepsCall(w, t)
      /\ w.dup_acks = t.dup_acks /\ w.failed = t.failed
      /\ w.out = t.out /\ w.lastack = t.lastack /\ w.t_ack = t.t_ack /\ w.sbuf = t.sbuf
  BY <1>4 DEF SetsOpen, KeepsOut, KeepsSend
<1>6. w.t_ack \in BOOLEAN /\ w.dup_acks \in 0..(DupAcks - 1)
  BY <1>5 DEF Good, Acks
<1>7. Good(w, p) /\ Goes(w, t) /\ Sum(w) = Sum(t) /\ (AckPart(w) <=> AckPart(t))
  BY <1>5, <1>6, SameGood
<1>8. StateOK(w) /\ w.state # "CLOSED"
  BY <1>1, <1>5, <1>7 DEF StateOK
<1>9. b \in BOOLEAN
  BY <1>2
<1>10. Woken(w)
  BY <1>2, <1>5 DEF Woken
<1> QED
  BY <1>3, <1>5, <1>7, <1>8, <1>9, <1>10 DEF Opened

---------------------------------------------------------------------------
(* What is received.                                                       *)
LEMMA EndBelow ==
  ASSUME NEW p, PeerOK(p), NEW x \in Nat, IsEnd(p, x)
  PROVE  x <= p.snd_nxt /\ x <= Sum(p) /\ x <= Top /\ p.snd_nxt \in Nat /\ Sum(p) \in Nat
<1>1. PICK k : SentTo(p.slist, p.snd_una, p.snd_nxt, k)
  BY DEF PeerOK, SendOK, Sent
<1>2. /\ p.snd_una \in Nat /\ p.sbuf \in Nat /\ p.snd_nxt \in Nat
      /\ Chain(p.slist, p.snd_una, p.sbuf)
  BY ConstantTypes DEF PeerOK, SendOK
<1>3. p.snd_nxt <= p.snd_una + p.sbuf
  BY <1>1, <1>2, SentFacts
<1>4. x <= p.snd_nxt
  BY <1>1, <1>2, SentFacts DEF IsEnd
<1>5. Sum(p) \in Nat /\ Sum(p) <= Top /\ Sum(p) = p.snd_una + p.sbuf
  BY <1>2 DEF Sum, PeerOK
<1> QED
  BY <1>2, <1>3, <1>4, <1>5, TopBounds

(* A step that changes only what is received.                              *)
LEMMA RecvSideGood ==
  ASSUME NEW t, NEW p, Good(t, p), PeerOK(p), NEW w, IsWork(w), KeepsSend(w, t),
         KeepsCall(w, t), KeepsOut(w, t), w.dup_acks = t.dup_acks,
         RecvOK(w), t.rcv_nxt <= w.rcv_nxt, Edge(t) <= Edge(w), IsEnd(p, w.rcv_nxt),
         \A i \in 1..Len(w.rlist) : IsEnd(p, EndOf(w.rlist[i]))
  PROVE  Good(w, p) /\ Goes(w, t)
<1>1. SendSide(w, p) /\ \A x : IsEnd(w, x) <=> IsEnd(t, x)
  BY SendKept DEF Good
<1>2. t.rcv_nxt \in Nat /\ w.rcv_nxt \in Nat /\ Edge(t) \in Nat /\ Edge(w) \in Nat
      /\ t.snd_nxt \in Nat
  BY GoodTypes, RecvTypes DEF RecvOK
<1>3. Goes(w, t)
  BY <1>1, <1>2 DEF Goes, KeepsSend
<1>4. Pair(p, w)
  <2>1. Pair(p, t)
    BY GoodParts
  <2>2. p.snd_una \in Nat /\ p.snd_wnd \in Nat /\ p.snd_nxt \in Nat
    BY DEF PeerOK, SendOK
  <2> QED
    BY <2>1, <2>2, <1>2 DEF Pair
<1>5. OutOK(w, p)
  <2>1. OutOK(t, p) /\ w.out = t.out
    BY DEF Good, KeepsOut
  <2> QED
    BY <2>1, <1>2, <1>3, OutKept
<1>6. Acks(w)
  BY <1>2 DEF Good, Acks, KeepsOut
<1> QED
  BY <1>1, <1>3, <1>4, <1>5, <1>6 DEF Good, RecvSide, KeepsCall

(* Byte i of a buffer that starts at base.                                 *)
Right(b, base, i) == b + 1 = base + i
ReadsRight(t) == \A i \in 1..Len(t.rbuf) : Right(t.rbuf[i], ConnectLen + t.nread, i)
Holds(t, seq, end) ==
  \A i \in 1..Len(t.ahead) :
    seq < t.rcv_nxt + i /\ t.rcv_nxt + i <= end => Right(t.ahead[i], t.rcv_nxt, i)
AheadRight(t) ==
  ~t.shutdown => /\ t.rcv_nxt < ConnectLen => Len(t.rlist) = 0
                 /\ \A j \in 1..Len(t.rlist) : Holds(t, t.rlist[j].seq, EndOf(t.rlist[j]))
IsRight(t) == ReadsRight(t) /\ AheadRight(t)

Grows(v, s) == Len(s) <= Len(v) /\ \A i \in 1..Len(s) : v[i] = s[i]
Moves(w, t, p) ==
  /\ Good(w, p) /\ Goes(w, t) /\ KeepsSend(w, t) /\ KeepsUser(w, t) /\ KeepsOut(w, t)
  /\ w.state = t.state /\ w.dup_acks = t.dup_acks /\ w.failed = t.failed
  /\ w.shutdown = t.shutdown /\ w.nread = t.nread /\ Grows(w.rbuf, t.rbuf)
Takes(w, t, p) == Moves(w, t, p) /\ (IsRight(t) => IsRight(w))

LEMMA MovesOn ==
  ASSUME NEW v, NEW w, NEW t, NEW p, Moves(w, t, p), Moves(v, w, p), Good(t, p)
  PROVE  Moves(v, t, p)
<1>1. Goes(v, t)
  BY GoodTypes, GoesOn DEF Moves
<1>2. Grows(v.rbuf, t.rbuf)
  <2>1. Len(v.rbuf) \in Nat /\ Len(w.rbuf) \in Nat /\ Len(t.rbuf) \in Nat
    <3>1. RecvOK(v) /\ RecvOK(w) /\ RecvOK(t)
      BY GoodParts DEF Moves
    <3> QED
      BY <3>1, RecvTypes, ConstantTypes
  <2>2. Grows(v.rbuf, w.rbuf) /\ Grows(w.rbuf, t.rbuf)
    BY DEF Moves
  <2>3. Len(t.rbuf) <= Len(v.rbuf)
    BY <2>1, <2>2 DEF Grows
  <2>4. ASSUME NEW i \in 1..Len(t.rbuf)
        PROVE  v.rbuf[i] = t.rbuf[i]
    <3>1. i \in 1..Len(w.rbuf)
      BY <2>1, <2>2 DEF Grows
    <3> QED
      BY <3>1, <2>2 DEF Grows
  <2> QED
    BY <2>3, <2>4 DEF Grows
<1> QED
  BY <1>1, <1>2 DEF Moves, KeepsSend, KeepsUser, KeepsOut

LEMMA TakesOn ==
  ASSUME NEW v, NEW w, NEW t, NEW p, Takes(w, t, p), Takes(v, w, p), Good(t, p)
  PROVE  Takes(v, t, p)
BY MovesOn DEF Takes

FitOK(s, t, p) ==
  /\ s.len \in 0..Mss /\ s.ctl \in BOOLEAN /\ DataOK(p, s.seq, s.ctl, s.len)
  /\ s.len > 0 => s.seq >= t.rcv_nxt

SetsFit(s, seg, a, b) == s.seq = a /\ s.len = b /\ s.ctl = seg.ctl
LEMMA FitEffect ==
  ASSUME NEW seg, IsPacket(seg), NEW a, NEW b
  PROVE  SetsFit([seg EXCEPT !.seq = a, !.len = b], seg, a, b)
BY DEF IsPacket, SetsFit

LEMMA FitGood ==
  ASSUME NEW t, NEW p, Good(t, p), PeerOK(p), NEW seg, PacketOK(seg, p, t), IsPacket(seg)
  PROVE  /\ FitOK(Fit(t, seg), t, p) /\ Fit(t, seg).ctl = seg.ctl
         /\ Fit(t, seg).len > 0 => seg.len > 0
<1> DEFINE first == Max({seg.seq, t.rcv_nxt})
           end == seg.seq + seg.len
           last == Least(end, t.rcv_nxt + Space(t)) - 1
           a == IF end > t.rcv_nxt THEN first ELSE seg.seq
           b == IF seg.len > 0 /\ first <= last THEN last - first + 1 ELSE 0
           s == [seg EXCEPT !.seq = a, !.len = b]
<1>1. Fit(t, seg) = s
  BY DEF Fit
<1>2. SetsFit(s, seg, a, b)
  BY FitEffect
<1> HIDE DEF s
<1>3. s.seq = a /\ s.len = b /\ s.ctl = seg.ctl
  BY <1>2 DEF SetsFit
<1>4. /\ seg.seq \in Int /\ seg.ctl \in BOOLEAN /\ seg.len \in 0..Mss
      /\ DataOK(p, seg.seq, seg.ctl, seg.len) /\ Mss \in Nat
  BY ConstantTypes DEF PacketOK
<1>5. /\ t.rcv_nxt \in Nat /\ t.rcv_wnd \in Nat /\ Edge(t) = t.rcv_nxt + t.rcv_wnd
      /\ Space(t) \in Nat /\ t.rcv_wnd <= Space(t)
  <2>1. RecvOK(t)
    BY GoodParts
  <2>2. /\ t.rcv_nxt \in Nat /\ t.rcv_wnd \in 0..RcvBuf /\ Edge(t) = t.rcv_nxt + t.rcv_wnd
        /\ Len(t.rbuf) \in 0..RcvBuf /\ Len(t.ahead) = RcvBuf - Len(t.rbuf)
    BY <2>1, RecvTypes
  <2>3. t.rcv_wnd <= Len(t.ahead)
    BY <2>1 DEF RecvOK
  <2> QED
    BY <2>2, <2>3, ConstantTypes DEF Space
<1>6. first \in {seg.seq, t.rcv_nxt} /\ first >= seg.seq /\ first >= t.rcv_nxt
  <2>1. seg.seq \in Int /\ t.rcv_nxt \in Int
    BY <1>4, <1>5
  <2> QED
    BY <2>1, MaxOfTwo, Zenon
<1> HIDE DEF first
<1>7. first \in Int
  BY <1>4, <1>5, <1>6
<1>8. CASE ~(seg.len > 0 /\ first <= last)
  <2>1. s.len = 0
    BY <1>8, <1>3
  <2>2. s.len \in 0..Mss /\ ~(s.len > 0)
    BY <2>1, <1>4
  <2>3. FitOK(s, t, p)
    BY <2>2, <1>3, <1>4 DEF FitOK, DataOK
  <2> QED
    BY <2>2, <2>3, <1>1, <1>3
<1>9. CASE seg.len > 0 /\ first <= last
  <2>1. seg.seq \in Nat /\ IsEnd(p, end) /\ (seg.ctl => end <= ConnectLen)
        /\ (~seg.ctl => seg.seq >= ConnectLen)
    BY <1>4, <1>9 DEF DataOK
  <2>2. end \in Nat
    BY <2>1, <1>4
  <2>3. end <= Edge(t)
    <3>1. end <= p.snd_nxt /\ p.snd_nxt \in Nat
      <4> HIDE DEF end
      <4> QED
        BY <2>1, <2>2, EndBelow
    <3>2. p.snd_nxt <= Edge(t)
      BY GoodParts DEF Pair
    <3> QED
      BY <3>1, <3>2, <2>2, <1>5
  <2>4. last = end - 1
    <3>1. end <= t.rcv_nxt + Space(t)
      BY <2>2, <2>3, <1>5
    <3>2. Least(end, t.rcv_nxt + Space(t)) = end
      BY <3>1, <2>2, <1>5 DEF Least
    <3> QED
      BY <3>2
  <2> HIDE DEF last
  <2>5. end > t.rcv_nxt
    BY <1>9, <2>2, <2>4, <1>5, <1>6, <1>7
  <2>6. s.seq = first /\ s.len = end - first
    BY <1>3, <1>9, <2>2, <2>4, <2>5, <1>7
  <2>7. s.len \in 0..Mss /\ s.seq + s.len = end
    BY <2>6, <2>2, <2>4, <1>4, <1>6, <1>7, <1>9
  <2>8. s.seq \in Nat /\ s.seq >= seg.seq /\ s.seq >= t.rcv_nxt
    BY <2>6, <2>1, <1>5, <1>6, <1>7
  <2>9. ~s.ctl => s.seq >= ConnectLen
    BY <2>1, <2>8, <1>3, ConstantTypes
  <2>10. DataOK(p, s.seq, s.ctl, s.len)
    <3>1. IsEnd(p, s.seq + s.len) /\ (s.ctl => s.seq + s.len <= ConnectLen)
      BY <2>1, <2>7, <1>3
    <3> QED
      BY <3>1, <2>8, <2>9 DEF DataOK
  <2> QED
    BY <1>1, <1>3, <1>4, <1>9, <2>7, <2>8, <2>10 DEF FitOK
<1> QED
  BY <1>8, <1>9

(* What is known of the end of a segment that fits.                        *)
LEMMA FitEnds ==
  ASSUME NEW t, NEW p, Good(t, p), PeerOK(p), NEW x \in Nat, IsEnd(p, x), x >= t.rcv_nxt
  PROVE  /\ x <= Edge(t) /\ x <= Top
         /\ x - t.rcv_nxt \in Nat /\ x - t.rcv_nxt <= t.rcv_wnd
         /\ x - t.rcv_nxt <= Len(t.ahead)
<1>1. x <= p.snd_nxt /\ p.snd_nxt \in Nat /\ x <= Top
  BY EndBelow
<1>2. p.snd_nxt <= Edge(t)
  BY GoodParts DEF Pair
<1>3. RecvOK(t)
  BY GoodParts
<1>4. /\ t.rcv_nxt \in Nat /\ t.rcv_wnd \in Nat /\ Edge(t) = t.rcv_nxt + t.rcv_wnd
      /\ Len(t.ahead) \in Nat /\ t.rcv_wnd <= Len(t.ahead)
  <2>1. t.rcv_nxt \in Nat /\ t.rcv_wnd \in Nat /\ t.rcv_wnd <= Len(t.ahead)
        /\ t.ahead \in Seq(Byte)
    BY <1>3 DEF RecvOK
  <2>2. Len(t.ahead) \in Nat
    BY <2>1
  <2> QED
    BY <2>1, <2>2 DEF Edge
<1> QED
  BY <1>1, <1>2, <1>4

FilledWith(f, t, s) ==
  /\ f \in Seq(Byte) /\ Len(f) = Len(t.ahead)
  /\ \A i \in 1..Len(f) :
       \/ s.seq < t.rcv_nxt + i /\ t.rcv_nxt + i <= s.seq + s.len /\ Right(f[i], t.rcv_nxt, i)
       \/ ~(s.seq < t.rcv_nxt + i /\ t.rcv_nxt + i <= s.seq + s.len) /\ f[i] = t.ahead[i]

LEMMA WriteAtEffect ==
  ASSUME NEW t, NEW p, Good(t, p), PeerOK(p), NEW s, FitOK(s, t, p), s.len > 0
  PROVE  \E f : FilledWith(f, t, s) /\ SetsAhead(WriteAt(t, s), t, f)
<1>1. /\ s.len \in Nat /\ s.seq \in Nat /\ s.seq >= t.rcv_nxt /\ IsEnd(p, s.seq + s.len)
  BY ConstantTypes DEF FitOK, DataOK
<1>2. s.seq + s.len <= Top /\ Top \in Nat /\ t.rcv_nxt \in Nat
  <2>1. PICK x \in Nat : x = s.seq + s.len
    BY <1>1
  <2>2. x <= Top
    BY <2>1, <1>1, EndBelow
  <2>3. Top \in Nat
    BY TopBounds
  <2>4. t.rcv_nxt \in Nat
    BY GoodTypes
  <2> QED
    BY <2>1, <2>2, <2>3, <2>4
<1>3. t.ahead \in Seq(Byte) /\ Len(t.ahead) \in Nat /\ DOMAIN t.ahead = 1..Len(t.ahead)
  <2>1. t.ahead \in Seq(Byte)
    BY GoodParts DEF RecvOK
  <2> QED
    BY <2>1
<1> DEFINE In(i) == i - 1 \in (s.seq - t.rcv_nxt) .. (s.seq - t.rcv_nxt + s.len - 1)
           f == [i \in 1..Len(t.ahead) |-> IF In(i) THEN t.rcv_nxt + i - 1 ELSE t.ahead[i]]
<1>4. WriteAt(t, s) = [t EXCEPT !.ahead = f]
  BY <1>3 DEF WriteAt
<1>5. ASSUME NEW i \in 1..Len(t.ahead)
      PROVE  In(i) <=> s.seq < t.rcv_nxt + i /\ t.rcv_nxt + i <= s.seq + s.len
  BY <1>1, <1>2, SMTT(30)
<1> HIDE DEF In
<1>6. ASSUME NEW i \in 1..Len(t.ahead)
      PROVE  f[i] \in Byte
  <2>1. CASE In(i)
    <3>1. f[i] = t.rcv_nxt + i - 1
      BY <2>1
    <3>2. t.rcv_nxt + i <= s.seq + s.len
      BY <2>1, <1>5
    <3> QED
      BY <3>1, <3>2, <1>1, <1>2, SMTT(30) DEF Byte, Garbage
  <2>2. CASE ~In(i)
    <3>1. f[i] = t.ahead[i]
      BY <2>2
    <3> QED
      BY <3>1, <1>3, ElementOfSeq
  <2> QED
    BY <2>1, <2>2
<1>7. f \in Seq(Byte) /\ Len(f) = Len(t.ahead)
  <2>1. f \in [1..Len(t.ahead) -> Byte]
    BY <1>6
  <2> HIDE DEF f
  <2> QED
    BY <2>1, <1>3
<1>8. ASSUME NEW i \in 1..Len(f)
      PROVE  \/ s.seq < t.rcv_nxt + i /\ t.rcv_nxt + i <= s.seq + s.len /\ Right(f[i], t.rcv_nxt, i)
             \/ ~(s.seq < t.rcv_nxt + i /\ t.rcv_nxt + i <= s.seq + s.len) /\ f[i] = t.ahead[i]
  <2>0. i \in 1..Len(t.ahead)
    BY <1>7
  <2>1. CASE In(i)
    <3>1. f[i] = t.rcv_nxt + i - 1
      BY <2>0, <2>1
    <3>2. Right(f[i], t.rcv_nxt, i)
      BY <3>1, <2>0, <1>2 DEF Right
    <3> QED
      BY <2>0, <2>1, <3>2, <1>5
  <2>2. CASE ~In(i)
    <3>1. f[i] = t.ahead[i]
      BY <2>0, <2>2
    <3> QED
      BY <2>0, <2>2, <3>1, <1>5
  <2> QED
    BY <2>1, <2>2
<1> HIDE DEF f
<1>9. FilledWith(f, t, s)
  BY <1>7, <1>8 DEF FilledWith
<1>10. SetsAhead(WriteAt(t, s), t, f)
  BY <1>4, GoodParts, AheadEffect
<1> QED
  BY <1>9, <1>10

LEMMA WriteAtGood ==
  ASSUME NEW t, NEW p, Good(t, p), PeerOK(p), NEW s, FitOK(s, t, p), s.len > 0
  PROVE  LET w == WriteAt(t, s)
         IN  /\ Takes(w, t, p) /\ Holds(w, s.seq, s.seq + s.len)
             /\ w.rcv_nxt = t.rcv_nxt /\ w.rlist = t.rlist /\ w.rbuf = t.rbuf
<1> DEFINE w == WriteAt(t, s)
<1>1. PICK f : FilledWith(f, t, s) /\ SetsAhead(w, t, f)
  BY WriteAtEffect
<1> HIDE DEF w
<1>2. /\ IsWork(w) /\ w.ahead = f
      /\ w.shutdown = t.shutdown /\ w.rcv_nxt = t.rcv_nxt /\ w.rcv_wnd = t.rcv_wnd
      /\ w.rbuf = t.rbuf /\ w.nread = t.nread /\ w.rlist = t.rlist
      /\ KeepsSend(w, t) /\ KeepsUser(w, t) /\ KeepsCall(w, t) /\ KeepsOut(w, t)
      /\ w.state = t.state /\ w.dup_acks = t.dup_acks /\ w.failed = t.failed
  BY <1>1 DEF SetsAhead
<1>3. f \in Seq(Byte) /\ Len(f) = Len(t.ahead)
  BY <1>1 DEF FilledWith
<1>4. RecvOK(t)
  BY GoodParts
<1>5. Edge(w) = Edge(t)
  BY <1>2 DEF Edge
<1>6. RecvOK(w)
  <2>1. Fill(Len(w.rbuf), Len(w.ahead), RcvBuf) /\ w.rcv_wnd <= Len(w.ahead)
    BY <1>2, <1>3, <1>4 DEF RecvOK
  <2>2. ~w.shutdown => Counts(w)
    BY <1>2, <1>4 DEF RecvOK, Counts
  <2> QED
    BY <2>1, <2>2, <1>2, <1>3, <1>4, <1>5 DEF RecvOK
<1>7. Good(w, p) /\ Goes(w, t)
  <2>1. Pair(p, t) /\ t.rcv_nxt \in Nat /\ Edge(t) \in Nat
    BY GoodParts, GoodTypes
  <2>2. IsEnd(p, w.rcv_nxt) /\ \A i \in 1..Len(w.rlist) : IsEnd(p, EndOf(w.rlist[i]))
    BY <2>1, <1>2 DEF Pair
  <2> QED
    BY <2>1, <2>2, <1>2, <1>5, <1>6, RecvSideGood
<1>8. ReadsRight(t) => ReadsRight(w)
  BY <1>2 DEF ReadsRight
<1>9. ASSUME NEW seq, NEW end, Holds(t, seq, end)
      PROVE  Holds(w, seq, end)
  <2>1. SUFFICES ASSUME NEW i \in 1..Len(w.ahead),
                        seq < w.rcv_nxt + i /\ w.rcv_nxt + i <= end
                 PROVE  Right(w.ahead[i], w.rcv_nxt, i)
    BY DEF Holds
  <2>2. i \in 1..Len(f) /\ i \in 1..Len(t.ahead)
    BY <1>2, <1>3
  <2>3. Right(t.ahead[i], t.rcv_nxt, i)
    BY <2>1, <2>2, <1>2, <1>9 DEF Holds
  <2>4. Right(f[i], t.rcv_nxt, i) \/ f[i] = t.ahead[i]
    BY <2>2, <1>1 DEF FilledWith
  <2> QED
    BY <2>3, <2>4, <1>2
<1>10. AheadRight(t) => AheadRight(w)
  BY <1>2, <1>9 DEF AheadRight
<1>11. Holds(w, s.seq, s.seq + s.len)
  <2> DEFINE end == s.seq + s.len
  <2>1. SUFFICES ASSUME NEW i \in 1..Len(w.ahead),
                        s.seq < w.rcv_nxt + i /\ w.rcv_nxt + i <= end
                 PROVE  Right(w.ahead[i], w.rcv_nxt, i)
    BY DEF Holds
  <2>2. i \in 1..Len(f)
    BY <1>2, <1>3
  <2>3. Right(f[i], t.rcv_nxt, i)
    BY <2>1, <2>2, <1>2, <1>1 DEF FilledWith
  <2> QED
    BY <2>3, <1>2
<1>12. Grows(w.rbuf, t.rbuf)
  <2>1. Len(t.rbuf) \in Nat
    BY <1>4, RecvTypes, ConstantTypes
  <2> QED
    BY <2>1, <1>2 DEF Grows
<1>13. Takes(w, t, p)
  BY <1>2, <1>7, <1>8, <1>10, <1>12 DEF Takes, Moves, IsRight
<1> QED
  BY <1>2, <1>11, <1>13 DEF w

(* What is put into rbuf and taken from ahead.                             *)
Moved(rbuf, ahead, w, t, n) ==
  /\ w.rbuf = rbuf /\ w.ahead = ahead
  /\ rbuf \in Seq(Byte) /\ ahead \in Seq(Byte)
  /\ Fill(Len(t.rbuf), n, Len(rbuf)) /\ Fill(Len(ahead), n, Len(t.ahead))
  /\ Grows(rbuf, t.rbuf)
  /\ \A i \in 1..Len(rbuf), k \in 1..n : i = Len(t.rbuf) + k => rbuf[i] = t.ahead[k]
  /\ \A i \in 1..Len(ahead), k \in 1..Len(t.ahead) : k = n + i => ahead[i] = t.ahead[k]

LEMMA ConsumeMoves ==
  ASSUME NEW t, t.rbuf \in Seq(Byte), t.ahead \in Seq(Byte), NEW n \in 1..Len(t.ahead),
         NEW w, SetsConsume(w, t, n)
  PROVE  Moved(w.rbuf, w.ahead, w, t, n)
<1> DEFINE a == SubSeq(t.ahead, 1, n)
           b == SubSeq(t.ahead, n + 1, Len(t.ahead))
           r == t.rbuf \o a
<1>1. n \in 0..Len(t.ahead) /\ n \in Nat /\ Len(t.ahead) \in Nat /\ Len(t.rbuf) \in Nat
  OBVIOUS
<1>2. a \in Seq(Byte) /\ Len(a) = n /\ \A i \in 1..n : a[i] = t.ahead[i]
  BY <1>1, PrefixProperties
<1>3. /\ b \in Seq(Byte) /\ Len(b) = Len(t.ahead) - n
      /\ \A i \in 1..(Len(t.ahead) - n) : b[i] = t.ahead[n + i]
  BY <1>1, SuffixProperties
<1>4. w.rbuf = r /\ w.ahead = b
  BY DEF SetsConsume
<1> HIDE DEF a, b
<1>5. /\ r \in Seq(Byte) /\ Len(r) = Len(t.rbuf) + n
      /\ \A i \in 1..Len(t.rbuf) : r[i] = t.rbuf[i]
      /\ \A k \in 1..n : r[Len(t.rbuf) + k] = a[k]
  <2>1. r \in Seq(Byte) /\ IsConcat(r, t.rbuf, a)
    BY <1>2, ConcatParts
  <2> HIDE DEF r
  <2> QED
    BY <2>1, <1>2 DEF IsConcat
<1> HIDE DEF r
<1>6. Grows(r, t.rbuf)
  BY <1>1, <1>5 DEF Grows
<1>7. Fill(Len(t.rbuf), n, Len(r)) /\ Fill(Len(b), n, Len(t.ahead))
  BY <1>1, <1>3, <1>5 DEF Fill
<1>8. \A i \in 1..Len(r), k \in 1..n : i = Len(t.rbuf) + k => r[i] = t.ahead[k]
  BY <1>2, <1>5
<1>9. \A i \in 1..Len(b), k \in 1..Len(t.ahead) : k = n + i => b[i] = t.ahead[k]
  BY <1>3
<1>10. Moved(r, b, w, t, n)
  BY <1>3, <1>4, <1>5, <1>6, <1>7, <1>8, <1>9 DEF Moved
<1> QED
  BY <1>4, <1>10

LEMMA FillMoves ==
  ASSUME NEW a \in Nat, NEW b \in Nat, NEW c \in Nat, NEW d \in Nat, NEW e \in Nat,
         NEW n \in Nat, Fill(a, b, c), Fill(a, n, d), Fill(e, n, b)
  PROVE  Fill(d, e, c)
BY DEF Fill

LEMMA ConsumeGood ==
  ASSUME NEW t, NEW p, Good(t, p), PeerOK(p), NEW n \in Nat \ {0}, NEW end \in Nat,
         Fill(t.rcv_nxt, n, end), IsEnd(p, end), t.rcv_nxt >= ConnectLen, ~t.shutdown,
         NEW seq \in Nat, seq <= t.rcv_nxt, IsRight(t) => Holds(t, seq, end)
  PROVE  LET w == Consume(t, n)
         IN  /\ Takes(w, t, p) /\ w.rcv_nxt = end /\ w.rlist = t.rlist
<1> DEFINE w == Consume(t, n)
<1>1. SetsConsume(w, t, n)
  BY GoodParts, ConsumeEffect
<1> HIDE DEF w
<1>2. RecvOK(t) /\ Pair(p, t)
  BY GoodParts
<1>3. /\ t.rcv_nxt \in Nat /\ t.rcv_wnd \in Nat /\ t.nread \in Nat
      /\ t.rbuf \in Seq(Byte) /\ t.ahead \in Seq(Byte)
  BY <1>2 DEF RecvOK
<1>4. Len(t.rbuf) \in Nat /\ Len(t.ahead) \in Nat
  BY <1>3
<1>5. end = t.rcv_nxt + n /\ end >= t.rcv_nxt
  BY <1>3 DEF Fill
<1>6. n <= t.rcv_wnd /\ n <= Len(t.ahead) /\ end <= Edge(t)
  <2>1. /\ end <= Edge(t)
        /\ end - t.rcv_nxt <= t.rcv_wnd /\ end - t.rcv_nxt <= Len(t.ahead)
    BY <1>5, FitEnds
  <2> QED
    BY <2>1, <1>3, <1>5
<1>7. n \in 1..Len(t.ahead)
  BY <1>4, <1>6
<1>8. Moved(w.rbuf, w.ahead, w, t, n)
  BY <1>1, <1>3, <1>7, ConsumeMoves
<1>9. /\ IsWork(w) /\ w.rcv_nxt = end /\ w.rcv_wnd = t.rcv_wnd - n
      /\ w.shutdown = t.shutdown /\ w.rlist = t.rlist /\ w.nread = t.nread
      /\ KeepsSend(w, t) /\ KeepsUser(w, t) /\ KeepsCall(w, t) /\ KeepsOut(w, t)
      /\ w.state = t.state /\ w.dup_acks = t.dup_acks /\ w.failed = t.failed
  BY <1>1, <1>5 DEF SetsConsume
<1>10. /\ w.rbuf \in Seq(Byte) /\ w.ahead \in Seq(Byte) /\ Grows(w.rbuf, t.rbuf)
       /\ Len(w.rbuf) = Len(t.rbuf) + n /\ Len(w.ahead) + n = Len(t.ahead)
  BY <1>8 DEF Moved, Fill
<1>11. Len(w.rbuf) \in Nat /\ Len(w.ahead) \in Nat
  BY <1>10
<1>12. t.rcv_nxt = ConnectLen + t.nread + Len(t.rbuf)
  BY <1>2 DEF RecvOK, Counts
<1>13. Edge(w) = Edge(t) /\ Edge(t) \in Nat
  BY <1>3, <1>5, <1>9 DEF Edge
<1>14. RecvOK(w)
  <2>1. Fill(Len(w.rbuf), Len(w.ahead), RcvBuf)
    <3>1. Fill(Len(t.rbuf), Len(t.ahead), RcvBuf)
      BY <1>2 DEF RecvOK
    <3>2. Fill(Len(t.rbuf), n, Len(w.rbuf)) /\ Fill(Len(w.ahead), n, Len(t.ahead))
      BY <1>8 DEF Moved
    <3> QED
      BY <3>1, <3>2, <1>4, <1>11, ConstantTypes, FillMoves
  <2>2. w.rcv_wnd \in Nat /\ w.rcv_wnd <= Len(w.ahead)
    <3>1. t.rcv_wnd <= Len(t.ahead)
      BY <1>2 DEF RecvOK
    <3> QED
      BY <3>1, <1>3, <1>4, <1>6, <1>9, <1>10, <1>11, SMTT(30)
  <2>3. Counts(w)
    <3>1. w.rcv_nxt > ConnectLen
      BY <1>3, <1>5, <1>9, ConstantTypes, SMTT(30)
    <3>2. w.rcv_nxt = ConnectLen + w.nread + Len(w.rbuf)
      BY <1>3, <1>4, <1>5, <1>9, <1>10, <1>12, ConstantTypes, SMTT(30)
    <3> QED
      BY <3>1, <3>2, <1>5, <1>9, ConstantTypes DEF Counts
  <2> QED
    BY <2>1, <2>2, <2>3, <1>2, <1>9, <1>10, <1>13 DEF RecvOK
<1>15. Good(w, p) /\ Goes(w, t)
  <2>1. IsEnd(p, w.rcv_nxt) /\ \A i \in 1..Len(w.rlist) : IsEnd(p, EndOf(w.rlist[i]))
    BY <1>2, <1>9 DEF Pair
  <2>2. t.rcv_nxt <= w.rcv_nxt /\ Edge(t) <= Edge(w)
    BY <1>5, <1>9, <1>13
  <2> QED
    BY <2>1, <2>2, <1>9, <1>14, RecvSideGood
<1>16. ASSUME IsRight(t)
       PROVE  ReadsRight(w)
  <2>1. SUFFICES ASSUME NEW i \in 1..Len(w.rbuf)
                 PROVE  Right(w.rbuf[i], ConnectLen + w.nread, i)
    BY DEF ReadsRight
  <2>2. CASE i <= Len(t.rbuf)
    <3>1. i \in 1..Len(t.rbuf)
      BY <2>2, <1>4, <1>11
    <3>2. w.rbuf[i] = t.rbuf[i]
      BY <3>1, <1>10 DEF Grows
    <3>3. Right(t.rbuf[i], ConnectLen + t.nread, i)
      BY <3>1, <1>16 DEF IsRight, ReadsRight
    <3> QED
      BY <3>2, <3>3, <1>9
  <2>3. CASE i > Len(t.rbuf)
    <3>1. PICK k \in 1..n : i = Len(t.rbuf) + k
      <4>1. i - Len(t.rbuf) \in 1..n /\ i = Len(t.rbuf) + (i - Len(t.rbuf))
        BY <2>3, <1>4, <1>10, <1>11
      <4> QED
        BY <4>1
    <3>2. w.rbuf[i] = t.ahead[k]
      BY <3>1, <1>8 DEF Moved
    <3>3. k \in 1..Len(t.ahead) /\ seq < t.rcv_nxt + k /\ t.rcv_nxt + k <= end
      BY <3>1, <1>3, <1>4, <1>5, <1>6, SMTT(30)
    <3>4. Right(t.ahead[k], t.rcv_nxt, k)
      BY <3>3, <1>16 DEF Holds
    <3>5. t.ahead[k] + 1 = t.rcv_nxt + k
      BY <3>4 DEF Right
    <3>6. t.rcv_nxt + k = ConnectLen + t.nread + i
      BY <3>1, <1>3, <1>4, <1>12, ConstantTypes, SMTT(30)
    <3>7. Right(w.rbuf[i], ConnectLen + t.nread, i)
      BY <3>2, <3>5, <3>6 DEF Right
    <3> QED
      BY <3>7, <1>9
  <2> QED
    BY <2>2, <2>3, <1>4, <1>11
<1>17. ASSUME NEW seq1, NEW end1, Holds(t, seq1, end1)
       PROVE  Holds(w, seq1, end1)
  <2>1. SUFFICES ASSUME NEW i \in 1..Len(w.ahead),
                        seq1 < w.rcv_nxt + i /\ w.rcv_nxt + i <= end1
                 PROVE  Right(w.ahead[i], w.rcv_nxt, i)
    BY DEF Holds
  <2>2. PICK k \in 1..Len(t.ahead) : k = n + i
    BY <1>4, <1>10, <1>11
  <2>3. w.ahead[i] = t.ahead[k]
    BY <2>2, <1>8 DEF Moved
  <2>4. w.rcv_nxt + i = t.rcv_nxt + k
    BY <2>2, <1>3, <1>5, <1>9, <1>11, SMTT(30)
  <2>5. Right(t.ahead[k], t.rcv_nxt, k)
    BY <2>1, <2>4, <1>17 DEF Holds
  <2> QED
    BY <2>3, <2>4, <2>5 DEF Right
<1>18. AheadRight(t) => AheadRight(w)
  <2>1. ~(w.rcv_nxt < ConnectLen)
    BY <1>3, <1>5, <1>9, ConstantTypes
  <2> QED
    BY <2>1, <1>9, <1>17 DEF AheadRight
<1>19. Takes(w, t, p)
  BY <1>9, <1>10, <1>15, <1>16, <1>18 DEF Takes, Moves, IsRight
<1> QED
  BY <1>9, <1>19 DEF w

LEMMA TakesNothing ==
  ASSUME NEW t, NEW p, Good(t, p)
  PROVE  Takes(t, t, p)
<1>1. Goes(t, t)
  BY GoodTypes DEF Goes, KeepsCall
<1>2. Len(t.rbuf) \in Nat
  <2>1. RecvOK(t)
    BY GoodParts
  <2> QED
    BY <2>1, RecvTypes, ConstantTypes
<1>3. Grows(t.rbuf, t.rbuf)
  BY <1>2 DEF Grows
<1> QED
  BY <1>1, <1>3 DEF Takes, Moves, KeepsSend, KeepsUser, KeepsOut

(* The list of early segments changes.                                     *)
LEMMA RlistGood ==
  ASSUME NEW t, NEW p, Good(t, p), PeerOK(p), NEW l \in Seq(RSeg), NEW w, SetsRlist(w, t, l),
         \A i \in 1..Len(l) : IsEnd(p, EndOf(l[i])),
         AheadRight(t) /\ ~t.shutdown => \A i \in 1..Len(l) : Holds(t, l[i].seq, EndOf(l[i]))
  PROVE  /\ Moves(w, t, p)
         /\ (t.rcv_nxt < ConnectLen /\ ~t.shutdown => Len(l) = 0) => Takes(w, t, p)
         /\ w.rcv_nxt = t.rcv_nxt /\ w.rbuf = t.rbuf /\ w.rlist = l
<1>1. /\ IsWork(w) /\ w.rlist = l
      /\ w.shutdown = t.shutdown /\ w.rcv_nxt = t.rcv_nxt /\ w.rcv_wnd = t.rcv_wnd
      /\ w.rbuf = t.rbuf /\ w.nread = t.nread /\ w.ahead = t.ahead
      /\ KeepsSend(w, t) /\ KeepsUser(w, t) /\ KeepsCall(w, t) /\ KeepsOut(w, t)
      /\ w.state = t.state /\ w.dup_acks = t.dup_acks /\ w.failed = t.failed
  BY DEF SetsRlist
<1>2. RecvOK(t) /\ Pair(p, t)
  BY GoodParts
<1>3. Edge(w) = Edge(t)
  BY <1>1 DEF Edge
<1>4. RecvOK(w)
  <2>1. ~w.shutdown => Counts(w)
    BY <1>1, <1>2 DEF RecvOK, Counts
  <2> QED
    BY <2>1, <1>1, <1>2, <1>3 DEF RecvOK
<1>5. Good(w, p) /\ Goes(w, t)
  <2>1. IsEnd(p, w.rcv_nxt) /\ \A i \in 1..Len(w.rlist) : IsEnd(p, EndOf(w.rlist[i]))
    BY <1>1, <1>2 DEF Pair
  <2>2. t.rcv_nxt <= w.rcv_nxt /\ Edge(t) <= Edge(w)
    BY <1>1, <1>3, GoodTypes
  <2> QED
    BY <2>1, <2>2, <1>1, <1>4, RecvSideGood
<1>6. Grows(w.rbuf, t.rbuf)
  <2>1. Takes(t, t, p)
    BY TakesNothing
  <2> QED
    BY <2>1, <1>1 DEF Takes, Moves
<1>7. ASSUME NEW seq, NEW end, Holds(t, seq, end)
      PROVE  Holds(w, seq, end)
  BY <1>1, <1>7 DEF Holds
<1>8. ASSUME t.rcv_nxt < ConnectLen /\ ~t.shutdown => Len(l) = 0, IsRight(t)
      PROVE  IsRight(w)
  <2>1. IsRight(t)
    BY <1>8
  <2>2. ReadsRight(w)
    BY <2>1, <1>1 DEF IsRight, ReadsRight
  <2>3. SUFFICES ASSUME ~w.shutdown
                 PROVE  /\ w.rcv_nxt < ConnectLen => Len(w.rlist) = 0
                        /\ \A j \in 1..Len(w.rlist) :
                             Holds(w, w.rlist[j].seq, EndOf(w.rlist[j]))
    BY <2>2 DEF IsRight, AheadRight
  <2>4. \A i \in 1..Len(l) : Holds(t, l[i].seq, EndOf(l[i]))
    BY <2>1, <2>3, <1>1 DEF IsRight
  <2> QED
    BY <2>3, <2>4, <1>1, <1>7, <1>8
<1>9. Moves(w, t, p)
  BY <1>1, <1>5, <1>6 DEF Moves
<1> QED
  BY <1>1, <1>8, <1>9 DEF Takes

LEMMA RecoverOneGood ==
  ASSUME NEW t, NEW p, Good(t, p), PeerOK(p), ~t.shutdown, t.rcv_nxt >= ConnectLen
  PROVE  Takes(RecoverOne(t), t, p) /\ RecoverOne(t).rcv_nxt >= ConnectLen
<1> DEFINE seg == Head(t.rlist)
           n == seg.seq + seg.len - t.rcv_nxt
           v == IF n > 0 THEN Consume(t, n) ELSE t
           w == [v EXCEPT !.rlist = Tail(v.rlist)]
<1>1. RecoverOne(t) = IF t.rlist = << >> \/ seg.seq > t.rcv_nxt THEN t ELSE w
  BY DEF RecoverOne
<1>2. RecvOK(t) /\ Pair(p, t) /\ t.rcv_nxt \in Nat /\ t.rlist \in Seq(RSeg)
      /\ Len(t.rlist) \in Nat
  <2>1. RecvOK(t) /\ Pair(p, t) /\ t.rcv_nxt \in Nat /\ t.rlist \in Seq(RSeg)
    BY GoodParts DEF RecvOK
  <2> QED
    BY <2>1
<1>3. CASE t.rlist = << >> \/ seg.seq > t.rcv_nxt
  BY <1>1, <1>3, TakesNothing
<1>4. CASE ~(t.rlist = << >> \/ seg.seq > t.rcv_nxt)
  <2>1. seg = t.rlist[1] /\ 1 \in 1..Len(t.rlist)
    BY <1>2, <1>4
  <2>2. seg \in RSeg
    BY <2>1, <1>2, ElementOfSeq
  <2> HIDE DEF seg
  <2>3. seg.seq \in Nat /\ seg.len \in Nat /\ seg.seq <= t.rcv_nxt
    BY <2>2, <1>2, <1>4, ConstantTypes DEF RSeg
  <2>4. PICK end \in Nat : end = seg.seq + seg.len
    BY <2>3
  <2>5. IsEnd(p, end)
    BY <2>1, <2>4, <1>2 DEF Pair, EndOf
  <2>6. AheadRight(t) => Holds(t, seg.seq, end)
    BY <2>1, <2>4 DEF AheadRight, EndOf
  <2>7. n = end - t.rcv_nxt /\ n \in Int
    BY <2>3, <2>4, <1>2
  <2> HIDE DEF n
  <2>8. Takes(v, t, p) /\ v.rlist = t.rlist /\ v.rcv_nxt >= ConnectLen
    <3>1. CASE n > 0
      <4>1. n \in Nat \ {0} /\ Fill(t.rcv_nxt, n, end) /\ end >= t.rcv_nxt
        BY <2>7, <1>2, <3>1 DEF Fill
      <4>2. IsRight(t) => Holds(t, seg.seq, end)
        BY <2>6 DEF IsRight
      <4>3. /\ Takes(Consume(t, n), t, p) /\ Consume(t, n).rcv_nxt = end
            /\ Consume(t, n).rlist = t.rlist
        BY <4>1, <4>2, <2>3, <2>5, ConsumeGood
      <4>4. end >= ConnectLen
        BY <4>1, <1>2, ConstantTypes
      <4> QED
        BY <3>1, <4>3, <4>4
    <3>2. CASE ~(n > 0)
      BY <3>2, TakesNothing
    <3> QED
      BY <3>1, <3>2
  <2> HIDE DEF v
  <2>9. Good(v, p) /\ IsWork(v) /\ v.shutdown = t.shutdown
    BY <2>8 DEF Takes, Moves, Good
  <2>10. SetsRlist(w, v, Tail(v.rlist))
    BY <2>9, RlistEffect
  <2> HIDE DEF w
  <2>11. v.rlist \in Seq(RSeg) /\ Len(v.rlist) > 0 /\ Len(v.rlist) \in Nat
    BY <2>8, <2>1, <1>2
  <2> DEFINE l == Tail(v.rlist)
  <2>12. l \in Seq(RSeg) /\ \A i \in 1..Len(l) : \E j \in 1..Len(v.rlist) : l[i] = v.rlist[j]
    <3>1. l \in Seq(RSeg) /\ Len(l) = Len(v.rlist) - 1
      BY <2>11
    <3>2. \A i \in 1..(Len(v.rlist) - 1) : l[i] = v.rlist[i + 1]
      BY <2>11
    <3>3. \A i \in 1..(Len(v.rlist) - 1) : i + 1 \in 1..Len(v.rlist)
      BY <2>11
    <3> QED
      BY <3>1, <3>2, <3>3
  <2>13. \A i \in 1..Len(l) : IsEnd(p, EndOf(l[i]))
    <3>1. Pair(p, v)
      BY <2>9, GoodParts
    <3> QED
      BY <3>1, <2>12 DEF Pair
  <2>14. AheadRight(v) /\ ~v.shutdown => \A i \in 1..Len(l) : Holds(v, l[i].seq, EndOf(l[i]))
    BY <2>12 DEF AheadRight
  <2>15. ~(v.rcv_nxt < ConnectLen)
    <3>1. v.rcv_nxt \in Nat
      BY <2>9, GoodTypes
    <3> QED
      BY <3>1, <2>8, ConstantTypes
  <2>16. SetsRlist(w, v, l)
    BY <2>10
  <2> HIDE DEF l
  <2>17. Takes(w, v, p) /\ w.rcv_nxt = v.rcv_nxt
    BY <2>9, <2>12, <2>13, <2>14, <2>15, <2>16, RlistGood
  <2>18. Takes(w, t, p)
    BY <2>8, <2>17, TakesOn
  <2> QED
    BY <1>1, <1>4, <2>8, <2>17, <2>18
<1> QED
  BY <1>3, <1>4

LEMMA RecoverTurns ==
  ASSUME NEW t, Len(t.rlist) \in Nat
  PROVE  \E g : /\ g[0] = t
                /\ \A i \in 1..Len(t.rlist), j \in 0..Len(t.rlist) :
                     i = j + 1 => g[i] = RecoverOne(g[j])
                /\ Recover(t) = g[Len(t.rlist)]
<1> DEFINE Step(g, i) == IF i = 0 THEN t ELSE RecoverOne(g[i - 1])
           Exists(n) == \E g : g = [i \in 0..n |-> Step(g, i)]
<1>1. Exists(0)
  <2> DEFINE g == [i \in 0..0 |-> t]
  <2>1. g = [i \in 0..0 |-> Step(g, i)]
    OBVIOUS
  <2> QED
    BY <2>1
<1>2. ASSUME NEW n \in Nat, Exists(n)
      PROVE  Exists(n + 1)
  <2>1. PICK g : g = [i \in 0..n |-> Step(g, i)]
    BY <1>2
  <2> DEFINE h == [i \in 0..(n + 1) |-> IF i <= n THEN g[i] ELSE RecoverOne(g[n])]
  <2>2. ASSUME NEW i \in 0..(n + 1)
        PROVE  h[i] = Step(h, i)
    <3>1. CASE i <= n
      <4>1. h[i] = g[i]
        BY <3>1
      <4>2. g[i] = Step(g, i)
        BY <2>1, <3>1
      <4>3. i # 0 => h[i - 1] = g[i - 1]
        BY <3>1
      <4> QED
        BY <4>1, <4>2, <4>3
    <3>2. CASE i = n + 1
      <4>1. h[i] = RecoverOne(g[n]) /\ h[i - 1] = g[n]
        BY <3>2
      <4> QED
        BY <4>1, <3>2
    <3> QED
      BY <3>1, <3>2
  <2>3. h = [i \in 0..(n + 1) |-> h[i]]
    OBVIOUS
  <2> HIDE DEF h
  <2>4. h = [i \in 0..(n + 1) |-> Step(h, i)]
    BY <2>2, <2>3
  <2> QED
    BY <2>4
<1>3. \A n \in Nat : Exists(n)
  <2> HIDE DEF Exists
  <2> DEFINE P == {n \in Nat : Exists(n)}
  <2>1. P \in SUBSET Nat /\ 0 \in P /\ \A n \in P : n + 1 \in P
    BY <1>1, <1>2
  <2>2. P = Nat
    <3> HIDE DEF P
    <3> QED
      BY <2>1, NatIsInductive
  <2> QED
    BY <2>2
<1>4. Exists(Len(t.rlist))
  BY <1>3
<1> DEFINE after == CHOOSE g : g = [i \in 0..Len(t.rlist) |-> Step(g, i)]
<1>5. after = [i \in 0..Len(t.rlist) |-> Step(after, i)]
  BY <1>4
<1>6. Recover(t) = after[Len(t.rlist)]
  BY DEF Recover
<1> HIDE DEF after
<1>7. after[0] = t
  BY <1>5
<1>8. ASSUME NEW i \in 1..Len(t.rlist), NEW j \in 0..Len(t.rlist), i = j + 1
      PROVE  after[i] = RecoverOne(after[j])
  <2>1. i \in 0..Len(t.rlist) /\ i # 0 /\ i - 1 = j
    BY <1>8
  <2> QED
    BY <2>1, <1>5
<1> QED
  BY <1>6, <1>7, <1>8

LEMMA RecoverGood ==
  ASSUME NEW t, NEW p, Good(t, p), PeerOK(p), ~t.shutdown, t.rcv_nxt >= ConnectLen
  PROVE  Takes(Recover(t), t, p)
<1>1. Len(t.rlist) \in Nat
  <2>1. t.rlist \in Seq(RSeg)
    BY GoodParts DEF RecvOK
  <2> QED
    BY <2>1
<1>2. PICK g : /\ g[0] = t
               /\ \A i \in 1..Len(t.rlist), j \in 0..Len(t.rlist) :
                    i = j + 1 => g[i] = RecoverOne(g[j])
               /\ Recover(t) = g[Len(t.rlist)]
  BY <1>1, RecoverTurns
<1> DEFINE Done(w) == Takes(w, t, p) /\ w.rcv_nxt >= ConnectLen
           P == {i \in Nat : i <= Len(t.rlist) => Done(g[i])}
<1>3. 0 \in P
  BY <1>2, TakesNothing
<1>4. ASSUME NEW j \in P
      PROVE  j + 1 \in P
  <2>1. SUFFICES ASSUME j + 1 <= Len(t.rlist)
                 PROVE  Done(g[j + 1])
    OBVIOUS
  <2>2. PICK i \in 1..Len(t.rlist) : i = j + 1
    BY <2>1, <1>1
  <2>3. j \in 0..Len(t.rlist) /\ Done(g[j])
    BY <2>1, <1>1
  <2>4. g[i] = RecoverOne(g[j])
    BY <2>2, <2>3, <1>2
  <2>5. Good(g[j], p) /\ ~g[j].shutdown /\ g[j].rcv_nxt >= ConnectLen
    BY <2>3 DEF Takes, Moves
  <2>6. Takes(g[i], g[j], p) /\ g[i].rcv_nxt >= ConnectLen
    BY <2>4, <2>5, RecoverOneGood
  <2>7. Takes(g[i], t, p)
    BY <2>3, <2>6, TakesOn
  <2> QED
    BY <2>2, <2>6, <2>7
<1>5. P = Nat
  <2>1. P \in SUBSET Nat
    OBVIOUS
  <2> HIDE DEF P
  <2> QED
    BY <2>1, <1>3, <1>4, NatIsInductive
<1>6. Done(g[Len(t.rlist)])
  BY <1>5, <1>1
<1> QED
  BY <1>6, <1>2

LEMMA InsertedElements ==
  ASSUME NEW S, NEW s \in Seq(S), NEW v, NEW e, NEW i \in 1..(Len(s) + 1), Inserted(v, s, i, e),
         NEW k \in 1..Len(v)
  PROVE  v[k] = e \/ \E j \in 1..Len(s) : v[k] = s[j]
<1>1. Len(v) = Len(s) + 1 /\ Len(s) \in Nat
  BY DEF Inserted
<1>2. CASE k < i
  <2>1. k \in 1..Len(s) /\ v[k] = s[k]
    BY <1>1, <1>2 DEF Inserted
  <2> QED
    BY <2>1
<1>3. CASE k = i
  BY <1>1, <1>3 DEF Inserted
<1>4. CASE k > i
  <2>1. PICK j \in 1..Len(s) : k = j + 1
    <3>1. k - 1 \in 1..Len(s) /\ k = (k - 1) + 1
      BY <1>1, <1>4
    <3> QED
      BY <3>1
  <2>2. v[k] = s[j]
    BY <2>1, <1>1, <1>4 DEF Inserted
  <2> QED
    BY <2>2
<1> QED
  BY <1>2, <1>3, <1>4, <1>1

LEMMA SaveGood ==
  ASSUME NEW t, NEW p, Good(t, p), PeerOK(p), NEW s, s.seq \in Nat, s.len \in 1..Mss,
         IsEnd(p, s.seq + s.len), Holds(t, s.seq, s.seq + s.len)
  PROVE  /\ Moves(Save(t, s), t, p)
         /\ Save(t, s).rcv_nxt = t.rcv_nxt /\ Save(t, s).rbuf = t.rbuf
         /\ t.rcv_nxt >= ConnectLen \/ t.shutdown => Takes(Save(t, s), t, p)
<1> DEFINE before == {i \in DOMAIN t.rlist : t.rlist[i].seq < s.seq}
           n == Cardinality(before)
           e == [seq |-> s.seq, len |-> s.len]
           l == InsertAt(t.rlist, n + 1, e)
           w == [t EXCEPT !.rlist = l]
<1>1. Save(t, s) = w
  BY DEF Save
<1>2. Pair(p, t) /\ t.rlist \in Seq(RSeg) /\ t.rcv_nxt \in Nat
  BY GoodParts DEF RecvOK
<1>3. DOMAIN t.rlist = 1..Len(t.rlist) /\ Len(t.rlist) \in Nat
  BY <1>2
<1>4. n \in 0..Len(t.rlist)
  <2>1. IsFiniteSet(1..Len(t.rlist)) /\ Cardinality(1..Len(t.rlist)) = Len(t.rlist)
    <3>1. PICK m \in Nat : m = Len(t.rlist)
      BY <1>3
    <3>2. m \in Int /\ 1 \in Int
      OBVIOUS
    <3>3. Cardinality(1..m) = IF 1 > m THEN 0 ELSE m - 1 + 1
      BY <3>2, FS_Interval
    <3>4. IsFiniteSet(1..m)
      BY <3>2, FS_Interval
    <3>5. Cardinality(1..m) = m
      BY <3>3
    <3> QED
      BY <3>1, <3>4, <3>5
  <2>2. before \in SUBSET (1..Len(t.rlist))
    BY <1>3
  <2> HIDE DEF before
  <2>3. IsFiniteSet(before) /\ Cardinality(before) <= Cardinality(1..Len(t.rlist))
    BY <2>1, <2>2, FS_Subset
  <2>4. Cardinality(before) \in Nat
    BY <2>3, FS_CardinalityType
  <2> QED
    BY <2>1, <2>3, <2>4, <1>3
<1> HIDE DEF n
<1>5. e \in RSeg /\ e.seq = s.seq /\ EndOf(e) = s.seq + s.len
  BY DEF RSeg, EndOf
<1> HIDE DEF e
<1>6. PICK i \in 1..(Len(t.rlist) + 1) : i = n + 1
  BY <1>3, <1>4
<1>7. l \in Seq(RSeg) /\ Inserted(l, t.rlist, i, e)
  BY <1>2, <1>5, <1>6, InsertAtProperties
<1>8. SetsRlist(w, t, l)
  BY GoodParts, RlistEffect
<1> HIDE DEF w, l
<1>9. ASSUME NEW k \in 1..Len(l)
      PROVE  l[k] = e \/ \E j \in 1..Len(t.rlist) : l[k] = t.rlist[j]
  <2> DEFINE r == t.rlist
  <2>1. r \in Seq(RSeg) /\ i \in 1..(Len(r) + 1) /\ Inserted(l, r, i, e)
    BY <1>2, <1>6, <1>7
  <2> HIDE DEF r
  <2>2. l[k] = e \/ \E j \in 1..Len(r) : l[k] = r[j]
    BY <2>1, InsertedElements
  <2> QED
    BY <2>2 DEF r
<1>10. \A k \in 1..Len(l) : IsEnd(p, EndOf(l[k]))
  BY <1>2, <1>5, <1>9 DEF Pair
<1>11. AheadRight(t) /\ ~t.shutdown =>
         \A k \in 1..Len(l) : Holds(t, l[k].seq, EndOf(l[k]))
  BY <1>5, <1>9 DEF AheadRight
<1>12. /\ Moves(w, t, p) /\ w.rcv_nxt = t.rcv_nxt /\ w.rbuf = t.rbuf
       /\ (t.rcv_nxt < ConnectLen /\ ~t.shutdown => Len(l) = 0) => Takes(w, t, p)
  BY <1>7, <1>8, <1>10, <1>11, RlistGood
<1>13. t.rcv_nxt >= ConnectLen => ~(t.rcv_nxt < ConnectLen)
  BY <1>2, ConstantTypes
<1> QED
  BY <1>1, <1>12, <1>13

LEMMA RcvNxtGood ==
  ASSUME NEW t, NEW p, Good(t, p), PeerOK(p), NEW end \in Nat, end >= t.rcv_nxt, IsEnd(p, end),
         NEW w, SetsRcvNxt(w, t, end),
         t.shutdown \/ (end <= ConnectLen /\ end > t.rcv_nxt)
  PROVE  Takes(w, t, p) /\ w.rbuf = t.rbuf
<1>1. /\ IsWork(w) /\ w.rcv_nxt = end
      /\ w.shutdown = t.shutdown /\ w.rlist = t.rlist /\ w.rcv_wnd = t.rcv_wnd
      /\ w.rbuf = t.rbuf /\ w.nread = t.nread /\ w.ahead = t.ahead
      /\ KeepsSend(w, t) /\ KeepsUser(w, t) /\ KeepsCall(w, t) /\ KeepsOut(w, t)
      /\ w.state = t.state /\ w.dup_acks = t.dup_acks /\ w.failed = t.failed
  BY DEF SetsRcvNxt
<1>2. RecvOK(t) /\ Pair(p, t)
  BY GoodParts
<1>3. t.rcv_nxt \in Nat /\ t.rcv_wnd \in Nat /\ t.nread \in Nat /\ t.rbuf \in Seq(Byte)
      /\ t.shutdown \in BOOLEAN
  BY <1>2 DEF RecvOK
<1>4. Edge(t) \in Nat /\ Edge(w) \in Nat /\ Edge(t) <= Edge(w)
  BY <1>1, <1>3 DEF Edge
<1>5. RecvOK(w)
  <2>1. ~w.shutdown => Counts(w)
    <3>1. SUFFICES ASSUME ~t.shutdown
                   PROVE  Counts(w)
      BY <1>1
    <3>2. t.rcv_nxt <= ConnectLen /\ end <= ConnectLen
      BY <3>1, <1>3, ConstantTypes
    <3>3. t.nread + Len(t.rbuf) = 0
      BY <3>1, <3>2, <1>2 DEF RecvOK, Counts
    <3>4. t.nread = 0 /\ Len(t.rbuf) = 0
      BY <3>3, <1>3
    <3> QED
      BY <3>2, <3>4, <1>1, ConstantTypes DEF Counts
  <2>2. Edge(w) >= RcvBuf
    <3>1. Edge(t) >= RcvBuf
      BY <1>2 DEF RecvOK
    <3> QED
      BY <3>1, <1>4, ConstantTypes
  <2>3. Fill(Len(w.rbuf), Len(w.ahead), RcvBuf) /\ w.rcv_wnd <= Len(w.ahead)
    BY <1>1, <1>2 DEF RecvOK
  <2> QED
    BY <2>1, <2>2, <2>3, <1>1, <1>2 DEF RecvOK
<1>6. Good(w, p) /\ Goes(w, t)
  <2>1. IsEnd(p, w.rcv_nxt) /\ \A i \in 1..Len(w.rlist) : IsEnd(p, EndOf(w.rlist[i]))
    BY <1>1, <1>2 DEF Pair
  <2>2. t.rcv_nxt <= w.rcv_nxt
    BY <1>1
  <2> QED
    BY <2>1, <2>2, <1>1, <1>4, <1>5, RecvSideGood
<1>7. Grows(w.rbuf, t.rbuf)
  <2>1. Takes(t, t, p)
    BY TakesNothing
  <2> QED
    BY <2>1, <1>1 DEF Takes, Moves
<1>8. ASSUME IsRight(t)
      PROVE  IsRight(w)
  <2>1. ReadsRight(w)
    BY <1>1, <1>8 DEF IsRight, ReadsRight
  <2>2. ~t.shutdown => Len(t.rlist) = 0
    <3>1. ~t.shutdown => t.rcv_nxt < ConnectLen
      BY <1>3, ConstantTypes
    <3> QED
      BY <3>1, <1>8 DEF IsRight, AheadRight
  <2>3. AheadRight(w)
    BY <2>2, <1>1 DEF AheadRight
  <2> QED
    BY <2>1, <2>3 DEF IsRight
<1>9. Takes(w, t, p)
  BY <1>1, <1>6, <1>7, <1>8 DEF Takes, Moves
<1> QED
  BY <1>1, <1>9

Spoils(t, s) == t.rcv_nxt < ConnectLen /\ ~s.ctl /\ s.len > 0 /\ ~t.shutdown
Stores(w, t, s, p) ==
  /\ Moves(w, t, p) /\ (~Spoils(t, s) => Takes(w, t, p))
  /\ t.shutdown \/ t.rcv_nxt < ConnectLen => w.rbuf = t.rbuf
  /\ ~(s.len > 0) => w = t

LEMMA StoreGood ==
  ASSUME NEW t, NEW p, Good(t, p), PeerOK(p), NEW s, FitOK(s, t, p)
  PROVE  Stores(Store(t, s), t, s, p)
<1>1. s.len \in 0..Mss /\ s.len \in Nat /\ s.ctl \in BOOLEAN
  BY ConstantTypes DEF FitOK
<1>2. t.rcv_nxt \in Nat /\ t.shutdown \in BOOLEAN
  BY GoodParts DEF RecvOK
<1>3. CASE s.len = 0
  <2>1. Store(t, s) = t
    BY <1>3 DEF Store
  <2>2. Takes(t, t, p)
    BY TakesNothing
  <2> QED
    BY <2>1, <2>2 DEF Stores, Takes
<1>4. ASSUME s.len > 0
      PROVE  Stores(Store(t, s), t, s, p)
  <2>1. s.seq \in Nat /\ IsEnd(p, s.seq + s.len) /\ s.seq >= t.rcv_nxt /\ s.len \in 1..Mss
        /\ (s.ctl => s.seq + s.len <= ConnectLen) /\ (~s.ctl => s.seq >= ConnectLen)
    BY <1>4, <1>1 DEF FitOK, DataOK
  <2>2. PICK end \in Nat : end = s.seq + s.len
    BY <2>1
  <2>3. CASE s.ctl \/ t.shutdown
    <3> DEFINE w == [t EXCEPT !.rcv_nxt = t.rcv_nxt + s.len]
    <3>1. Store(t, s) = IF s.seq = t.rcv_nxt THEN w ELSE t
      BY <1>4, <2>3 DEF Store
    <3>2. ~Spoils(t, s)
      BY <2>3 DEF Spoils
    <3>3. CASE s.seq = t.rcv_nxt
      <4>1. SetsRcvNxt(w, t, end)
        <5>1. SetsRcvNxt(w, t, t.rcv_nxt + s.len)
          BY GoodParts, RcvNxtEffect
        <5> QED
          BY <5>1, <2>2, <3>3
      <4> HIDE DEF w
      <4>2. Takes(w, t, p) /\ w.rbuf = t.rbuf
        <5>1. t.shutdown \/ (end <= ConnectLen /\ end > t.rcv_nxt)
          BY <2>1, <2>2, <2>3, <3>3
        <5>2. end >= t.rcv_nxt /\ IsEnd(p, end)
          BY <2>1, <2>2, <3>3
        <5> QED
          BY <4>1, <5>1, <5>2, RcvNxtGood
      <4> QED
        BY <3>1, <3>3, <4>2, <1>4 DEF Stores, Takes
    <3>4. CASE s.seq # t.rcv_nxt
      <4>1. Store(t, s) = t
        BY <3>1, <3>4
      <4> QED
        BY <4>1, TakesNothing DEF Stores, Takes
    <3> QED
      BY <3>3, <3>4
  <2>4. CASE ~(s.ctl \/ t.shutdown)
    <3> DEFINE w == WriteAt(t, s)
    <3>1. Store(t, s) = IF s.seq = t.rcv_nxt THEN Recover(Consume(w, s.len)) ELSE Save(w, s)
      BY <1>4, <2>4, <1>1 DEF Store
    <3>2. /\ Takes(w, t, p) /\ Holds(w, s.seq, s.seq + s.len)
          /\ w.rcv_nxt = t.rcv_nxt /\ w.rlist = t.rlist /\ w.rbuf = t.rbuf
      BY <1>4, WriteAtGood
    <3> HIDE DEF w
    <3>3. Good(w, p) /\ w.shutdown = FALSE
      BY <3>2, <2>4, <1>2 DEF Takes, Moves
    <3>4. CASE s.seq = t.rcv_nxt
      <4> DEFINE v == Consume(w, s.len)
      <4>1. t.rcv_nxt >= ConnectLen /\ w.rcv_nxt >= ConnectLen
        BY <2>1, <2>4, <3>2, <3>4
      <4>2. Fill(w.rcv_nxt, s.len, end) /\ s.seq <= w.rcv_nxt /\ Holds(w, s.seq, end)
            /\ IsEnd(p, end) /\ s.len \in Nat \ {0}
        BY <2>1, <2>2, <3>2, <3>4, <1>1, <1>4 DEF Fill
      <4>3. Takes(v, w, p) /\ v.rcv_nxt = end
        BY <4>1, <4>2, <2>1, <3>3, ConsumeGood
      <4> HIDE DEF v
      <4>4. Good(v, p) /\ ~v.shutdown /\ v.rcv_nxt >= ConnectLen
        <5>1. end >= ConnectLen
          BY <2>1, <2>2, <2>4, ConstantTypes
        <5> QED
          BY <4>3, <5>1, <3>3 DEF Takes, Moves
      <4>5. Takes(Recover(v), v, p)
        BY <4>4, RecoverGood
      <4>6. Takes(v, t, p)
        BY <3>2, <4>3, TakesOn
      <4>7. Takes(Recover(v), t, p)
        BY <4>5, <4>6, TakesOn
      <4>8. Store(t, s) = Recover(v)
        BY <3>1, <3>4 DEF v
      <4>9. ~(t.shutdown \/ t.rcv_nxt < ConnectLen)
        BY <2>4, <4>1, <1>2, ConstantTypes
      <4> QED
        BY <4>7, <4>8, <4>9, <1>4 DEF Stores, Takes
    <3>5. CASE s.seq # t.rcv_nxt
      <4> DEFINE v == Save(w, s)
      <4>1. /\ Moves(v, w, p) /\ v.rcv_nxt = w.rcv_nxt /\ v.rbuf = w.rbuf
            /\ w.rcv_nxt >= ConnectLen \/ w.shutdown => Takes(v, w, p)
        BY <2>1, <3>2, <3>3, SaveGood
      <4> HIDE DEF v
      <4>2. Moves(v, t, p)
        BY <4>1, <3>2, MovesOn DEF Takes
      <4>3. ~Spoils(t, s) => Takes(v, t, p)
        <5>1. SUFFICES ASSUME ~Spoils(t, s)
                       PROVE  Takes(v, t, p)
          OBVIOUS
        <5>2. w.rcv_nxt >= ConnectLen
          BY <5>1, <2>4, <1>2, <1>4, <3>2, ConstantTypes DEF Spoils
        <5>3. Takes(v, w, p)
          BY <5>2, <4>1
        <5> QED
          BY <5>3, <3>2, TakesOn
      <4>4. Store(t, s) = v
        BY <3>1, <3>5 DEF v
      <4> QED
        BY <4>1, <4>2, <4>3, <4>4, <3>2, <1>4 DEF Stores
    <3> QED
      BY <3>4, <3>5
  <2> QED
    BY <2>3, <2>4
<1> QED
  BY <1>1, <1>3, <1>4

LEMMA RightKept ==
  ASSUME NEW w, NEW t, KeepsRecv(w, t)
  PROVE  IsRight(w) <=> IsRight(t)
BY DEF KeepsRecv, IsRight, ReadsRight, AheadRight, Holds

LEMMA GrowsNot ==
  ASSUME NEW t, NEW p, Good(t, p)
  PROVE  Grows(t.rbuf, t.rbuf)
BY TakesNothing DEF Takes, Moves

ReadWaits(t) == t.bReadEnable => Len(t.rbuf) = 0
Flags(t) == t.bReadEnable \in BOOLEAN /\ t.bWriteEnable \in BOOLEAN

(* What is read and what is stored of a segment.                           *)
Reads(w, t, s) ==
  /\ w.shutdown = t.shutdown /\ w.nread = t.nread /\ Grows(w.rbuf, t.rbuf)
  /\ t.shutdown \/ t.rcv_nxt < ConnectLen => w.rbuf = t.rbuf
  /\ ~Spoils(t, s) /\ IsRight(t) => IsRight(w)

LEMMA ReadsNothing ==
  ASSUME NEW t, NEW p, Good(t, p), NEW w, KeepsRecv(w, t), NEW s
  PROVE  Reads(w, t, s)
<1>1. Grows(w.rbuf, t.rbuf)
  BY GrowsNot DEF KeepsRecv
<1> QED
  BY <1>1, RightKept DEF Reads, KeepsRecv

TakesData(w, t, p, s) ==
  /\ Good(w, p) /\ Goes(w, t) /\ Reads(w, t, s)
  /\ Sum(w) = Sum(t) /\ w.sbuf = t.sbuf /\ w.state = t.state
  /\ w.bWriteEnable = t.bWriteEnable /\ w.bReadEnable \in BOOLEAN /\ ReadWaits(w)
  /\ AckPart(w) /\ (~w.failed => NoStall(w))

LEMMA ReadEnableGood ==
  ASSUME NEW t, NEW p, Good(t, p), NEW v, NEW w, SetsReadEnable(w, t, v)
  PROVE  /\ Good(w, p) /\ Goes(w, t) /\ KeepsRecv(w, t) /\ Sum(w) = Sum(t) /\ w.sbuf = t.sbuf
         /\ w.state = t.state /\ w.failed = t.failed /\ w.bReadEnable = v
         /\ w.bWriteEnable = t.bWriteEnable
         /\ (AckPart(t) => AckPart(w)) /\ (NoStall(t) => NoStall(w))
<1>1. /\ IsWork(w) /\ w.bReadEnable = v /\ w.bWriteEnable = t.bWriteEnable
      /\ KeepsSend(w, t) /\ KeepsRecv(w, t) /\ KeepsCall(w, t)
      /\ w.state = t.state /\ w.dup_acks = t.dup_acks /\ w.failed = t.failed
      /\ w.out = t.out /\ w.lastack = t.lastack /\ w.t_ack = t.t_ack
  BY DEF SetsReadEnable, KeepsOut
<1>2. w.t_ack \in BOOLEAN /\ w.dup_acks \in 0..(DupAcks - 1)
  BY <1>1 DEF Good, Acks
<1>3. Good(w, p) /\ Goes(w, t) /\ Sum(w) = Sum(t) /\ (AckPart(w) <=> AckPart(t))
  BY <1>1, <1>2, SameGood
<1> QED
  BY <1>1, <1>3 DEF KeepsSend, NoStall

LEMMA ProcessDataGood ==
  ASSUME NEW t, NEW p, Good(t, p), PeerOK(p), NEW seg, PacketOK(seg, p, t), IsPacket(seg),
         t.bReadEnable \in BOOLEAN, ReadWaits(t), AckPart(t)
  PROVE  TakesData(ProcessData(t, seg), t, p, seg)
<1> DEFINE fit == Fit(t, seg)
           w == Store(t, fit)
           recovered == Len(w.rbuf) > Len(t.rbuf) + fit.len
           flags == IF recovered THEN "ImmediateAck" ELSE AckFlags(t, seg)
           sent == AttemptSend(w, flags)
           b == sent.bReadEnable /\ Len(w.rbuf) = Len(t.rbuf)
           r == [sent EXCEPT !.bReadEnable = b]
<1>1. ProcessData(t, seg) = r
  BY DEF ProcessData
<1>2. FitOK(fit, t, p) /\ fit.ctl = seg.ctl /\ (fit.len > 0 => seg.len > 0)
  BY FitGood
<1> HIDE DEF fit
<1>3. /\ Moves(w, t, p) /\ (~Spoils(t, fit) => Takes(w, t, p))
      /\ t.shutdown \/ t.rcv_nxt < ConnectLen => w.rbuf = t.rbuf
      /\ ~(fit.len > 0) => w = t
  BY <1>2, StoreGood DEF Stores
<1> HIDE DEF w
<1>4. flags \in {"ImmediateAck", "DelayedAck"} \/ AckPart(w)
  <2>1. CASE recovered
    BY <2>1
  <2>2. CASE ~recovered
    <3>1. seg.len \in 0..Mss
      BY DEF PacketOK
    <3>2. CASE seg.seq # t.rcv_nxt
      BY <3>2, <2>2 DEF AckFlags
    <3>3. CASE seg.seq = t.rcv_nxt /\ seg.len # 0
      BY <3>3, <2>2 DEF AckFlags
    <3>4. CASE seg.len = 0
      <4>1. ~(fit.len > 0)
        BY <1>2, <3>4
      <4> QED
        BY <4>1, <1>3
    <3> QED
      BY <3>2, <3>3, <3>4
  <2> QED
    BY <2>1, <2>2
<1> HIDE DEF flags, recovered
<1>5. Good(w, p)
  BY <1>3 DEF Moves
<1>6. /\ Good(sent, p) /\ Goes(sent, w) /\ Talks(sent, w) /\ Sum(sent) = Sum(w)
      /\ sent.sbuf = w.sbuf /\ (~sent.failed => NoStall(sent)) /\ AckPart(sent)
  BY <1>4, <1>5, AttemptSendGood
<1> HIDE DEF sent
<1>7. KeepsRecv(sent, w) /\ KeepsUser(sent, w) /\ sent.state = w.state
  BY <1>6 DEF Talks
<1>8. SetsReadEnable(r, sent, b)
  BY <1>6, ReadEnableEffect DEF Good
<1> HIDE DEF r
<1>9. /\ Good(r, p) /\ Goes(r, sent) /\ KeepsRecv(r, sent) /\ Sum(r) = Sum(sent)
      /\ r.sbuf = sent.sbuf /\ r.state = sent.state /\ r.failed = sent.failed
      /\ r.bReadEnable = b /\ r.bWriteEnable = sent.bWriteEnable
      /\ (AckPart(sent) => AckPart(r)) /\ (NoStall(sent) => NoStall(r))
  BY <1>6, <1>8, ReadEnableGood
<1>10. KeepsRecv(r, w)
  BY <1>7, <1>9 DEF KeepsRecv
<1>11. /\ Goes(w, t) /\ KeepsSend(w, t) /\ KeepsUser(w, t) /\ w.state = t.state
       /\ w.shutdown = t.shutdown /\ w.nread = t.nread /\ Grows(w.rbuf, t.rbuf)
  BY <1>3 DEF Moves
<1>12. Goes(r, t)
  <2>1. Goes(sent, t)
    BY <1>5, <1>6, <1>11, GoodTypes, GoesOn
  <2> QED
    BY <2>1, <1>6, <1>9, GoodTypes, GoesOn
<1>13. Sum(r) = Sum(t) /\ r.sbuf = t.sbuf /\ r.state = t.state
       /\ r.bWriteEnable = t.bWriteEnable
  BY <1>6, <1>7, <1>9, <1>11 DEF Sum, KeepsSend, KeepsUser
<1>14. r.bReadEnable \in BOOLEAN /\ ReadWaits(r)
  <2>1. sent.bReadEnable = t.bReadEnable /\ r.rbuf = w.rbuf
    BY <1>7, <1>10, <1>11 DEF KeepsUser, KeepsRecv
  <2>2. r.bReadEnable \in BOOLEAN
    BY <1>9
  <2>3. r.bReadEnable => t.bReadEnable /\ Len(w.rbuf) = Len(t.rbuf)
    BY <2>1, <1>9
  <2> QED
    BY <2>1, <2>2, <2>3 DEF ReadWaits
<1>15. Reads(r, t, seg)
  <2>1. ~Spoils(t, seg) => ~Spoils(t, fit)
    BY <1>2 DEF Spoils
  <2>2. ~Spoils(t, seg) /\ IsRight(t) => IsRight(w)
    BY <2>1, <1>3 DEF Takes
  <2>3. IsRight(r) <=> IsRight(w)
    BY <1>10, RightKept
  <2> QED
    BY <2>2, <2>3, <1>3, <1>10, <1>11 DEF Reads, KeepsRecv
<1>16. AckPart(r) /\ (~r.failed => NoStall(r))
  BY <1>6, <1>9
<1> QED
  BY <1>1, <1>9, <1>12, <1>13, <1>14, <1>15, <1>16 DEF TakesData

Received(r, t, p, s) ==
  /\ Good(r, p) /\ Goes(r, t) /\ StateOK(r) /\ Flags(r) /\ Reads(r, t, s)
  /\ Sum(r) = Sum(t) \/ (Sum(r) = ConnectLen /\ Sum(t) = 0)
  /\ r.state # "CLOSED" => /\ ReadWaits(r) /\ Woken(r) /\ AckPart(r)
                           /\ ~r.failed => NoStall(r)

LEMMA ProcessGood ==
  ASSUME NEW t, NEW p, Good(t, p), PeerOK(p), StateOK(t), t.state # "CLOSED", Flags(t),
         ReadWaits(t), AckPart(t), NEW seg, PacketOK(seg, p, t), IsPacket(seg)
  PROVE  Received(Process(t, seg), t, p, seg)
<1> DEFINE u == ProcessConnect(t, seg)
           w == ProcessAck(u, seg)
           v == ProcessOpen(w, seg)
           r == ProcessData(v, seg)
<1>1. Process(t, seg) = IF w.state = "CLOSED" THEN w ELSE r
  BY DEF Process
<1>2. Joins(u, t, p)
  BY ProcessConnectGood
<1> HIDE DEF u
<1>3. /\ Good(u, p) /\ Goes(u, t) /\ KeepsRecv(u, t) /\ KeepsUser(u, t) /\ StateOK(u)
      /\ Sum(u) = Sum(t) \/ (Sum(u) = ConnectLen /\ Sum(t) = 0)
      /\ AckPart(u) /\ u.state # "CLOSED"
  BY <1>2 DEF Joins
<1>4. p.rcv_nxt \in Nat /\ Edge(p) \in Nat
  BY RecvTypes, ConstantTypes DEF PeerOK, RecvOK, Edge
<1>5. ASSUME NEW x, Goes(x, t)
      PROVE  PacketOK(seg, p, x)
  BY <1>4, <1>5, PacketKept DEF Goes
<1>6. AcksFrom(w, u, p)
  <2>1. PacketOK(seg, p, u)
    BY <1>3, <1>5
  <2> QED
    BY <2>1, <1>3, ProcessAckGood
<1> HIDE DEF w
<1>7. /\ Good(w, p) /\ Goes(w, u) /\ KeepsRecv(w, u) /\ KeepsUser(w, u) /\ Sum(w) = Sum(u)
      /\ (w.state = u.state \/ w.state = "CLOSED") /\ AckPart(w)
  BY <1>3, <1>6 DEF AcksFrom
<1>8. Goes(w, t)
  BY <1>3, <1>7, GoodTypes, GoesOn
<1>9. KeepsRecv(w, t) /\ KeepsUser(w, t) /\ StateOK(w)
      /\ (Sum(w) = Sum(t) \/ (Sum(w) = ConnectLen /\ Sum(t) = 0))
  BY <1>3, <1>7 DEF KeepsRecv, KeepsUser, StateOK
<1>10. Flags(w) /\ ReadWaits(w)
  BY <1>9 DEF Flags, ReadWaits, KeepsUser, KeepsRecv
<1>11. CASE w.state = "CLOSED"
  <2>1. Reads(w, t, seg)
    BY <1>9, ReadsNothing
  <2> QED
    BY <2>1, <1>1, <1>7, <1>8, <1>9, <1>10, <1>11 DEF Received
<1>12. CASE w.state # "CLOSED"
  <2>1. Opened(v, w, p)
    BY <1>7, <1>9, <1>10, <1>12, ProcessOpenGood DEF Flags
  <2> HIDE DEF v
  <2>2. /\ Good(v, p) /\ Goes(v, w) /\ KeepsRecv(v, w) /\ v.bReadEnable = w.bReadEnable
        /\ Sum(v) = Sum(w) /\ AckPart(v)
        /\ StateOK(v) /\ v.state # "CLOSED" /\ Woken(v) /\ v.bWriteEnable \in BOOLEAN
    BY <2>1, <1>7 DEF Opened
  <2>3. Goes(v, t)
    BY <2>2, <1>7, <1>8, GoodTypes, GoesOn
  <2>4. ReadWaits(v) /\ v.bReadEnable \in BOOLEAN
    BY <2>2, <1>10 DEF ReadWaits, KeepsRecv, Flags
  <2>5. KeepsRecv(v, t)
    BY <2>2, <1>9 DEF KeepsRecv
  <2>6. TakesData(r, v, p, seg)
    BY <2>2, <2>3, <2>4, <1>5, ProcessDataGood
  <2> HIDE DEF r
  <2>7. /\ Good(r, p) /\ Goes(r, v) /\ Reads(r, v, seg)
        /\ Sum(r) = Sum(v) /\ r.sbuf = v.sbuf /\ r.state = v.state
        /\ r.bWriteEnable = v.bWriteEnable /\ r.bReadEnable \in BOOLEAN /\ ReadWaits(r)
        /\ AckPart(r) /\ (~r.failed => NoStall(r))
    BY <2>6 DEF TakesData
  <2>8. Goes(r, t)
    BY <2>2, <2>3, <2>7, GoodTypes, GoesOn
  <2>9. Reads(r, t, seg)
    <3>1. Spoils(v, seg) <=> Spoils(t, seg)
      BY <2>5 DEF Spoils, KeepsRecv
    <3>2. IsRight(v) <=> IsRight(t)
      BY <2>5, RightKept
    <3> QED
      BY <3>1, <3>2, <2>5, <2>7 DEF Reads, KeepsRecv
  <2>10. StateOK(r) /\ Woken(r) /\ Flags(r)
    BY <2>2, <2>7 DEF StateOK, Woken, Flags
  <2>11. Sum(r) = Sum(t) \/ (Sum(r) = ConnectLen /\ Sum(t) = 0)
    BY <2>2, <2>7, <1>9
  <2> QED
    BY <1>1, <1>12, <2>7, <2>8, <2>9, <2>10, <2>11 DEF Received
<1> QED
  BY <1>11, <1>12

---------------------------------------------------------------------------
(* The handlers as a whole: each leaves an end as a handler finds it.      *)

(* What a handler finds, and what it leaves.                               *)
Lives(t) == t.state # "CLOSED" => ReadWaits(t) /\ Woken(t) /\ AckPart(t)
Ready(t, p) ==
  /\ Good(t, p) /\ PeerOK(p) /\ StateOK(t) /\ Flags(t) /\ Lives(t) /\ t.state # "CLOSED"
Handled(w, t, p) ==
  /\ Good(w, p) /\ Goes(w, t) /\ StateOK(w) /\ Flags(w) /\ Lives(w)
  /\ w.state # "CLOSED" /\ ~w.failed => NoStall(w)

LEMMA ReadyParts ==
  ASSUME NEW t, NEW p, Ready(t, p)
  PROVE  /\ Good(t, p) /\ PeerOK(p) /\ StateOK(t) /\ Flags(t) /\ t.state # "CLOSED"
         /\ ReadWaits(t) /\ Woken(t) /\ AckPart(t)
         /\ t.sbuf \in Nat /\ t.snd_una \in Nat /\ Sum(t) \in Nat /\ Sum(t) = t.snd_una + t.sbuf
<1>1. Good(t, p)
  BY DEF Ready
<1>2. t.sbuf \in Nat /\ t.snd_una \in Nat /\ Sum(t) = t.snd_una + t.sbuf
  BY <1>1, GoodTypes, GoodParts DEF Sum
<1> QED
  BY <1>2 DEF Ready, Lives

LEMMA RefillIs == Refill \in Nat /\ Refill <= SndBuf
BY ConstantTypes DEF Refill

(* What is queued is sent by attemptSend().                                *)
LEMMA QueuedHandled ==
  ASSUME NEW t, NEW p, Ready(t, p), NEW u, Good(u, p), Goes(u, t),
         KeepsRecv(u, t), KeepsUser(u, t), AckPart(u), StateOK(u), t.sbuf <= u.sbuf
  PROVE  LET w == AttemptSend(u, "None")
         IN  Handled(w, t, p) /\ KeepsRecv(w, t) /\ Sum(w) = Sum(u)
<1> DEFINE w == AttemptSend(u, "None")
<1>1. PeerOK(p) /\ Good(t, p)
  BY ReadyParts
<1>2. /\ Good(w, p) /\ Goes(w, u) /\ Talks(w, u) /\ Sum(w) = Sum(u) /\ w.sbuf = u.sbuf
      /\ (~w.failed => NoStall(w)) /\ AckPart(w)
  BY <1>1, AttemptSendGood
<1> HIDE DEF w
<1>3. Goes(w, t)
  BY <1>1, <1>2, GoodTypes, GoesOn
<1>4. KeepsRecv(w, t) /\ KeepsUser(w, t) /\ w.state = u.state
  BY <1>2 DEF Talks, KeepsRecv, KeepsUser
<1>5. StateOK(w)
  BY <1>2, <1>4 DEF StateOK
<1>6. Flags(w) /\ ReadWaits(w)
  BY <1>4, ReadyParts DEF Flags, ReadWaits, KeepsUser, KeepsRecv
<1>7. Woken(w)
  <2>1. w.bWriteEnable = t.bWriteEnable /\ (t.bWriteEnable => t.sbuf >= Refill)
    BY <1>4, ReadyParts DEF Woken, KeepsUser
  <2>2. t.sbuf \in Nat /\ u.sbuf \in Nat /\ Refill \in Nat
    BY ReadyParts, GoodParts, RefillIs
  <2> QED
    BY <2>1, <2>2, <1>2 DEF Woken
<1> QED
  BY <1>2, <1>3, <1>4, <1>5, <1>6, <1>7 DEF w, Handled, Lives

Connected(t) == AttemptSend(QueueConnectMessage([t EXCEPT !.state = "SYN_SENT"]), "None")
LEMMA ConnectHandled ==
  ASSUME NEW t, NEW p, Ready(t, p), t.state = "LISTEN"
  PROVE  Handled(Connected(t), t, p) /\ KeepsRecv(Connected(t), t)
         /\ Sum(Connected(t)) = ConnectLen /\ Sum(t) = 0
<1> DEFINE s == [t EXCEPT !.state = "SYN_SENT"]
           u == QueueConnectMessage(s)
<1>1. /\ Good(t, p) /\ PeerOK(p) /\ AckPart(t) /\ Sum(t) = 0
      /\ t.sbuf \in Nat /\ t.snd_una \in Nat /\ Sum(t) = t.snd_una + t.sbuf
  BY ReadyParts DEF StateOK
<1>2. SetsState(s, t, "SYN_SENT")
  BY <1>1, StateEffect DEF Good
<1>3. Connected(t) = AttemptSend(u, "None")
  BY DEF Connected
<1> HIDE DEF s
<1>4. /\ Good(s, p) /\ Goes(s, t) /\ KeepsRecv(s, t) /\ KeepsUser(s, t) /\ Sum(s) = 0
      /\ s.state = "SYN_SENT" /\ AckPart(s)
  BY <1>1, <1>2, StateGood
<1>5. /\ Good(u, p) /\ Goes(u, s) /\ Talks(u, s) /\ Sum(u) = ConnectLen
      /\ u.sbuf = ConnectLen /\ AckPart(u)
  BY <1>1, <1>4, ConnectGood
<1> HIDE DEF u
<1>6. Goes(u, t)
  BY <1>1, <1>4, <1>5, GoodTypes, GoesOn
<1>7. KeepsRecv(u, t) /\ KeepsUser(u, t) /\ u.state = "SYN_SENT"
  BY <1>4, <1>5 DEF Talks, KeepsRecv, KeepsUser
<1>8. StateOK(u)
  BY <1>5, <1>7, ConstantTypes DEF StateOK
<1>9. t.sbuf <= u.sbuf
  BY <1>1, <1>5, ConstantTypes
<1> QED
  BY <1>1, <1>3, <1>5, <1>6, <1>7, <1>8, <1>9, QueuedHandled

LEMMA SendHandled ==
  ASSUME NEW t, NEW p, Ready(t, p), t.state = "ESTABLISHED", NEW n \in Nat \ {0},
         t.sbuf + n <= SndBuf
  PROVE  LET w == AttemptSend(Queue(t, n, FALSE), "None")
         IN  Handled(w, t, p) /\ KeepsRecv(w, t) /\ Sum(w) = Sum(t) + n
<1> DEFINE u == Queue(t, n, FALSE)
<1>1. /\ Good(t, p) /\ PeerOK(p) /\ AckPart(t) /\ Sum(t) >= ConnectLen
      /\ t.sbuf \in Nat
  BY ReadyParts DEF StateOK
<1>2. /\ Good(u, p) /\ Goes(u, t) /\ Talks(u, t) /\ Sum(u) = Sum(t) + n
      /\ u.sbuf = t.sbuf + n /\ AckPart(u)
  BY <1>1, QueueGood
<1> HIDE DEF u
<1>3. KeepsRecv(u, t) /\ KeepsUser(u, t) /\ u.state = t.state
  BY <1>2 DEF Talks
<1>4. StateOK(u)
  <2>1. Sum(t) \in Nat
    BY ReadyParts
  <2>2. Sum(u) >= ConnectLen
    BY <2>1, <1>1, <1>2, ConstantTypes
  <2> QED
    BY <2>2, <1>3 DEF StateOK
<1>5. t.sbuf <= u.sbuf
  BY <1>1, <1>2
<1>6. LET w == AttemptSend(u, "None")
      IN  Handled(w, t, p) /\ KeepsRecv(w, t) /\ Sum(w) = Sum(u)
  BY <1>2, <1>3, <1>4, <1>5, QueuedHandled
<1> QED
  BY <1>2, <1>6 DEF u

(* Recv(): n bytes are read.                                               *)
ReadOf(t, n) ==
  [t EXCEPT !.rbuf = SubSeq(@, n + 1, Len(@)), !.nread = @ + n,
            !.ahead = @ \o [i \in 1..n |-> Garbage]]
ReadBy(w, t, n) ==
  /\ w.rbuf \in Seq(Byte) /\ w.ahead \in Seq(Byte) /\ w.nread = t.nread + n
  /\ Fill(Len(w.rbuf), n, Len(t.rbuf)) /\ Fill(Len(t.ahead), n, Len(w.ahead))
  /\ \A i \in 1..Len(w.rbuf), k \in 1..Len(t.rbuf) : k = n + i => w.rbuf[i] = t.rbuf[k]
  /\ \A i \in 1..Len(t.ahead) : w.ahead[i] = t.ahead[i]

ReadsOff(w, t, n) == w.rbuf = SubSeq(t.rbuf, n + 1, Len(t.rbuf)) /\ w.nread = t.nread + n

LEMMA ReadOfEffect ==
  ASSUME NEW t, IsWork(t), t.rbuf \in Seq(Byte), t.ahead \in Seq(Byte),
         NEW n \in 1..Len(t.rbuf)
  PROVE  LET w == ReadOf(t, n)
         IN  SetsRead(w, t, w.rbuf, w.nread, w.ahead) /\ ReadBy(w, t, n) /\ ReadsOff(w, t, n)
<1> DEFINE b == SubSeq(t.rbuf, n + 1, Len(t.rbuf))
           g == [i \in 1..n |-> Garbage]
           a == t.ahead \o g
           m == t.nread + n
           w == [t EXCEPT !.rbuf = b, !.nread = m, !.ahead = a]
<1>1. ReadOf(t, n) = w
  BY DEF ReadOf
<1>2. SetsRead(w, t, b, m, a)
  BY ReadEffect
<1> HIDE DEF w
<1>3. n \in 0..Len(t.rbuf) /\ n \in Nat /\ Len(t.rbuf) \in Nat /\ Len(t.ahead) \in Nat
  OBVIOUS
<1>4. /\ b \in Seq(Byte) /\ Len(b) = Len(t.rbuf) - n
      /\ \A i \in 1..(Len(t.rbuf) - n) : b[i] = t.rbuf[n + i]
  BY <1>3, SuffixProperties
<1> HIDE DEF b
<1>5. g \in Seq(Byte) /\ Len(g) = n
  BY <1>3, TopBounds DEF Byte, Garbage
<1> HIDE DEF g
<1>6. a \in Seq(Byte) /\ Len(a) = Len(t.ahead) + n /\ \A i \in 1..Len(t.ahead) : a[i] = t.ahead[i]
  <2>1. t.ahead \in Seq(Byte)
    OBVIOUS
  <2>2. a \in Seq(Byte)
    BY <2>1, <1>5
  <2>3. Len(a) = Len(t.ahead) + n
    BY <2>1, <1>3, <1>5
  <2>4. \A i \in 1..Len(t.ahead) : a[i] = t.ahead[i]
    BY <2>1, <1>3, <1>5
  <2> QED
    BY <2>2, <2>3, <2>4
<1> HIDE DEF a
<1>7. w.rbuf = b /\ w.nread = m /\ w.ahead = a
  BY <1>2 DEF SetsRead
<1>8. Fill(Len(b), n, Len(t.rbuf)) /\ Fill(Len(t.ahead), n, Len(a))
  BY <1>3, <1>4, <1>6 DEF Fill
<1>9. \A i \in 1..Len(b), k \in 1..Len(t.rbuf) : k = n + i => b[i] = t.rbuf[k]
  BY <1>3, <1>4
<1>10. ReadBy(w, t, n)
  BY <1>4, <1>6, <1>7, <1>8, <1>9 DEF ReadBy
<1>11. ReadsOff(w, t, n)
  BY <1>7 DEF ReadsOff, b
<1> QED
  BY <1>1, <1>2, <1>7, <1>10, <1>11

(* A step that gives bytes to the user, or opens the window.               *)
Gives(w, t, p) ==
  /\ Good(w, p) /\ Goes(w, t) /\ KeepsSend(w, t) /\ KeepsUser(w, t) /\ KeepsOut(w, t)
  /\ w.state = t.state /\ w.shutdown = t.shutdown /\ w.rcv_nxt = t.rcv_nxt
  /\ IsRight(t) => IsRight(w)

LEMMA FillRead ==
  ASSUME NEW a \in Nat, NEW b \in Nat, NEW c \in Nat, NEW d \in Nat, NEW e \in Nat,
         NEW n \in Nat, Fill(a, b, c), Fill(d, n, a), Fill(b, n, e)
  PROVE  Fill(d, e, c)
BY DEF Fill

LEMMA ReadOfGood ==
  ASSUME NEW t, NEW p, Good(t, p), PeerOK(p), NEW n \in 1..Len(t.rbuf)
  PROVE  LET w == ReadOf(t, n)
         IN  /\ Gives(w, t, p) /\ w.failed = t.failed /\ w.dup_acks = t.dup_acks
             /\ w.rcv_wnd = t.rcv_wnd /\ ReadBy(w, t, n) /\ ReadsOff(w, t, n)
<1> DEFINE w == ReadOf(t, n)
<1>1. RecvOK(t) /\ Pair(p, t) /\ IsWork(t)
  BY GoodParts
<1>2. /\ t.rcv_nxt \in Nat /\ t.rcv_wnd \in Nat /\ t.nread \in Nat
      /\ t.rbuf \in Seq(Byte) /\ t.ahead \in Seq(Byte) /\ t.rlist \in Seq(RSeg)
  BY <1>1 DEF RecvOK
<1>3. SetsRead(w, t, w.rbuf, w.nread, w.ahead) /\ ReadBy(w, t, n) /\ ReadsOff(w, t, n)
  BY <1>1, <1>2, ReadOfEffect
<1> HIDE DEF w
<1>4. /\ IsWork(w) /\ w.shutdown = t.shutdown /\ w.rlist = t.rlist
      /\ w.rcv_nxt = t.rcv_nxt /\ w.rcv_wnd = t.rcv_wnd
      /\ KeepsSend(w, t) /\ KeepsUser(w, t) /\ KeepsCall(w, t) /\ KeepsOut(w, t)
      /\ w.state = t.state /\ w.dup_acks = t.dup_acks /\ w.failed = t.failed
  BY <1>3 DEF SetsRead
<1>5. /\ w.rbuf \in Seq(Byte) /\ w.ahead \in Seq(Byte) /\ w.nread = t.nread + n
      /\ Len(w.rbuf) + n = Len(t.rbuf) /\ Len(t.ahead) + n = Len(w.ahead)
  BY <1>3 DEF ReadBy, Fill
<1>6. /\ Len(t.rbuf) \in Nat /\ Len(t.ahead) \in Nat /\ n \in Nat \ {0}
      /\ Len(w.rbuf) \in Nat /\ Len(w.ahead) \in Nat /\ w.nread \in Nat
  <2>1. Len(t.rbuf) \in Nat /\ Len(t.ahead) \in Nat
    BY <1>2
  <2>2. Len(w.rbuf) \in Nat /\ Len(w.ahead) \in Nat
    BY <1>5
  <2>3. n \in Nat \ {0}
    BY <2>1
  <2>4. w.nread \in Nat
    BY <2>3, <1>2, <1>5
  <2> QED
    BY <2>1, <2>2, <2>3, <2>4
<1>7. Edge(w) = Edge(t) /\ Edge(t) \in Nat
  BY <1>2, <1>4 DEF Edge
<1>8. RecvOK(w)
  <2>1. Fill(Len(w.rbuf), Len(w.ahead), RcvBuf)
    <3>1. Fill(Len(t.rbuf), Len(t.ahead), RcvBuf)
      BY <1>1 DEF RecvOK
    <3>2. Fill(Len(w.rbuf), n, Len(t.rbuf)) /\ Fill(Len(t.ahead), n, Len(w.ahead))
      BY <1>3 DEF ReadBy
    <3> QED
      BY <3>1, <3>2, <1>6, ConstantTypes, FillRead
  <2>2. w.rcv_wnd <= Len(w.ahead)
    <3>1. t.rcv_wnd <= Len(t.ahead)
      BY <1>1 DEF RecvOK
    <3> QED
      BY <3>1, <1>2, <1>4, <1>5, <1>6
  <2>3. ~w.shutdown => Counts(w)
    <3>1. w.nread + Len(w.rbuf) = t.nread + Len(t.rbuf)
      BY <1>2, <1>5, <1>6
    <3>2. ConnectLen + w.nread + Len(w.rbuf) = ConnectLen + t.nread + Len(t.rbuf)
      BY <1>2, <1>5, <1>6, ConstantTypes
    <3> QED
      BY <3>1, <3>2, <1>1, <1>4 DEF RecvOK, Counts
  <2> QED
    BY <2>1, <2>2, <2>3, <1>1, <1>4, <1>5, <1>6, <1>7 DEF RecvOK
<1>9. Good(w, p) /\ Goes(w, t)
  <2>1. IsEnd(p, w.rcv_nxt) /\ \A i \in 1..Len(w.rlist) : IsEnd(p, EndOf(w.rlist[i]))
    BY <1>1, <1>4 DEF Pair
  <2>2. t.rcv_nxt <= w.rcv_nxt /\ Edge(t) <= Edge(w)
    BY <1>2, <1>4, <1>7
  <2> QED
    BY <2>1, <2>2, <1>4, <1>8, RecvSideGood
<1>10. ReadsRight(t) => ReadsRight(w)
  <2>1. SUFFICES ASSUME ReadsRight(t), NEW i \in 1..Len(w.rbuf)
                 PROVE  Right(w.rbuf[i], ConnectLen + w.nread, i)
    BY DEF ReadsRight
  <2>2. PICK k \in 1..Len(t.rbuf) : k = n + i
    BY <1>5, <1>6
  <2>3. w.rbuf[i] = t.rbuf[k]
    BY <2>2, <1>3 DEF ReadBy
  <2>4. Right(t.rbuf[k], ConnectLen + t.nread, k)
    BY <2>1 DEF ReadsRight
  <2>5. ConnectLen + t.nread + k = ConnectLen + w.nread + i
    BY <2>2, <1>2, <1>5, <1>6, ConstantTypes
  <2> QED
    BY <2>3, <2>4, <2>5 DEF Right
<1>11. AheadRight(t) => AheadRight(w)
  <2>1. SUFFICES ASSUME AheadRight(t), ~t.shutdown, NEW j \in 1..Len(t.rlist)
                 PROVE  Holds(w, t.rlist[j].seq, EndOf(t.rlist[j]))
    BY <1>4 DEF AheadRight
  <2>2. t.rlist[j] \in RSeg
    BY <1>2
  <2>3. EndOf(t.rlist[j]) \in Nat
    BY <2>2, ConstantTypes DEF RSeg, EndOf
  <2>4. PICK end \in Nat : end = EndOf(t.rlist[j])
    BY <2>3
  <2>5. IsEnd(p, end)
    BY <2>4, <1>1 DEF Pair
  <2>6. end <= p.snd_nxt /\ p.snd_nxt \in Nat /\ p.snd_nxt <= Edge(t)
    BY <2>5, <1>1, EndBelow DEF Pair
  <2>7. Edge(t) <= t.rcv_nxt + Len(t.ahead)
    BY <1>1, <1>2, <1>6 DEF RecvOK, Edge
  <2>8. Holds(t, t.rlist[j].seq, end)
    BY <2>1, <2>4 DEF AheadRight
  <2>9. ASSUME NEW i \in 1..Len(w.ahead),
               t.rlist[j].seq < w.rcv_nxt + i /\ w.rcv_nxt + i <= end
        PROVE  Right(w.ahead[i], w.rcv_nxt, i)
    <3>1. i \in 1..Len(t.ahead)
      <4>1. i \in Nat /\ i >= 1 /\ t.rcv_nxt + i <= end
        BY <2>9, <1>4, <1>6
      <4>2. end <= t.rcv_nxt + Len(t.ahead)
        BY <2>6, <2>7, <1>2, <1>6, <1>7, SMTT(30)
      <4> QED
        BY <4>1, <4>2, <1>2, <1>6
    <3>2. w.ahead[i] = t.ahead[i]
      BY <3>1, <1>3 DEF ReadBy
    <3>3. Right(t.ahead[i], t.rcv_nxt, i)
      BY <3>1, <2>8, <2>9, <1>4 DEF Holds
    <3> QED
      BY <3>2, <3>3, <1>4
  <2>10. Holds(w, t.rlist[j].seq, end)
    BY <2>9 DEF Holds
  <2> QED
    BY <2>4, <2>10
<1>12. Gives(w, t, p)
  BY <1>4, <1>9, <1>10, <1>11 DEF Gives, IsRight
<1> QED
  BY <1>3, <1>4, <1>12 DEF w

LEMMA OpensGood ==
  ASSUME NEW t, NEW p, Good(t, p), PeerOK(p), NEW x \in Nat, x >= t.rcv_wnd, x <= Len(t.ahead),
         NEW f, NEW w, SetsOpens(w, t, x, f)
  PROVE  Gives(w, t, p) /\ w.failed = f /\ w.rbuf = t.rbuf /\ w.nread = t.nread
<1>1. RecvOK(t) /\ Pair(p, t)
  BY GoodParts
<1>2. /\ IsWork(w) /\ w.rcv_wnd = x /\ w.failed = f
      /\ w.shutdown = t.shutdown /\ w.rlist = t.rlist
      /\ w.rcv_nxt = t.rcv_nxt /\ w.rbuf = t.rbuf /\ w.nread = t.nread
      /\ w.ahead = t.ahead
      /\ KeepsSend(w, t) /\ KeepsUser(w, t) /\ KeepsCall(w, t) /\ KeepsOut(w, t)
      /\ w.state = t.state /\ w.dup_acks = t.dup_acks
  BY DEF SetsOpens
<1>3. t.rcv_nxt \in Nat /\ t.rcv_wnd \in Nat
  BY <1>1 DEF RecvOK
<1>4. Edge(w) >= Edge(t) /\ Edge(w) \in Nat /\ Edge(t) \in Nat
  BY <1>2, <1>3 DEF Edge
<1>5. RecvOK(w)
  <2>1. ~w.shutdown => Counts(w)
    BY <1>1, <1>2 DEF RecvOK, Counts
  <2>2. Edge(w) >= RcvBuf
    BY <1>1, <1>4, ConstantTypes DEF RecvOK
  <2> QED
    BY <2>1, <2>2, <1>1, <1>2 DEF RecvOK
<1>6. Good(w, p) /\ Goes(w, t)
  <2>1. IsEnd(p, w.rcv_nxt) /\ \A i \in 1..Len(w.rlist) : IsEnd(p, EndOf(w.rlist[i]))
    BY <1>1, <1>2 DEF Pair
  <2>2. t.rcv_nxt <= w.rcv_nxt /\ Edge(t) <= Edge(w)
    BY <1>2, <1>3, <1>4
  <2> QED
    BY <2>1, <2>2, <1>2, <1>5, RecvSideGood
<1>7. IsRight(t) => IsRight(w)
  BY <1>2 DEF IsRight, ReadsRight, AheadRight, Holds
<1> QED
  BY <1>2, <1>6, <1>7 DEF Gives

RecvOf(t, n, f) ==
  LET w == ReadOf(t, n)
      opens == Space(w) - t.rcv_wnd >= Least(RcvBuf \div 2, Mss)
      v == [w EXCEPT !.rcv_wnd = IF opens THEN Space(w) ELSE @, !.failed = f]
  IN  IF opens /\ t.rcv_wnd = 0 THEN AttemptSend(v, "ImmediateAck") ELSE v

(* What reading leaves as it was.                                          *)
Given(w, t, n) ==
  /\ ReadsOff(w, t, n) /\ w.shutdown = t.shutdown /\ Sum(w) = Sum(t)
  /\ IsRight(t) => IsRight(w)

LEMMA RecvHandled ==
  ASSUME NEW t, NEW p, Ready(t, p), NEW n \in 1..Len(t.rbuf), NEW f, ~f => NoStall(t)
  PROVE  Handled(RecvOf(t, n, f), t, p) /\ Given(RecvOf(t, n, f), t, n)
<1> DEFINE w == ReadOf(t, n)
           opens == Space(w) - t.rcv_wnd >= Least(RcvBuf \div 2, Mss)
           x == IF opens THEN Space(w) ELSE w.rcv_wnd
           v == [w EXCEPT !.rcv_wnd = x, !.failed = f]
           r == AttemptSend(v, "ImmediateAck")
<1>1. RecvOf(t, n, f) = IF opens /\ t.rcv_wnd = 0 THEN r ELSE v
  BY DEF RecvOf
<1>2. /\ Good(t, p) /\ PeerOK(p) /\ StateOK(t) /\ Flags(t) /\ t.state # "CLOSED"
      /\ ReadWaits(t) /\ Woken(t) /\ AckPart(t)
  BY ReadyParts
<1>3. Gives(w, t, p) /\ w.rcv_wnd = t.rcv_wnd /\ ReadBy(w, t, n) /\ ReadsOff(w, t, n)
  BY <1>2, ReadOfGood
<1> HIDE DEF w
<1>4. /\ Good(w, p) /\ Goes(w, t) /\ KeepsSend(w, t) /\ KeepsUser(w, t) /\ KeepsOut(w, t)
      /\ w.state = t.state /\ w.shutdown = t.shutdown /\ w.rcv_nxt = t.rcv_nxt
      /\ (IsRight(t) => IsRight(w))
  BY <1>3 DEF Gives
<1>5. RecvOK(w)
  BY <1>4, GoodParts
<1>6. /\ w.rcv_wnd \in Nat /\ w.rcv_wnd <= Len(w.ahead) /\ Len(w.ahead) \in Nat
      /\ Space(w) = Len(w.ahead)
  <2>1. w.rcv_wnd <= Len(w.ahead)
    BY <1>5 DEF RecvOK
  <2>2. w.rcv_wnd \in Nat /\ Len(w.ahead) \in Nat
    BY <1>5 DEF RecvOK
  <2>3. Space(w) = Len(w.ahead)
    BY <1>5, RecvTypes DEF Space
  <2> QED
    BY <2>1, <2>2, <2>3
<1>7. x \in Nat /\ x >= w.rcv_wnd /\ x <= Len(w.ahead)
  BY <1>6
<1> HIDE DEF x, opens
<1>8. SetsOpens(v, w, x, f)
  BY <1>4, GoodParts, OpensEffect
<1> HIDE DEF v
<1>9. Gives(v, w, p) /\ v.failed = f /\ v.rbuf = w.rbuf /\ v.nread = w.nread
  BY <1>2, <1>4, <1>7, <1>8, OpensGood
<1>10. /\ Good(v, p) /\ Goes(v, w) /\ KeepsSend(v, w) /\ KeepsUser(v, w) /\ KeepsOut(v, w)
       /\ v.state = w.state /\ v.shutdown = w.shutdown /\ v.rcv_nxt = w.rcv_nxt
       /\ (IsRight(w) => IsRight(v))
  BY <1>9 DEF Gives
<1>11. Goes(v, t)
  BY <1>2, <1>4, <1>10, GoodTypes, GoesOn
<1>12. KeepsSend(v, t) /\ KeepsUser(v, t) /\ KeepsOut(v, t) /\ v.state = t.state
  BY <1>4, <1>10 DEF KeepsSend, KeepsUser, KeepsOut
<1>13. v.shutdown = t.shutdown /\ v.rcv_nxt = t.rcv_nxt /\ (IsRight(t) => IsRight(v))
  BY <1>4, <1>10
<1>14. ReadsOff(v, t, n)
  BY <1>3, <1>9 DEF ReadsOff
<1>15. Sum(v) = Sum(t) /\ v.sbuf = t.sbuf
  BY <1>12 DEF Sum, KeepsSend
<1>16. StateOK(v) /\ Flags(v) /\ Woken(v)
  BY <1>2, <1>12, <1>15 DEF StateOK, Flags, Woken, KeepsUser
<1>17. ReadWaits(v)
  <2>1. ~t.bReadEnable
    <3>1. Len(t.rbuf) # 0
      OBVIOUS
    <3> QED
      BY <3>1, <1>2 DEF ReadWaits
  <2> QED
    BY <2>1, <1>12 DEF ReadWaits, KeepsUser
<1>18. AckPart(v) /\ (NoStall(t) => NoStall(v))
  BY <1>2, <1>12, <1>13, <1>15 DEF AckPart, NoStall, KeepsSend, KeepsOut
<1>19. CASE ~(opens /\ t.rcv_wnd = 0)
  <2>1. Handled(v, t, p)
    BY <1>9, <1>10, <1>11, <1>16, <1>17, <1>18 DEF Handled, Lives
  <2>2. Given(v, t, n)
    BY <1>13, <1>14, <1>15 DEF Given
  <2> QED
    BY <2>1, <2>2, <1>1, <1>19
<1>20. CASE opens /\ t.rcv_wnd = 0
  <2>1. /\ Good(r, p) /\ Goes(r, v) /\ Talks(r, v) /\ Sum(r) = Sum(v) /\ r.sbuf = v.sbuf
        /\ (~r.failed => NoStall(r)) /\ AckPart(r)
    BY <1>2, <1>10, AttemptSendGood
  <2> HIDE DEF r
  <2>2. KeepsRecv(r, v) /\ KeepsUser(r, v) /\ r.state = v.state
    BY <2>1 DEF Talks
  <2>3. Goes(r, t)
    BY <2>1, <1>2, <1>10, <1>11, GoodTypes, GoesOn
  <2>4. StateOK(r) /\ Flags(r) /\ Woken(r)
    BY <2>1, <2>2, <1>16 DEF StateOK, Flags, Woken, KeepsUser
  <2>5. ReadWaits(r)
    BY <2>2, <1>17 DEF ReadWaits, KeepsUser, KeepsRecv
  <2>6. Handled(r, t, p)
    BY <2>1, <2>3, <2>4, <2>5 DEF Handled, Lives
  <2>7. IsRight(r) <=> IsRight(v)
    BY <2>2, RightKept
  <2>8. ReadsOff(r, t, n) /\ r.shutdown = t.shutdown
    BY <2>2, <1>13, <1>14 DEF ReadsOff, KeepsRecv
  <2>9. Given(r, t, n)
    BY <2>1, <2>7, <2>8, <1>13, <1>15 DEF Given
  <2> QED
    BY <2>6, <2>9, <1>1, <1>20
<1> QED
  BY <1>19, <1>20

---------------------------------------------------------------------------
(* NotifyClock(), one timer after the other.                               *)
Ticks(w, t, p) ==
  /\ Good(w, p) /\ Goes(w, t) /\ KeepsRecv(w, t) /\ KeepsUser(w, t) /\ Sum(w) = Sum(t)
  /\ w.state = t.state \/ w.state = "CLOSED"
  /\ w.failed = t.failed /\ w.sbuf = t.sbuf
  /\ AckPart(t) => AckPart(w)
  /\ NoStall(t) => NoStall(w)

LEMMA TicksOn ==
  ASSUME NEW v, NEW w, NEW t, NEW p, Ticks(w, t, p), Ticks(v, w, p), Good(t, p)
  PROVE  Ticks(v, t, p)
<1>1. Goes(v, t)
  BY GoodTypes, GoesOn DEF Ticks
<1>2. KeepsRecv(v, t) /\ KeepsUser(v, t)
  BY DEF Ticks, KeepsRecv, KeepsUser
<1> QED
  BY <1>1, <1>2 DEF Ticks

LEMMA TicksNothing ==
  ASSUME NEW t, NEW p, Good(t, p)
  PROVE  Ticks(t, t, p)
<1>1. AcksFrom(t, t, p)
  BY AcksNothing
<1> QED
  BY <1>1 DEF Ticks, AcksFrom

LEMMA PutPacketTicks ==
  ASSUME NEW t, NEW p, Good(t, p), NEW seq \in Int, NEW w, w = PutPacket(t, seq, FALSE, 0)
  PROVE  Ticks(w, t, p)
<1> DEFINE u == PutPacket(t, seq, FALSE, 0)
<1>1. DataOK(t, seq, FALSE, 0)
  BY DEF DataOK
<1>2. /\ Good(u, p) /\ Goes(u, t) /\ KeepsSend(u, t) /\ KeepsRecv(u, t)
      /\ KeepsUser(u, t) /\ u.state = t.state
      /\ u.failed = t.failed /\ u.lastack = t.rcv_nxt
  <2>1. 0 \in 0..Mss
    BY ConstantTypes
  <2> QED
    BY <2>1, <1>1, PutPacketGood
<1> HIDE DEF u
<1>3. Sum(u) = Sum(t) /\ u.sbuf = t.sbuf /\ AckPart(u) /\ (NoStall(t) => NoStall(u))
  BY <1>2 DEF Sum, AckPart, NoStall, KeepsSend, KeepsRecv
<1>4. Ticks(u, t, p)
  BY <1>2, <1>3 DEF Ticks
<1> QED
  BY <1>4 DEF u

LEMMA RetransmitTicks ==
  ASSUME NEW t, NEW p, Good(t, p), PeerOK(p), t.rto
  PROVE  Ticks(Retransmit(t), t, p)
<1>1. PICK k \in 0..Len(t.slist) : /\ SentTo(t.slist, t.snd_una, t.snd_nxt, k)
                                   /\ t.rto <=> k > 0
  BY GoodParts
<1>2. t.snd_una \in Nat /\ t.sbuf \in Nat /\ Chain(t.slist, t.snd_una, t.sbuf)
      /\ t.snd_nxt \in Nat
  BY GoodTypes, GoodParts
<1>3. t.snd_nxt > t.snd_una
  BY <1>1, <1>2, SomeSent
<1>4. Len(t.slist) > 0 /\ t.slist[1].xmit > 0
  BY <1>2, <1>3, FirstWasSent
<1>5. /\ AcksFrom(Retransmit(t), t, p) /\ Retransmit(t).sbuf = t.sbuf
      /\ NoStall(t) => NoStall(Retransmit(t))
  BY <1>4, RetransmitGood
<1> QED
  BY <1>5 DEF AcksFrom, Ticks

LEMMA ClosedownTicks ==
  ASSUME NEW t, NEW p, Good(t, p)
  PROVE  Ticks(Closedown(t), t, p)
<1> DEFINE w == [t EXCEPT !.state = "CLOSED"]
<1>1. SetsState(w, t, "CLOSED")
  BY GoodParts, StateEffect
<1>2. Closedown(t) = w
  BY DEF Closedown
<1> HIDE DEF w
<1>3. /\ Good(w, p) /\ Goes(w, t) /\ KeepsRecv(w, t) /\ KeepsUser(w, t) /\ Sum(w) = Sum(t)
      /\ w.state = "CLOSED" /\ w.failed = t.failed /\ (AckPart(t) => AckPart(w))
      /\ w.sbuf = t.sbuf
  BY <1>1, StateGood
<1>4. NoStall(t) => NoStall(w)
  BY <1>1 DEF SetsState, NoStall, KeepsSend
<1> QED
  BY <1>2, <1>3, <1>4 DEF Ticks

(* The record that the timers due make of t.                               *)
Ticked(t, due, silent) ==
  LET r == IF "retransmit" \in due THEN Retransmit(t) ELSE t
      p == IF "probe" \in due /\ r.state # "CLOSED" THEN Probe(r, silent) ELSE r
  IN  IF "ack" \in due /\ p.state # "CLOSED" /\ p.t_ack
      THEN PutPacket(p, p.snd_nxt, FALSE, 0) ELSE p

LEMMA TickedGood ==
  ASSUME NEW t, NEW p, Good(t, p), PeerOK(p), NEW due, NEW silent, due \subseteq Timers(t)
  PROVE  Ticks(Ticked(t, due, silent), t, p)
<1> DEFINE r == IF "retransmit" \in due THEN Retransmit(t) ELSE t
           q == IF "probe" \in due /\ r.state # "CLOSED" THEN Probe(r, silent) ELSE r
           a == IF "ack" \in due /\ q.state # "CLOSED" /\ q.t_ack
                THEN PutPacket(q, q.snd_nxt, FALSE, 0) ELSE q
<1>1. Ticked(t, due, silent) = a
  BY DEF Ticked
<1>2. Ticks(r, t, p)
  <2>1. "retransmit" \in due => t.rto
    BY DEF Timers
  <2> QED
    BY <2>1, RetransmitTicks, TicksNothing
<1> HIDE DEF r
<1>3. Good(r, p)
  BY <1>2 DEF Ticks
<1>4. Ticks(q, r, p)
  <2>1. Ticks(r, r, p) /\ Ticks(Closedown(r), r, p)
    BY <1>3, TicksNothing, ClosedownTicks
  <2>2. Ticks(PutPacket(r, r.snd_nxt - 1, FALSE, 0), r, p)
    <3>1. r.snd_nxt \in Nat
      BY <1>3, GoodTypes
    <3>2. PICK seq \in Int : seq = r.snd_nxt - 1
      BY <3>1
    <3>3. Ticks(PutPacket(r, seq, FALSE, 0), r, p)
      BY <1>3, PutPacketTicks
    <3> QED
      BY <3>2, <3>3
  <2>3. Ticks(Probe(r, silent), r, p)
    BY <2>1, <2>2 DEF Probe
  <2> QED
    BY <2>1, <2>3
<1> HIDE DEF q
<1>5. Good(q, p)
  BY <1>4 DEF Ticks
<1>6. Ticks(a, q, p)
  <2>1. q.snd_nxt \in Int
    BY <1>5, GoodTypes
  <2>2. Ticks(PutPacket(q, q.snd_nxt, FALSE, 0), q, p)
    BY <2>1, <1>5, PutPacketTicks
  <2> QED
    BY <2>2, <1>5, TicksNothing
<1> HIDE DEF a
<1>7. Ticks(q, t, p)
  BY <1>2, <1>4, TicksOn
<1> QED
  BY <1>1, <1>6, <1>7, TicksOn

LEMMA ClockHandled ==
  ASSUME NEW t, NEW p, Ready(t, p), NEW f, ~f => NoStall(t), NEW due, NEW silent,
         due \subseteq Timers(t), NEW u, SetsFailed(u, t, f)
  PROVE  LET w == Ticked(u, due, silent)
         IN  Handled(w, t, p) /\ KeepsRecv(w, t) /\ Sum(w) = Sum(t)
<1> DEFINE w == Ticked(u, due, silent)
<1>1. /\ Good(t, p) /\ PeerOK(p) /\ StateOK(t) /\ Flags(t) /\ t.state # "CLOSED"
      /\ ReadWaits(t) /\ Woken(t) /\ AckPart(t)
  BY ReadyParts
<1>2. /\ IsWork(u) /\ u.failed = f
      /\ KeepsSend(u, t) /\ KeepsRecv(u, t) /\ KeepsUser(u, t) /\ KeepsCall(u, t)
      /\ u.out = t.out /\ u.t_ack = t.t_ack /\ u.lastack = t.lastack
      /\ u.state = t.state /\ u.dup_acks = t.dup_acks
  BY DEF SetsFailed, KeepsOut
<1>3. Good(u, p) /\ Goes(u, t) /\ Sum(u) = Sum(t) /\ AckPart(u)
  <2>1. u.t_ack \in BOOLEAN /\ u.dup_acks \in 0..(DupAcks - 1)
    BY <1>1, <1>2 DEF Good, Acks
  <2> QED
    BY <2>1, <1>1, <1>2, SameGood
<1>4. due \subseteq Timers(u)
  BY <1>2 DEF Timers, KeepsSend
<1>5. Ticks(w, u, p)
  BY <1>1, <1>3, <1>4, TickedGood
<1> HIDE DEF w
<1>6. /\ Good(w, p) /\ Goes(w, u) /\ KeepsRecv(w, u) /\ KeepsUser(w, u) /\ Sum(w) = Sum(u)
      /\ (w.state = u.state \/ w.state = "CLOSED")
      /\ w.failed = f /\ w.sbuf = u.sbuf /\ AckPart(w) /\ (NoStall(u) => NoStall(w))
  BY <1>2, <1>3, <1>5 DEF Ticks
<1>7. Goes(w, t)
  BY <1>1, <1>3, <1>6, GoodTypes, GoesOn
<1>8. KeepsRecv(w, t) /\ KeepsUser(w, t) /\ Sum(w) = Sum(t) /\ w.sbuf = t.sbuf
      /\ (w.state = t.state \/ w.state = "CLOSED")
  BY <1>2, <1>3, <1>6 DEF KeepsRecv, KeepsUser, KeepsSend
<1>9. NoStall(t) => NoStall(w)
  BY <1>2, <1>6 DEF KeepsSend, NoStall
<1>10. StateOK(w) /\ Flags(w) /\ ReadWaits(w) /\ Woken(w)
  BY <1>1, <1>8 DEF StateOK, Flags, ReadWaits, Woken, KeepsUser, KeepsRecv
<1>11. Handled(w, t, p)
  BY <1>6, <1>7, <1>9, <1>10 DEF Handled, Lives
<1> QED
  BY <1>8, <1>11 DEF w

---------------------------------------------------------------------------
(* The invariant of both ends, the network and what was read.              *)

(* The invariant, of the records of both ends and of the network.          *)
IsTcb(v) == v = [f \in TcbFields |-> v[f]]
Core(t, p) ==
  /\ IsTcb(t) /\ SendSide(t, p) /\ RecvSide(t, p) /\ Acks(t)
  /\ t.dup_acks \in 0..(DupAcks - 1) /\ StateOK(t) /\ Flags(t) /\ Lives(t)
PerEnd(T) == T = [e \in End |-> T[e]]
Bounded(t, e) == Sum(t) <= ConnectLen + MaxData[e]
EndsOK(T) ==
  /\ PerEnd(T)
  /\ \A e \in End : Core(T[e], T[Peer(e)])
  /\ \A e \in End : Bounded(T[e], e)
NetOK(N, T) ==
  \A q \in N : q.to \in End /\ IsPacket(q) /\ PacketOK(q, T[Peer(q.to)], T[q.to])
FlowOK(T, F) == \A e \in End \ F : T[e].state # "CLOSED" => NoStall(T[e])
RightOK(T, E) == \A e \in End \ E : IsRight(T[e])

Copies(v, w) ==
  /\ KeepsSend(v, w) /\ KeepsRecv(v, w) /\ KeepsUser(v, w)
  /\ v.state = w.state /\ v.t_ack = w.t_ack /\ v.lastack = w.lastack /\ v.dup_acks = w.dup_acks

LEMMA EndFacts ==
  ASSUME NEW T, EndsOK(T), NEW e \in End
  PROVE  /\ Core(T[e], T[Peer(e)]) /\ PeerOK(T[e]) /\ Peer(e) \in End /\ PeerOK(T[Peer(e)])
         /\ T[e].rcv_nxt \in Nat /\ Edge(T[e]) \in Nat /\ T[e].snd_nxt \in Nat
<1>1. ASSUME NEW x \in End
      PROVE  /\ Core(T[x], T[Peer(x)]) /\ PeerOK(T[x])
             /\ T[x].rcv_nxt \in Nat /\ Edge(T[x]) \in Nat /\ T[x].snd_nxt \in Nat
  <2>1. Core(T[x], T[Peer(x)]) /\ Bounded(T[x], x)
    BY DEF EndsOK
  <2>2. SendOK(T[x]) /\ RecvOK(T[x])
    BY <2>1 DEF Core, SendSide, RecvSide
  <2>3. Sum(T[x]) <= Top
    <3>1. T[x].snd_una \in Nat /\ T[x].sbuf \in Nat
      BY <2>2, ConstantTypes DEF SendOK
    <3>2. Sum(T[x]) \in Nat
      BY <3>1 DEF Sum
    <3>3. MaxData[x] \in Nat /\ ConnectLen + MaxData[x] <= Top /\ Top \in Nat
      BY TopBounds
    <3> QED
      BY <2>1, <3>2, <3>3, ConstantTypes DEF Bounded
  <2>4. T[x].rcv_nxt \in Nat /\ T[x].rcv_wnd \in Nat /\ T[x].snd_nxt \in Nat
    BY <2>2 DEF RecvOK, SendOK
  <2> QED
    BY <2>1, <2>2, <2>3, <2>4 DEF PeerOK, Edge
<1> QED
  BY <1>1, TheEnds

(* What a handler works on.                                                *)
LEMMA CopiesBoth ==
  ASSUME NEW v, NEW w, Copies(v, w)
  PROVE  Copies(w, v)
BY DEF Copies, KeepsSend, KeepsRecv, KeepsUser

LEMMA CopiesSame ==
  ASSUME NEW v, NEW w, Copies(v, w)
  PROVE  /\ \A p : SendSide(w, p) => SendSide(v, p)
         /\ \A p : RecvSide(w, p) => RecvSide(v, p)
         /\ \A x : IsEnd(w, x) <=> IsEnd(v, x)
         /\ v.rcv_nxt = w.rcv_nxt /\ Edge(v) = Edge(w) /\ Sum(v) = Sum(w)
         /\ Acks(w) => Acks(v)
         /\ StateOK(w) => StateOK(v)
         /\ Flags(w) => Flags(v)
         /\ Lives(w) => Lives(v)
         /\ NoStall(w) => NoStall(v)
         /\ IsRight(w) => IsRight(v)
<1>1. KeepsSend(v, w) /\ KeepsRecv(v, w) /\ KeepsUser(v, w)
      /\ v.state = w.state /\ v.t_ack = w.t_ack /\ v.lastack = w.lastack
  BY DEF Copies
<1>2. /\ \A p : SendSide(w, p) => SendSide(v, p)
      /\ \A x : IsEnd(w, x) <=> IsEnd(v, x)
      /\ Sum(v) = Sum(w)
  BY <1>1, SendKept
<1>3. \A p : RecvSide(w, p) => RecvSide(v, p)
  BY <1>1, RecvKept
<1>4. v.rcv_nxt = w.rcv_nxt /\ Edge(v) = Edge(w)
  BY <1>1, RecvKept
<1>5. Acks(w) => Acks(v)
  BY <1>1, <1>4 DEF Acks
<1>6. (StateOK(w) => StateOK(v)) /\ (Flags(w) => Flags(v))
  BY <1>1, <1>2 DEF StateOK, Flags, KeepsUser
<1>7. ReadWaits(w) => ReadWaits(v)
  BY <1>1 DEF ReadWaits, KeepsUser, KeepsRecv
<1>8. (Woken(w) => Woken(v)) /\ (AckPart(w) => AckPart(v)) /\ (NoStall(w) => NoStall(v))
  BY <1>1, <1>2, <1>4 DEF Woken, AckPart, NoStall, KeepsUser, KeepsSend
<1>9. IsRight(w) => IsRight(v)
  BY <1>1, RightKept
<1>10. Lives(w) => Lives(v)
  BY <1>1, <1>7, <1>8 DEF Lives
<1> QED
  BY <1>2, <1>3, <1>4, <1>5, <1>6, <1>8, <1>9, <1>10

(* The record and the context that a handler of e starts from.             *)
Starts(t, v, e) ==
  /\ IsWork(t) /\ Copies(t, v) /\ t.peer = Peer(e) /\ t.out = {} /\ t.failed = FALSE
  /\ t.refuse \in BOOLEAN /\ t.nagling \in BOOLEAN /\ t.cwnd \in CongestionWindow

LEMMA WorkingStarts ==
  ASSUME NEW e \in End, NEW c \in Context(e)
  PROVE  Starts(Working(e, c), tcb[e], e)
<1> DEFINE t == Working(e, c)
<1>1. PICK refuse \in {FALSE, (e \in MayRefuse)}, cwnd \in CongestionWindow :
        c = [peer |-> Peer(e), out |-> {}, nagling |-> e \in Nagles, failed |-> FALSE,
             refuse |-> refuse, cwnd |-> cwnd]
  BY DEF Context
<1>2. /\ c.peer = Peer(e) /\ c.out = {} /\ c.failed = FALSE
      /\ c.refuse \in BOOLEAN /\ c.nagling \in BOOLEAN /\ c.cwnd \in CongestionWindow
  <2>1. c.peer = Peer(e) /\ c.out = {} /\ c.failed = FALSE /\ c.cwnd = cwnd /\ c.refuse = refuse
    BY <1>1
  <2>2. c.nagling = (e \in Nagles)
    BY <1>1
  <2>3. c.nagling \in BOOLEAN
    BY <2>2
  <2>4. refuse = FALSE \/ refuse = (e \in MayRefuse)
    OBVIOUS
  <2>5. c.refuse \in BOOLEAN
    <3>1. CASE e \in MayRefuse
      <4>1. refuse = FALSE \/ refuse = TRUE
        BY <3>1, <2>4, Zenon
      <4> QED
        BY <4>1, <2>1
    <3>2. CASE e \notin MayRefuse
      <4>1. (e \in MayRefuse) = FALSE
        BY <3>2
      <4>2. refuse = FALSE
        BY <4>1, <2>4, Zenon
      <4> QED
        BY <4>2, <2>1
    <3> QED
      BY <3>1, <3>2
  <2> QED
    BY <2>1, <2>3, <2>5
<1>3. IsWork(t)
  BY DEF Working, IsWork, Fields, TcbFields, CallFields
<1>4. Copies(t, tcb[e])
  BY DEF Working, Copies, KeepsSend, KeepsRecv, KeepsUser
<1>5. /\ t.peer = c.peer /\ t.out = c.out /\ t.failed = c.failed
      /\ t.refuse = c.refuse /\ t.nagling = c.nagling /\ t.cwnd = c.cwnd
  BY DEF Working
<1> HIDE DEF t
<1> QED
  BY <1>2, <1>3, <1>4, <1>5 DEF Starts, t

LEMMA StartsGood ==
  ASSUME NEW T, EndsOK(T), NEW e \in End, NEW t, Starts(t, T[e], e)
  PROVE  /\ Good(t, T[Peer(e)])
         /\ T[e].state # "CLOSED" => Ready(t, T[Peer(e)])
         /\ Copies(t, T[e]) /\ t.peer = Peer(e)
<1>1. Core(T[e], T[Peer(e)]) /\ PeerOK(T[Peer(e)])
  BY EndFacts
<1>2. Copies(t, T[e]) /\ t.peer = Peer(e) /\ t.out = {} /\ IsWork(t)
  BY DEF Starts
<1>3. /\ SendSide(t, T[Peer(e)]) /\ RecvSide(t, T[Peer(e)]) /\ Acks(t)
      /\ StateOK(t) /\ Flags(t) /\ Lives(t)
  BY <1>1, <1>2, CopiesSame DEF Core
<1>4. t.dup_acks \in 0..(DupAcks - 1) /\ t.state = T[e].state
  BY <1>1, <1>2 DEF Core, Copies
<1>5. OutOK(t, T[Peer(e)])
  BY <1>2 DEF OutOK
<1>6. Good(t, T[Peer(e)])
  BY <1>2, <1>3, <1>4, <1>5 DEF Good, Starts
<1> QED
  BY <1>1, <1>2, <1>3, <1>4, <1>6 DEF Ready

(* One end's record is replaced.                                           *)
Replaced(T2, T, e, v) ==
  /\ PerEnd(T2) /\ T2[e] = v /\ \A x \in End : x # e => T2[x] = T[x]
(* What no step of an end takes back.                                      *)
Keeps(v, t) ==
  /\ \A x \in Nat : IsEnd(t, x) => IsEnd(v, x)
  /\ t.rcv_nxt <= v.rcv_nxt /\ Edge(t) <= Edge(v)

LEMMA EndsStep ==
  ASSUME NEW T, EndsOK(T), NEW e \in End, NEW v, NEW T2, Replaced(T2, T, e, v),
         Core(v, T[Peer(e)]), Bounded(v, e)
  PROVE  EndsOK(T2)
<1>1. PerEnd(T2) /\ T2[e] = v
  BY DEF Replaced
<1>2. ASSUME NEW x \in End
      PROVE  Core(T2[x], T2[Peer(x)]) /\ Bounded(T2[x], x)
  <2>1. CASE x = e
    <3>1. T2[Peer(e)] = T[Peer(e)]
      BY TheEnds DEF Replaced
    <3> QED
      BY <2>1, <3>1, <1>1
  <2>2. CASE x # e
    <3>1. T2[x] = T[x] /\ Peer(x) = e /\ x = Peer(e)
      BY <2>2, TheEnds DEF Replaced
    <3>2. Core(T[x], T[e]) /\ Bounded(T[x], x)
      BY <3>1 DEF EndsOK
    <3>3. Pair(v, T[x]) /\ Pair(T[x], v)
      BY <3>1 DEF Core, SendSide, RecvSide
    <3>4. Core(T[x], v)
      BY <3>2, <3>3 DEF Core, SendSide, RecvSide
    <3> QED
      BY <3>1, <3>2, <3>4, <1>1
  <2> QED
    BY <2>1, <2>2
<1> QED
  BY <1>1, <1>2 DEF EndsOK

LEMMA CoreOf ==
  ASSUME NEW w, NEW t, NEW p, Handled(w, t, p), NEW v, IsTcb(v), Copies(v, w)
  PROVE  Core(v, p)
<1>1. Good(w, p) /\ StateOK(w) /\ Flags(w) /\ Lives(w)
  BY DEF Handled
<1>2. SendSide(w, p) /\ RecvSide(w, p) /\ Acks(w) /\ w.dup_acks \in 0..(DupAcks - 1)
  BY <1>1 DEF Good
<1>3. v.dup_acks = w.dup_acks
  BY DEF Copies
<1> QED
  BY <1>1, <1>2, <1>3, CopiesSame DEF Core

LEMMA KeepsOf ==
  ASSUME NEW w, NEW t, Goes(w, t), NEW v, Copies(v, w), NEW u, Copies(t, u)
  PROVE  Keeps(v, u)
<1>1. /\ \A x \in Nat : IsEnd(t, x) => IsEnd(w, x)
      /\ t.rcv_nxt <= w.rcv_nxt /\ Edge(t) <= Edge(w)
  BY DEF Goes
<1>2. /\ \A x : IsEnd(w, x) <=> IsEnd(v, x)
      /\ v.rcv_nxt = w.rcv_nxt /\ Edge(v) = Edge(w)
  BY CopiesSame
<1>3. /\ \A x : IsEnd(u, x) <=> IsEnd(t, x)
      /\ t.rcv_nxt = u.rcv_nxt /\ Edge(t) = Edge(u)
  BY CopiesSame
<1> QED
  BY <1>1, <1>2, <1>3 DEF Keeps

LEMMA NetStep ==
  ASSUME NEW T, EndsOK(T), NEW N, NetOK(N, T), NEW e \in End, NEW v, NEW T2,
         Replaced(T2, T, e, v), EndsOK(T2), Keeps(v, T[e])
  PROVE  NetOK(N, T2)
<1>1. SUFFICES ASSUME NEW q \in N
               PROVE  q.to \in End /\ IsPacket(q) /\ PacketOK(q, T2[Peer(q.to)], T2[q.to])
  BY DEF NetOK
<1>2. q.to \in End /\ IsPacket(q) /\ PacketOK(q, T[Peer(q.to)], T[q.to])
  BY DEF NetOK
<1>3. ASSUME NEW x \in End
      PROVE  /\ Keeps(T2[x], T[x])
             /\ T[x].rcv_nxt \in Nat /\ T2[x].rcv_nxt \in Nat
             /\ Edge(T[x]) \in Nat /\ Edge(T2[x]) \in Nat
  <2>1. /\ T[x].rcv_nxt \in Nat /\ T2[x].rcv_nxt \in Nat
        /\ Edge(T[x]) \in Nat /\ Edge(T2[x]) \in Nat
    BY EndFacts
  <2>2. Keeps(T2[x], T[x])
    <3>1. CASE x = e
      BY <3>1 DEF Replaced
    <3>2. CASE x # e
      BY <3>2, <2>1 DEF Replaced, Keeps
    <3> QED
      BY <3>1, <3>2
  <2> QED
    BY <2>1, <2>2
<1>4. Peer(q.to) \in End
  BY <1>2, TheEnds
<1>5. PacketOK(q, T2[Peer(q.to)], T2[q.to])
  <2>1. PICK r \in End : r = q.to
    BY <1>2
  <2>2. PICK s \in End : s = Peer(q.to)
    BY <1>4
  <2>3. PacketOK(q, T[s], T[r])
    BY <2>1, <2>2, <1>2
  <2>4. Keeps(T2[s], T[s]) /\ Keeps(T2[r], T[r])
    BY <1>3
  <2>5. PacketOK(q, T2[s], T2[r])
    BY <2>3, <2>4, <1>3, PacketKept DEF Keeps
  <2> QED
    BY <2>1, <2>2, <2>5
<1> QED
  BY <1>2, <1>5

(* What packets a handler put out.                                         *)
LEMMA OutStep ==
  ASSUME NEW T, EndsOK(T), NEW e \in End, NEW w, Good(w, T[Peer(e)]), w.peer = Peer(e),
         NEW v, Copies(v, w), NEW T2, Replaced(T2, T, e, v)
  PROVE  NetOK(w.out, T2)
<1> DEFINE p == T[Peer(e)]
<1>1. SUFFICES ASSUME NEW q \in w.out
               PROVE  q.to \in End /\ IsPacket(q) /\ PacketOK(q, T2[Peer(q.to)], T2[q.to])
  BY DEF NetOK
<1>2. OutOK(w, p)
  BY GoodParts
<1>3. q.to = Peer(e) /\ IsPacket(q) /\ PacketOK(q, w, p)
  BY <1>2 DEF OutOK
<1>4. /\ q.to \in End /\ Peer(q.to) = e /\ q.to # e
  BY <1>3, TheEnds
<1>5. T2[Peer(q.to)] = v /\ T2[q.to] = p
  BY <1>3, <1>4 DEF Replaced
<1>6. /\ \A x : IsEnd(w, x) <=> IsEnd(v, x)
      /\ v.rcv_nxt = w.rcv_nxt /\ Edge(v) = Edge(w)
  BY CopiesSame
<1>7. PacketOK(q, v, p)
  <2>1. w.rcv_nxt \in Nat /\ Edge(w) \in Nat
    BY GoodTypes
  <2>2. w.rcv_nxt <= v.rcv_nxt /\ Edge(w) <= Edge(v) /\ v.rcv_nxt \in Nat /\ Edge(v) \in Nat
    BY <2>1, <1>6
  <2> HIDE DEF p
  <2> QED
    BY <2>1, <2>2, <1>3, <1>6, PacketKept
<1> QED
  BY <1>3, <1>4, <1>5, <1>7

LEMMA NetUnion ==
  ASSUME NEW M, NEW N, NEW T, NetOK(M, T), NetOK(N, T), NEW A, A \subseteq M \cup N
  PROVE  NetOK(A, T)
BY DEF NetOK

LEMMA FlowStep ==
  ASSUME NEW T, NEW F, FlowOK(T, F), NEW e \in End, NEW v, NEW T2, Replaced(T2, T, e, v),
         NEW F2, F \ {e} \subseteq F2,
         e \notin F2 => (v.state # "CLOSED" => NoStall(v))
  PROVE  FlowOK(T2, F2)
<1>1. SUFFICES ASSUME NEW x \in End \ F2, T2[x].state # "CLOSED"
               PROVE  NoStall(T2[x])
  BY DEF FlowOK
<1>2. CASE x = e
  BY <1>1, <1>2 DEF Replaced
<1>3. CASE x # e
  BY <1>1, <1>3 DEF Replaced, FlowOK
<1> QED
  BY <1>2, <1>3

LEMMA RightStep ==
  ASSUME NEW T, NEW E, RightOK(T, E), NEW e \in End, NEW v, NEW T2, Replaced(T2, T, e, v),
         NEW E2, E \subseteq E2, e \notin E2 => (IsRight(T[e]) => IsRight(v))
  PROVE  RightOK(T2, E2)
<1>1. SUFFICES ASSUME NEW x \in End \ E2
               PROVE  IsRight(T2[x])
  BY DEF RightOK
<1>2. IsRight(T[x])
  BY DEF RightOK
<1>3. CASE x = e
  BY <1>2, <1>3 DEF Replaced
<1>4. CASE x # e
  BY <1>2, <1>4 DEF Replaced
<1> QED
  BY <1>3, <1>4

Most == EndsOK(tcb) /\ NetOK(net, tcb) /\ FlowOK(tcb, failed) /\ failed \subseteq End
IInv == Most /\ RightOK(tcb, early) /\ early \subseteq End

LEMMA CopyIs ==
  ASSUME NEW T, PerEnd(T), NEW e \in End, IsTcb(T[e]), NEW w, NEW T2,
         T2 = [T EXCEPT ![e] = [f \in DOMAIN T[e] |-> w[f]]]
  PROVE  \E v : Replaced(T2, T, e, v) /\ IsTcb(v) /\ Copies(v, w)
<1> DEFINE v == [f \in TcbFields |-> w[f]]
<1>1. DOMAIN T[e] = TcbFields
  BY DEF IsTcb
<1>2. T2 = [T EXCEPT ![e] = v]
  BY <1>1
<1>3. IsTcb(v)
  BY DEF IsTcb
<1>4. Copies(v, w)
  BY DEF TcbFields, Copies, KeepsSend, KeepsRecv, KeepsUser
<1> HIDE DEF v
<1>5. Replaced(T2, T, e, v)
  <2>1. DOMAIN T = End
    BY DEF PerEnd
  <2>2. PerEnd(T2)
    BY <2>1, <1>2 DEF PerEnd
  <2>3. T2[e] = v /\ \A x \in End : x # e => T2[x] = T[x]
    BY <2>1, <1>2
  <2> QED
    BY <2>2, <2>3 DEF Replaced
<1> QED
  BY <1>3, <1>4, <1>5

(* What the end of a handler makes of the state.                           *)
Ended(v, w, e) ==
  /\ IsTcb(v) /\ Copies(v, w) /\ Replaced(tcb', tcb, e, v)
  /\ EndsOK(tcb') /\ NetOK(net', tcb') /\ FlowOK(tcb', failed') /\ failed' \subseteq End

LEMMA ResultStep ==
  ASSUME Most, NEW e \in End, NEW t, Starts(t, tcb[e], e), NEW w,
         Handled(w, t, tcb[Peer(e)]), Bounded(w, e), NEW rest, rest \subseteq net,
         Result(e, w, rest)
  PROVE  \E v : Ended(v, w, e)
<1>1. EndsOK(tcb) /\ NetOK(net, tcb) /\ FlowOK(tcb, failed) /\ failed \subseteq End
  BY DEF Most
<1>2. Core(tcb[e], tcb[Peer(e)]) /\ PerEnd(tcb)
  BY <1>1, EndFacts DEF EndsOK
<1>3. PICK v : Replaced(tcb', tcb, e, v) /\ IsTcb(v) /\ Copies(v, w)
  <2>1. tcb' = [tcb EXCEPT ![e] = [f \in DOMAIN tcb[e] |-> w[f]]]
    BY DEF Result
  <2>2. IsTcb(tcb[e])
    BY <1>2 DEF Core
  <2> QED
    BY <2>1, <2>2, <1>2, CopyIs
<1>4. Core(v, tcb[Peer(e)])
  BY <1>3, CoreOf
<1>5. Bounded(v, e)
  BY <1>3, CopiesSame DEF Bounded
<1>6. EndsOK(tcb')
  BY <1>1, <1>3, <1>4, <1>5, EndsStep
<1>7. Good(w, tcb[Peer(e)]) /\ Goes(w, t)
  BY DEF Handled
<1>8. w.peer = Peer(e)
  BY <1>7 DEF Starts, Goes, KeepsCall
<1>9. Keeps(v, tcb[e])
  BY <1>3, <1>7, KeepsOf DEF Starts
<1>10. NetOK(net, tcb')
  BY <1>1, <1>3, <1>6, <1>9, NetStep
<1>11. NetOK(w.out, tcb')
  BY <1>1, <1>3, <1>7, <1>8, OutStep
<1>12. NetOK(net', tcb')
  <2>1. net' \subseteq net \cup w.out
    <3> DEFINE all == {q \in rest \cup w.out : tcb'[q.to].state # "CLOSED"}
    <3>1. net' = all \/ net' = all \ w.out
      BY DEF Result
    <3> QED
      BY <3>1
  <2> QED
    BY <2>1, <1>10, <1>11, NetUnion
<1>13. failed' \subseteq End /\ failed \ {e} \subseteq failed' /\ (e \notin failed' => ~w.failed)
  BY <1>1 DEF Result
<1>14. v.state # "CLOSED" /\ ~w.failed => NoStall(v)
  <2>1. v.state = w.state
    BY <1>3 DEF Copies
  <2> QED
    BY <2>1, <1>3, CopiesSame DEF Handled
<1>15. FlowOK(tcb', failed')
  BY <1>1, <1>3, <1>13, <1>14, FlowStep
<1> QED
  BY <1>3, <1>6, <1>12, <1>13, <1>15 DEF Ended

(* A call that only sets a flag of one end.                                *)
LEMMA FlagStep ==
  ASSUME Most, NEW e \in End, NEW v, IsTcb(v), Replaced(tcb', tcb, e, v),
         KeepsSend(v, tcb[e]), v.rcv_nxt = tcb[e].rcv_nxt, v.rcv_wnd = tcb[e].rcv_wnd,
         v.rlist = tcb[e].rlist, RecvOK(v), v.lastack = tcb[e].lastack,
         v.t_ack = tcb[e].t_ack, v.dup_acks = tcb[e].dup_acks, v.state = tcb[e].state,
         Flags(v), Lives(v), UNCHANGED << net, failed >>
  PROVE  /\ EndsOK(tcb') /\ NetOK(net', tcb') /\ FlowOK(tcb', failed') /\ failed' \subseteq End
<1> DEFINE t == tcb[e]
           p == tcb[Peer(e)]
<1>1. EndsOK(tcb) /\ NetOK(net, tcb) /\ FlowOK(tcb, failed) /\ failed \subseteq End
  BY DEF Most
<1>2. Core(t, p) /\ Bounded(t, e) /\ t.rcv_nxt \in Nat /\ Edge(t) \in Nat
  BY <1>1, EndFacts DEF EndsOK
<1>3. /\ Sum(v) = Sum(t) /\ \A x : IsEnd(v, x) <=> IsEnd(t, x)
      /\ SendSide(t, p) => SendSide(v, p)
  BY SendKept
<1>4. Edge(v) = Edge(t)
  BY DEF Edge
<1>5. Keeps(v, t)
  BY <1>2, <1>3, <1>4 DEF Keeps
<1>6. Pair(p, v)
  BY <1>2, <1>4 DEF Core, RecvSide, Pair
<1>7. Core(v, p)
  <2>1. Acks(v) /\ StateOK(v)
    BY <1>2, <1>3 DEF Core, Acks, StateOK
  <2> QED
    BY <2>1, <1>2, <1>3, <1>6 DEF Core, RecvSide
<1>8. EndsOK(tcb')
  <2>1. Bounded(v, e)
    BY <1>2, <1>3 DEF Bounded
  <2> QED
    BY <2>1, <1>1, <1>7, EndsStep
<1>9. NetOK(net', tcb')
  BY <1>1, <1>5, <1>8, NetStep
<1>10. FlowOK(tcb', failed')
  <2>1. NoStall(v) <=> NoStall(t)
    BY DEF NoStall, KeepsSend
  <2>2. e \notin failed => (v.state # "CLOSED" => NoStall(v))
    BY <2>1, <1>1 DEF FlowOK
  <2> HIDE DEF t, p
  <2>3. FlowOK(tcb', failed)
    BY <2>2, <1>1, FlowStep
  <2> QED
    BY <2>3
<1> QED
  BY <1>1, <1>8, <1>9, <1>10

---------------------------------------------------------------------------
(* The actions.                                                            *)

(* What the users see of a step of an end.                                 *)
Shows(v, t) == v.rbuf = t.rbuf /\ v.nread = t.nread /\ v.shutdown = t.shutdown
Quiet(v, t) == Sum(v) = Sum(t) \/ (Sum(t) = 0 /\ Sum(v) = ConnectLen)
Turns(v, e) ==
  /\ Replaced(tcb', tcb, e, v)
  /\ EndsOK(tcb') /\ NetOK(net', tcb') /\ FlowOK(tcb', failed') /\ failed' \subseteq End

LEMMA KeepsShows ==
  ASSUME NEW v, NEW w, Copies(v, w), NEW t, KeepsRecv(w, t), NEW u, Copies(t, u)
  PROVE  Shows(v, u) /\ (IsRight(u) => IsRight(v))
<1>1. IsRight(u) => IsRight(t)
  BY CopiesSame
<1>2. IsRight(t) => IsRight(w)
  BY RightKept
<1>3. IsRight(w) => IsRight(v)
  BY CopiesSame
<1>4. Shows(v, u)
  BY DEF Copies, KeepsRecv, Shows
<1> QED
  BY <1>1, <1>2, <1>3, <1>4

LEMMA EndSums ==
  ASSUME Most, NEW e \in End
  PROVE  /\ Sum(tcb[e]) \in Nat /\ Sum(tcb[e]) <= ConnectLen + MaxData[e]
         /\ MaxData[e] \in Nat /\ ConnectLen \in Nat
<1>1. EndsOK(tcb)
  BY DEF Most
<1>2. SendOK(tcb[e]) /\ Bounded(tcb[e], e)
  BY <1>1, EndFacts DEF EndsOK, PeerOK
<1>3. tcb[e].snd_una \in Nat /\ tcb[e].sbuf \in Nat
  BY <1>2, ConstantTypes DEF SendOK
<1>4. Sum(tcb[e]) \in Nat
  BY <1>3 DEF Sum
<1> QED
  BY <1>2, <1>4, TopBounds, ConstantTypes DEF Bounded

LEMMA ConnectStep ==
  ASSUME Most, NEW e \in End, Connect(e)
  PROVE  \E v : /\ Turns(v, e) /\ Shows(v, tcb[e]) /\ Quiet(v, tcb[e])
                /\ IsRight(tcb[e]) => IsRight(v)
<1>1. PICK c \in Context(e) :
        Result(e, AttemptSend(QueueConnectMessage(
                   [Working(e, c) EXCEPT !.state = "SYN_SENT"]), "None"), net)
  BY DEF Connect
<1> DEFINE t == Working(e, c)
           p == tcb[Peer(e)]
<1>2. Result(e, Connected(t), net)
  BY <1>1 DEF Connected
<1>3. Starts(t, tcb[e], e)
  BY WorkingStarts
<1>4. tcb[e].state = "LISTEN"
  BY DEF Connect
<1> HIDE DEF t
<1>5. Ready(t, p) /\ Copies(t, tcb[e])
  BY <1>3, <1>4, StartsGood DEF Most
<1>6. t.state = "LISTEN"
  BY <1>4, <1>5 DEF Copies
<1>7. /\ Handled(Connected(t), t, p) /\ KeepsRecv(Connected(t), t)
      /\ Sum(Connected(t)) = ConnectLen /\ Sum(t) = 0
  BY <1>5, <1>6, ConnectHandled
<1>8. Bounded(Connected(t), e)
  BY <1>7, EndSums DEF Bounded
<1>9. PICK v : Ended(v, Connected(t), e)
  BY <1>2, <1>3, <1>7, <1>8, ResultStep
<1>10. Copies(v, Connected(t)) /\ Turns(v, e)
  BY <1>9 DEF Ended, Turns
<1>11. Sum(v) = ConnectLen /\ Sum(tcb[e]) = 0
  BY <1>5, <1>7, <1>10, CopiesSame
<1> QED
  BY <1>5, <1>7, <1>10, <1>11, KeepsShows DEF Quiet

LEMMA SendStep ==
  ASSUME Most, NEW e \in End, Send(e)
  PROVE  \E v : /\ Turns(v, e) /\ Shows(v, tcb[e]) /\ (IsRight(tcb[e]) => IsRight(v))
                /\ Sum(tcb[e]) >= ConnectLen /\ Sum(v) >= Sum(tcb[e])
<1> DEFINE u == tcb[e]
           p == tcb[Peer(e)]
           room == SndBuf - u.sbuf
           left == ConnectLen + MaxData[e] - u.snd_una - u.sbuf
<1>1. Core(u, p) /\ EndsOK(tcb) /\ PerEnd(tcb)
  BY EndFacts DEF Most, EndsOK
<1>2. u.state = "ESTABLISHED" /\ Sum(u) >= ConnectLen
  BY <1>1 DEF Send, Core, StateOK
<1>3. /\ u.snd_una \in Nat /\ u.sbuf \in 0..SndBuf /\ Sum(u) = u.snd_una + u.sbuf
      /\ u.sbuf \in Nat /\ Sum(u) \in Nat
  BY <1>1, ConstantTypes DEF Core, SendSide, SendOK, Sum
<1>4. CASE room = 0 /\ tcb' = [tcb EXCEPT ![e].bWriteEnable = TRUE] /\ UNCHANGED << net, failed >>
  <2> DEFINE v == [u EXCEPT !.bWriteEnable = TRUE]
  <2>1. tcb' = [tcb EXCEPT ![e] = v]
    BY <1>4
  <2>2. IsTcb(u)
    BY <1>1 DEF Core
  <2>3. /\ IsTcb(v) /\ KeepsSend(v, u) /\ KeepsRecv(v, u) /\ v.bReadEnable = u.bReadEnable
        /\ v.bWriteEnable = TRUE /\ v.state = u.state /\ v.lastack = u.lastack
        /\ v.t_ack = u.t_ack /\ v.dup_acks = u.dup_acks
    BY <2>2 DEF IsTcb, TcbFields, KeepsSend, KeepsRecv
  <2> HIDE DEF v
  <2>4. Replaced(tcb', tcb, e, v)
    BY <2>1, <1>1 DEF PerEnd, Replaced
  <2>5. RecvOK(v)
    BY <2>3, <1>1, RecvKept DEF Core, RecvSide
  <2>6. Sum(v) = Sum(u)
    BY <2>3 DEF KeepsSend, Sum
  <2>7. Woken(v)
    <3>1. u.sbuf >= Refill
      BY <1>3, <1>4, RefillIs, ConstantTypes
    <3> QED
      BY <3>1, <2>3 DEF Woken, KeepsSend
  <2>8. ReadWaits(v) /\ AckPart(v)
    <3>1. ReadWaits(u) /\ AckPart(u)
      BY <1>1, <1>2 DEF Core, Lives
    <3> QED
      BY <3>1, <2>3, <2>6 DEF ReadWaits, AckPart, KeepsRecv, KeepsSend
  <2>9. Flags(v) /\ Lives(v)
    BY <2>3, <2>7, <2>8, <1>1 DEF Flags, Lives, Core
  <2>10. v.rcv_nxt = u.rcv_nxt /\ v.rcv_wnd = u.rcv_wnd /\ v.rlist = u.rlist /\ Shows(v, u)
    BY <2>3 DEF KeepsRecv, Shows
  <2>11. Turns(v, e)
    BY <2>3, <2>4, <2>5, <2>9, <2>10, <1>4, FlagStep DEF Turns
  <2>12. IsRight(u) => IsRight(v)
    BY <2>3, RightKept
  <2> QED
    BY <2>6, <2>10, <2>11, <2>12, <1>2, <1>3
<1>5. CASE room > 0 /\ left > 0 /\ \E n \in Writes, c \in Context(e) :
                 Result(e, AttemptSend(Queue(Working(e, c), Min({n, room, left}), FALSE),
                                       "None"), net)
  <2>1. PICK n \in Writes, c \in Context(e) :
                 Result(e, AttemptSend(Queue(Working(e, c), Min({n, room, left}), FALSE),
                                       "None"), net)
    BY <1>5
  <2> DEFINE t == Working(e, c)
             m == Min({n, room, left})
             w == AttemptSend(Queue(t, m, FALSE), "None")
  <2>2. Result(e, w, net)
    BY <2>1
  <2>3. room \in Nat \ {0} /\ left \in Nat \ {0} /\ n \in Nat \ {0}
    <3>1. n \in Nat \ {0}
      BY Sizes
    <3>2. room \in Nat \ {0} /\ left \in Nat \ {0}
      BY <1>3, <1>5, EndSums, ConstantTypes
    <3> QED
      BY <3>1, <3>2
  <2>4. room = SndBuf - u.sbuf /\ left = ConnectLen + MaxData[e] - Sum(u)
    BY <1>3, EndSums
  <2>5. PICK a \in Nat \ {0}, b \in Nat \ {0} : a = room /\ b = left
    BY <2>3
  <2>6. m \in Nat \ {0} /\ m <= a /\ m <= b
    <3>1. m = Min({n, a, b})
      BY <2>5
    <3>2. /\ Min({n, a, b}) \in {n, a, b}
          /\ Min({n, a, b}) <= n /\ Min({n, a, b}) <= a /\ Min({n, a, b}) <= b
      <4>1. n \in Int /\ a \in Int /\ b \in Int
        BY <2>3
      <4> QED
        BY <4>1, MinOfThree
    <3> QED
      BY <3>1, <3>2, <2>3
  <2>7. Starts(t, u, e)
    BY WorkingStarts
  <2> HIDE DEF t, m, room, left
  <2>8. Ready(t, p) /\ Copies(t, u)
    BY <2>7, <1>1, <1>2, StartsGood
  <2>9. t.state = "ESTABLISHED" /\ t.sbuf = u.sbuf /\ Sum(t) = Sum(u)
    BY <2>8, <1>2, CopiesSame DEF Copies, KeepsSend
  <2>10. t.sbuf + m <= SndBuf
    BY <2>4, <2>5, <2>6, <2>9, <1>3, ConstantTypes
  <2>11. Handled(w, t, p) /\ KeepsRecv(w, t) /\ Sum(w) = Sum(t) + m
    BY <2>6, <2>8, <2>9, <2>10, SendHandled
  <2> HIDE DEF w
  <2>12. Bounded(w, e)
    <3>1. Sum(u) + m <= ConnectLen + MaxData[e]
      BY <2>4, <2>5, <2>6, <1>3, EndSums
    <3> QED
      BY <3>1, <2>9, <2>11 DEF Bounded
  <2>13. PICK v : Ended(v, w, e)
    BY <2>2, <2>7, <2>11, <2>12, ResultStep
  <2>14. Copies(v, w) /\ Turns(v, e)
    BY <2>13 DEF Ended, Turns
  <2>15. Sum(v) = Sum(u) + m
    BY <2>9, <2>11, <2>14, CopiesSame
  <2>16. Sum(v) >= Sum(u)
    BY <2>6, <2>15, <1>3
  <2>17. Shows(v, u) /\ (IsRight(u) => IsRight(v))
    BY <2>8, <2>11, <2>14, KeepsShows
  <2> QED
    BY <2>14, <2>16, <2>17, <1>2
<1> QED
  BY <1>4, <1>5 DEF Send

LEMMA FlowOf ==
  ASSUME Most, NEW e \in End, e \notin failed, tcb[e].state # "CLOSED", NEW t, Copies(t, tcb[e])
  PROVE  NoStall(t)
<1>1. NoStall(tcb[e])
  BY DEF Most, FlowOK
<1> QED
  BY <1>1, CopiesSame

LEMMA RecvStep ==
  ASSUME Most, NEW e \in End, Recv(e)
  PROVE  \E v : /\ Turns(v, e) /\ (IsRight(tcb[e]) => IsRight(v))
                /\ \/ Shows(v, tcb[e])
                   \/ \E n \in 1..Len(tcb[e].rbuf) :
                        ReadsOff(v, tcb[e], n) /\ v.shutdown = tcb[e].shutdown
                /\ Sum(v) = Sum(tcb[e])
<1> DEFINE u == tcb[e]
           p == tcb[Peer(e)]
<1>1. Core(u, p) /\ EndsOK(tcb) /\ PerEnd(tcb)
  BY EndFacts DEF Most, EndsOK
<1>2. u.state = "ESTABLISHED"
  BY DEF Recv
<1>3. u.rbuf \in Seq(Byte)
  BY <1>1 DEF Core, RecvSide, RecvOK
<1>4. CASE u.rbuf = << >>
  <2> DEFINE v == [u EXCEPT !.bReadEnable = TRUE]
  <2>1. tcb' = [tcb EXCEPT ![e] = v] /\ UNCHANGED << net, failed >>
    BY <1>4 DEF Recv
  <2>2. IsTcb(u)
    BY <1>1 DEF Core
  <2>3. /\ IsTcb(v) /\ KeepsSend(v, u) /\ KeepsRecv(v, u) /\ v.bWriteEnable = u.bWriteEnable
        /\ v.bReadEnable = TRUE /\ v.state = u.state /\ v.lastack = u.lastack
        /\ v.t_ack = u.t_ack /\ v.dup_acks = u.dup_acks
    BY <2>2 DEF IsTcb, TcbFields, KeepsSend, KeepsRecv
  <2> HIDE DEF v
  <2>4. Replaced(tcb', tcb, e, v)
    BY <2>1, <1>1 DEF PerEnd, Replaced
  <2>5. RecvOK(v)
    BY <2>3, <1>1, RecvKept DEF Core, RecvSide
  <2>6. Sum(v) = Sum(u)
    BY <2>3 DEF KeepsSend, Sum
  <2>7. ReadWaits(v)
    BY <2>3, <1>4 DEF ReadWaits, KeepsRecv
  <2>8. Woken(v) /\ AckPart(v)
    <3>1. Woken(u) /\ AckPart(u)
      BY <1>1, <1>2 DEF Core, Lives
    <3> QED
      BY <3>1, <2>3, <2>6 DEF Woken, AckPart, KeepsRecv, KeepsSend
  <2>9. Flags(v) /\ Lives(v)
    BY <2>3, <2>7, <2>8, <1>1 DEF Flags, Lives, Core
  <2>10. v.rcv_nxt = u.rcv_nxt /\ v.rcv_wnd = u.rcv_wnd /\ v.rlist = u.rlist /\ Shows(v, u)
    BY <2>3 DEF KeepsRecv, Shows
  <2>11. Turns(v, e)
    BY <2>1, <2>3, <2>4, <2>5, <2>9, <2>10, FlagStep DEF Turns
  <2>12. IsRight(u) => IsRight(v)
    BY <2>3, RightKept
  <2> QED
    BY <2>6, <2>10, <2>11, <2>12
<1>5. CASE u.rbuf # << >>
  <2>1. PICK n \in 1..Len(u.rbuf), c \in Context(e) :
          Result(e, RecvOf(Working(e, c), n, e \in failed), net)
    <3>1. PICK n \in 1..Len(u.rbuf), c \in Context(e) :
            LET t == Working(e, c)
                w == [t EXCEPT !.rbuf = SubSeq(@, n + 1, Len(@)),
                               !.nread = @ + n,
                               !.ahead = @ \o [i \in 1..n |-> Garbage]]
                opens == Space(w) - t.rcv_wnd >= Least(RcvBuf \div 2, Mss)
                v == [w EXCEPT !.rcv_wnd = IF opens THEN Space(w) ELSE @,
                               !.failed = e \in failed]
            IN  Result(e, IF opens /\ t.rcv_wnd = 0
                          THEN AttemptSend(v, "ImmediateAck") ELSE v, net)
      BY <1>5 DEF Recv
    <3> QED
      BY <3>1 DEF RecvOf, ReadOf
  <2> DEFINE t == Working(e, c)
             f == e \in failed
             w == RecvOf(t, n, f)
  <2>2. Starts(t, u, e)
    BY WorkingStarts
  <2>3. Result(e, w, net)
    BY <2>1
  <2> HIDE DEF t
  <2>4. Ready(t, p) /\ Copies(t, u)
    BY <2>2, <1>1, <1>2, StartsGood
  <2>5. t.rbuf = u.rbuf /\ t.nread = u.nread /\ t.shutdown = u.shutdown
    BY <2>4 DEF Copies, KeepsRecv
  <2>6. ~f => NoStall(t)
    BY <2>4, <1>2, FlowOf
  <2> HIDE DEF f
  <2>7. Handled(w, t, p) /\ Given(w, t, n)
    BY <2>4, <2>5, <2>6, RecvHandled
  <2> HIDE DEF w
  <2>8. ReadsOff(w, t, n) /\ w.shutdown = t.shutdown /\ Sum(w) = Sum(t)
        /\ (IsRight(t) => IsRight(w))
    BY <2>7 DEF Given
  <2>9. Sum(w) = Sum(u)
    BY <2>4, <2>8, CopiesSame
  <2>10. Bounded(w, e)
    BY <2>9, EndSums DEF Bounded
  <2>11. PICK v : Ended(v, w, e)
    BY <2>2, <2>3, <2>7, <2>10, ResultStep
  <2>12. Copies(v, w) /\ Turns(v, e)
    BY <2>11 DEF Ended, Turns
  <2>13. Sum(v) = Sum(u)
    BY <2>9, <2>12, CopiesSame
  <2>14. IsRight(u) => IsRight(v)
    BY <2>4, <2>8, <2>12, CopiesSame, CopiesBoth
  <2>15. ReadsOff(v, u, n) /\ v.shutdown = u.shutdown
    BY <2>5, <2>8, <2>12 DEF ReadsOff, Copies, KeepsRecv
  <2> QED
    BY <2>12, <2>13, <2>14, <2>15
<1> QED
  BY <1>4, <1>5

LEMMA CloseStep ==
  ASSUME Most, NEW e \in End, Close(e)
  PROVE  \E v : /\ Turns(v, e) /\ (IsRight(tcb[e]) => IsRight(v))
                /\ v.rbuf = tcb[e].rbuf /\ v.nread = tcb[e].nread /\ v.shutdown = TRUE
                /\ Sum(v) = Sum(tcb[e]) /\ tcb[e].shutdown = FALSE
<1> DEFINE u == tcb[e]
           p == tcb[Peer(e)]
           v == [u EXCEPT !.shutdown = TRUE]
<1>1. Core(u, p) /\ EndsOK(tcb) /\ PerEnd(tcb)
  BY EndFacts DEF Most, EndsOK
<1>2. tcb' = [tcb EXCEPT ![e] = v] /\ UNCHANGED << net, failed >> /\ ~u.shutdown
  BY DEF Close
<1>3. IsTcb(u) /\ RecvOK(u)
  BY <1>1 DEF Core, RecvSide
<1>4. /\ IsTcb(v) /\ KeepsSend(v, u) /\ v.bWriteEnable = u.bWriteEnable
      /\ v.bReadEnable = u.bReadEnable /\ v.state = u.state /\ v.lastack = u.lastack
      /\ v.t_ack = u.t_ack /\ v.dup_acks = u.dup_acks /\ v.shutdown = TRUE
      /\ v.rcv_nxt = u.rcv_nxt /\ v.rcv_wnd = u.rcv_wnd /\ v.rlist = u.rlist
      /\ v.rbuf = u.rbuf /\ v.nread = u.nread /\ v.ahead = u.ahead
  BY <1>3 DEF IsTcb, TcbFields, KeepsSend
<1> HIDE DEF v
<1>5. Replaced(tcb', tcb, e, v)
  BY <1>1, <1>2 DEF PerEnd, Replaced
<1>6. RecvOK(v)
  BY <1>3, <1>4 DEF RecvOK, Edge
<1>7. Sum(v) = Sum(u)
  BY <1>4 DEF KeepsSend, Sum
<1>8. Flags(v) /\ Lives(v)
  <2>1. ReadWaits(u) => ReadWaits(v)
    BY <1>4 DEF ReadWaits
  <2>2. (Woken(u) => Woken(v)) /\ (AckPart(u) => AckPart(v))
    BY <1>4, <1>7 DEF Woken, AckPart, KeepsSend
  <2> QED
    BY <2>1, <2>2, <1>1, <1>4 DEF Flags, Lives, Core
<1>9. Turns(v, e)
  BY <1>2, <1>4, <1>5, <1>6, <1>8, FlagStep DEF Turns
<1>10. IsRight(u) => IsRight(v)
  BY <1>4 DEF IsRight, ReadsRight, AheadRight
<1>11. u.shutdown = FALSE
  BY <1>2, <1>3 DEF RecvOK
<1> QED
  BY <1>4, <1>7, <1>9, <1>10, <1>11

LEMMA ClockStep ==
  ASSUME Most, NEW e \in End, NotifyClock(e)
  PROVE  \E v : /\ Turns(v, e) /\ Shows(v, tcb[e]) /\ Sum(v) = Sum(tcb[e])
                /\ IsRight(tcb[e]) => IsRight(v)
<1> DEFINE u == tcb[e]
           p == tcb[Peer(e)]
           f == e \in failed
<1>1. EndsOK(tcb) /\ u.state # "CLOSED"
  BY DEF Most, NotifyClock
<1>2. PICK due \in SUBSET Timers(u), c \in Context(e) : \E silent :
        Result(e, Ticked([Working(e, c) EXCEPT !.failed = f], due, silent), net)
  <2> HIDE DEF f
  <2>1. PICK due \in SUBSET Timers(u) \ {{}}, c \in Context(e) :
          \E silent \in {FALSE, ("probe" \in due)} :
       LET t == [Working(e, c) EXCEPT !.failed = f]
           r == IF "retransmit" \in due THEN Retransmit(t) ELSE t
           q == IF "probe" \in due /\ r.state # "CLOSED" THEN Probe(r, silent) ELSE r
           a == IF "ack" \in due /\ q.state # "CLOSED" /\ q.t_ack
                THEN PutPacket(q, q.snd_nxt, FALSE, 0) ELSE q
       IN  Result(e, a, net)
    BY DEF NotifyClock, f
  <2>2. PICK silent :
          Result(e, Ticked([Working(e, c) EXCEPT !.failed = f], due, silent), net)
    BY <2>1 DEF Ticked
  <2> QED
    BY <2>2
<1>21. PICK silent :
         Result(e, Ticked([Working(e, c) EXCEPT !.failed = f], due, silent), net)
  BY <1>2
<1> DEFINE t == Working(e, c)
           s == [t EXCEPT !.failed = f]
           w == Ticked(s, due, silent)
<1>3. Starts(t, u, e) /\ Result(e, w, net)
  BY <1>21, WorkingStarts
<1> HIDE DEF t
<1>4. Ready(t, p) /\ Copies(t, u) /\ IsWork(t)
  BY <1>1, <1>3, StartsGood DEF Starts
<1>5. due \subseteq Timers(t)
  <2>1. Timers(t) = Timers(u)
    BY <1>4 DEF Copies, KeepsSend, Timers
  <2> QED
    BY <2>1
<1>6. ~f => NoStall(t)
  BY <1>1, <1>4, FlowOf
<1> HIDE DEF f
<1>7. SetsFailed(s, t, f)
  BY <1>4, FailedEffect
<1> HIDE DEF s
<1>8. Handled(w, t, p) /\ KeepsRecv(w, t) /\ Sum(w) = Sum(t)
  BY <1>4, <1>5, <1>6, <1>7, ClockHandled
<1> HIDE DEF w
<1>9. Sum(w) = Sum(u)
  BY <1>4, <1>8, CopiesSame
<1>10. Bounded(w, e)
  BY <1>9, EndSums DEF Bounded
<1>11. PICK v : Ended(v, w, e)
  BY <1>3, <1>8, <1>10, ResultStep
<1>12. Copies(v, w) /\ Turns(v, e)
  BY <1>11 DEF Ended, Turns
<1>13. Sum(v) = Sum(u)
  BY <1>9, <1>12, CopiesSame
<1> QED
  BY <1>4, <1>8, <1>12, <1>13, KeepsShows

ReceiveShows(v, u, e) ==
  /\ v.nread = u.nread /\ v.shutdown = u.shutdown /\ Grows(v.rbuf, u.rbuf) /\ Quiet(v, u)
  /\ u.shutdown => v.rbuf = u.rbuf
  /\ e \notin early' => (IsRight(u) => IsRight(v))
  /\ \/ early' = early
     \/ early' = early \cup {e} /\ v.rbuf = u.rbuf

LEMMA ReceiveStep ==
  ASSUME Most, NEW e \in End, Receive(e)
  PROVE  \E v : Turns(v, e) /\ ReceiveShows(v, tcb[e], e)
<1> DEFINE u == tcb[e]
           p == tcb[Peer(e)]
<1>1. /\ EndsOK(tcb) /\ NetOK(net, tcb) /\ u.state # "CLOSED" /\ PeerOK(p)
      /\ u.rcv_nxt \in Nat /\ Edge(u) \in Nat
  BY EndFacts DEF Most, Receive
<1>2. PICK q \in net, c \in Context(e) :
        /\ q.to = e
        /\ Result(e, Process(Working(e, c), q), net \ {q})
        /\ early' = IF u.rcv_nxt < ConnectLen /\ ~q.ctl /\ q.len > 0 /\ ~u.shutdown
                    THEN early \cup {e} ELSE early
  BY DEF Receive
<1> DEFINE t == Working(e, c)
           w == Process(t, q)
           spoils == u.rcv_nxt < ConnectLen /\ ~q.ctl /\ q.len > 0 /\ ~u.shutdown
<1>3. Starts(t, u, e) /\ Result(e, w, net \ {q})
  BY <1>2, WorkingStarts
<1> HIDE DEF t
<1>4. Ready(t, p) /\ Copies(t, u) /\ Good(t, p)
  BY <1>1, <1>3, StartsGood
<1>5. PacketOK(q, p, t) /\ IsPacket(q)
  <2>1. PacketOK(q, p, u) /\ IsPacket(q)
    BY <1>1, <1>2 DEF NetOK
  <2>2. PICK s : s = p
    OBVIOUS
  <2>3. PICK r : r = u
    OBVIOUS
  <2>4. PacketOK(q, s, r) /\ s.rcv_nxt \in Nat /\ Edge(s) \in Nat
    <3>1. Peer(e) \in End
      BY TheEnds
    <3>2. p.rcv_nxt \in Nat /\ Edge(p) \in Nat
      BY <3>1, <1>1, EndFacts
    <3> QED
      BY <3>2, <2>1, <2>2, <2>3
  <2>5. \A x : IsEnd(r, x) => IsEnd(t, x)
    BY <2>3, <1>4, CopiesSame
  <2> HIDE DEF p, u
  <2>6. PacketOK(q, s, t)
    BY <2>4, <2>5, PacketKept
  <2> QED
    BY <2>1, <2>2, <2>6
<1>6. Received(w, t, p, q)
  <2>1. /\ PeerOK(p) /\ StateOK(t) /\ t.state # "CLOSED" /\ Flags(t)
        /\ ReadWaits(t) /\ AckPart(t)
    BY <1>4, ReadyParts
  <2> HIDE DEF p
  <2> QED
    BY <2>1, <1>4, <1>5, ProcessGood
<1> HIDE DEF w
<1>7. /\ Good(w, p) /\ Goes(w, t) /\ StateOK(w) /\ Flags(w) /\ Reads(w, t, q)
      /\ Sum(w) = Sum(t) \/ (Sum(w) = ConnectLen /\ Sum(t) = 0)
      /\ w.state # "CLOSED" => /\ ReadWaits(w) /\ Woken(w) /\ AckPart(w)
                               /\ ~w.failed => NoStall(w)
  BY <1>6 DEF Received
<1>8. Handled(w, t, p)
  BY <1>7 DEF Handled, Lives
<1>9. Sum(t) = Sum(u)
  BY <1>4, CopiesSame
<1>10. Bounded(w, e)
  BY <1>7, <1>9, EndSums DEF Bounded
<1>11. PICK v : Ended(v, w, e)
  <2>1. net \ {q} \subseteq net
    OBVIOUS
  <2> QED
    BY <2>1, <1>3, <1>8, <1>10, ResultStep
<1>12. Copies(v, w) /\ Turns(v, e)
  BY <1>11 DEF Ended, Turns
<1>13. Quiet(v, u)
  <2>1. Sum(v) = Sum(w)
    BY <1>12, CopiesSame
  <2> QED
    BY <2>1, <1>7, <1>9 DEF Quiet
<1>14. /\ w.shutdown = t.shutdown /\ w.nread = t.nread /\ Grows(w.rbuf, t.rbuf)
       /\ t.shutdown \/ t.rcv_nxt < ConnectLen => w.rbuf = t.rbuf
       /\ ~Spoils(t, q) /\ IsRight(t) => IsRight(w)
  BY <1>7 DEF Reads
<1>15. /\ t.shutdown = u.shutdown /\ t.nread = u.nread /\ t.rbuf = u.rbuf
       /\ t.rcv_nxt = u.rcv_nxt
       /\ v.shutdown = w.shutdown /\ v.nread = w.nread /\ v.rbuf = w.rbuf
  BY <1>4, <1>12 DEF Copies, KeepsRecv
<1>16. v.nread = u.nread /\ v.shutdown = u.shutdown /\ Grows(v.rbuf, u.rbuf)
  BY <1>14, <1>15
<1>17. u.shutdown \/ u.rcv_nxt < ConnectLen => v.rbuf = u.rbuf
  BY <1>14, <1>15
<1>18. Spoils(t, q) <=> spoils
  BY <1>15 DEF Spoils
<1>19. e \notin early' => (IsRight(u) => IsRight(v))
  <2>1. e \notin early' => ~spoils
    BY <1>2
  <2>2. IsRight(u) => IsRight(t)
    BY <1>4, CopiesSame
  <2>3. IsRight(w) => IsRight(v)
    BY <1>12, CopiesSame
  <2> QED
    BY <2>1, <2>2, <2>3, <1>14, <1>18
<1>20. \/ early' = early
       \/ early' = early \cup {e} /\ v.rbuf = u.rbuf
  BY <1>2, <1>17
<1> QED
  BY <1>12, <1>13, <1>16, <1>17, <1>19, <1>20 DEF ReceiveShows

LEMMA LoseStep ==
  ASSUME IInv, Lose
  PROVE  IInv'
<1>1. net' \subseteq net /\ UNCHANGED << tcb, early, failed >>
  BY DEF Lose
<1>2. NetOK(net', tcb)
  BY <1>1 DEF IInv, Most, NetOK
<1> QED
  BY <1>1, <1>2 DEF IInv, Most

LEMMA TurnStep ==
  ASSUME IInv, NEW e \in End, NEW v, Turns(v, e), early \subseteq early', early' \subseteq End,
         e \notin early' => (IsRight(tcb[e]) => IsRight(v))
  PROVE  IInv'
<1>1. RightOK(tcb, early)
  BY DEF IInv
<1>2. Replaced(tcb', tcb, e, v)
  BY DEF Turns
<1>3. RightOK(tcb', early')
  BY <1>1, <1>2, RightStep
<1> QED
  BY <1>3 DEF Turns, IInv, Most

LEMMA IInvStep ==
  ASSUME IInv, [Next]_vars
  PROVE  IInv'
<1>1. Most /\ early \subseteq End
  BY DEF IInv
<1>2. CASE UNCHANGED vars
  BY <1>2 DEF IInv, Most, vars
<1>3. CASE Lose
  BY <1>3, LoseStep
<1>4. ASSUME NEW e \in End, Connect(e)
      PROVE  IInv'
  <2>1. UNCHANGED early
    BY <1>4 DEF Connect
  <2> QED
    BY <2>1, <1>1, <1>4, ConnectStep, TurnStep
<1>5. ASSUME NEW e \in End, Receive(e)
      PROVE  IInv'
  <2>1. PICK v : Turns(v, e) /\ ReceiveShows(v, tcb[e], e)
    BY <1>1, <1>5, ReceiveStep
  <2>2. /\ e \notin early' => (IsRight(tcb[e]) => IsRight(v))
        /\ early \subseteq early' /\ early' \subseteq End
    BY <2>1, <1>1 DEF ReceiveShows
  <2> QED
    BY <2>1, <2>2, TurnStep
<1>6. ASSUME NEW e \in End, NotifyClock(e)
      PROVE  IInv'
  <2>1. UNCHANGED early
    BY <1>6 DEF NotifyClock
  <2> QED
    BY <2>1, <1>1, <1>6, ClockStep, TurnStep
<1>7. ASSUME NEW e \in End, Send(e)
      PROVE  IInv'
  <2>1. UNCHANGED early
    BY <1>7 DEF Send
  <2> QED
    BY <2>1, <1>1, <1>7, SendStep, TurnStep
<1>8. ASSUME NEW e \in End, Recv(e)
      PROVE  IInv'
  <2>1. UNCHANGED early
    BY <1>8 DEF Recv
  <2> QED
    BY <2>1, <1>1, <1>8, RecvStep, TurnStep
<1>9. ASSUME NEW e \in End, Close(e)
      PROVE  IInv'
  <2>1. UNCHANGED early
    BY <1>9 DEF Close
  <2> QED
    BY <2>1, <1>1, <1>9, CloseStep, TurnStep
<1> QED
  BY <1>2, <1>3, <1>4, <1>5, <1>6, <1>7, <1>8, <1>9 DEF Next

---------------------------------------------------------------------------
(* The invariant holds.                                                    *)

InitTcb ==
  [state |-> "LISTEN", shutdown |-> FALSE,
   rcv_nxt |-> 0, rcv_wnd |-> RcvBuf, rbuf |-> << >>, nread |-> 0,
   ahead |-> [i \in 1..RcvBuf |-> Garbage], rlist |-> << >>,
   bReadEnable |-> TRUE,
   snd_una |-> 0, snd_nxt |-> 0, snd_wnd |-> 1, slist |-> << >>, sbuf |-> 0,
   bWriteEnable |-> FALSE, rto |-> FALSE, t_ack |-> FALSE,
   dup_acks |-> 0, recover |-> 0, lastack |-> 0]

LEMMA InitTcbOK ==
  /\ IsTcb(InitTcb) /\ Core(InitTcb, InitTcb) /\ NoStall(InitTcb) /\ IsRight(InitTcb)
  /\ Sum(InitTcb) = 0
<1> DEFINE t == InitTcb
           a == [i \in 1..RcvBuf |-> Garbage]
<1>1. IsTcb(t)
  BY DEF InitTcb, IsTcb, TcbFields
<1>2. a \in Seq(Byte) /\ Len(a) = RcvBuf
  BY TopBounds, ConstantTypes DEF Byte, Garbage
<1> HIDE DEF a
<1>3. /\ t.state = "LISTEN" /\ t.shutdown = FALSE /\ t.rcv_nxt = 0 /\ t.rcv_wnd = RcvBuf
      /\ t.rbuf = << >> /\ t.nread = 0 /\ t.ahead = a /\ t.rlist = << >>
      /\ t.bReadEnable = TRUE /\ t.snd_una = 0 /\ t.snd_nxt = 0 /\ t.snd_wnd = 1
      /\ t.slist = << >> /\ t.sbuf = 0 /\ t.bWriteEnable = FALSE /\ t.rto = FALSE
      /\ t.t_ack = FALSE /\ t.dup_acks = 0 /\ t.recover = 0 /\ t.lastack = 0
  BY DEF InitTcb, a
<1> HIDE DEF t
<1>4. Sum(t) = 0 /\ Edge(t) = RcvBuf
  BY <1>3, ConstantTypes DEF Sum, Edge
<1>5. SendOK(t)
  <2>1. t.slist \in Seq(Seg) /\ Len(t.slist) = 0
    BY <1>3
  <2>2. Chain(t.slist, t.snd_una, t.sbuf) /\ AllOK(t.slist)
    BY <2>1, <1>3 DEF Chain, AllOK
  <2>3. Sent(t)
    <3>1. SentTo(t.slist, t.snd_una, t.snd_nxt, 0)
      BY <2>1, <1>3 DEF SentTo
    <3> QED
      BY <3>1, <1>3 DEF Sent
  <2>4. t.sbuf \in 0..SndBuf /\ t.recover <= t.snd_nxt
    BY <1>3, ConstantTypes
  <2>5. t.snd_una \in Nat /\ t.snd_wnd \in Nat /\ t.recover \in Nat /\ t.snd_nxt \in Nat
    BY <1>3
  <2>6. t.rto \in BOOLEAN
    BY <1>3
  <2> QED
    BY <2>2, <2>3, <2>4, <2>5, <2>6 DEF SendOK
<1>6. RecvOK(t)
  <2>1. t.rbuf \in Seq(Byte) /\ Len(t.rbuf) = 0 /\ t.rlist \in Seq(RSeg)
    BY <1>3
  <2>2. Fill(Len(t.rbuf), Len(t.ahead), RcvBuf)
    BY <2>1, <1>2, <1>3, ConstantTypes DEF Fill
  <2>3. Counts(t)
    BY <2>1, <1>3, ConstantTypes DEF Counts
  <2>4. t.rcv_nxt \in Nat /\ t.rcv_wnd \in Nat /\ t.nread \in Nat /\ t.ahead \in Seq(Byte)
    BY <1>2, <1>3, ConstantTypes
  <2>5. t.rcv_wnd <= Len(t.ahead) /\ Edge(t) >= RcvBuf
    BY <1>2, <1>3, <1>4, ConstantTypes
  <2>6. t.shutdown \in BOOLEAN
    BY <1>3
  <2> QED
    BY <2>1, <2>2, <2>3, <2>4, <2>5, <2>6 DEF RecvOK
<1>7. Pair(t, t)
  <2>1. IsEnd(t, 0)
    BY <1>3 DEF IsEnd, EndIn
  <2>2. Len(t.rlist) = 0
    BY <1>3
  <2> QED
    BY <2>1, <2>2, <1>3, <1>4, ConstantTypes DEF Pair
<1>8. Acks(t) /\ t.dup_acks \in 0..(DupAcks - 1)
  <2>1. 0 \in 0..(DupAcks - 1) /\ 0 \in 0..0
    BY ConstantTypes
  <2>2. t.t_ack \in BOOLEAN
    BY <1>3
  <2> QED
    BY <2>1, <2>2, <1>3 DEF Acks
<1>9. StateOK(t) /\ Flags(t)
  BY <1>3, <1>4 DEF StateOK, Flags
<1>10. Lives(t) /\ NoStall(t)
  BY <1>3 DEF Lives, NoStall, ReadWaits, Woken, AckPart
<1>11. IsRight(t)
  <2>1. Len(t.rbuf) = 0 /\ Len(t.rlist) = 0
    BY <1>3
  <2> QED
    BY <2>1 DEF IsRight, ReadsRight, AheadRight
<1>12. Core(t, t)
  BY <1>1, <1>5, <1>6, <1>7, <1>8, <1>9, <1>10 DEF Core, SendSide, RecvSide
<1> QED
  BY <1>1, <1>4, <1>10, <1>11, <1>12 DEF t

LEMMA InitInv == Init => IInv
<1>1. SUFFICES ASSUME Init PROVE IInv
  OBVIOUS
<1>2. tcb = [e \in End |-> InitTcb] /\ net = {} /\ early = {} /\ failed = {}
  BY <1>1 DEF Init, InitTcb
<1>3. \A e \in End : tcb[e] = InitTcb /\ tcb[Peer(e)] = InitTcb
  BY <1>2, TheEnds
<1>4. PerEnd(tcb)
  BY <1>2 DEF PerEnd
<1>5. ASSUME NEW e \in End
      PROVE  Core(tcb[e], tcb[Peer(e)]) /\ Bounded(tcb[e], e)
  <2>1. 0 <= ConnectLen + MaxData[e]
    BY TopBounds, ConstantTypes
  <2> QED
    BY <2>1, <1>3, InitTcbOK DEF Bounded
<1>6. EndsOK(tcb)
  BY <1>4, <1>5 DEF EndsOK
<1>7. NetOK(net, tcb)
  BY <1>2 DEF NetOK
<1>8. FlowOK(tcb, failed) /\ RightOK(tcb, early)
  BY <1>3, InitTcbOK DEF FlowOK, RightOK
<1> QED
  BY <1>2, <1>6, <1>7, <1>8 DEF IInv, Most

(* Every step of every handler keeps the invariant of both ends and of     *)
(* the packets between them.                                               *)
THEOREM Invariant == Spec => []IInv
BY InitInv, IInvStep, PTL DEF Spec

LEMMA EndTypes ==
  ASSUME IInv, NEW e \in End
  PROVE  LET t == tcb[e] p == tcb[Peer(e)]
         IN  /\ IsTcb(t) /\ SendOK(t) /\ RecvOK(t) /\ Pair(t, p) /\ Pair(p, t) /\ PeerOK(p)
             /\ RecvOK(p)
             /\ Acks(t) /\ t.dup_acks \in 0..(DupAcks - 1) /\ StateOK(t) /\ Flags(t) /\ Lives(t)
             /\ Chain(t.slist, t.snd_una, t.sbuf)
             /\ \E k \in 0..Len(t.slist) : /\ SentTo(t.slist, t.snd_una, t.snd_nxt, k)
                                           /\ t.rto <=> k > 0
             /\ t.snd_una \in Nat /\ t.sbuf \in 0..SndBuf /\ Sum(t) \in Nat /\ t.sbuf \in Nat
             /\ Sum(t) = t.snd_una + t.sbuf /\ Sum(t) <= Top
             /\ t.snd_una <= t.snd_nxt /\ t.snd_nxt <= Sum(t) /\ t.snd_nxt \in Nat
<1> DEFINE t == tcb[e]
           p == tcb[Peer(e)]
<1>1. EndsOK(tcb)
  BY DEF IInv, Most
<1>2. Core(t, p) /\ PeerOK(t) /\ PeerOK(p)
  BY <1>1, EndFacts
<1>3. SendOK(t) /\ RecvOK(t) /\ Pair(t, p) /\ Pair(p, t) /\ RecvOK(p) /\ Sum(t) <= Top
  BY <1>2 DEF Core, SendSide, RecvSide, PeerOK
<1>4. /\ t.snd_una \in Nat /\ t.sbuf \in 0..SndBuf /\ t.snd_nxt \in Nat
      /\ Chain(t.slist, t.snd_una, t.sbuf) /\ Sent(t)
  BY <1>3 DEF SendOK
<1>5. t.sbuf \in Nat /\ Sum(t) \in Nat /\ Sum(t) = t.snd_una + t.sbuf
  BY <1>4, ConstantTypes DEF Sum
<1>6. PICK k : SentTo(t.slist, t.snd_una, t.snd_nxt, k) /\ (t.rto <=> k > 0)
  BY <1>4 DEF Sent
<1>7. /\ k \in 0..Len(t.slist) /\ t.snd_una <= t.snd_nxt
      /\ t.snd_nxt <= t.snd_una + t.sbuf
  <2> HIDE DEF t
  <2> QED
    BY <1>4, <1>5, <1>6, SentFacts
<1>8. IsTcb(t) /\ Acks(t) /\ t.dup_acks \in 0..(DupAcks - 1) /\ StateOK(t) /\ Flags(t) /\ Lives(t)
  BY <1>2 DEF Core
<1> QED
  BY <1>2, <1>3, <1>4, <1>5, <1>6, <1>7, <1>8

---------------------------------------------------------------------------
(* The properties follow from it.                                          *)

LEMMA Retyped ==
  ASSUME NEW S, NEW R, NEW s \in Seq(S), \A i \in 1..Len(s) : s[i] \in R
  PROVE  s \in Seq(R)
<1>1. Len(s) \in Nat /\ DOMAIN s = 1..Len(s) /\ s = [i \in 1..Len(s) |-> s[i]]
  OBVIOUS
<1>2. s \in [1..Len(s) -> R]
  BY <1>1
<1> QED
  BY <1>1, <1>2

LEMMA SlistTyped ==
  ASSUME NEW segs, NEW una \in Nat, NEW n \in Nat, Chain(segs, una, n), una + n <= Top,
         n <= SndBuf
  PROVE  segs \in Seq(SSegment)
<1>1. segs \in Seq(Seg)
  BY DEF Chain
<1>2. ASSUME NEW i \in 1..Len(segs)
      PROVE  segs[i] \in SSegment
  <2>1. segs[i] \in Seg /\ EndOf(segs[i]) <= una + n /\ una <= segs[i].seq
    BY ChainFacts
  <2>2. /\ segs[i].seq \in Nat /\ segs[i].len \in Nat \ {0}
        /\ EndOf(segs[i]) = segs[i].seq + segs[i].len
    BY <2>1 DEF Seg, EndOf
  <2>3. segs[i].seq <= Top /\ segs[i].len <= SndBuf
    BY <2>1, <2>2, TopBounds, ConstantTypes
  <2>4. segs[i].seq \in SeqNo /\ segs[i].len \in 1..SndBuf
    BY <2>2, <2>3, TopBounds, ConstantTypes DEF SeqNo
  <2> QED
    BY <2>1, <2>4 DEF Seg, SSegment, XmitTop
<1> QED
  BY <1>1, <1>2, Retyped

LEMMA RlistTyped ==
  ASSUME NEW l \in Seq(RSeg), \A i \in 1..Len(l) : EndOf(l[i]) <= Top
  PROVE  l \in Seq(RSegment)
<1>1. ASSUME NEW i \in 1..Len(l)
      PROVE  l[i] \in RSegment
  <2>1. l[i] \in RSeg /\ l[i].seq + l[i].len <= Top
    BY DEF EndOf
  <2>2. l[i].seq \in Nat /\ l[i].len \in 1..Mss
    BY <2>1 DEF RSeg
  <2>3. l[i].seq \in SeqNo
    BY <2>1, <2>2, TopBounds, ConstantTypes DEF SeqNo
  <2> QED
    BY <2>1, <2>2, <2>3 DEF RSeg, RSegment
<1> QED
  BY <1>1, Retyped

LEMMA TcbTyped ==
  ASSUME IInv, NEW e \in End
  PROVE  tcb[e] \in Tcb
<1> DEFINE t == tcb[e]
           p == tcb[Peer(e)]
<1>1. /\ IsTcb(t) /\ SendOK(t) /\ RecvOK(t) /\ Pair(p, t) /\ PeerOK(p)
      /\ Acks(t) /\ t.dup_acks \in 0..(DupAcks - 1) /\ StateOK(t) /\ Flags(t)
      /\ Chain(t.slist, t.snd_una, t.sbuf)
      /\ t.snd_una \in Nat /\ t.sbuf \in 0..SndBuf /\ Sum(t) \in Nat /\ t.sbuf \in Nat
      /\ Sum(t) = t.snd_una + t.sbuf /\ Sum(t) <= Top
      /\ t.snd_una <= t.snd_nxt /\ t.snd_nxt <= Sum(t) /\ t.snd_nxt \in Nat
  BY EndTypes
<1> HIDE DEF t, p
<1>2. Top \in Nat
  BY TopBounds
<1>3. t.rcv_nxt \in Nat /\ t.rcv_nxt <= Top
  <2>1. t.rcv_nxt \in Nat /\ IsEnd(p, t.rcv_nxt)
    BY <1>1 DEF RecvOK, Pair
  <2> QED
    BY <2>1, <1>1, EndBelow
<1>4. t.rcv_nxt \in SeqNo /\ t.snd_una \in SeqNo /\ t.snd_nxt \in SeqNo
  BY <1>1, <1>2, <1>3 DEF SeqNo
<1>5. t.recover \in SeqNo /\ t.lastack \in SeqNo /\ t.t_ack \in BOOLEAN
  <2>1. t.recover \in Nat /\ t.recover <= t.snd_nxt
    BY <1>1 DEF SendOK
  <2>2. t.lastack \in 0..t.rcv_nxt /\ t.t_ack \in BOOLEAN
    BY <1>1 DEF Acks
  <2> QED
    BY <2>1, <2>2, <1>1, <1>2, <1>3 DEF SeqNo
<1>6. /\ t.rcv_wnd \in 0..RcvBuf /\ t.rbuf \in Seq(Byte) /\ t.ahead \in Seq(Byte)
      /\ t.nread \in Nat /\ t.shutdown \in BOOLEAN
  <2>1. t.rcv_wnd \in 0..RcvBuf
    BY <1>1, RecvTypes
  <2> QED
    BY <2>1, <1>1 DEF RecvOK
<1>7. t.rlist \in Seq(RSegment)
  <2>1. t.rlist \in Seq(RSeg)
    BY <1>1 DEF RecvOK
  <2>2. ASSUME NEW i \in 1..Len(t.rlist)
        PROVE  EndOf(t.rlist[i]) <= Top
    <3>1. t.rlist[i] \in RSeg
      BY <2>1
    <3>2. EndOf(t.rlist[i]) \in Nat
      BY <3>1, ConstantTypes DEF RSeg, EndOf
    <3>3. IsEnd(p, EndOf(t.rlist[i]))
      BY <1>1 DEF Pair
    <3> QED
      BY <3>2, <3>3, <1>1, EndBelow
  <2> QED
    BY <2>1, <2>2, RlistTyped
<1>8. t.slist \in Seq(SSegment)
  <2>1. t.snd_una + t.sbuf <= Top /\ t.sbuf <= SndBuf
    BY <1>1, ConstantTypes
  <2> QED
    BY <2>1, <1>1, SlistTyped
<1>9. /\ t.state \in {"LISTEN", "SYN_SENT", "SYN_RECEIVED", "ESTABLISHED", "CLOSED"}
      /\ t.bReadEnable \in BOOLEAN /\ t.bWriteEnable \in BOOLEAN
      /\ t.snd_wnd \in Nat /\ t.rto \in BOOLEAN
  BY <1>1 DEF StateOK, Flags, SendOK
<1>10. t \in Tcb
  BY <1>1, <1>4, <1>5, <1>6, <1>7, <1>8, <1>9 DEF IsTcb, TcbFields, Tcb
<1> QED
  BY <1>10 DEF t

LEMMA NetTyped ==
  ASSUME IInv, NEW q \in net
  PROVE  q \in Packet
<1>1. q.to \in End /\ IsPacket(q) /\ PacketOK(q, tcb[Peer(q.to)], tcb[q.to]) /\ EndsOK(tcb)
  BY DEF IInv, Most, NetOK
<1>2. PICK s : s = tcb[Peer(q.to)]
  OBVIOUS
<1>3. s.rcv_nxt \in SeqNo
  <2>1. Peer(q.to) \in End
    BY <1>1, TheEnds
  <2>2. tcb[Peer(q.to)] \in Tcb
    BY <2>1, TcbTyped
  <2> QED
    BY <2>2, <1>2 DEF Tcb
<1>4. /\ q.seq \in Int /\ q.ctl \in BOOLEAN /\ q.len \in 0..Mss
      /\ q.ack \in Nat /\ q.wnd \in 0..RcvBuf /\ q.ack <= s.rcv_nxt
  BY <1>1, <1>2 DEF PacketOK
<1>5. q.ack \in SeqNo
  BY <1>3, <1>4, TopBounds DEF SeqNo
<1> QED
  BY <1>1, <1>4, <1>5 DEF IsPacket, Packet

LEMMA TypesInv == IInv => TypeOK
<1>1. SUFFICES ASSUME IInv PROVE TypeOK
  OBVIOUS
<1>2. tcb = [e \in End |-> tcb[e]] /\ early \subseteq End /\ failed \subseteq End
  BY <1>1 DEF IInv, Most, EndsOK, PerEnd
<1>3. tcb \in [End -> Tcb]
  BY <1>1, <1>2, TcbTyped
<1>4. net \subseteq Packet
  BY <1>1, NetTyped
<1> QED
  BY <1>2, <1>3, <1>4 DEF TypeOK

LEMMA SegmentsInv == IInv => SegmentsFollow
<1>1. SUFFICES ASSUME IInv, NEW e \in End
               PROVE  LET t == tcb[e]
                          From(i) == t.snd_una + Total(SubSeq(t.slist, 1, i))
                      IN  /\ \A i \in DOMAIN t.slist : t.slist[i].seq = From(i - 1)
                          /\ From(Len(t.slist)) = t.snd_una + t.sbuf
                          /\ \E k \in 0..Len(t.slist) :
                               /\ \A i \in DOMAIN t.slist : t.slist[i].xmit > 0 <=> i <= k
                               /\ From(k) = t.snd_nxt
                               /\ t.rto <=> k > 0
  BY DEF SegmentsFollow
<1> DEFINE t == tcb[e]
           From(i) == t.snd_una + Total(SubSeq(t.slist, 1, i))
<1>2. /\ Chain(t.slist, t.snd_una, t.sbuf) /\ t.snd_una \in Nat /\ t.sbuf \in Nat
      /\ \E k \in 0..Len(t.slist) : /\ SentTo(t.slist, t.snd_una, t.snd_nxt, k)
                                    /\ t.rto <=> k > 0
  BY <1>1, EndTypes
<1> HIDE DEF t
<1>3. /\ t.slist \in Seq(Seg) /\ Len(t.slist) \in Nat /\ DOMAIN t.slist = 1..Len(t.slist)
  BY <1>2 DEF Chain
<1>4. ASSUME NEW i \in 0..Len(t.slist)
      PROVE  From(i) = Until(t.slist, t.snd_una, i)
  <2>1. Total(SubSeq(t.slist, 1, i)) = Until(t.slist, t.snd_una, i) - t.snd_una
    BY <1>2, TotalOfPrefix
  <2>2. Until(t.slist, t.snd_una, i) \in Nat
    <3>1. CASE i = 0
      BY <3>1, <1>2 DEF Until
    <3>2. CASE i # 0
      <4>1. i \in 1..Len(t.slist)
        BY <3>2, <1>3
      <4>2. t.slist[i].seq \in Nat /\ t.slist[i].len \in Nat \ {0}
        BY <4>1, <1>3, SegIsTyped
      <4> QED
        BY <4>2, <3>2 DEF Until
    <3> QED
      BY <3>1, <3>2
  <2> QED
    BY <2>1, <2>2, <1>2
<1> HIDE DEF From
<1>5. ASSUME NEW i \in 1..Len(t.slist)
      PROVE  t.slist[i].seq = From(i - 1)
  <2>1. PICK j \in 0..Len(t.slist) : j = i - 1
    BY <1>3
  <2>2. CASE j = 0
    <3>1. i = 1
      BY <2>1, <2>2
    <3> QED
      BY <3>1, <2>1, <2>2, <1>2, <1>4 DEF Chain, Until
  <2>3. CASE j # 0
    <3>1. j \in 1..Len(t.slist) /\ i = j + 1
      BY <2>1, <2>3, <1>3
    <3>2. t.slist[i].seq = EndOf(t.slist[j])
      BY <3>1, <1>2 DEF Chain
    <3> QED
      BY <3>2, <2>1, <2>3, <1>4 DEF Until, EndOf
  <2> QED
    BY <2>2, <2>3
<1>6. From(Len(t.slist)) = t.snd_una + t.sbuf
  <2>1. PICK l \in 0..Len(t.slist) : l = Len(t.slist)
    BY <1>3
  <2>2. CASE l = 0
    BY <2>1, <2>2, <1>2, <1>4 DEF Chain, Until
  <2>3. CASE l # 0
    <3>1. l \in 1..Len(t.slist)
      BY <2>1, <2>3, <1>3
    <3>2. EndOf(t.slist[l]) = t.snd_una + t.sbuf
      BY <3>1, <2>1, <1>2 DEF Chain
    <3> QED
      BY <3>2, <2>1, <2>3, <1>4 DEF Until, EndOf
  <2> QED
    BY <2>2, <2>3
<1>7. \E k \in 0..Len(t.slist) :
        /\ \A i \in 1..Len(t.slist) : t.slist[i].xmit > 0 <=> i <= k
        /\ From(k) = t.snd_nxt
        /\ t.rto <=> k > 0
  <2>1. PICK k \in 0..Len(t.slist) : /\ SentTo(t.slist, t.snd_una, t.snd_nxt, k)
                                     /\ t.rto <=> k > 0
    BY <1>2
  <2>2. \A i \in 1..Len(t.slist) : t.slist[i].xmit > 0 <=> i <= k
    BY <2>1 DEF SentTo
  <2>3. From(k) = t.snd_nxt
    <3>1. CASE k = 0
      BY <3>1, <2>1, <1>4 DEF SentTo, Until
    <3>2. CASE k # 0
      <4>1. k \in 1..Len(t.slist)
        BY <3>2, <1>3
      <4>2. t.snd_nxt = EndOf(t.slist[k])
        BY <4>1, <2>1 DEF SentTo
      <4> QED
        BY <4>2, <3>2, <1>4 DEF Until, EndOf
    <3> QED
      BY <3>1, <3>2
  <2> QED
    BY <2>1, <2>2, <2>3
<1> QED
  BY <1>3, <1>5, <1>6, <1>7 DEF t, From

LEMMA WindowInv == IInv => WindowIsRoom
<1>1. SUFFICES ASSUME IInv, NEW e \in End
               PROVE  LET t == tcb[e] p == tcb[Peer(e)]
                      IN  /\ p.rcv_wnd <= Space(p)
                          /\ t.snd_nxt <= p.rcv_nxt + Space(p)
                          /\ t.snd_una + t.snd_wnd <= p.rcv_nxt + p.rcv_wnd
  BY DEF WindowIsRoom
<1> DEFINE t == tcb[e]
           p == tcb[Peer(e)]
<1>2. SendOK(t) /\ Pair(t, p) /\ RecvOK(p)
  BY <1>1, EndTypes
<1> HIDE DEF t, p
<1>3. /\ t.snd_una + t.snd_wnd <= Edge(p) /\ t.snd_nxt <= Edge(p)
      /\ t.snd_una \in Nat /\ t.snd_wnd \in Nat /\ t.snd_nxt \in Nat
  BY <1>2 DEF SendOK, Pair
<1>4. /\ p.rcv_nxt \in Nat /\ p.rcv_wnd \in Nat /\ p.rcv_wnd <= Len(p.ahead)
      /\ Fill(Len(p.rbuf), Len(p.ahead), RcvBuf) /\ p.rbuf \in Seq(Byte) /\ p.ahead \in Seq(Byte)
  BY <1>2 DEF RecvOK
<1>5. Len(p.rbuf) \in Nat /\ Len(p.ahead) \in Nat
  BY <1>4
<1>6. Space(p) = Len(p.ahead)
  BY <1>2, RecvTypes DEF Space
<1>7. /\ p.rcv_wnd <= Space(p) /\ t.snd_nxt <= p.rcv_nxt + Space(p)
      /\ t.snd_una + t.snd_wnd <= p.rcv_nxt + p.rcv_wnd
  BY <1>3, <1>4, <1>5, <1>6 DEF Edge
<1> QED
  BY <1>7 DEF t, p

LEMMA StallsInv == IInv => NeverStalls
<1>1. SUFFICES ASSUME IInv, NEW e \in End \ failed, tcb[e].state # "CLOSED",
                      tcb[e].slist # << >>
               PROVE  tcb[e].rto \/ tcb[e].snd_wnd = 0
  BY DEF NeverStalls
<1>2. NoStall(tcb[e])
  BY <1>1 DEF IInv, Most, FlowOK
<1> DEFINE t == tcb[e]
<1>3. Chain(t.slist, t.snd_una, t.sbuf) /\ t.snd_una \in Nat /\ t.sbuf \in Nat
  BY <1>1, EndTypes
<1> HIDE DEF t
<1>4. t.sbuf # 0
  <2>1. t.slist \in Seq(Seg) /\ t.slist # << >>
    BY <1>1, <1>3 DEF Chain, t
  <2>2. Len(t.slist) \in 1..Len(t.slist)
    BY <2>1
  <2>3. PICK i \in 1..Len(t.slist) : i = Len(t.slist)
    BY <2>2
  <2>4. EndOf(t.slist[i]) = t.snd_una + t.sbuf /\ t.snd_una <= t.slist[i].seq
    BY <2>3, <1>3, ChainFacts DEF Chain
  <2>5. t.slist[i].seq \in Nat /\ t.slist[i].len \in Nat \ {0}
    BY <2>1, SegIsTyped
  <2> QED
    BY <2>4, <2>5, <1>3 DEF EndOf
<1> QED
  BY <1>2, <1>4 DEF NoStall, t

LEMMA AckInv == IInv => AckIsDue
<1>1. SUFFICES ASSUME IInv, NEW e \in End \ failed, tcb[e].state # "CLOSED",
                      tcb[e].lastack # tcb[e].rcv_nxt
               PROVE  tcb[e].t_ack \/ tcb[e].rto \/ tcb[e].snd_wnd = 0
  BY DEF AckIsDue
<1>2. NoStall(tcb[e])
  BY <1>1 DEF IInv, Most, FlowOK
<1> DEFINE t == tcb[e]
<1>3. /\ Lives(t) /\ Sum(t) = t.snd_una + t.sbuf /\ t.snd_una <= t.snd_nxt
      /\ t.snd_una \in Nat /\ t.sbuf \in Nat /\ t.snd_nxt \in Nat
  BY <1>1, EndTypes
<1> HIDE DEF t
<1>4. t.t_ack \/ Sum(t) > t.snd_nxt
  BY <1>1, <1>3 DEF Lives, AckPart, t
<1>5. Sum(t) > t.snd_nxt => t.sbuf # 0
  BY <1>3
<1> QED
  BY <1>2, <1>4, <1>5 DEF NoStall, t

LEMMA WokenInv == IInv => UserIsWoken
<1>1. SUFFICES ASSUME IInv, NEW e \in End, tcb[e].state # "CLOSED"
               PROVE  /\ tcb[e].bReadEnable => tcb[e].rbuf = << >>
                      /\ tcb[e].bWriteEnable => tcb[e].sbuf >= Refill
  BY DEF UserIsWoken
<1> DEFINE t == tcb[e]
<1>2. Lives(t) /\ RecvOK(t)
  BY <1>1, EndTypes
<1>3. ReadWaits(t) /\ Woken(t) /\ t.rbuf \in Seq(Byte)
  BY <1>1, <1>2 DEF Lives, RecvOK
<1> HIDE DEF t
<1>4. t.bReadEnable => t.rbuf = << >>
  BY <1>3 DEF ReadWaits
<1> QED
  BY <1>3, <1>4 DEF Woken, t

LEMMA IntactInv == IInv => StreamIntact
<1>1. SUFFICES ASSUME IInv, NEW e \in End \ early, NEW i \in DOMAIN tcb[e].rbuf
               PROVE  tcb[e].rbuf[i] = ConnectLen + tcb[e].nread + i - 1
  BY DEF StreamIntact, Intact
<1> DEFINE t == tcb[e]
<1>2. RecvOK(t) /\ IsRight(t)
  BY <1>1, EndTypes DEF IInv, RightOK
<1> HIDE DEF t
<1>3. t.rbuf \in Seq(Byte) /\ t.nread \in Nat /\ i \in DOMAIN t.rbuf
  BY <1>1, <1>2 DEF RecvOK, t
<1>4. i \in 1..Len(t.rbuf) /\ i \in Nat
  BY <1>3
<1>5. t.rbuf[i] \in Int
  BY <1>3, <1>4, TopBounds DEF Byte, Garbage
<1>6. t.rbuf[i] = ConnectLen + t.nread + i - 1
  <2>1. PICK b \in Int : b = t.rbuf[i]
    BY <1>5
  <2>2. b + 1 = ConnectLen + t.nread + i
    BY <2>1, <1>2, <1>4 DEF IsRight, ReadsRight, Right
  <2>3. b = ConnectLen + t.nread + i - 1
    <3>1. ConnectLen \in Nat /\ t.nread \in Nat /\ i \in Nat
      BY <1>3, <1>4, ConstantTypes
    <3> QED
      BY <2>2, <3>1
  <2> QED
    BY <2>1, <2>3
<1> QED
  BY <1>6 DEF t

(* The members keep their types.  This bounds the sequence numbers by what *)
(* the users wrote.                                                        *)
THEOREM TypeCorrect == Spec => []TypeOK
BY TypesInv, Invariant, PTL

(* What Recv() gives the user are the bytes the peer sent, each once and   *)
(* in order, of every end that stored no data before the connect message.  *)
THEOREM StreamsAreIntact == Spec => []StreamIntact
BY IntactInv, Invariant, PTL

(* queue(), transmit() and process() keep the segments to send in order,   *)
(* those that were sent first, and the timer with them.                    *)
THEOREM SegmentsAreInOrder == Spec => []SegmentsFollow
BY SegmentsInv, Invariant, PTL

(* No packet that process() takes, however late, makes an end believe in   *)
(* more room than Recv() left in the buffer of its peer.                   *)
THEOREM WindowsFit == Spec => []WindowIsRoom
BY WindowInv, Invariant, PTL

(* After attemptSend() something that waits to be sent has a timer, unless *)
(* the network refused a packet.                                           *)
THEOREM NothingStalls == Spec => []NeverStalls
BY StallsInv, Invariant, PTL

(* What process() took and did not ack has a timer of NotifyClock() or     *)
(* waits with data that has one.                                           *)
THEOREM AcksAreDue == Spec => []AckIsDue
BY AckInv, Invariant, PTL

(* Recv() and Send() that made the user wait set the flag by which         *)
(* process() tells him, and he is told.                                    *)
THEOREM UsersAreWoken == Spec => []UserIsWoken
BY WokenInv, Invariant, PTL

---------------------------------------------------------------------------
(* The refinement: an action of PseudoTcp is one of ByteStream, or nothing *)
(* that its users see.                                                     *)

(* What the user of an end wrote.                                          *)
Wrote(t) == LET n == (t.snd_una + t.sbuf) - ConnectLen IN IF n < 0 THEN 0 ELSE n

LEMMA StreamStutters ==
  ASSUME \A x \in End : Wrote(tcb'[x]) = Wrote(tcb[x]) /\ Shows(tcb'[x], tcb[x]),
         early' = early
  PROVE  UNCHANGED Stream!streamVars
BY DEF Stream!streamVars, Shows, Wrote

LEMMA StreamWrites ==
  ASSUME NEW e \in End, \A x \in End : x # e => tcb'[x] = tcb[x], Shows(tcb'[e], tcb[e]),
         Wrote(tcb'[e]) > Wrote(tcb[e]), early' = early,
         \/ tcb[Peer(e)].shutdown \/ Peer(e) \in early
         \/ Wrote(tcb'[e]) - (tcb[Peer(e)].nread + Len(tcb[Peer(e)].rbuf)) <= SndBuf
  PROVE  Stream!Write(e)
<1>1. /\ [x \in End |-> tcb'[x].nread] = [x \in End |-> tcb[x].nread]
      /\ [x \in End |-> tcb'[x].rbuf] = [x \in End |-> tcb[x].rbuf]
      /\ [x \in End |-> tcb'[x].shutdown] = [x \in End |-> tcb[x].shutdown]
  BY DEF Shows
<1>2. [x \in End |-> Wrote(tcb'[x])] = [[x \in End |-> Wrote(tcb[x])] EXCEPT ![e] = Wrote(tcb'[e])]
  OBVIOUS
<1>3. \A p \in End \ ({e} \cup early) :
        tcb[p].shutdown \/ Wrote(tcb'[e]) - (tcb[p].nread + Len(tcb[p].rbuf)) <= SndBuf
  BY TheEnds
<1> QED
  BY <1>1, <1>2, <1>3 DEF Stream!Write, Stream!Arrived, Wrote

LEMMA StreamReads ==
  ASSUME NEW e \in End, \A x \in End : x # e => tcb'[x] = tcb[x],
         \A x \in End : Wrote(tcb'[x]) = Wrote(tcb[x]) /\ tcb'[x].shutdown = tcb[x].shutdown,
         tcb[e].rbuf \in Seq(Byte), tcb[e].nread \in Nat,
         NEW n \in 1..Len(tcb[e].rbuf), ReadsOff(tcb'[e], tcb[e], n), early' = early
  PROVE  Stream!Read(e)
<1>1. /\ [x \in End |-> Wrote(tcb'[x])] = [x \in End |-> Wrote(tcb[x])]
      /\ [x \in End |-> tcb'[x].shutdown] = [x \in End |-> tcb[x].shutdown]
  OBVIOUS
<1>2. /\ tcb'[e].nread - tcb[e].nread = n
      /\ tcb'[e].nread \in (tcb[e].nread + 1) .. (tcb[e].nread + Len(tcb[e].rbuf))
      /\ tcb'[e].rbuf = SubSeq(tcb[e].rbuf, n + 1, Len(tcb[e].rbuf))
  BY DEF ReadsOff
<1>3. [x \in End |-> tcb'[x].nread] = [[x \in End |-> tcb[x].nread] EXCEPT ![e] = tcb'[e].nread]
  OBVIOUS
<1>4. [x \in End |-> tcb'[x].rbuf]
        = [[x \in End |-> tcb[x].rbuf] EXCEPT
             ![e] = SubSeq(@, tcb'[e].nread - tcb[e].nread + 1, Len(@))]
  BY <1>2
<1> QED
  BY <1>1, <1>2, <1>3, <1>4 DEF Stream!Read, Stream!Arrived, Wrote

LEMMA StreamCloses ==
  ASSUME NEW e \in End, \A x \in End : x # e => tcb'[x] = tcb[x],
         \A x \in End : Wrote(tcb'[x]) = Wrote(tcb[x]),
         tcb'[e].rbuf = tcb[e].rbuf, tcb'[e].nread = tcb[e].nread,
         tcb[e].shutdown = FALSE, tcb'[e].shutdown = TRUE, early' = early
  PROVE  Stream!Close(e)
<1>1. /\ [x \in End |-> Wrote(tcb'[x])] = [x \in End |-> Wrote(tcb[x])]
      /\ [x \in End |-> tcb'[x].nread] = [x \in End |-> tcb[x].nread]
      /\ [x \in End |-> tcb'[x].rbuf] = [x \in End |-> tcb[x].rbuf]
  OBVIOUS
<1>2. [x \in End |-> tcb'[x].shutdown] = [[x \in End |-> tcb[x].shutdown] EXCEPT ![e] = TRUE]
  OBVIOUS
<1> QED
  BY <1>1, <1>2 DEF Stream!Close, Wrote

LEMMA StreamSpoils ==
  ASSUME NEW e \in End, e \notin early, early' = early \cup {e},
         \A x \in End : Wrote(tcb'[x]) = Wrote(tcb[x]) /\ Shows(tcb'[x], tcb[x])
  PROVE  Stream!Spoil(e)
BY DEF Stream!Spoil, Wrote, Shows

LEMMA JoinedIs ==
  ASSUME NEW S, NEW a \in Seq(S), NEW b \in Seq(S), NEW c \in Seq(S),
         Fill(Len(a), Len(c), Len(b)), Grows(b, a),
         \A i \in 1..Len(c), j \in 1..Len(b) : Fill(Len(a), i, j) => c[i] = b[j]
  PROVE  b = a \o c
<1>1. Len(a) \in Nat /\ Len(b) \in Nat /\ Len(c) \in Nat
  OBVIOUS
<1>2. Len(a) + Len(c) = Len(b)
  BY DEF Fill
<1>3. /\ a \o c \in Seq(S) /\ Len(a \o c) = Len(b)
      /\ \A i \in 1..Len(a) : (a \o c)[i] = a[i]
      /\ \A i \in 1..Len(c) : (a \o c)[Len(a) + i] = c[i]
  BY <1>1, <1>2
<1>4. ASSUME NEW j \in 1..Len(b)
      PROVE  (a \o c)[j] = b[j]
  <2>1. CASE j <= Len(a)
    <3>1. j \in 1..Len(a)
      BY <2>1, <1>1
    <3> QED
      BY <3>1, <1>3 DEF Grows
  <2>2. CASE j > Len(a)
    <3>1. PICK i \in 1..Len(c) : j = Len(a) + i
      <4>1. j - Len(a) \in 1..Len(c) /\ j = Len(a) + (j - Len(a))
        BY <2>2, <1>1, <1>2
      <4> QED
        BY <4>1
    <3>2. c[i] = b[j]
      BY <3>1 DEF Fill
    <3> QED
      BY <3>1, <3>2, <1>3
  <2>3. j <= Len(a) \/ j > Len(a)
    BY <1>1
  <2> QED
    BY <2>1, <2>2, <2>3
<1> DEFINE d == a \o c
<1>5. /\ d \in Seq(S) /\ Len(d) = Len(b) /\ \A j \in 1..Len(b) : d[j] = b[j]
  BY <1>3, <1>4
<1> HIDE DEF d
<1>6. d = [j \in 1..Len(d) |-> d[j]] /\ b = [j \in 1..Len(b) |-> b[j]]
  BY <1>5
<1>7. d = b
  BY <1>5, <1>6
<1> QED
  BY <1>7 DEF d

LEMMA StreamArrives ==
  ASSUME NEW e \in End, \A x \in End : x # e => tcb'[x] = tcb[x],
         \A x \in End : Wrote(tcb'[x]) = Wrote(tcb[x]),
         tcb'[e].nread = tcb[e].nread, tcb'[e].shutdown = tcb[e].shutdown,
         tcb[e].shutdown = FALSE, tcb[e].nread \in Nat,
         tcb[e].rbuf \in Seq(Byte), tcb'[e].rbuf \in Seq(Byte),
         Grows(tcb'[e].rbuf, tcb[e].rbuf), Len(tcb'[e].rbuf) > Len(tcb[e].rbuf),
         Len(tcb'[e].rbuf) <= RcvBuf, early' = early,
         \/ e \in early
         \/ /\ tcb[e].nread + Len(tcb'[e].rbuf) <= Wrote(tcb[Peer(e)])
            /\ ReadsRight(tcb'[e])
  PROVE  Stream!Arrive(e)
<1> DEFINE a == tcb[e].rbuf
           b == tcb'[e].rbuf
           n == Len(b) - Len(a)
           next == [i \in 1..n |-> IF e \in early THEN b[Len(a) + i]
                                   ELSE ConnectLen + (tcb[e].nread + Len(a)) + i - 1]
<1>1. /\ [x \in End |-> Wrote(tcb'[x])] = [x \in End |-> Wrote(tcb[x])]
      /\ [x \in End |-> tcb'[x].nread] = [x \in End |-> tcb[x].nread]
      /\ [x \in End |-> tcb'[x].shutdown] = [x \in End |-> tcb[x].shutdown]
  OBVIOUS
<1> HIDE DEF a, b, n, next
<1>2. /\ Len(a) \in Nat /\ Len(b) \in Nat /\ n \in Nat \ {0} /\ Fill(Len(a), n, Len(b))
      /\ Len(b) \in (Len(a) + 1) .. RcvBuf
  <2>1. Len(a) \in Nat /\ Len(b) \in Nat /\ Len(a) < Len(b) /\ Len(b) <= RcvBuf
    BY DEF a, b
  <2> QED
    BY <2>1, ConstantTypes DEF n, Fill
<1>3. ASSUME NEW i \in 1..n, NEW j \in 1..Len(b), Fill(Len(a), i, j)
      PROVE  next[i] = b[j] /\ b[j] \in Byte
  <2>1. Len(a) + i = j
    BY <1>3 DEF Fill
  <2>2. b[j] \in Byte
    BY DEF b
  <2>3. CASE e \in early
    BY <2>1, <2>2, <2>3 DEF next
  <2>4. CASE e \notin early
    <3>1. PICK k \in Int : k = b[j]
      BY <2>2, TopBounds DEF Byte, Garbage
    <3>2. Right(k, ConnectLen + tcb'[e].nread, j)
      BY <3>1, <2>4 DEF ReadsRight, b
    <3>3. k + 1 = ConnectLen + tcb[e].nread + j
      BY <3>2 DEF Right
    <3>4. k = ConnectLen + (tcb[e].nread + Len(a)) + i - 1
      <4>1. PICK nread \in Nat : nread = tcb[e].nread
        OBVIOUS
      <4>2. k + 1 = ConnectLen + nread + j
        BY <3>3, <4>1
      <4>3. k = ConnectLen + (nread + Len(a)) + i - 1
        BY <4>2, <2>1, <1>2, ConstantTypes
      <4> QED
        BY <4>1, <4>3
    <3> QED
      BY <3>1, <3>4, <2>2, <2>4 DEF next
  <2> QED
    BY <2>3, <2>4
<1>4. b = a \o next
  <2>1. a \in Seq(Byte) /\ b \in Seq(Byte) /\ Grows(b, a)
    BY DEF a, b
  <2>2. ASSUME NEW i \in 1..n
        PROVE  next[i] \in Byte
    <3>1. Len(a) + i \in 1..Len(b) /\ Fill(Len(a), i, Len(a) + i)
      <4>1. PICK l \in Nat, m \in Nat : l = Len(a) /\ m = Len(b)
        BY <1>2
      <4>2. l + n = m
        BY <4>1, <1>2 DEF Fill
      <4>3. l + i \in 1..m
        BY <4>2, <1>2
      <4> QED
        BY <4>1, <4>3 DEF Fill
    <3>2. PICK j \in 1..Len(b) : Fill(Len(a), i, j)
      BY <3>1
    <3> QED
      BY <3>2, <1>3
  <2>3. next \in [1..n -> Byte] /\ DOMAIN next = 1..n
    BY <2>2 DEF next
  <2>4. next \in Seq(Byte) /\ Len(next) = n
    BY <2>3, <1>2
  <2>5. Fill(Len(a), Len(next), Len(b))
    BY <2>4, <1>2
  <2>6. \A i \in 1..Len(next), j \in 1..Len(b) : Fill(Len(a), i, j) => next[i] = b[j]
    BY <2>4, <1>3
  <2> QED
    BY <2>1, <2>4, <2>5, <2>6, JoinedIs
<1>5. [x \in End |-> tcb'[x].rbuf] = [[x \in End |-> tcb[x].rbuf] EXCEPT ![e] = @ \o next]
  BY <1>4 DEF a, b
<1>6. \/ e \in early
      \/ \A p \in End \ {e} : (tcb[e].nread + Len(a)) + n <= Wrote(tcb[p])
  <2>1. CASE e \in early
    BY <2>1
  <2>2. CASE e \notin early
    <3>1. PICK w : w = Wrote(tcb[Peer(e)])
      OBVIOUS
    <3>2. (tcb[e].nread + Len(a)) + n = tcb[e].nread + Len(b)
      <4>1. PICK l \in Nat, m \in Nat, k \in Nat : l = Len(a) /\ m = Len(b) /\ k = tcb[e].nread
        BY <1>2
      <4>2. l + n = m
        BY <4>1, <1>2 DEF Fill
      <4>3. (k + l) + n = k + m
        BY <4>2, <1>2
      <4> QED
        BY <4>1, <4>3
    <3>3. tcb[e].nread + Len(b) <= w
      BY <3>1, <2>2 DEF b
    <3>4. \A p \in End \ {e} : p = Peer(e)
      BY TheEnds
    <3> QED
      BY <3>1, <3>2, <3>3, <3>4
  <2> QED
    BY <2>1, <2>2
<1> QED
  BY <1>1, <1>2, <1>5, <1>6 DEF Stream!Arrive, Stream!Arrived, Wrote, a, b, n, next

LEMMA WroteSame ==
  ASSUME NEW v, NEW u, Quiet(v, u)
  PROVE  Wrote(v) = Wrote(u)
<1>1. Wrote(v) = IF Sum(v) - ConnectLen < 0 THEN 0 ELSE Sum(v) - ConnectLen
  BY DEF Wrote, Sum
<1>2. Wrote(u) = IF Sum(u) - ConnectLen < 0 THEN 0 ELSE Sum(u) - ConnectLen
  BY DEF Wrote, Sum
<1>3. CASE Sum(v) = Sum(u)
  BY <1>1, <1>2, <1>3
<1>4. CASE Sum(u) = 0 /\ Sum(v) = ConnectLen
  BY <1>1, <1>2, <1>4, ConstantTypes
<1> QED
  BY <1>3, <1>4 DEF Quiet

LEMMA WroteIs ==
  ASSUME NEW v, Sum(v) \in Nat, Sum(v) >= ConnectLen
  PROVE  Wrote(v) = Sum(v) - ConnectLen
<1>1. Wrote(v) = IF Sum(v) - ConnectLen < 0 THEN 0 ELSE Sum(v) - ConnectLen
  BY DEF Wrote, Sum
<1> QED
  BY <1>1, ConstantTypes

LEMMA WroteAll ==
  ASSUME NEW e \in End, NEW v, Turns(v, e), Quiet(v, tcb[e])
  PROVE  \A x \in End : Wrote(tcb'[x]) = Wrote(tcb[x])
<1>1. tcb'[e] = v /\ \A x \in End : x # e => tcb'[x] = tcb[x]
  BY DEF Turns, Replaced
<1>2. Wrote(tcb'[e]) = Wrote(tcb[e])
  BY <1>1, WroteSame
<1> QED
  BY <1>1, <1>2

LEMMA QuietTurn ==
  ASSUME NEW e \in End, NEW v, Turns(v, e), Quiet(v, tcb[e]), Shows(v, tcb[e])
  PROVE  /\ \A x \in End : Wrote(tcb'[x]) = Wrote(tcb[x]) /\ Shows(tcb'[x], tcb[x])
         /\ early' = early => UNCHANGED Stream!streamVars
<1>1. tcb'[e] = v /\ \A x \in End : x # e => tcb'[x] = tcb[x]
  BY DEF Turns, Replaced
<1>2. \A x \in End : Shows(tcb'[x], tcb[x])
  BY <1>1 DEF Shows
<1>3. \A x \in End : Wrote(tcb'[x]) = Wrote(tcb[x]) /\ Shows(tcb'[x], tcb[x])
  BY <1>2, WroteAll
<1> QED
  BY <1>3, StreamStutters

LEMMA SendMaps ==
  ASSUME IInv, NEW e \in End, Send(e)
  PROVE  Stream!Write(e) \/ UNCHANGED Stream!streamVars
<1>1. Most /\ early' = early
  BY DEF IInv, Send
<1>2. PICK v : /\ Turns(v, e) /\ Shows(v, tcb[e])
               /\ Sum(tcb[e]) >= ConnectLen /\ Sum(v) >= Sum(tcb[e])
  BY <1>1, SendStep
<1>3. CASE Sum(v) = Sum(tcb[e])
  BY <1>1, <1>2, <1>3, QuietTurn DEF Quiet
<1>4. CASE Sum(v) # Sum(tcb[e])
  <2> DEFINE p == tcb[Peer(e)]
             had == p.nread + Len(p.rbuf)
  <2>1. EndsOK(tcb') /\ tcb'[e] = v /\ tcb'[Peer(e)] = p /\ \A x \in End : x # e => tcb'[x] = tcb[x]
    BY <1>2, TheEnds DEF Turns, Replaced
  <2>2. Core(v, p) /\ PeerOK(v) /\ PeerOK(p)
    BY <2>1, EndFacts
  <2> HIDE DEF p
  <2>3. Pair(v, p) /\ SendOK(v) /\ RecvOK(p)
    BY <2>2 DEF Core, SendSide, PeerOK
  <2>4. /\ v.snd_una \in Nat /\ v.sbuf \in Nat /\ v.sbuf <= SndBuf /\ Sum(v) = v.snd_una + v.sbuf
        /\ Sum(v) \in Nat /\ v.snd_una <= p.rcv_nxt /\ p.rcv_nxt \in Nat
    <3>1. v.snd_una \in Nat /\ v.sbuf \in 0..SndBuf
      BY <2>3 DEF SendOK
    <3>2. v.snd_una <= p.rcv_nxt /\ p.rcv_nxt \in Nat
      BY <2>3 DEF Pair, RecvOK
    <3> QED
      BY <3>1, <3>2, ConstantTypes DEF Sum
  <2>5. Sum(tcb[e]) \in Nat
    BY <1>1, EndSums
  <2>6. Wrote(v) = Sum(v) - ConnectLen /\ Wrote(tcb[e]) = Sum(tcb[e]) - ConnectLen
    <3>1. Sum(v) >= ConnectLen
      BY <1>2, <2>4, <2>5, ConstantTypes
    <3> QED
      BY <3>1, <2>4, <2>5, <1>2, WroteIs
  <2>7. Wrote(v) > Wrote(tcb[e])
    <3>1. Sum(v) > Sum(tcb[e])
      BY <1>2, <1>4, <2>4, <2>5
    <3> QED
      BY <3>1, <2>4, <2>5, <2>6, ConstantTypes
  <2>8. ~p.shutdown => Wrote(v) - had <= SndBuf
    <3>1. SUFFICES ASSUME ~p.shutdown PROVE Wrote(v) - had <= SndBuf
      OBVIOUS
    <3>2. Counts(p) /\ p.nread \in Nat /\ p.rbuf \in Seq(Byte)
      BY <3>1, <2>3 DEF RecvOK
    <3>3. PICK l \in Nat, m \in Nat : l = Len(p.rbuf) /\ m = p.nread
      BY <3>2
    <3>4. had = m + l
      BY <3>3
    <3>5. /\ p.rcv_nxt <= ConnectLen => m + l = 0
          /\ p.rcv_nxt >= ConnectLen => p.rcv_nxt = ConnectLen + m + l
      BY <3>2, <3>3 DEF Counts
    <3> HIDE DEF had
    <3>6. Sum(v) - ConnectLen - (m + l) <= SndBuf
      BY <3>5, <2>4, ConstantTypes
    <3> QED
      BY <3>4, <3>6, <2>6
  <2>9. \/ tcb[Peer(e)].shutdown
        \/ Wrote(tcb'[e]) - (tcb[Peer(e)].nread + Len(tcb[Peer(e)].rbuf)) <= SndBuf
    BY <2>1, <2>8 DEF p, had
  <2>10. Wrote(tcb'[e]) > Wrote(tcb[e]) /\ Shows(tcb'[e], tcb[e])
    BY <2>1, <2>7, <1>2
  <2>11. Stream!Write(e)
    BY <2>1, <2>9, <2>10, <1>1, StreamWrites
  <2> QED
    BY <2>11
<1> QED
  BY <1>3, <1>4

LEMMA ReceiveMaps ==
  ASSUME IInv, NEW e \in End, Receive(e)
  PROVE  Stream!Arrive(e) \/ Stream!Spoil(e) \/ UNCHANGED Stream!streamVars
<1>1. Most /\ early \subseteq End /\ RightOK(tcb, early)
  BY DEF IInv
<1> DEFINE u == tcb[e]
           p == tcb[Peer(e)]
<1>2. PICK v : Turns(v, e) /\ ReceiveShows(v, u, e)
  BY <1>1, ReceiveStep
<1>3. /\ v.nread = u.nread /\ v.shutdown = u.shutdown /\ Grows(v.rbuf, u.rbuf) /\ Quiet(v, u)
      /\ u.shutdown => v.rbuf = u.rbuf
      /\ e \notin early' => (IsRight(u) => IsRight(v))
      /\ \/ early' = early
         \/ early' = early \cup {e} /\ v.rbuf = u.rbuf
  BY <1>2 DEF ReceiveShows
<1>4. CASE v.rbuf = u.rbuf
  <2>1. Shows(v, u)
    BY <1>3, <1>4 DEF Shows
  <2>2. /\ \A x \in End : Wrote(tcb'[x]) = Wrote(tcb[x]) /\ Shows(tcb'[x], tcb[x])
        /\ early' = early => UNCHANGED Stream!streamVars
    BY <2>1, <1>2, <1>3, QuietTurn
  <2>3. CASE early' = early
    BY <2>2, <2>3
  <2>4. CASE early' # early
    <3>1. e \notin early /\ early' = early \cup {e}
      BY <2>4, <1>3
    <3>2. Stream!Spoil(e)
      BY <3>1, <2>2, StreamSpoils
    <3> QED
      BY <3>2
  <2> QED
    BY <2>3, <2>4
<1>5. CASE v.rbuf # u.rbuf
  <2>1. early' = early /\ ~u.shutdown
    BY <1>3, <1>5
  <2>2. EndsOK(tcb') /\ tcb'[e] = v /\ tcb'[Peer(e)] = p /\ \A x \in End : x # e => tcb'[x] = tcb[x]
    BY <1>2, TheEnds DEF Turns, Replaced
  <2>3. Core(v, p) /\ PeerOK(v) /\ PeerOK(p) /\ RecvOK(v) /\ RecvOK(u)
    BY <2>2, <1>1, EndFacts DEF PeerOK, Most
  <2>4. \A x \in End : Wrote(tcb'[x]) = Wrote(tcb[x])
    BY <1>2, <1>3, WroteAll
  <2> HIDE DEF u, p
  <2>5. /\ u.rbuf \in Seq(Byte) /\ v.rbuf \in Seq(Byte) /\ u.nread \in Nat /\ Pair(p, v)
        /\ u.shutdown \in BOOLEAN /\ v.rcv_nxt \in Nat /\ (~v.shutdown => Counts(v))
    BY <2>3 DEF RecvOK, Core, RecvSide
  <2>6. PICK m \in Nat, l \in Nat, k \in Nat : m = u.nread /\ l = Len(u.rbuf) /\ k = Len(v.rbuf)
    BY <2>5
  <2>7. l < k
    <3>1. SUFFICES ASSUME l = k PROVE FALSE
      BY <2>6, <1>3 DEF Grows
    <3>2. \A i \in 1..Len(u.rbuf) : v.rbuf[i] = u.rbuf[i]
      BY <1>3 DEF Grows
    <3>3. /\ u.rbuf = [i \in 1..Len(u.rbuf) |-> u.rbuf[i]]
          /\ v.rbuf = [i \in 1..Len(v.rbuf) |-> v.rbuf[i]]
      BY <2>5
    <3> QED
      BY <3>1, <3>2, <3>3, <2>6, <1>5
  <2>8. k <= RcvBuf
    <3>1. Len(v.rbuf) \in 0..RcvBuf
      BY <2>3, RecvTypes
    <3> QED
      BY <3>1, <2>6, ConstantTypes
  <2>9. e \in early \/ (m + k <= Wrote(p) /\ ReadsRight(v))
    <3>1. SUFFICES ASSUME e \notin early PROVE m + k <= Wrote(p) /\ ReadsRight(v)
      OBVIOUS
    <3>2. IsRight(u)
      BY <3>1, <1>1 DEF RightOK, u
    <3>3. ReadsRight(v)
      BY <3>1, <3>2, <2>1, <1>3 DEF IsRight
    <3>4. /\ v.rcv_nxt <= ConnectLen => m + k = 0
          /\ v.rcv_nxt >= ConnectLen => v.rcv_nxt = ConnectLen + m + k
      BY <2>1, <2>5, <2>6, <1>3 DEF Counts
    <3>5. v.rcv_nxt <= Sum(p) /\ Sum(p) \in Nat
      <4>1. IsEnd(p, v.rcv_nxt)
        BY <2>5 DEF Pair
      <4> QED
        BY <4>1, <2>3, <2>5, EndBelow
    <3>6. v.rcv_nxt = ConnectLen + m + k /\ Sum(p) >= ConnectLen /\ m + k <= Sum(p) - ConnectLen
      BY <3>4, <3>5, <2>5, <2>7, ConstantTypes
    <3>7. m + k <= Wrote(p)
      BY <3>5, <3>6, WroteIs
    <3> QED
      BY <3>3, <3>7
  <2>10. Stream!Arrive(e)
    <3>1. /\ tcb'[e].nread = tcb[e].nread /\ tcb'[e].shutdown = tcb[e].shutdown
          /\ tcb[e].shutdown = FALSE /\ tcb[e].nread \in Nat
          /\ tcb[e].rbuf \in Seq(Byte) /\ tcb'[e].rbuf \in Seq(Byte)
          /\ Grows(tcb'[e].rbuf, tcb[e].rbuf)
      BY <2>1, <2>2, <2>5, <1>3 DEF u
    <3>2. Len(tcb'[e].rbuf) > Len(tcb[e].rbuf) /\ Len(tcb'[e].rbuf) <= RcvBuf
      BY <2>2, <2>6, <2>7, <2>8 DEF u
    <3>3. \/ e \in early
          \/ /\ tcb[e].nread + Len(tcb'[e].rbuf) <= Wrote(tcb[Peer(e)])
             /\ ReadsRight(tcb'[e])
      BY <2>2, <2>6, <2>9 DEF u, p
    <3> QED
      BY <3>1, <3>2, <3>3, <2>1, <2>2, <2>4, StreamArrives
  <2> QED
    BY <2>10
<1> QED
  BY <1>4, <1>5

LEMMA RecvMaps ==
  ASSUME IInv, NEW e \in End, Recv(e)
  PROVE  Stream!Read(e) \/ UNCHANGED Stream!streamVars
<1>1. Most /\ early' = early
  BY DEF IInv, Recv
<1>2. PICK v : /\ Turns(v, e) /\ Sum(v) = Sum(tcb[e])
               /\ \/ Shows(v, tcb[e])
                  \/ \E n \in 1..Len(tcb[e].rbuf) :
                       ReadsOff(v, tcb[e], n) /\ v.shutdown = tcb[e].shutdown
  BY <1>1, RecvStep
<1>3. Quiet(v, tcb[e])
  BY <1>2 DEF Quiet
<1>4. CASE Shows(v, tcb[e])
  BY <1>1, <1>2, <1>3, <1>4, QuietTurn
<1>5. ASSUME NEW n \in 1..Len(tcb[e].rbuf), ReadsOff(v, tcb[e], n), v.shutdown = tcb[e].shutdown
      PROVE  Stream!Read(e)
  <2>1. tcb'[e] = v /\ \A x \in End : x # e => tcb'[x] = tcb[x]
    BY <1>2 DEF Turns, Replaced
  <2>2. \A x \in End : Wrote(tcb'[x]) = Wrote(tcb[x]) /\ tcb'[x].shutdown = tcb[x].shutdown
    BY <2>1, <1>2, <1>3, <1>5, WroteAll
  <2>3. RecvOK(tcb[e])
    BY <1>1, EndFacts DEF Most, PeerOK
  <2>4. tcb[e].rbuf \in Seq(Byte) /\ tcb[e].nread \in Nat
    BY <2>3 DEF RecvOK
  <2>5. ReadsOff(tcb'[e], tcb[e], n)
    BY <2>1, <1>5
  <2> QED
    BY <2>1, <2>2, <2>4, <2>5, <1>1, StreamReads
<1> QED
  BY <1>2, <1>4, <1>5

LEMMA CloseMaps ==
  ASSUME IInv, NEW e \in End, Close(e)
  PROVE  Stream!Close(e)
<1>1. Most /\ early' = early
  BY DEF IInv, Close
<1>2. PICK v : /\ Turns(v, e) /\ Sum(v) = Sum(tcb[e])
               /\ v.rbuf = tcb[e].rbuf /\ v.nread = tcb[e].nread /\ v.shutdown = TRUE
               /\ tcb[e].shutdown = FALSE
  BY <1>1, CloseStep
<1>3. tcb'[e] = v /\ \A x \in End : x # e => tcb'[x] = tcb[x]
  BY <1>2 DEF Turns, Replaced
<1>4. \A x \in End : Wrote(tcb'[x]) = Wrote(tcb[x])
  BY <1>2, WroteAll DEF Quiet
<1> QED
  BY <1>1, <1>2, <1>3, <1>4, StreamCloses

LEMMA StepMaps ==
  ASSUME IInv, [Next]_vars
  PROVE  [Stream!Next]_Stream!streamVars
<1>1. Most
  BY DEF IInv
<1>2. CASE UNCHANGED << tcb, early >>
  BY <1>2, StreamStutters DEF Shows
<1>3. ASSUME NEW e \in End, Connect(e) \/ NotifyClock(e)
      PROVE  UNCHANGED Stream!streamVars
  <2>1. early' = early
    BY <1>3 DEF Connect, NotifyClock
  <2>2. \E v : Turns(v, e) /\ Shows(v, tcb[e]) /\ Quiet(v, tcb[e])
    BY <1>1, <1>3, ConnectStep, ClockStep DEF Quiet
  <2> QED
    BY <2>1, <2>2, QuietTurn
<1>4. ASSUME NEW e \in End, Send(e) \/ Receive(e) \/ Recv(e) \/ Close(e)
      PROVE  Stream!Next \/ UNCHANGED Stream!streamVars
  BY <1>4, SendMaps, ReceiveMaps, RecvMaps, CloseMaps DEF Stream!Next
<1>5. CASE Lose \/ UNCHANGED vars
  BY <1>2, <1>5 DEF Lose, vars
<1> QED
  BY <1>3, <1>4, <1>5 DEF Next

LEMMA InitMaps == Init => Stream!Init
BY ConstantTypes DEF Init, Stream!Init

(* Whatever the network loses, delays and refuses, two ends are a pair of  *)
(* byte streams to their users: every step of connect(), Send(), Recv(),   *)
(* Close(), NotifyPacket() and NotifyClock() is a step of ByteStream or    *)
(* changes nothing of it.                                                  *)
THEOREM StreamImplemented == Spec => ImplementsStream
<1>1. Init => Stream!Init
  BY InitMaps
<1>2. IInv /\ [Next]_vars => [Stream!Next]_Stream!streamVars
  BY StepMaps
<1> QED
  BY <1>1, <1>2, Invariant, PTL DEF Spec, ImplementsStream, Stream!Spec

=============================================================================
