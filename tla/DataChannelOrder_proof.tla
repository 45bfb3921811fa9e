----------------------- MODULE DataChannelOrder_proof -----------------------
(***************************************************************************)
(* Proofs about the order of a DataChannel's messages: what the            *)
(* application sends, what the peer sends, and the OPEN before any data.   *)
(* As in DataChannel_proof, each operator of DataChannelOps has a lemma.   *)
(***************************************************************************)
EXTENDS DataChannel_proof

---------------------------------------------------------------------------
(* The inductive invariant, as a property of a channel for which Send      *)
(* returned true a times, which saw b messages, and which has heard of its *)
(* peer or not.                                                            *)

Live(c) == c.state \in {"kConnecting", "kOpen"}

(* The data in s are the messages 1 to k, in order.                        *)
Carries(s, k) ==
  /\ \A i \in 1..Len(s) : IsData(s[i]) => s[i].id \in 1..k
  /\ \A x \in 1..k : \E i \in 1..Len(s) : IsData(s[i]) /\ s[i].id = x
  /\ \A i, j \in 1..Len(s) :
       IsData(s[i]) /\ IsData(s[j]) /\ i < j => s[i].id < s[j].id

(* q is the messages after k up to n.                                      *)
Waits(q, k, n) == Len(q) = n - k /\ \A i \in 1..(n - k) : q[i] = k + i

Sends(c, a) ==
  \E n \in 0..a : \E k \in 0..n :
    /\ Carries(c.out, k) /\ Waits(c.sendq, k, n)
    /\ n + 1 >= a
    /\ Live(c) => n = a

(* s are messages up to b, in order; all of them if nothing was lost.      *)
Ascends(s, b) ==
  /\ \A i, j \in 1..Len(s) : i < j => s[i] < s[j]
  /\ \A i \in 1..Len(s) : s[i] <= b

Complete(s, b) == Len(s) = b /\ \A i \in 1..b : s[i] = i

Receives(c, b) ==
  /\ Ascends(c.got \o c.recvq, b)
  /\ Live(c) => Complete(c.got \o c.recvq, b)
  /\ c.state = "kOpen" /\ c.observer => c.recvq = << >>

(* The first message is the control message of the role; it has been sent  *)
(* once the handshake has come so far, and only then is there data; and    *)
(* until the peer is heard of, the handshake of an opener is not over.     *)
Done(c) == c.handshake \in {"kHandshakeReady", "kHandshakeWaitingForAck"}

Tells(c, h) ==
  /\ c.role = "kOpener" /\ c.out # << >> => c.out[1].type = "OPEN" /\ c.out[1].ordered
  /\ c.role = "kAcker" /\ c.out # << >> => c.out[1].type = "ACK"
  /\ c.role # "kNone" /\ Done(c) => c.out # << >>
  /\ c.sendq # << >> => Done(c)
  /\ c.handshake = "kHandshakeShouldSendAck" => c.role = "kAcker"
  /\ c.role = "kOpener" /\ ~h =>
       /\ c.handshake # "kHandshakeReady"
       /\ \A i \in 1..Len(c.out) : IsData(c.out[i]) => c.out[i].ordered

Good(c, a, b, h) == WellFormed(c) /\ Sends(c, a) /\ Receives(c, b) /\ Tells(c, h)

---------------------------------------------------------------------------
(* Sequences that grow.                                                    *)

LEMMA AppendIsJoin ==
  ASSUME NEW S, NEW s \in Seq(S), NEW e \in S
  PROVE  /\ << e >> \in [1..1 -> S] /\ Append(s, e) = s \o << e >>
         /\ << e >>[1] = e
<1>1. << e >> \in Seq(S) /\ Len(<< e >>) = 1 /\ << e >>[1] = e
  OBVIOUS
<1>2. << e >> \in [1..1 -> S]
  BY <1>1
<1>3. Append(s, e) = s \o << e >>
  BY AppendIsConcat
<1> QED BY <1>1, <1>2, <1>3

LEMMA CarriesMore ==
  ASSUME NEW s \in Seq(Message), NEW k \in Nat, Carries(s, k),
         NEW m \in Nat, NEW f, f \in [1..m -> Message],
         \A i \in 1..m : IsData(f[i]) /\ f[i].id = k + i
  PROVE  Carries(s \o f, k + m)
<1>1. PICK t : t = s \o f
  OBVIOUS
<1>2. /\ Len(t) = Len(s) + m /\ Len(s) \in Nat
      /\ \A i \in 1..Len(s) : i \in 1..Len(t) /\ t[i] = s[i]
      /\ \A i \in 1..m : Len(s) + i \in 1..Len(t) /\ t[Len(s) + i] = f[i]
      /\ \A i \in 1..Len(t) : i \notin 1..Len(s) =>
           i - Len(s) \in 1..m /\ t[i] = f[i - Len(s)]
  BY <1>1, Joined
<1>3. ASSUME NEW i \in 1..Len(t), IsData(t[i])
      PROVE  t[i].id \in 1..(k + m)
  <2>1. CASE i \in 1..Len(s)
    <3>1. s[i].id \in 1..k
      BY <1>2, <1>3, <2>1 DEF Carries
    <3> QED BY <1>2, <2>1, <3>1
  <2>2. CASE i \notin 1..Len(s)
    <3>1. PICK j \in 1..m : t[i] = f[j]
      BY <1>2, <2>2
    <3> QED BY <3>1
  <2> QED BY <2>1, <2>2
<1>4. ASSUME NEW x \in 1..(k + m)
      PROVE  \E i \in 1..Len(t) : IsData(t[i]) /\ t[i].id = x
  <2>1. CASE x <= k
    <3>1. PICK i \in 1..Len(s) : IsData(s[i]) /\ s[i].id = x
      BY <2>1 DEF Carries
    <3>2. i \in 1..Len(t) /\ t[i] = s[i]
      BY <1>2
    <3> QED BY <3>1, <3>2
  <2>2. CASE ~(x <= k)
    <3>1. x - k \in 1..m /\ x = k + (x - k)
      BY <2>2
    <3>2. /\ Len(s) + (x - k) \in 1..Len(t)
          /\ t[Len(s) + (x - k)] = f[x - k]
      BY <1>2, <3>1
    <3> QED BY <3>1, <3>2
  <2> QED BY <2>1, <2>2
<1>5. ASSUME NEW i \in 1..Len(t), NEW j \in 1..Len(t), IsData(t[i]), IsData(t[j]), i < j
      PROVE  t[i].id < t[j].id
  <2>1. CASE j \in 1..Len(s)
    <3>1. i \in 1..Len(s)
      BY <1>2, <1>5, <2>1
    <3> QED BY <1>2, <1>5, <2>1, <3>1 DEF Carries
  <2>2. CASE j \notin 1..Len(s)
    <3>1. PICK y \in 1..m : y = j - Len(s) /\ t[j].id = k + y
      BY <1>2, <2>2
    <3>2. CASE i \in 1..Len(s)
      <4>1. s[i].id \in 1..k
        BY <1>2, <1>5, <3>2 DEF Carries
      <4> QED BY <1>2, <3>1, <3>2, <4>1
    <3>3. CASE i \notin 1..Len(s)
      <4>1. PICK z \in 1..m : z = i - Len(s) /\ t[i].id = k + z
        BY <1>2, <3>3
      <4> QED BY <1>2, <1>5, <3>1, <4>1
    <3> QED BY <3>2, <3>3
  <2> QED BY <2>1, <2>2
<1>6. Carries(t, k + m)
  BY <1>3, <1>4, <1>5 DEF Carries
<1> QED BY <1>1, <1>6

LEMMA CarriesTheSame ==
  ASSUME NEW s \in Seq(Message), NEW k \in Nat, Carries(s, k),
         NEW m \in Nat, NEW f, f \in [1..m -> Message],
         \A i \in 1..m : ~IsData(f[i])
  PROVE  Carries(s \o f, k)
<1>1. PICK t : t = s \o f
  OBVIOUS
<1>2. /\ Len(t) = Len(s) + m /\ Len(s) \in Nat
      /\ \A i \in 1..Len(s) : i \in 1..Len(t) /\ t[i] = s[i]
      /\ \A i \in 1..m : Len(s) + i \in 1..Len(t) /\ t[Len(s) + i] = f[i]
      /\ \A i \in 1..Len(t) : i \notin 1..Len(s) =>
           i - Len(s) \in 1..m /\ t[i] = f[i - Len(s)]
  BY <1>1, Joined
<1>3. \A i \in 1..Len(t) : IsData(t[i]) => i \in 1..Len(s) /\ t[i] = s[i]
  BY <1>2
<1>4. \A i \in 1..Len(s) : i \in 1..Len(t) /\ t[i] = s[i]
  BY <1>2
<1>5. Carries(t, k)
  BY <1>3, <1>4 DEF Carries
<1> QED BY <1>1, <1>5

(* What a queue holds once its first m messages went out.                  *)
LEMMA WaitsRest ==
  ASSUME NEW q \in Seq(Nat), NEW n \in Nat, NEW k \in 0..n, Waits(q, k, n),
         NEW m \in 0..Len(q)
  PROVE  /\ k + m \in 0..n
         /\ Waits(SubSeq(q, m + 1, Len(q)), k + m, n)
<1>1. /\ Len(q) = n - k /\ Len(q) \in Nat /\ m \in Nat /\ k \in Nat
      /\ m + 1 \in Int /\ m <= Len(q)
  BY DEF Waits
<1>2. \A i \in (m + 1)..Len(q) : q[i] \in Nat
  BY <1>1
<1>3. PICK r : r = SubSeq(q, m + 1, Len(q))
  OBVIOUS
<1>4. /\ Len(r) = IF m + 1 <= Len(q) THEN Len(q) - (m + 1) + 1 ELSE 0
      /\ \A i \in 1..(Len(q) - (m + 1) + 1) : r[i] = q[m + 1 + i - 1]
  BY <1>1, <1>2, <1>3, SubSeqProperties
<1>5. Len(r) = n - (k + m)
  BY <1>1, <1>4
<1>6. ASSUME NEW i \in 1..(n - (k + m)) PROVE r[i] = (k + m) + i
  <2>1. i \in 1..(Len(q) - (m + 1) + 1) /\ m + 1 + i - 1 = m + i /\ m + i \in 1..(n - k)
    BY <1>1
  <2>2. r[i] = q[m + i]
    BY <1>4, <2>1
  <2>3. q[m + i] = k + (m + i)
    BY <2>1 DEF Waits
  <2> QED BY <1>1, <2>2, <2>3
<1> QED BY <1>1, <1>3, <1>5, <1>6 DEF Waits


---------------------------------------------------------------------------
(* What a step leaves alone.                                               *)

LEMMA SendsSame ==
  ASSUME NEW c, NEW d, NEW a \in Nat, Sends(c, a),
         d.out = c.out, d.sendq = c.sendq, Live(d) => Live(c)
  PROVE  Sends(d, a)
BY DEF Sends

LEMMA ReceivesSame ==
  ASSUME NEW c, NEW d, NEW b, Receives(c, b),
         d.got = c.got, d.recvq = c.recvq, Live(d) => Live(c),
         d.state = "kOpen" /\ d.observer => d.recvq = << >>
  PROVE  Receives(d, b)
BY DEF Receives

LEMMA TellsSame ==
  ASSUME NEW c, NEW d, NEW h, Tells(c, h), d.out = c.out, d.sendq = c.sendq,
         d.handshake = c.handshake, d.role = c.role
  PROVE  Tells(d, h)
BY DEF Tells, Done

(* A channel that is not live any more.                                    *)
LEMMA SendsLost ==
  ASSUME NEW c, NEW d, NEW a \in Nat, Sends(c, a), Live(c),
         d.out = c.out, d.sendq = c.sendq, ~Live(d)
  PROVE  Sends(d, a + 1)
<1>1. PICK n \in 0..a : \E k \in 0..n :
        /\ Carries(c.out, k) /\ Waits(c.sendq, k, n) /\ n + 1 >= a
        /\ Live(c) => n = a
  BY DEF Sends
<1>2. PICK k \in 0..n : Carries(c.out, k) /\ Waits(c.sendq, k, n)
  BY <1>1
<1>3. n \in 0..(a + 1) /\ n + 1 >= a + 1
  BY <1>1
<1> QED BY <1>2, <1>3 DEF Sends

LEMMA ClosingFields ==
  ASSUME NEW c \in Channel
  PROVE  /\ UpdateClosing(c).out = c.out /\ UpdateClosing(c).sendq = c.sendq
         /\ UpdateClosing(c).got = c.got /\ UpdateClosing(c).recvq = c.recvq
         /\ UpdateClosing(c).handshake = c.handshake
         /\ UpdateClosing(c).role = c.role
         /\ UpdateClosing(c).state \in {c.state, "kClosed"}
BY DEF UpdateClosing, Channel

LEMMA CloseFields ==
  ASSUME NEW c \in Channel
  PROVE  /\ Close(c).out = c.out /\ Close(c).sendq = c.sendq
         /\ Close(c).got = c.got /\ Close(c).recvq = c.recvq
         /\ Close(c).handshake = c.handshake /\ Close(c).role = c.role
         /\ Close(c).state \in {"kClosing", "kClosed"}
<1> DEFINE d == [c EXCEPT !.state = "kClosing"]
<1>1. /\ d \in Channel /\ d.state = "kClosing"
      /\ d.out = c.out /\ d.sendq = c.sendq /\ d.got = c.got
      /\ d.recvq = c.recvq /\ d.handshake = c.handshake /\ d.role = c.role
  BY DEF Channel, DataState
<1>2. Close(c) \in {c, UpdateClosing(d)} /\ (c.state # "kClosed" => Close(c) = UpdateClosing(d))
  BY DEF Close
<1> HIDE DEF d
<1> QED BY <1>1, <1>2, ClosingFields

LEMMA CloseGood ==
  ASSUME NEW c, NEW a \in Nat, NEW b \in Nat, NEW h, Good(c, a, b, h)
  PROVE  Good(Close(c), a, b, h)
<1>1. WellFormed(c) /\ Sends(c, a) /\ Receives(c, b) /\ Tells(c, h) /\ c \in Channel
  BY DEF Good, WellFormed
<1>0. PICK d : d = Close(c)
  OBVIOUS
<1>2. /\ d.out = c.out /\ d.sendq = c.sendq /\ d.got = c.got /\ d.recvq = c.recvq
      /\ d.handshake = c.handshake /\ d.role = c.role
      /\ d.state \in {"kClosing", "kClosed"}
  BY <1>0, <1>1, CloseFields
<1>3. ~Live(d) /\ d.state # "kOpen"
  BY <1>2 DEF Live
<1>4. Sends(d, a)
  BY <1>1, <1>2, <1>3, SendsSame
<1>5. Receives(d, b)
  BY <1>1, <1>2, <1>3, ReceivesSame
<1>6. Tells(d, h)
  BY <1>1, <1>2, TellsSame
<1>7. WellFormed(d)
  BY <1>0, <1>1, CloseKeeps DEF Keeps
<1> QED BY <1>0, <1>4, <1>5, <1>6, <1>7 DEF Good

---------------------------------------------------------------------------
(* Sending.                                                                *)

(* Control messages went out, the first of them the handshake's.           *)
LEMMA ControlSent ==
  ASSUME NEW c, NEW a \in Nat, NEW b \in Nat, NEW h, Good(c, a, b, h),
         NEW m \in Nat, NEW f, f \in [1..m -> Message],
         \A i \in 1..m : ~IsData(f[i]),
         m > 0 => f[1] = ControlMessage(c, IsOpening(c)),
         NEW d, WellFormed(d), d.out = c.out \o f, d.sendq = c.sendq, d.got = c.got,
         d.recvq = c.recvq, d.role = c.role, d.state = c.state, d.observer = c.observer,
         d.handshake = IF m > 0 THEN AfterControlSent(c.handshake) ELSE c.handshake
  PROVE  Good(d, a, b, h)
<1>1. /\ WellFormed(c) /\ Sends(c, a) /\ Receives(c, b) /\ Tells(c, h) /\ c \in Channel
      /\ c.out \in Seq(Message) /\ c.handshake \in HandshakeState
      /\ c.role \in OpenHandshakeRole
  BY DEF Good, WellFormed, Channel
<1>2. Sends(d, a)
  <2>1. PICK n \in 0..a : \E k \in 0..n :
          /\ Carries(c.out, k) /\ Waits(c.sendq, k, n) /\ n + 1 >= a
          /\ Live(c) => n = a
    BY <1>1 DEF Sends
  <2>2. PICK k \in 0..n : Carries(c.out, k) /\ Waits(c.sendq, k, n)
    BY <2>1
  <2>3. Carries(c.out \o f, k)
    <3>1. k \in Nat
      BY <2>1, <2>2
    <3> QED BY <1>1, <2>2, <3>1, CarriesTheSame
  <2>4. Live(d) => Live(c)
    BY DEF Live
  <2> QED BY <2>1, <2>2, <2>3, <2>4 DEF Sends
<1>3. Receives(d, b)
  <2>1. Live(d) => Live(c)
    BY DEF Live
  <2>2. d.state = "kOpen" /\ d.observer => d.recvq = << >>
    BY <1>1 DEF Receives
  <2> QED BY <1>1, <2>1, <2>2, ReceivesSame
<1>4. Tells(d, h)
  <2>1. CASE m = 0
    <3>1. c.out \o f = c.out
      BY <1>1, <2>1, ConcatType
    <3> QED BY <1>1, <2>1, <3>1, TellsSame
  <2>2. CASE m > 0
    <3>0. PICK t : t = c.out \o f
      OBVIOUS
    <3>1. /\ t \in Seq(Message) /\ Len(t) = Len(c.out) + m /\ Len(c.out) \in Nat
          /\ \A i \in 1..Len(c.out) : i \in 1..Len(t) /\ t[i] = c.out[i]
          /\ \A i \in 1..m : Len(c.out) + i \in 1..Len(t) /\ t[Len(c.out) + i] = f[i]
          /\ \A i \in 1..Len(t) : i \notin 1..Len(c.out) =>
               i - Len(c.out) \in 1..m /\ t[i] = f[i - Len(c.out)]
      BY <1>1, <3>0, Joined
    <3>2. d.out = t /\ t # << >>
      BY <2>2, <3>0, <3>1
    <3>3. c.out # << >> => t[1] = c.out[1]
      BY <1>1, <3>1
    <3>4. c.out = << >> => t[1] = f[1]
      BY <2>2, <3>1
    <3>5. IsOpening(c) \in BOOLEAN /\ f[1] = ControlMessage(c, IsOpening(c))
      BY <2>2 DEF IsOpening
    <3>6. /\ c.role = "kAcker" => f[1].type = "ACK"
          /\ c.role = "kOpener" => f[1].type = "OPEN"
          /\ c.role = "kOpener" /\ IsOpening(c) => f[1].ordered
      BY <1>1, <3>5, ControlIsNoData
    <3>7. c.role = "kOpener" /\ c.out = << >> => IsOpening(c)
      BY <1>1 DEF Tells, Done, IsOpening, HandshakeState
    <3>8. Done(d)
      BY <1>1, <2>2, HandshakeGoesOn DEF Done
    <3>9. d.handshake = AfterControlSent(c.handshake)
      BY <2>2
    <3>10. /\ d.handshake # "kHandshakeShouldSendAck"
           /\ c.role = "kOpener" /\ ~h => d.handshake # "kHandshakeReady"
      BY <1>1, <3>8, <3>9 DEF Tells, Done, AfterControlSent, HandshakeState
    <3>11. ASSUME c.role = "kOpener", ~h, NEW i \in 1..Len(t), IsData(t[i])
           PROVE  t[i].ordered
      <4>1. i \in 1..Len(c.out) /\ t[i] = c.out[i]
        BY <3>1, <3>11
      <4> QED BY <1>1, <3>11, <4>1 DEF Tells
    <3>12. c.role = "kOpener" => t[1].type = "OPEN" /\ t[1].ordered
      BY <1>1, <3>3, <3>4, <3>6, <3>7 DEF Tells
    <3>13. c.role = "kAcker" => t[1].type = "ACK"
      BY <1>1, <3>3, <3>4, <3>6 DEF Tells
    <3> QED BY <3>2, <3>8, <3>10, <3>11, <3>12, <3>13 DEF Tells
  <2> QED BY <2>1, <2>2
<1> QED BY <1>2, <1>3, <1>4 DEF Good

LEMMA SendControlMessageGood ==
  ASSUME NEW c, NEW a \in Nat, NEW b \in Nat, NEW h, Good(c, a, b, h), c.state = "kConnecting",
         NEW result \in SendDataResult
  PROVE  Good(SendControlMessage(c, result), a, b, h)
<1>1. /\ WellFormed(c) /\ c \in Channel /\ c.out \in Seq(Message) /\ c.control \in Nat
      /\ WellFormed(SendControlMessage(c, result))
  BY SendControlMessageKeeps DEF Good, WellFormed, Channel, Keeps
<1>2. CASE result = "success"
  <2> DEFINE e == ControlMessage(c, IsOpening(c))
             f == << e >>
             out == c.out \o f
             hs == AfterControlSent(c.handshake)
             d == [c EXCEPT !.out = out, !.handshake = hs]
  <2>1. IsOpening(c) \in BOOLEAN /\ e \in Message /\ ~IsData(e)
    BY <1>1, ControlMessageType, ControlIsNoData DEF IsOpening
  <2> HIDE DEF e
  <2>2. f \in [1..1 -> Message] /\ Append(c.out, e) = out /\ f[1] = e
    BY <1>1, <2>1, AppendIsJoin
  <2>3. \A i \in 1..1 : ~IsData(f[i])
    BY <2>1, <2>2
  <2>4. SendControlMessage(c, result) = d
    BY <1>2, <2>2 DEF SendControlMessage, e
  <2> HIDE DEF out, hs
  <2>5. /\ d.out = out /\ d.sendq = c.sendq /\ d.got = c.got
        /\ d.recvq = c.recvq /\ d.role = c.role /\ d.state = c.state
        /\ d.observer = c.observer /\ d.handshake = hs
    BY <1>1 DEF Channel
  <2>6. WellFormed(d)
    BY <1>1, <2>4
  <2> HIDE DEF d, f
  <2>7. d.out = c.out \o f
    BY <2>5 DEF out
  <2>8. /\ 1 > 0 => f[1] = ControlMessage(c, IsOpening(c))
        /\ d.handshake = IF 1 > 0 THEN AfterControlSent(c.handshake) ELSE c.handshake
    BY <2>2, <2>5 DEF e, hs
  <2>9. 1 \in Nat
    OBVIOUS
  <2>10. Good(d, a, b, h)
    BY <2>2, <2>3, <2>5, <2>6, <2>7, <2>8, <2>9, ControlSent
  <2> QED BY <2>4, <2>10
<1>3. CASE result = "block"
  <2> DEFINE more == c.control + 1
             d == [c EXCEPT !.control = more]
  <2>1. SendControlMessage(c, result) = d
    BY <1>3 DEF SendControlMessage
  <2> HIDE DEF more
  <2>2. /\ d.out = c.out /\ d.sendq = c.sendq /\ d.got = c.got
        /\ d.recvq = c.recvq /\ d.role = c.role /\ d.state = c.state
        /\ d.observer = c.observer /\ d.handshake = c.handshake
    BY <1>1 DEF Channel
  <2>3. WellFormed(d)
    BY <1>1, <2>1
  <2> HIDE DEF d
  <2>4. Sends(d, a) /\ Tells(d, h)
    BY <2>2, SendsSame, TellsSame DEF Live, Good
  <2>5. Receives(d, b)
    <3>1. d.state = "kOpen" /\ d.observer => d.recvq = << >>
      BY <2>2 DEF Good, Receives
    <3> QED BY <2>2, <3>1, ReceivesSame DEF Live, Good
  <2> QED BY <2>1, <2>3, <2>4, <2>5 DEF Good
<1>4. CASE result = "error"
  <2>1. SendControlMessage(c, result) = Close(c)
    BY <1>4 DEF SendControlMessage
  <2> QED BY <2>1, CloseGood
<1> QED BY <1>2, <1>3, <1>4 DEF SendDataResult

LEMMA SendQueuedControlMessagesGood ==
  ASSUME NEW c, NEW a \in Nat, NEW b \in Nat, NEW h, Good(c, a, b, h),
         NEW taken \in Nat, NEW blocked \in Nat, NEW failsFirst \in BOOLEAN,
         taken + blocked <= c.control, failsFirst => taken + blocked < c.control
  PROVE  Good(SendQueuedControlMessages(c, taken, blocked, failsFirst), a, b, h)
<1> DEFINE sent == [i \in 1..taken |-> ControlMessage(c, i = 1 /\ IsOpening(c))]
           hs == IF taken > 0 THEN AfterControlSent(c.handshake) ELSE c.handshake
           out == c.out \o sent
           left == IF failsFirst THEN 0 ELSE blocked
           d == [c EXCEPT !.out = out, !.control = left, !.handshake = hs]
           e == [Close(d) EXCEPT !.control = blocked]
<1>1. c \in Channel /\ WellFormed(c) /\ c.control \in Nat /\ c.out \in Seq(Message)
  BY DEF Good, WellFormed, Channel
<1>2. \A i \in 1..taken : (i = 1 /\ IsOpening(c)) \in BOOLEAN
  BY DEF IsOpening
<1>3. sent \in [1..taken -> Message] /\ \A i \in 1..taken : ~IsData(sent[i])
  BY <1>1, <1>2, ControlMessageType, ControlIsNoData
<1>4. taken > 0 => sent[1] = ControlMessage(c, IsOpening(c))
  BY DEF IsOpening
<1>5. out \in Seq(Message) /\ (taken = 0 => out = c.out)
  <2> HIDE DEF sent
  <2> QED BY <1>1, <1>3, ConcatType
<1>6. /\ hs \in HandshakeState
      /\ c.handshake \in {"kHandshakeReady", "kHandshakeWaitingForAck"} =>
           hs \in {"kHandshakeReady", "kHandshakeWaitingForAck"}
  BY <1>1, HandshakeGoesOn DEF Channel, HandshakeState
<1>7. left \in Nat
  OBVIOUS
<1>8. SendQueuedControlMessages(c, taken, blocked, failsFirst) \in {d, e}
  BY DEF SendQueuedControlMessages
<1> HIDE DEF sent, hs, left
<1>9. d.out = c.out \o sent
  BY <1>1 DEF Channel
<1> HIDE DEF out
<1>10. /\ d.sendq = c.sendq /\ d.got = c.got
       /\ d.recvq = c.recvq /\ d.role = c.role /\ d.state = c.state
       /\ d.observer = c.observer /\ d.handshake = hs
  BY <1>1 DEF Channel
<1>11. WellFormed(d)
  BY <1>1, <1>5, <1>6, <1>7 DEF WellFormed, Channel
<1> HIDE DEF d
<1>12. Good(d, a, b, h)
  BY <1>3, <1>4, <1>9, <1>10, <1>11, ControlSent DEF hs
<1>13. PICK x : x = Close(d)
  OBVIOUS
<1>14. Good(x, a, b, h) /\ x.state # "kOpen"
  BY <1>12, <1>13, CloseGood, CloseKeeps DEF Good
<1>15. /\ WellFormed(e) /\ e.out = x.out /\ e.sendq = x.sendq /\ e.got = x.got
       /\ e.recvq = x.recvq /\ e.role = x.role /\ e.state = x.state
       /\ e.handshake = x.handshake
  BY <1>13, <1>14 DEF Good, WellFormed, Channel
<1> HIDE DEF e
<1>16. Sends(e, a) /\ Tells(e, h) /\ Receives(e, b)
  BY <1>14, <1>15, SendsSame, TellsSame, ReceivesSame DEF Live, Good
<1> QED BY <1>8, <1>12, <1>15, <1>16 DEF Good


(* Data went out on a channel whose handshake has come far enough.         *)
LEMMA DataTells ==
  ASSUME NEW c, WellFormed(c), NEW h, Tells(c, h),
         NEW m \in Nat, NEW f, f \in [1..m -> Message],
         m > 0 => Done(c),
         \A i \in 1..m : c.handshake # "kHandshakeReady" => f[i].ordered,
         NEW d, d.out = c.out \o f, d.sendq # << >> => Done(c),
         d.handshake = c.handshake, d.role = c.role
  PROVE  Tells(d, h)
<1>1. c.out \in Seq(Message) /\ c.role \in OpenHandshakeRole
  BY DEF WellFormed, Channel
<1>2. PICK t : t = c.out \o f
  OBVIOUS
<1>3. /\ t \in Seq(Message) /\ Len(t) = Len(c.out) + m /\ Len(c.out) \in Nat
      /\ \A i \in 1..Len(c.out) : i \in 1..Len(t) /\ t[i] = c.out[i]
      /\ \A i \in 1..Len(t) : i \notin 1..Len(c.out) =>
           i - Len(c.out) \in 1..m /\ t[i] = f[i - Len(c.out)]
  BY <1>1, <1>2, Joined
<1>4. c.out # << >> => t # << >> /\ t[1] = c.out[1]
  BY <1>1, <1>3
<1>5. t # << >> /\ c.role # "kNone" => c.out # << >>
  <2>1. SUFFICES ASSUME c.out = << >>, c.role # "kNone" PROVE t = << >>
    OBVIOUS
  <2>2. ~Done(c)
    BY <2>1 DEF Tells
  <2>3. m = 0
    BY <2>2
  <2> QED BY <1>1, <1>2, <2>1, <2>3, ConcatType
<1>6. d.out = t
  BY <1>2
<1>7. ASSUME c.role = "kOpener", ~h, NEW i \in 1..Len(t), IsData(t[i])
      PROVE  t[i].ordered
  <2>1. CASE i \in 1..Len(c.out)
    BY <1>3, <1>7, <2>1 DEF Tells
  <2>2. CASE i \notin 1..Len(c.out)
    <3>1. c.handshake # "kHandshakeReady"
      BY <1>7 DEF Tells
    <3> QED BY <1>3, <2>2, <3>1
  <2> QED BY <2>1, <2>2
<1>8. c.role = "kOpener" /\ t # << >> => t[1].type = "OPEN" /\ t[1].ordered
  BY <1>4, <1>5 DEF Tells
<1>9. c.role = "kAcker" /\ t # << >> => t[1].type = "ACK"
  BY <1>4, <1>5 DEF Tells
<1>10. c.role # "kNone" /\ Done(c) => t # << >>
  BY <1>4 DEF Tells
<1>11. Done(d) <=> Done(c)
  BY DEF Done
<1>12. /\ c.handshake = "kHandshakeShouldSendAck" => c.role = "kAcker"
       /\ c.role = "kOpener" /\ ~h => c.handshake # "kHandshakeReady"
  BY DEF Tells
<1> QED BY <1>6, <1>7, <1>8, <1>9, <1>10, <1>11, <1>12 DEF Tells

LEMMA DataMessageIs ==
  ASSUME NEW c \in Channel, NEW m \in Nat
  PROVE  /\ DataMessage(c, m) \in Message
         /\ IsData(DataMessage(c, m)) /\ DataMessage(c, m).id = m
         /\ c.handshake # "kHandshakeReady" => DataMessage(c, m).ordered
BY DataMessageType DEF DataMessage, IsData, Channel

LEMMA SendQueuedDataMessagesGood ==
  ASSUME NEW c, NEW a \in Nat, NEW b \in Nat, NEW h, Good(c, a, b, h),
         NEW taken \in 0..Len(c.sendq), NEW result
  PROVE  Good(SendQueuedDataMessages(c, taken, result), a, b, h)
<1> DEFINE sent == [i \in 1..taken |-> DataMessage(c, c.sendq[i])]
           rest == SubSeq(c.sendq, taken + 1, Len(c.sendq))
           out == c.out \o sent
           d == [c EXCEPT !.out = out, !.sendq = rest]
<1>1. /\ WellFormed(c) /\ c \in Channel /\ c.sendq \in Seq(Nat) /\ c.out \in Seq(Message)
      /\ taken \in Nat /\ taken <= Len(c.sendq) /\ Len(c.sendq) \in Nat
      /\ Sends(c, a) /\ Receives(c, b) /\ Tells(c, h)
  BY DEF Good, WellFormed, Channel
<1>2. \A i \in 1..taken : c.sendq[i] \in Nat /\ i \in 1..Len(c.sendq)
  BY <1>1
<1>3. /\ sent \in [1..taken -> Message]
      /\ \A i \in 1..taken :
           /\ IsData(sent[i]) /\ sent[i].id = c.sendq[i]
           /\ c.handshake # "kHandshakeReady" => sent[i].ordered
  BY <1>1, <1>2, DataMessageIs
<1>4. SendQueuedDataMessages(c, taken, result) \in {d, Close(d)}
  BY DEF SendQueuedDataMessages
<1> HIDE DEF sent
<1>5. out \in Seq(Message) /\ (taken = 0 => out = c.out)
  BY <1>1, <1>3, ConcatType
<1>6. rest \in Seq(Nat) /\ (c.sendq = << >> => rest = << >>)
  BY <1>1, RestType
<1>7. c.sendq = << >> => taken = 0
  BY <1>1
<1> HIDE DEF rest, out
<1>8. /\ d.out = out /\ d.sendq = rest /\ d.got = c.got /\ d.recvq = c.recvq
      /\ d.role = c.role /\ d.state = c.state /\ d.observer = c.observer
      /\ d.handshake = c.handshake
  BY <1>1 DEF Channel
<1>9. WellFormed(d)
  BY <1>1, <1>5, <1>6, <1>7 DEF WellFormed, Channel
<1> HIDE DEF d
<1>10. Sends(d, a)
  <2>1. PICK n \in 0..a : \E k \in 0..n :
          /\ Carries(c.out, k) /\ Waits(c.sendq, k, n) /\ n + 1 >= a
          /\ Live(c) => n = a
    BY <1>1 DEF Sends
  <2>2. PICK k \in 0..n : Carries(c.out, k) /\ Waits(c.sendq, k, n)
    BY <2>1
  <2>3. k \in Nat /\ n \in Nat
    BY <2>1, <2>2
  <2>4. k + taken \in 0..n /\ Waits(rest, k + taken, n)
    BY <1>1, <2>2, <2>3, WaitsRest DEF rest
  <2>5. \A i \in 1..taken : sent[i].id = k + i
    BY <1>1, <1>2, <1>3, <2>2, <2>3 DEF Waits
  <2>6. Carries(out, k + taken)
    BY <1>1, <1>3, <2>2, <2>3, <2>5, CarriesMore DEF out
  <2>7. Live(d) => Live(c)
    BY <1>8 DEF Live
  <2> QED BY <1>8, <2>1, <2>4, <2>6, <2>7 DEF Sends
<1>11. Receives(d, b)
  <2>1. Live(d) => Live(c)
    BY <1>8 DEF Live
  <2>2. d.state = "kOpen" /\ d.observer => d.recvq = << >>
    BY <1>1, <1>8 DEF Receives
  <2> QED BY <1>1, <1>8, <2>1, <2>2, ReceivesSame
<1>12. Tells(d, h)
  <2>1. c.sendq # << >> => Done(c)
    BY <1>1 DEF Tells
  <2>2. (taken > 0 => Done(c)) /\ (d.sendq # << >> => Done(c))
    BY <1>1, <1>6, <1>7, <1>8, <2>1
  <2>3. d.out = c.out \o sent
    BY <1>8 DEF out
  <2> QED BY <1>1, <1>3, <1>8, <2>2, <2>3, DataTells
<1>13. Good(d, a, b, h)
  BY <1>9, <1>10, <1>11, <1>12 DEF Good
<1> QED BY <1>4, <1>13, CloseGood

(* A message that made the channel close is lost.                          *)
LEMMA CloseLoses ==
  ASSUME NEW c, NEW a \in Nat, NEW b \in Nat, NEW h, Good(c, a, b, h), Live(c)
  PROVE  Good(Close(c), a + 1, b, h)
<1>1. WellFormed(c) /\ c \in Channel /\ Good(Close(c), a, b, h)
  BY CloseGood DEF Good, WellFormed
<1>2. PICK d : d = Close(c)
  OBVIOUS
<1>3. d.out = c.out /\ d.sendq = c.sendq /\ d.state \in {"kClosing", "kClosed"}
  BY <1>1, <1>2, CloseFields
<1>4. ~Live(d)
  BY <1>3 DEF Live
<1>5. Sends(d, a + 1)
  BY <1>3, <1>4, SendsLost DEF Good
<1> QED BY <1>1, <1>2, <1>5 DEF Good

LEMMA QueueSendDataMessageGood ==
  ASSUME NEW c, NEW a \in Nat, NEW b \in Nat, NEW h, Good(c, a, b, h), c.state = "kOpen"
  PROVE  Good(QueueSendDataMessage(c, a + 1), a + 1, b, h)
<1> DEFINE longer == Append(c.sendq, a + 1)
           d == [c EXCEPT !.sendq = longer]
<1>1. /\ WellFormed(c) /\ c \in Channel /\ c.sendq \in Seq(Nat) /\ Live(c)
      /\ Sends(c, a) /\ Receives(c, b) /\ Tells(c, h)
  BY DEF Good, WellFormed, Channel, Live
<1>2. longer \in Seq(Nat) /\ a + 1 \in Nat
  BY <1>1, AppendType
<1>3. QueueSendDataMessage(c, a + 1) \in {Close(c), d}
  BY DEF QueueSendDataMessage
<1> HIDE DEF longer
<1>4. /\ d.out = c.out /\ d.sendq = longer /\ d.got = c.got /\ d.recvq = c.recvq
      /\ d.role = c.role /\ d.state = c.state /\ d.observer = c.observer
      /\ d.handshake = c.handshake
  BY <1>1 DEF Channel
<1>5. WellFormed(d)
  BY <1>1, <1>2 DEF WellFormed, Channel
<1> HIDE DEF d
<1>6. Sends(d, a + 1)
  <2>1. PICK k \in 0..a : Carries(c.out, k) /\ Waits(c.sendq, k, a)
    BY <1>1 DEF Sends
  <2>2. /\ Len(longer) = Len(c.sendq) + 1 /\ longer[Len(c.sendq) + 1] = a + 1
        /\ \A i \in 1..Len(c.sendq) : longer[i] = c.sendq[i]
    BY <1>1, <1>2, AppendProperties DEF longer
  <2>3. Len(c.sendq) = a - k /\ k \in Int /\ \A i \in 1..(a - k) : c.sendq[i] = k + i
    BY <2>1 DEF Waits
  <2>4. Len(longer) = (a + 1) - k
    BY <2>2, <2>3
  <2>5. ASSUME NEW i \in 1..((a + 1) - k) PROVE longer[i] = k + i
    <3>1. CASE i \in 1..(a - k)
      BY <2>2, <2>3, <3>1
    <3>2. CASE i \notin 1..(a - k)
      <4>1. i = (a - k) + 1 /\ k + i = a + 1
        BY <2>1, <2>3, <3>2
      <4> QED BY <2>2, <2>3, <4>1
    <3> QED BY <3>1, <3>2
  <2>6. Waits(d.sendq, k, a + 1)
    BY <1>4, <2>4, <2>5 DEF Waits
  <2>7. k \in 0..(a + 1) /\ (a + 1) \in 0..(a + 1) /\ (a + 1) + 1 >= a + 1
    BY <2>1
  <2> QED BY <1>4, <2>1, <2>6, <2>7 DEF Sends
<1>7. Receives(d, b)
  <2>1. d.state = "kOpen" /\ d.observer => d.recvq = << >>
    BY <1>1, <1>4 DEF Receives
  <2> QED BY <1>1, <1>4, <2>1, ReceivesSame
<1>8. Tells(d, h)
  <2>1. Done(c)
    BY <1>1 DEF WellFormed, Done
  <2> QED BY <1>1, <1>4, <2>1 DEF Tells, Done
<1>9. Good(d, a + 1, b, h)
  BY <1>5, <1>6, <1>7, <1>8 DEF Good
<1> QED BY <1>1, <1>3, <1>9, CloseLoses

LEMMA SendGood ==
  ASSUME NEW c, NEW a \in Nat, NEW b \in Nat, NEW h, Good(c, a, b, h), c.state = "kOpen",
         NEW result \in SendDataResult
  PROVE  Good(Send(c, a + 1, result), a + 1, b, h)
<1> DEFINE e == DataMessage(c, a + 1)
           f == << e >>
           out == c.out \o f
           d == [c EXCEPT !.out = out]
<1>1. /\ WellFormed(c) /\ c \in Channel /\ c.out \in Seq(Message) /\ Live(c)
      /\ Sends(c, a) /\ Receives(c, b) /\ Tells(c, h) /\ a + 1 \in Nat /\ 1 \in Nat
  BY DEF Good, WellFormed, Channel, Live
<1>2. /\ e \in Message /\ IsData(e) /\ e.id = a + 1
      /\ c.handshake # "kHandshakeReady" => e.ordered
  BY <1>1, DataMessageIs
<1>3. \/ Send(c, a + 1, result) \in {QueueSendDataMessage(c, a + 1), Close(c)}
      \/ c.sendq = << >> /\ Send(c, a + 1, result) = [c EXCEPT !.out = Append(c.out, e)]
  BY DEF Send
<1> HIDE DEF e
<1>4. f \in [1..1 -> Message] /\ Append(c.out, e) = out /\ f[1] = e
  BY <1>1, <1>2, AppendIsJoin
<1>5. CASE c.sendq = << >> /\ Send(c, a + 1, result) = [c EXCEPT !.out = Append(c.out, e)]
  <2>1. Send(c, a + 1, result) = d
    BY <1>4, <1>5
  <2>2. out \in Seq(Message)
    BY <1>1, <1>4, ConcatType
  <2> HIDE DEF out
  <2>3. /\ d.out = out /\ d.sendq = c.sendq /\ d.got = c.got /\ d.recvq = c.recvq
        /\ d.role = c.role /\ d.state = c.state /\ d.observer = c.observer
        /\ d.handshake = c.handshake
    BY <1>1 DEF Channel
  <2>4. WellFormed(d)
    BY <1>1, <2>2 DEF WellFormed, Channel
  <2> HIDE DEF d, f
  <2>5. d.out = c.out \o f
    BY <2>3 DEF out
  <2>6. Sends(d, a + 1)
    <3>1. PICK k \in 0..a : Carries(c.out, k) /\ Waits(c.sendq, k, a)
      BY <1>1 DEF Sends
    <3>2. k = a
      <4>1. Len(c.sendq) = 0 /\ Len(c.sendq) = a - k
        BY <1>5, <3>1 DEF Waits
      <4> QED BY <3>1, <4>1
    <3>3. \A i \in 1..1 : IsData(f[i]) /\ f[i].id = a + i
      BY <1>2, <1>4
    <3>4. Carries(c.out \o f, a + 1)
      BY <1>1, <1>4, <3>1, <3>2, <3>3, CarriesMore
    <3>5. Waits(d.sendq, a + 1, a + 1)
      <4>1. Len(d.sendq) = 0 /\ (a + 1) - (a + 1) = 0
        BY <1>5, <2>3
      <4> QED BY <4>1 DEF Waits
    <3>6. (a + 1) \in 0..(a + 1) /\ (a + 1) + 1 >= a + 1
      OBVIOUS
    <3> QED BY <2>5, <3>4, <3>5, <3>6 DEF Sends
  <2>7. Receives(d, b)
    <3>1. d.state = "kOpen" /\ d.observer => d.recvq = << >>
      BY <1>1, <2>3 DEF Receives
    <3> QED BY <1>1, <2>3, <3>1, ReceivesSame
  <2>8. Tells(d, h)
    <3>1. Done(c)
      BY <1>1 DEF WellFormed, Done
    <3>2. \A i \in 1..1 : c.handshake # "kHandshakeReady" => f[i].ordered
      BY <1>2, <1>4
    <3> QED BY <1>1, <1>4, <2>3, <2>5, <3>1, <3>2, DataTells
  <2> QED BY <2>1, <2>4, <2>6, <2>7, <2>8 DEF Good
<1> QED BY <1>1, <1>3, <1>5, QueueSendDataMessageGood, CloseLoses


---------------------------------------------------------------------------
(* Receiving.                                                              *)

LEMMA JoinedWith ==
  ASSUME NEW s \in Seq(Nat), NEW q \in Seq(Nat), NEW e \in Nat
  PROVE  /\ s \o q \in Seq(Nat) /\ Append(s, e) \in Seq(Nat) /\ Append(q, e) \in Seq(Nat)
         /\ s \o Append(q, e) = Append(s \o q, e)
         /\ s \o << >> = s
<1>0. << e >> \in Seq(Nat) /\ s \o q \in Seq(Nat)
  OBVIOUS
<1>1. Append(q, e) = q \o << e >> /\ Append(s \o q, e) = (s \o q) \o << e >>
  BY <1>0, AppendIsConcat
<1>2. (s \o q) \o << e >> = s \o (q \o << e >>)
  BY <1>0, ConcatAssociative
<1>3. s \o << >> = s
  BY ConcatEmptySeq
<1>4. Append(s, e) \in Seq(Nat) /\ Append(q, e) \in Seq(Nat)
  BY AppendType
<1> QED BY <1>0, <1>1, <1>2, <1>3, <1>4

(* The next message at the end.                                            *)
LEMMA NextArrives ==
  ASSUME NEW s \in Seq(Nat), NEW b \in Nat, Ascends(s, b)
  PROVE  /\ Ascends(Append(s, b + 1), b + 1)
         /\ Complete(s, b) => Complete(Append(s, b + 1), b + 1)
<1>1. PICK t : t = Append(s, b + 1)
  OBVIOUS
<1>2. b + 1 \in Nat /\ Len(s) \in Nat /\ \A i \in 1..Len(s) : s[i] \in Nat
  OBVIOUS
<1>3. /\ Len(t) = Len(s) + 1 /\ t[Len(s) + 1] = b + 1
      /\ \A i \in 1..Len(s) : t[i] = s[i]
  BY <1>1, <1>2, AppendProperties
<1>4. ASSUME NEW i \in 1..Len(t) PROVE i \in 1..Len(s) \/ i = Len(s) + 1
  BY <1>2, <1>3
<1>5. Ascends(t, b + 1)
  <2>1. ASSUME NEW i \in 1..Len(t) PROVE t[i] <= b + 1
    BY <1>2, <1>3, <1>4 DEF Ascends
  <2>2. ASSUME NEW i \in 1..Len(t), NEW j \in 1..Len(t), i < j PROVE t[i] < t[j]
    <3>1. i \in 1..Len(s)
      BY <1>2, <1>3, <2>2
    <3>2. CASE j \in 1..Len(s)
      BY <1>3, <2>2, <3>1, <3>2 DEF Ascends
    <3>3. CASE j = Len(s) + 1
      BY <1>2, <1>3, <3>1, <3>3 DEF Ascends
    <3> QED BY <1>4, <3>2, <3>3
  <2> QED BY <2>1, <2>2 DEF Ascends
<1>6. ASSUME Complete(s, b) PROVE Complete(t, b + 1)
  <2>1. Len(s) = b /\ \A i \in 1..b : s[i] = i
    BY <1>6 DEF Complete
  <2>2. Len(t) = b + 1 /\ \A i \in 1..(b + 1) : t[i] = i
    BY <1>2, <1>3, <1>4, <2>1
  <2> QED BY <2>2 DEF Complete
<1> QED BY <1>1, <1>5, <1>6

LEMMA DeliverGood ==
  ASSUME NEW c, NEW a \in Nat, NEW b \in Nat, NEW h, WellFormed(c), Sends(c, a), Tells(c, h),
         Ascends(c.got \o c.recvq, b), Live(c) => Complete(c.got \o c.recvq, b)
  PROVE  Good(DeliverQueuedReceivedData(c), a, b, h)
<1> DEFINE all == c.got \o c.recvq
           none == << >>
           d == [c EXCEPT !.got = all, !.recvq = none]
<1>1. c \in Channel /\ c.got \in Seq(Nat) /\ c.recvq \in Seq(Nat)
  BY DEF WellFormed, Channel
<1>2. all \in Seq(Nat) /\ none \in Seq(Nat) /\ none = << >> /\ all \o none = all
  BY <1>1, JoinedWith
<1>3. CASE ~c.observer
  <2>1. DeliverQueuedReceivedData(c) = c
    BY <1>3 DEF DeliverQueuedReceivedData
  <2>2. Receives(c, b)
    BY <1>3 DEF Receives
  <2> QED BY <2>1, <2>2 DEF Good
<1>4. CASE c.observer
  <2>1. DeliverQueuedReceivedData(c) = d
    BY <1>4 DEF DeliverQueuedReceivedData
  <2>2. WellFormed(d)
    BY <2>1, DeliverKeeps DEF Keeps
  <2> HIDE DEF all, none
  <2>3. /\ d.out = c.out /\ d.sendq = c.sendq /\ d.got = all /\ d.recvq = none
        /\ d.role = c.role /\ d.state = c.state /\ d.observer = c.observer
        /\ d.handshake = c.handshake
    BY <1>1 DEF Channel
  <2> HIDE DEF d
  <2>4. Sends(d, a) /\ Tells(d, h)
    BY <2>3, SendsSame, TellsSame DEF Live
  <2>5. d.got \o d.recvq = c.got \o c.recvq
    BY <1>2, <2>3 DEF all
  <2>6. Receives(d, b)
    BY <1>2, <2>3, <2>5 DEF Receives, Live
  <2> QED BY <2>1, <2>2, <2>4, <2>6 DEF Good
<1> QED BY <1>1, <1>3, <1>4

LEMMA RegisterObserverGood ==
  ASSUME NEW c, NEW a \in Nat, NEW b \in Nat, NEW h, Good(c, a, b, h)
  PROVE  Good(RegisterObserver(c), a, b, h) /\ Good(UnregisterObserver(c), a, b, h)
<1> DEFINE d == [c EXCEPT !.observer = TRUE]
           e == [c EXCEPT !.observer = FALSE]
<1>1. /\ WellFormed(c) /\ c \in Channel
      /\ Sends(c, a) /\ Receives(c, b) /\ Tells(c, h)
  BY DEF Good, WellFormed
<1>2. WellFormed(d) /\ WellFormed(e)
  BY <1>1 DEF WellFormed, Channel
<1>3. /\ d.out = c.out /\ d.sendq = c.sendq /\ d.got = c.got /\ d.recvq = c.recvq
      /\ d.role = c.role /\ d.state = c.state /\ d.handshake = c.handshake
  BY <1>1 DEF Channel
<1>4. /\ e.out = c.out /\ e.sendq = c.sendq /\ e.got = c.got /\ e.recvq = c.recvq
      /\ e.role = c.role /\ e.state = c.state /\ e.handshake = c.handshake
      /\ ~e.observer
  BY <1>1 DEF Channel
<1>5. RegisterObserver(c) = DeliverQueuedReceivedData(d) /\ UnregisterObserver(c) = e
  BY DEF RegisterObserver, UnregisterObserver
<1> HIDE DEF d, e
<1>6. Sends(d, a) /\ Tells(d, h)
  BY <1>1, <1>3, SendsSame, TellsSame DEF Live
<1>7. Ascends(d.got \o d.recvq, b) /\ (Live(d) => Complete(d.got \o d.recvq, b))
  BY <1>1, <1>3 DEF Receives, Live
<1>8. Good(DeliverQueuedReceivedData(d), a, b, h)
  BY <1>2, <1>6, <1>7, DeliverGood
<1>9. Sends(e, a) /\ Tells(e, h)
  BY <1>1, <1>4, SendsSame, TellsSame DEF Live
<1>10. Receives(e, b)
  BY <1>1, <1>4, ReceivesSame DEF Live
<1> QED BY <1>2, <1>5, <1>8, <1>9, <1>10 DEF Good

LEMMA OnOpenAckReceivedGood ==
  ASSUME NEW c, NEW a \in Nat, NEW b \in Nat, NEW h, Good(c, a, b, h)
  PROVE  /\ Good(OnOpenAckReceived(c), a, b, TRUE)
         /\ OnOpenAckReceived(c).state = c.state
<1> DEFINE d == OnOpenAckReceived(c)
<1>1. /\ WellFormed(c) /\ c \in Channel
      /\ Sends(c, a) /\ Receives(c, b) /\ Tells(c, h) /\ WellFormed(d)
  BY OnOpenAckReceivedKeeps DEF Good, WellFormed, Keeps
<1>2. /\ d.out = c.out /\ d.sendq = c.sendq /\ d.got = c.got /\ d.recvq = c.recvq
      /\ d.role = c.role /\ d.state = c.state /\ d.observer = c.observer
      /\ Done(d) <=> Done(c)
      /\ d.handshake = "kHandshakeShouldSendAck" => c.handshake = "kHandshakeShouldSendAck"
  BY <1>1 DEF OnOpenAckReceived, Channel, Done
<1> HIDE DEF d
<1>3. Sends(d, a)
  BY <1>1, <1>2, SendsSame DEF Live
<1>4. Receives(d, b)
  <2>1. d.state = "kOpen" /\ d.observer => d.recvq = << >>
    BY <1>1, <1>2 DEF Receives
  <2> QED BY <1>1, <1>2, <2>1, ReceivesSame DEF Live
<1>5. Tells(d, TRUE)
  BY <1>1, <1>2 DEF Tells
<1>6. Good(d, a, b, TRUE) /\ d.state = c.state
  BY <1>1, <1>2, <1>3, <1>4, <1>5 DEF Good
<1> QED BY <1>6 DEF d

LEMMA OnDataReceivedGood ==
  ASSUME NEW c, NEW a \in Nat, NEW b \in Nat, NEW h, Good(c, a, b, h)
  PROVE  Good(OnDataReceived(c, b + 1), a, b + 1, TRUE)
<1> DEFINE d == OnOpenAckReceived(c)
           given == Append(d.got, b + 1)
           waiting == Append(d.recvq, b + 1)
           e1 == [d EXCEPT !.got = given]
           none == << >>
           e2 == [d EXCEPT !.recvq = none]
           e3 == [d EXCEPT !.recvq = waiting]
<1>1. Good(d, a, b, TRUE)
  BY OnOpenAckReceivedGood, Zenon
<1>0. b + 1 \in Nat
  OBVIOUS
<1>2. \/ d.state = "kOpen" /\ d.observer /\ OnDataReceived(c, b + 1) = e1
      \/ ~(d.state = "kOpen" /\ d.observer) /\ OnDataReceived(c, b + 1) = Close(e2)
      \/ ~(d.state = "kOpen" /\ d.observer) /\ OnDataReceived(c, b + 1) = e3
  BY DEF OnDataReceived
<1> HIDE DEF d
<1>3. /\ d \in Channel /\ WellFormed(d) /\ d.got \in Seq(Nat) /\ d.recvq \in Seq(Nat)
      /\ Sends(d, a) /\ Receives(d, b) /\ Tells(d, TRUE)
  BY <1>1 DEF Good, WellFormed, Channel
<1>4. PICK s \in Seq(Nat) : s = d.got \o d.recvq
  BY <1>3, JoinedWith
<1>5. Ascends(s, b) /\ (Live(d) => Complete(s, b))
  BY <1>3, <1>4 DEF Receives
<1>6. /\ Ascends(Append(s, b + 1), b + 1)
      /\ Live(d) => Complete(Append(s, b + 1), b + 1)
  BY <1>5, NextArrives
<1>7. /\ given \in Seq(Nat) /\ waiting \in Seq(Nat) /\ none \in Seq(Nat) /\ none = << >>
      /\ d.got \o waiting = Append(s, b + 1) /\ d.got \o none = d.got
      /\ given \o << >> = given
  <2>1. given \in Seq(Nat) /\ waiting \in Seq(Nat) /\ none \in Seq(Nat) /\ none = << >>
    BY <1>0, <1>3, AppendType
  <2>2. d.got \o waiting = Append(d.got \o d.recvq, b + 1) /\ d.got \o none = d.got
    <3>1. PICK m \in Nat : m = b + 1
      BY <1>0
    <3>2. PICK g \in Seq(Nat), q \in Seq(Nat) : g = d.got /\ q = d.recvq
      BY <1>3
    <3>4. g \o Append(q, m) = Append(g \o q, m)
      BY JoinedWith
    <3>3. d.got \o << >> = d.got
      BY <1>3, ConcatEmptySeq, Zenon
    <3> QED BY <3>1, <3>2, <3>3, <3>4
  <2> HIDE DEF given
  <2>3. given \o << >> = given
    BY <2>1, ConcatEmptySeq
  <2> QED BY <1>4, <2>1, <2>2, <2>3
<1>8. CASE d.state = "kOpen" /\ d.observer /\ OnDataReceived(c, b + 1) = e1
  <2>1. d.recvq = << >> /\ s = d.got
    BY <1>3, <1>4, <1>8, JoinedWith DEF Receives
  <2>2. given = Append(s, b + 1)
    BY <2>1
  <2> HIDE DEF given
  <2>3. /\ e1.out = d.out /\ e1.sendq = d.sendq /\ e1.got = given /\ e1.recvq = d.recvq
        /\ e1.role = d.role /\ e1.state = d.state /\ e1.observer = d.observer
        /\ e1.handshake = d.handshake
    BY <1>3 DEF Channel
  <2>4. WellFormed(e1)
    BY <1>3, <1>7 DEF WellFormed, Channel
  <2> HIDE DEF e1
  <2>5. Sends(e1, a) /\ Tells(e1, TRUE)
    BY <1>3, <2>3, SendsSame, TellsSame DEF Live
  <2>6. e1.got \o e1.recvq = Append(s, b + 1)
    BY <1>7, <2>1, <2>2, <2>3
  <2>7. Receives(e1, b + 1)
    BY <1>6, <2>1, <2>3, <2>6 DEF Receives, Live
  <2> QED BY <1>8, <2>4, <2>5, <2>7 DEF Good
<1>9. CASE OnDataReceived(c, b + 1) = Close(e2)
  <2> HIDE DEF none
  <2>1. /\ e2.out = d.out /\ e2.sendq = d.sendq /\ e2.got = d.got /\ e2.recvq = none
        /\ e2.role = d.role /\ e2.state = d.state /\ e2.handshake = d.handshake
    BY <1>3 DEF Channel
  <2>2. WellFormed(e2) /\ e2 \in Channel
    BY <1>3, <1>7 DEF WellFormed, Channel
  <2> HIDE DEF e2
  <2>3. PICK f : f = Close(e2)
    OBVIOUS
  <2>4. /\ f.out = d.out /\ f.sendq = d.sendq /\ f.got = d.got /\ f.recvq = none
        /\ f.role = d.role /\ f.handshake = d.handshake
        /\ f.state \in {"kClosing", "kClosed"}
    BY <2>1, <2>2, <2>3, CloseFields
  <2>5. WellFormed(f)
    BY <2>2, <2>3, CloseKeeps DEF Keeps
  <2>6. Sends(f, a) /\ Tells(f, TRUE)
    BY <1>3, <2>4, SendsSame, TellsSame DEF Live
  <2>7. f.got \o f.recvq = d.got
    BY <1>7, <2>4
  <2>8. Ascends(d.got, b + 1)
    <3>1. PICK g \in Seq(Nat), q \in Seq(Nat) : g = d.got /\ q = d.recvq
      BY <1>3
    <3>2. \A i \in 1..Len(d.got) : i \in 1..Len(s) /\ s[i] = d.got[i] /\ d.got[i] \in Nat
      <4>1. /\ Len(g \o q) = Len(g) + Len(q) /\ Len(g) \in Nat /\ Len(q) \in Nat
            /\ \A i \in 1..(Len(g) + Len(q)) :
                 (g \o q)[i] = IF i <= Len(g) THEN g[i] ELSE q[i - Len(g)]
        BY ConcatProperties
      <4>2. \A i \in 1..Len(g) : i \in 1..Len(g \o q) /\ (g \o q)[i] = g[i] /\ g[i] \in Nat
        BY <4>1
      <4> QED BY <1>4, <3>1, <4>2
    <3>3. \A i \in 1..Len(d.got) : d.got[i] <= b + 1
      <4> TAKE i \in 1..Len(d.got)
      <4>1. d.got[i] <= b /\ d.got[i] \in Nat
        BY <1>5, <3>2 DEF Ascends
      <4> QED BY <4>1
    <3>4. \A i, j \in 1..Len(d.got) : i < j => d.got[i] < d.got[j]
      BY <1>5, <3>2 DEF Ascends
    <3> QED BY <3>3, <3>4 DEF Ascends
  <2>9. Receives(f, b + 1)
    BY <2>4, <2>7, <2>8 DEF Receives, Live
  <2> QED BY <1>9, <2>3, <2>5, <2>6, <2>9 DEF Good
<1>10. CASE ~(d.state = "kOpen" /\ d.observer) /\ OnDataReceived(c, b + 1) = e3
  <2> HIDE DEF waiting
  <2>1. /\ e3.out = d.out /\ e3.sendq = d.sendq /\ e3.got = d.got /\ e3.recvq = waiting
        /\ e3.role = d.role /\ e3.state = d.state /\ e3.observer = d.observer
        /\ e3.handshake = d.handshake
    BY <1>3 DEF Channel
  <2>2. WellFormed(e3)
    BY <1>3, <1>7 DEF WellFormed, Channel
  <2> HIDE DEF e3
  <2>3. Sends(e3, a) /\ Tells(e3, TRUE)
    BY <1>3, <2>1, SendsSame, TellsSame DEF Live
  <2>4. e3.got \o e3.recvq = Append(s, b + 1)
    BY <1>7, <2>1
  <2>5. Receives(e3, b + 1)
    BY <1>6, <1>10, <2>1, <2>4 DEF Receives, Live
  <2> QED BY <1>10, <2>2, <2>3, <2>5 DEF Good
<1> QED BY <1>2, <1>8, <1>9, <1>10

---------------------------------------------------------------------------
(* State updates.                                                          *)

LEMMA UpdateConnectingGood ==
  ASSUME NEW c, NEW a \in Nat, NEW b \in Nat, NEW h, Good(c, a, b, h),
         c.state = "kConnecting", c.connected, NEW result \in SendDataResult
  PROVE  Good(UpdateConnecting(c, result), a, b, h)
<1> DEFINE d == IF MustSendControl(c) THEN SendControlMessage(c, result) ELSE c
           opened == [d EXCEPT !.state = "kOpen"]
           done == d.handshake \in {"kHandshakeReady", "kHandshakeWaitingForAck"}
<1>0. WellFormed(c)
  BY DEF Good
<1>1. /\ Good(d, a, b, h)
      /\ done => d.state = "kConnecting" /\ d.connected
  BY <1>0, SendControlMessageGood, SendControlMessageKeeps DEF MustSendControl
<1>2. UpdateConnecting(c, result) =
        IF d.writable /\ done THEN DeliverQueuedReceivedData(opened) ELSE d
  BY DEF UpdateConnecting
<1> HIDE DEF d
<1>3. d \in Channel /\ WellFormed(d) /\ Sends(d, a) /\ Receives(d, b) /\ Tells(d, h)
  BY <1>1 DEF Good, WellFormed
<1>4. CASE d.writable /\ done
  <2>1. d.state = "kConnecting" /\ d.connected
    BY <1>1, <1>4
  <2>2. WellFormed(opened)
    BY <1>3, <1>4, <2>1 DEF WellFormed, Channel, DataState
  <2>3. /\ opened.out = d.out /\ opened.sendq = d.sendq /\ opened.got = d.got
        /\ opened.recvq = d.recvq /\ opened.role = d.role /\ opened.handshake = d.handshake
    BY <1>3 DEF Channel
  <2> HIDE DEF opened
  <2>4. Live(d)
    BY <2>1 DEF Live
  <2>5. Sends(opened, a) /\ Tells(opened, h)
    BY <1>3, <2>3, <2>4, SendsSame, TellsSame
  <2>6. Ascends(opened.got \o opened.recvq, b) /\ Complete(opened.got \o opened.recvq, b)
    BY <1>3, <2>3, <2>4 DEF Receives
  <2>7. Good(DeliverQueuedReceivedData(opened), a, b, h)
    BY <2>2, <2>5, <2>6, DeliverGood
  <2> QED BY <1>2, <1>4, <2>7
<1>5. CASE ~(d.writable /\ done)
  BY <1>1, <1>2, <1>5
<1> QED BY <1>4, <1>5

LEMMA UpdateClosingGood ==
  ASSUME NEW c, NEW a \in Nat, NEW b \in Nat, NEW h, Good(c, a, b, h), c.state = "kClosing"
  PROVE  Good(UpdateClosing(c), a, b, h)
<1>1. /\ WellFormed(c) /\ Sends(c, a) /\ Receives(c, b) /\ Tells(c, h) /\ c \in Channel
      /\ WellFormed(UpdateClosing(c))
  BY UpdateClosingKeeps DEF Good, WellFormed, Keeps
<1>2. PICK d : d = UpdateClosing(c)
  OBVIOUS
<1>3. /\ d.out = c.out /\ d.sendq = c.sendq /\ d.got = c.got /\ d.recvq = c.recvq
      /\ d.handshake = c.handshake /\ d.role = c.role
      /\ d.state \in {"kClosing", "kClosed"}
  BY <1>1, <1>2, ClosingFields
<1>4. ~Live(d) /\ d.state # "kOpen"
  BY <1>3 DEF Live
<1>5. Sends(d, a) /\ Tells(d, h)
  BY <1>1, <1>3, <1>4, SendsSame, TellsSame
<1>6. Receives(d, b)
  BY <1>1, <1>3, <1>4, ReceivesSame
<1> QED BY <1>1, <1>2, <1>5, <1>6 DEF Good

LEMMA UpdateStateGood ==
  ASSUME NEW c, NEW a \in Nat, NEW b \in Nat, NEW h, Good(c, a, b, h),
         NEW result \in SendDataResult
  PROVE  Good(UpdateState(c, result), a, b, h)
<1>1. CASE c.state = "kConnecting" /\ c.connected
  BY <1>1, UpdateConnectingGood DEF UpdateState
<1>2. CASE c.state = "kClosing"
  BY <1>2, UpdateClosingGood DEF UpdateState
<1>3. CASE ~(c.state = "kConnecting" /\ c.connected) /\ c.state # "kClosing"
  BY <1>3 DEF UpdateState
<1> QED BY <1>1, <1>2, <1>3

(* The signals that only say whether the transport is writable.            *)
LEMMA WritableGood ==
  ASSUME NEW c, NEW a \in Nat, NEW b \in Nat, NEW h, Good(c, a, b, h), NEW w \in BOOLEAN
  PROVE  Good([c EXCEPT !.writable = w], a, b, h)
<1> DEFINE d == [c EXCEPT !.writable = w]
<1>1. /\ WellFormed(c) /\ c \in Channel
      /\ Sends(c, a) /\ Receives(c, b) /\ Tells(c, h)
  BY DEF Good, WellFormed
<1>2. WellFormed(d)
  BY <1>1 DEF WellFormed, Channel
<1>3. /\ d.out = c.out /\ d.sendq = c.sendq /\ d.got = c.got /\ d.recvq = c.recvq
      /\ d.role = c.role /\ d.state = c.state /\ d.handshake = c.handshake
      /\ d.observer = c.observer
  BY <1>1 DEF Channel
<1> HIDE DEF d
<1>4. Sends(d, a) /\ Tells(d, h)
  BY <1>1, <1>3, SendsSame, TellsSame DEF Live
<1>5. Receives(d, b)
  <2>1. d.state = "kOpen" /\ d.observer => d.recvq = << >>
    BY <1>1, <1>3 DEF Receives
  <2> QED BY <1>1, <1>3, <2>1, ReceivesSame DEF Live
<1>6. Good(d, a, b, h)
  BY <1>2, <1>4, <1>5 DEF Good
<1> QED BY <1>6 DEF d

LEMMA OnChannelReadyGood ==
  ASSUME NEW c, NEW a \in Nat, NEW b \in Nat, NEW h, Good(c, a, b, h), NEW r \in Answers(c)
  PROVE  Good(OnChannelReady(c, r), a, b, h)
<1> DEFINE c1 == [c EXCEPT !.writable = TRUE]
           c2 == SendQueuedControlMessages(c1, r.control, r.blocked, r.failsFirst)
           c3 == SendQueuedDataMessages(c2, r.data, r.stop)
<1>0. WellFormed(c)
  BY DEF Good
<1>1. /\ r.control \in Nat /\ r.blocked \in Nat /\ r.failsFirst \in BOOLEAN
      /\ r.control + r.blocked <= c.control
      /\ r.failsFirst => r.control + r.blocked < c.control
      /\ r.data \in 0..Len(c.sendq) /\ r.update \in SendDataResult
  BY <1>0 DEF Answers, WellFormed, Channel
<1>2. Good(c1, a, b, h)
  BY WritableGood
<1>3. c1.sendq = c.sendq /\ c1.control = c.control
  BY <1>0 DEF WellFormed, Channel
<1>4. OnChannelReady(c, r) = UpdateState(c3, r.update)
  BY DEF OnChannelReady
<1> HIDE DEF c1
<1>5. Good(c2, a, b, h)
  BY <1>1, <1>2, <1>3, SendQueuedControlMessagesGood
<1>6. c2.sendq = c.sendq
  BY <1>1, <1>2, <1>3, SendQueuedControlKeepsQueue DEF Good
<1> HIDE DEF c2
<1>7. Good(c3, a, b, h)
  BY <1>1, <1>5, <1>6, SendQueuedDataMessagesGood
<1> HIDE DEF c3
<1> QED BY <1>1, <1>4, <1>7, UpdateStateGood


---------------------------------------------------------------------------
(* Every state of the specification.                                       *)

OrderInv == ChannelInv /\ Good(ch, accepted, arrived, heard)

LEMMA NewChannelGood ==
  ASSUME NEW role \in OpenHandshakeRole, NEW ordered \in BOOLEAN, NEW connected \in BOOLEAN,
         NEW h \in BOOLEAN
  PROVE  Good([NewChannel(role, ordered) EXCEPT !.connected = connected], 0, 0, h)
<1>1. PICK d : d = [NewChannel(role, ordered) EXCEPT !.connected = connected]
  OBVIOUS
<1>2. /\ d.state = "kConnecting" /\ d.role = role /\ ~d.observer
      /\ d.out = << >> /\ d.sendq = << >> /\ d.got = << >> /\ d.recvq = << >>
      /\ d.handshake = CASE role = "kOpener" -> "kHandshakeShouldSendOpen"
                         [] role = "kAcker"  -> "kHandshakeShouldSendAck"
                         [] OTHER            -> "kHandshakeReady"
  BY <1>1 DEF NewChannel
<1>3. WellFormed(d)
  BY <1>1, NewChannelWellFormed
<1>4. Carries(d.out, 0) /\ Waits(d.sendq, 0, 0)
  BY <1>2 DEF Carries, Waits
<1>5. Sends(d, 0)
  BY <1>4 DEF Sends
<1>6. d.got \o d.recvq = << >>
  BY <1>2
<1>7. Receives(d, 0)
  BY <1>2, <1>6 DEF Receives, Ascends, Complete
<1>8. Tells(d, h)
  BY <1>2 DEF Tells, Done, OpenHandshakeRole
<1> QED BY <1>1, <1>3, <1>5, <1>7, <1>8 DEF Good

LEMMA InitOrderInv == Init => OrderInv
<1> SUFFICES ASSUME Init PROVE OrderInv
  OBVIOUS
<1>1. PICK role \in OpenHandshakeRole, ordered \in BOOLEAN, ready \in BOOLEAN :
        /\ ch = [NewChannel(role, ordered) EXCEPT !.connected = (transport = "up")]
        /\ accepted = 0 /\ arrived = 0 /\ heard \in BOOLEAN
  BY DEF Init
<1>2. Good(ch, 0, 0, heard)
  BY <1>1, NewChannelGood
<1> QED BY <1>1, <1>2, InitChannelInv DEF OrderInv

(* What each action does to the channel and to the history.                *)
Steps == Good(ch', accepted', arrived', heard')

LEMMA StepOrderInv ==
  ASSUME OrderInv, [Next]_vars
  PROVE  OrderInv'
<1>0. /\ ChannelInv /\ Good(ch, accepted, arrived, heard) /\ WellFormed(ch)
      /\ TypeOK /\ ch \in Channel /\ accepted \in Nat /\ arrived \in Nat
  BY DEF OrderInv, ChannelInv, WellFormed, TypeOK
<1>c. ChannelInv'
  BY <1>0, StepChannelInv
<1> SUFFICES Steps
  BY <1>c DEF OrderInv, Steps
<1>1. CASE OnTransportChannelCreated
  <2>1. WellFormed(ch') /\ UNCHANGED << accepted, arrived, heard >>
    BY <1>c, <1>1 DEF ChannelInv, OnTransportChannelCreated
  <2>2. PICK d : d = ch'
    OBVIOUS
  <2>3. /\ d.out = ch.out /\ d.sendq = ch.sendq /\ d.got = ch.got /\ d.recvq = ch.recvq
        /\ d.role = ch.role /\ d.state = ch.state /\ d.observer = ch.observer
        /\ d.handshake = ch.handshake
    BY <1>0, <1>1, <2>2 DEF OnTransportChannelCreated, Channel
  <2>4. Sends(d, accepted) /\ Tells(d, heard)
    BY <1>0, <2>3, SendsSame, TellsSame DEF Good, Live
  <2>5. d.state = "kOpen" /\ d.observer => d.recvq = << >>
    BY <1>0, <2>3 DEF Good, Receives
  <2>6. Receives(d, arrived)
    BY <1>0, <2>3, <2>5, ReceivesSame DEF Good, Live
  <2>7. Good(d, accepted, arrived, heard)
    BY <2>1, <2>2, <2>4, <2>6 DEF Good
  <2> QED BY <2>1, <2>2, <2>7 DEF Steps
<1>2. CASE SetSctpSid
  BY <1>0, <1>2 DEF SetSctpSid, Steps
<1>3. CASE ReadySignal
  <2>1. PICK r \in Answers(ch) : ch' = OnChannelReady(ch, r)
    BY <1>3 DEF ReadySignal, Ready, Handler, ReadyAnswers
  <2> QED BY <1>0, <1>3, <2>1, OnChannelReadyGood DEF ReadySignal, Ready, Steps
<1>4. CASE ChannelReadyMessage
  <2>1. PICK r \in Answers(ch) : ch' = OnChannelReady(ch, r)
    BY <1>4 DEF ChannelReadyMessage, Handler, ReadyAnswers
  <2> QED BY <1>0, <1>4, <2>1, OnChannelReadyGood DEF ChannelReadyMessage, Steps
<1>5. CASE NotReadySignal
  BY <1>0, <1>5, WritableGood DEF NotReadySignal, Handler, OnChannelNotReady, Steps
<1>6. CASE OpenAckArrives
  BY <1>0, <1>6, OnOpenAckReceivedGood DEF OpenAckArrives, Handler, Steps
<1>7. CASE DataArrives
  BY <1>0, <1>7, OnDataReceivedGood DEF DataArrives, Handler, Steps
<1>8. CASE RemoteReset
  BY <1>0, <1>8 DEF RemoteReset, Steps
<1>9. CASE OnStreamClosedRemotely
  BY <1>0, <1>9, CloseGood DEF OnStreamClosedRemotely, Steps
<1>10. CASE OnTransportChannelDestroyed
  BY <1>0, <1>10, CloseGood DEF OnTransportChannelDestroyed, Handler, Steps
<1>11. CASE AppSend
  <2>1. PICK result \in SendDataResult : ch' = Send(ch, accepted + 1, result)
    BY <1>11 DEF AppSend, DataAnswers, SendDataResult, Handler
  <2> QED BY <1>0, <1>11, <2>1, SendGood DEF AppSend, Steps
<1>12. CASE AppClose
  BY <1>0, <1>12, CloseGood DEF AppClose, Handler, Steps
<1>13. CASE AppRegisterObserver
  BY <1>0, <1>13, RegisterObserverGood DEF AppRegisterObserver, Handler, Steps
<1>14. CASE AppUnregisterObserver
  BY <1>0, <1>14, RegisterObserverGood DEF AppUnregisterObserver, Handler, Steps
<1>15. CASE UNCHANGED vars
  BY <1>0, <1>15 DEF vars, Steps
<1> QED BY <1>1, <1>2, <1>3, <1>4, <1>5, <1>6, <1>7, <1>8, <1>9, <1>10, <1>11,
           <1>12, <1>13, <1>14, <1>15 DEF Next

LEMMA OrderInvariant == Spec => []OrderInv
<1>1. OrderInv /\ [Next]_vars => OrderInv'
  BY StepOrderInv
<1> QED BY InitOrderInv, <1>1, PTL DEF Spec

LEMMA OrderInvTypes ==
  ASSUME OrderInv
  PROVE  /\ WellFormed(ch) /\ ch \in Channel /\ accepted \in Nat /\ arrived \in Nat
         /\ ch.out \in Seq(Message) /\ ch.sendq \in Seq(Nat)
         /\ ch.got \in Seq(Nat) /\ ch.recvq \in Seq(Nat)
         /\ heard \in BOOLEAN /\ ch.state \in DataState
BY DEF OrderInv, ChannelInv, TypeOK, Good, WellFormed, Channel

(* The messages of the application reach the transport once, in the order  *)
(* of Send and without a gap, and what is not sent yet waits in the same   *)
(* order: through blocked and failed sends, the refilling of both queues   *)
(* and the closing of the channel, at most the message that closed it is   *)
(* lost.                                                                   *)
THEOREM SendsInOrder == Spec => []SendFifo
<1>1. OrderInv => SendFifo
  <2> SUFFICES ASSUME OrderInv PROVE SendFifo
    OBVIOUS
  <2>1. /\ ch.out \in Seq(Message) /\ ch.sendq \in Seq(Nat) /\ accepted \in Nat
        /\ Sends(ch, accepted)
    BY OrderInvTypes DEF OrderInv, Good
  <2>2. PICK n \in 0..accepted : \E k \in 0..n :
          /\ Carries(ch.out, k) /\ Waits(ch.sendq, k, n)
          /\ n + 1 >= accepted /\ (Live(ch) => n = accepted)
    BY <2>1 DEF Sends
  <2>3. PICK k \in 0..n : Carries(ch.out, k) /\ Waits(ch.sendq, k, n)
    BY <2>2
  <2>4. DataSent = {i \in 1..Len(ch.out) : IsData(ch.out[i])}
    BY <2>1 DEF DataSent, DataOut
  <2>5. {ch.out[i].id : i \in DataSent} = 1..k
    BY <2>3, <2>4 DEF Carries
  <2>6. \A i, j \in DataSent : i < j => ch.out[i].id < ch.out[j].id
    BY <2>3, <2>4 DEF Carries
  <2>7. ch.sendq = [i \in 1..(n - k) |-> k + i]
    <3>1. PICK q \in Seq(Nat) : q = ch.sendq
      BY <2>1
    <3>2. Len(q) = n - k /\ \A i \in 1..(n - k) : q[i] = k + i
      BY <2>3, <3>1 DEF Waits
    <3>3. q = [i \in 1..Len(q) |-> q[i]]
      OBVIOUS
    <3> QED BY <3>1, <3>2, <3>3
  <2>8. ch.state \in {"kConnecting", "kOpen"} => n = accepted
    BY <2>2 DEF Live
  <2> QED BY <2>2, <2>3, <2>5, <2>6, <2>7, <2>8 DEF SendFifo
<1> QED BY OrderInvariant, <1>1, PTL

(* The peer's messages reach the observer once and in order, and none is   *)
(* missing as long as the channel did not close, whenever the observer     *)
(* comes and goes; an open channel with an observer holds nothing back.    *)
THEOREM ReceivesInOrder == Spec => []ReceiveFifo
<1>1. OrderInv => ReceiveFifo
  <2> SUFFICES ASSUME OrderInv PROVE ReceiveFifo
    OBVIOUS
  <2>1. ch.got \in Seq(Nat) /\ ch.recvq \in Seq(Nat) /\ arrived \in Nat /\ Receives(ch, arrived)
    BY OrderInvTypes DEF OrderInv, Good
  <2>2. PICK s \in Seq(Nat) : s = ch.got \o ch.recvq
    BY <2>1, JoinedWith
  <2>3. DOMAIN s = 1..Len(s)
    OBVIOUS
  <2>4. \A i, j \in DOMAIN s : i < j => s[i] < s[j]
    BY <2>1, <2>2, <2>3 DEF Receives, Ascends
  <2>5. ch.state \in {"kConnecting", "kOpen"} => s = Upto(arrived)
    <3>1. SUFFICES ASSUME Complete(s, arrived) PROVE s = Upto(arrived)
      BY <2>1, <2>2 DEF Receives, Live
    <3>2. Len(s) = arrived /\ \A i \in 1..arrived : s[i] = i
      BY <3>1 DEF Complete
    <3>3. s = [i \in 1..Len(s) |-> s[i]]
      OBVIOUS
    <3> QED BY <3>2, <3>3 DEF Upto
  <2>6. ch.state = "kOpen" /\ ch.observer => ch.recvq = << >>
    BY <2>1 DEF Receives
  <2> QED BY <2>2, <2>4, <2>5, <2>6 DEF ReceiveFifo
<1> QED BY OrderInvariant, <1>1, PTL

(* The OPEN, ordered, is the first message an opener sends, the OPEN_ACK   *)
(* an acker's, and an opener sends ordered data until something came back: *)
(* so the peer never gets data of a channel it does not know.              *)
THEOREM OpenComesFirst == Spec => []OpenBeforeData
<1>1. OrderInv => OpenBeforeData
  <2> SUFFICES ASSUME OrderInv PROVE OpenBeforeData
    OBVIOUS
  <2>1. ch.out \in Seq(Message) /\ Tells(ch, heard)
    BY OrderInvTypes DEF OrderInv, Good
  <2>2. DOMAIN ch.out = 1..Len(ch.out)
    BY <2>1
  <2> QED BY <2>1, <2>2 DEF Tells, OpenBeforeData
<1> QED BY OrderInvariant, <1>1, PTL

===========================================================================
