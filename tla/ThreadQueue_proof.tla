------------------------- MODULE ThreadQueue_proof -------------------------
(***************************************************************************)
(* Proofs about ThreadQueue: its invariants hold for any threads, any      *)
(* relations between them and any bounds.                                  *)
(***************************************************************************)
EXTENDS ThreadQueue, SequenceLemmas

(* The messages whose handlers run on thread t, and those it has sent and  *)
(* waits for.                                                              *)
Running(t) == {n \in MessageId : \E i \in DOMAIN stack[t] : stack[t][i] = OnMessage(n)}
Awaited(t) == {n \in MessageId : \E i \in DOMAIN stack[t] :
                                   stack[t][i].op = "Send" /\ stack[t][i].msg = n}

---------------------------------------------------------------------------
(* The inductive invariant, first what it says of one stack.               *)

(* The loop's Get is at the bottom and nowhere else.                       *)
GetIsLoop(t) ==
  /\ \A i \in DOMAIN stack[t] : stack[t][i].op = "Get" => i = 1 /\ t \in Loops
  /\ stack[t] # << >> =>
       stack[t][1].op = IF t \in Loops THEN "Get" ELSE "OnMessage"

(* What is called from where: a handler by Get, and by a Send for the      *)
(* thread it waits for; a Send by a handler.                               *)
Nested(t) ==
  \A i \in 1..(Len(stack[t]) - 1) :
    LET call == stack[t][i]
        above == stack[t][i + 1]
    IN  /\ call.op = "Get" => above.op = "OnMessage" /\ call.pc \in {"sends", "queue"}
        /\ call.op = "OnMessage" => above.op = "Send"
        /\ call.op = "Send" =>
             /\ call.pc = "sends" /\ above.op = "OnMessage" /\ above.msg > 0
             /\ issued[above.msg].kind = "send"
             /\ issued[above.msg].from = call.to

HandlersAreFor(t) ==
  \A i \in DOMAIN stack[t] :
    stack[t][i].op = "OnMessage" /\ stack[t][i].msg > 0 =>
      /\ stack[t][i].msg \in DOMAIN issued
      /\ issued[stack[t][i].msg].to = t

SendsAreBy(t) ==
  \A i \in DOMAIN stack[t] : stack[t][i].op = "Send" =>
    /\ stack[t][i].msg \in DOMAIN issued
    /\ issued[stack[t][i].msg].from = t
    /\ issued[stack[t][i].msg].to = stack[t][i].to
    /\ issued[stack[t][i].msg].kind = "send"
    /\ << t, stack[t][i].to >> \in CanSend /\ stack[t][i].to # t

(* A Send is younger than every handler and Send it is on top of.          *)
Ascending(t) ==
  \A i, j \in DOMAIN stack[t] :
    i < j /\ stack[t][j].op = "Send" /\ stack[t][i].op # "Get"
    => stack[t][i].msg < stack[t][j].msg

RunsOnce(t) ==
  \A i, j \in DOMAIN stack[t] :
    stack[t][i].op = "OnMessage" /\ stack[t][i] = stack[t][j] /\ stack[t][i].msg > 0
    => i = j

StackOK(t) ==
  GetIsLoop(t) /\ Nested(t) /\ HandlersAreFor(t) /\ SendsAreBy(t) /\ Ascending(t)
  /\ RunsOnce(t)

---------------------------------------------------------------------------
(* What it says of the queues.                                             *)

QueuedFor(t) ==
  /\ \A n \in Range(sendlist[t]) :
       n \in DOMAIN issued /\ issued[n].to = t /\ issued[n].kind = "send"
  /\ \A n \in Range(msgq[t]) :
       n \in DOMAIN issued /\ issued[n].to = t /\ issued[n].kind # "send"
  /\ \A n \in dmsgq[t] :
       n \in DOMAIN issued /\ issued[n].to = t /\ issued[n].kind = "delayed"
  /\ \A n \in Range(handled[t]) : n \in DOMAIN issued /\ issued[n].to = t

(* A message is in one place.                                              *)
InOnePlace(t) ==
  /\ IsInjective(sendlist[t]) /\ IsInjective(msgq[t]) /\ IsInjective(handled[t])
  /\ Range(msgq[t]) \cap dmsgq[t] = {}
  /\ (Range(sendlist[t]) \cup Range(msgq[t]) \cup dmsgq[t])
       \cap (Running(t) \cup Range(handled[t])) = {}
  /\ Running(t) \cap Range(handled[t]) = {}

(* And it is somewhere.                                                    *)
Placed(t) ==
  \A n \in DOMAIN issued : issued[n].to = t =>
    /\ t \in Loops
    /\ n \in UNION {cleared, Range(handled[t]), Running(t),
                    Range(sendlist[t]), Range(msgq[t]), dmsgq[t]}

(* Until a message that was sent is answered its Send waits, and a Send    *)
(* waits for a message that will be answered.                              *)
SendsWait(t) ==
  \A n \in DOMAIN issued, from \in Thread :
    issued[n].to = t /\ issued[n].from = from /\ issued[n].kind = "send" =>
      /\ n \in Range(sendlist[t]) \cup Running(t) =>
           n \in Awaited(from) /\ n \notin ready
      /\ n \in Awaited(from) /\ n \notin ready =>
           n \in Range(sendlist[t]) \cup Running(t)

Recorded == ready \cup cleared \subseteq DOMAIN issued

---------------------------------------------------------------------------
(* What it says of the wake-up signal.                                     *)

LoopEnds(t) == t \in Loops /\ stack[t] = << >> => fStop[t]

GetWakes(t) ==
  ~wake[t] /\ In(t, "Get") =>
    /\ Top(t).pc # "sends" => \A n \in Range(sendlist[t]) : Signalling(n)
    /\ Top(t).pc \in {"stop", "wait"} => msgq[t] = << >>
    /\ Top(t).pc = "wait" => ~fStop[t]

SendWakes(t) ==
  ~wake[t] /\ At(t, "Send", "wait") =>
    \A n \in Range(sendlist[t]) : issued[n].from = Top(t).to => Signalling(n)

(* The signal of an answered Send may be consumed by a Send on top of it,  *)
(* which will give it back.                                                *)
AnswerWakes(t) ==
  \A i \in DOMAIN stack[t] :
    /\ stack[t][i].op = "Send" /\ stack[t][i].pc \in {"sends", "wait"}
    /\ stack[t][i].msg \in ready
    => wake[t] \/ \E j \in DOMAIN stack[t] :
                     j > i /\ stack[t][j].op = "Send" /\ stack[t][j].waited

---------------------------------------------------------------------------
(* What it says of the order of posted messages.                           *)

Before(m, n) ==
  /\ m < n /\ issued[m].to = issued[n].to
  /\ issued[m].kind = issued[n].kind /\ issued[n].kind # "send"
  /\ issued[m].trigger <= issued[n].trigger

Over(t, m) == m \in cleared \/ m \in Range(handled[t])

RunningInOrder(t) ==
  \A n \in Running(t) : \A m \in DOMAIN issued : Before(m, n) => Over(t, m)

QueuedInOrder(t) ==
  \A p \in DOMAIN msgq[t] : \A m, n \in DOMAIN issued :
    n = msgq[t][p] /\ Before(m, n) =>
      Over(t, m) \/ m \in Running(t) \/ \E q \in 1..(p - 1) : msgq[t][q] = m

Wakes(t) == LoopEnds(t) /\ GetWakes(t) /\ SendWakes(t) /\ AnswerWakes(t)

Books ==
  /\ Recorded /\ PostsInOrder
  /\ \A t \in Thread : /\ QueuedFor(t) /\ InOnePlace(t) /\ Placed(t) /\ SendsWait(t)
                       /\ RunningInOrder(t) /\ QueuedInOrder(t)

IInv == TypeOK /\ Books /\ \A t \in Thread : StackOK(t) /\ Wakes(t)

---------------------------------------------------------------------------
(* Calls and stacks.                                                       *)

LEMMA CallKinds ==
  ASSUME NEW c \in Call
  PROVE  /\ c.op \in {"Get", "OnMessage", "Send"}
         /\ c.op = "Get" => c.pc \in {"sends", "queue", "stop", "wait"}
         /\ c.op = "OnMessage" => c.msg \in 0..MaxMessages /\ c = OnMessage(c.msg)
         /\ c.op = "Send" => /\ c.pc \in {"signal", "check", "sends", "wait"}
                             /\ c.to \in Thread /\ c.msg \in MessageId
                             /\ c.waited \in BOOLEAN
BY DEF Call, OnMessage

LEMMA TopIsCall ==
  ASSUME TypeOK, NEW t \in Thread
  PROVE  /\ Len(stack[t]) \in Nat /\ DOMAIN stack[t] = 1..Len(stack[t])
         /\ \A i \in 1..Len(stack[t]) : stack[t][i] \in Call
         /\ ~Exited(t) => Len(stack[t]) >= 1 /\ Top(t) = stack[t][Len(stack[t])] /\ Top(t) \in Call
<1>1. stack[t] \in Seq(Call)
  BY DEF TypeOK
<1>2. Len(stack[t]) \in Nat /\ DOMAIN stack[t] = 1..Len(stack[t])
  BY <1>1
<1>3. \A i \in 1..Len(stack[t]) : stack[t][i] \in Call
  BY <1>1, ElementOfSeq
<1>4. ~Exited(t) => Len(stack[t]) >= 1
  BY <1>1, <1>2, EmptySeq DEF Exited
<1> QED BY <1>2, <1>3, <1>4 DEF Top, Last

Others(t) == \A s \in Thread : s # t => stack'[s] = stack[s]

LEMMA Entered ==
  ASSUME TypeOK, NEW t \in Thread, NEW c \in Call, Enter(t, c)
  PROVE  /\ stack' \in [Thread -> Seq(Call)]
         /\ Others(t)
         /\ Len(stack'[t]) = Len(stack[t]) + 1
         /\ \A i \in 1..Len(stack[t]) : stack'[t][i] = stack[t][i]
         /\ stack'[t][Len(stack[t]) + 1] = c
<1>1. stack[t] \in Seq(Call) /\ stack \in [Thread -> Seq(Call)]
  BY DEF TypeOK
<1>2. stack'[t] = Append(stack[t], c) /\ Others(t)
  BY <1>1 DEF Enter, Others
<1>3. stack' \in [Thread -> Seq(Call)]
  BY <1>1, AppendProperties DEF Enter
<1> QED BY <1>1, <1>2, <1>3, AppendProperties

LEMMA Became ==
  ASSUME TypeOK, NEW t \in Thread, NEW c \in Call, ~Exited(t), Become(t, c)
  PROVE  /\ stack' \in [Thread -> Seq(Call)]
         /\ Others(t)
         /\ Len(stack'[t]) = Len(stack[t])
         /\ \A i \in 1..(Len(stack[t]) - 1) : stack'[t][i] = stack[t][i]
         /\ stack'[t][Len(stack[t])] = c
<1>1. stack[t] \in Seq(Call) /\ stack[t] # << >> /\ stack \in [Thread -> Seq(Call)]
  BY DEF TypeOK, Exited
<1>2. stack'[t] = Append(Front(stack[t]), c) /\ Others(t)
  BY <1>1 DEF Become, Others
<1>3. stack' \in [Thread -> Seq(Call)]
  <2>1. Append(Front(stack[t]), c) \in Seq(Call)
    BY <1>1, ReplaceLastProperties
  <2> QED BY <1>1, <2>1 DEF Become
<1> QED BY <1>1, <1>2, <1>3, ReplaceLastProperties

LEMMA Returned ==
  ASSUME TypeOK, NEW t \in Thread, ~Exited(t), Return(t)
  PROVE  /\ stack' \in [Thread -> Seq(Call)]
         /\ Others(t)
         /\ Len(stack'[t]) = Len(stack[t]) - 1
         /\ \A i \in 1..(Len(stack[t]) - 1) : stack'[t][i] = stack[t][i]
<1>1. stack[t] \in Seq(Call) /\ stack[t] # << >> /\ stack \in [Thread -> Seq(Call)]
  BY DEF TypeOK, Exited
<1>2. stack'[t] = Front(stack[t]) /\ Others(t)
  BY <1>1 DEF Return, Others
<1>3. stack' \in [Thread -> Seq(Call)]
  BY <1>1, FrontProperties DEF Return
<1> QED BY <1>1, <1>2, <1>3, FrontProperties

(* A handler that was posted is over: the loop's Get begins again.  *)
LEMMA HandlerLeft ==
  ASSUME TypeOK, NEW t \in Thread, In(t, "OnMessage"),
         stack' = [stack EXCEPT ![t] = AfterHandler(t)]
  PROVE  /\ stack' \in [Thread -> Seq(Call)]
         /\ Others(t)
         /\ Len(stack'[t]) = Len(stack[t]) - 1
         /\ \A i \in 1..(Len(stack[t]) - 1) :
              stack'[t][i] = IF stack[t][i].op = "Get" /\ stack[t][i].pc = "queue" /\ i = Len(stack[t]) - 1
                             THEN Get ELSE stack[t][i]
<1>1. stack[t] \in Seq(Call) /\ stack[t] # << >> /\ stack \in [Thread -> Seq(Call)]
  BY DEF TypeOK, In, Exited
<1>2. stack'[t] = AfterHandler(t) /\ Others(t)
  BY <1>1 DEF Others
<1> DEFINE f == Front(stack[t])
<1>3. f \in Seq(Call) /\ Len(f) = Len(stack[t]) - 1 /\ \A i \in 1..(Len(stack[t]) - 1) : f[i] = stack[t][i]
  BY <1>1, FrontProperties
<1>4. AfterHandler(t) = IF f # << >> /\ Last(f).op = "Get" /\ Last(f).pc = "queue"
                        THEN Append(Front(f), Get) ELSE f
  BY DEF AfterHandler
<1>5. Get \in Call
  BY DEF Get, Call
<1> HIDE DEF f
<1>6. CASE f = << >>
  <2>1. AfterHandler(t) = f
    BY <1>4, <1>6
  <2>2. Len(stack[t]) - 1 = 0
    BY <1>3, <1>6
  <2> QED BY <1>1, <1>2, <1>3, <2>1, <2>2
<1>7. CASE f # << >>
  <2>1. Len(f) >= 1 /\ Last(f) = stack[t][Len(stack[t]) - 1]
    BY <1>3, <1>7, EmptySeq DEF Last
  <2>2. CASE Last(f).op = "Get" /\ Last(f).pc = "queue"
    <3>1. AfterHandler(t) = Append(Front(f), Get)
      BY <1>4, <1>7, <2>2
    <3>2. /\ Append(Front(f), Get) \in Seq(Call)
          /\ Len(Append(Front(f), Get)) = Len(f)
          /\ \A i \in 1..(Len(f) - 1) : Append(Front(f), Get)[i] = f[i]
          /\ Append(Front(f), Get)[Len(f)] = Get
      BY <1>3, <1>5, <1>7, ReplaceLastProperties
    <3>3. /\ stack'[t] \in Seq(Call)
          /\ Len(stack'[t]) = Len(stack[t]) - 1
          /\ \A i \in 1..(Len(stack[t]) - 2) : stack'[t][i] = stack[t][i]
          /\ stack'[t][Len(stack[t]) - 1] = Get
      BY <1>2, <1>3, <2>1, <3>1, <3>2
    <3>4. stack' \in [Thread -> Seq(Call)]
      BY <1>1, <3>3
    <3> QED BY <1>2, <1>3, <2>1, <2>2, <3>3, <3>4
  <2>3. CASE ~(Last(f).op = "Get" /\ Last(f).pc = "queue")
    <3>1. AfterHandler(t) = f
      BY <1>4, <2>3
    <3> QED BY <1>1, <1>2, <1>3, <2>1, <2>3, <3>1
  <2> QED BY <2>2, <2>3
<1> QED BY <1>6, <1>7


---------------------------------------------------------------------------
(* The stack invariant under each change of a stack.                       *)

IssuedKept == \A n \in DOMAIN issued : n \in DOMAIN issued' /\ issued'[n] = issued[n]

LEMMA StackStays ==
  ASSUME TypeOK, NEW s \in Thread, StackOK(s), stack'[s] = stack[s], IssuedKept
  PROVE  StackOK(s)' /\ Running(s)' = Running(s) /\ Awaited(s)' = Awaited(s)
<1>1. DOMAIN stack[s] = 1..Len(stack[s]) /\ Len(stack[s]) \in Nat
      /\ \A i \in 1..Len(stack[s]) : stack[s][i] \in Call
  BY TopIsCall
<1>2. \A i \in 1..Len(stack[s]) : stack[s][i].op = "OnMessage" => stack[s][i].msg \in 0..MaxMessages
  BY <1>1, CallKinds
<1>3. GetIsLoop(s)' /\ Ascending(s)' /\ RunsOnce(s)'
  BY DEF StackOK, GetIsLoop, Ascending, RunsOnce
<1>4. HandlersAreFor(s)'
  BY DEF StackOK, HandlersAreFor, IssuedKept
<1>5. SendsAreBy(s)'
  BY DEF StackOK, SendsAreBy, IssuedKept
<1>6. Nested(s)'
  BY <1>1, <1>2 DEF StackOK, Nested, HandlersAreFor, IssuedKept
<1>7. Running(s)' = Running(s) /\ Awaited(s)' = Awaited(s)
  BY DEF Running, Awaited
<1> QED BY <1>3, <1>4, <1>5, <1>6, <1>7 DEF StackOK

(* The top call goes on.                                                   *)
LEMMA StackBecame ==
  ASSUME TypeOK, NEW t \in Thread, StackOK(t), ~Exited(t),
         NEW c \in Call, Become(t, c), UNCHANGED issued,
         c.op = Top(t).op, c.op # "OnMessage",
         c.op = "Send" => c.msg = Top(t).msg /\ c.to = Top(t).to
  PROVE  StackOK(t)' /\ Running(t)' = Running(t) /\ Awaited(t)' = Awaited(t)
<1> DEFINE L == Len(stack[t])
<1>1. /\ DOMAIN stack[t] = 1..L /\ L \in Nat \ {0}
      /\ stack[t][L] = Top(t) 
      /\ \A i \in 1..L : stack[t][i] \in Call
  BY TopIsCall
<1>2. /\ DOMAIN stack'[t] = 1..L /\ Len(stack'[t]) = L
      /\ \A i \in 1..(L - 1) : stack'[t][i] = stack[t][i]
      /\ stack'[t][L] = c
      /\ stack'[t] # << >>
  <2>1. stack' \in [Thread -> Seq(Call)]
    BY Became
  <2> QED BY <1>1, <2>1, Became
<1>3. \A i \in 1..L : stack[t][i].op = "OnMessage" => stack[t][i].msg \in 0..MaxMessages
  BY <1>1, CallKinds
<1> HIDE DEF L
<1>4. \A i \in 1..L : /\ stack'[t][i].op = stack[t][i].op
                      /\ stack[t][i].op = "OnMessage" => stack'[t][i] = stack[t][i]
                      /\ stack[t][i].op = "Send" =>
                           /\ stack'[t][i].msg = stack[t][i].msg
                           /\ stack'[t][i].to = stack[t][i].to
  BY <1>1, <1>2
<1>5. GetIsLoop(t)'
  BY <1>1, <1>2, <1>4 DEF StackOK, GetIsLoop, Exited
<1>6. Nested(t)'
  BY <1>1, <1>2, <1>4 DEF StackOK, Nested
<1>7. HandlersAreFor(t)'
  BY <1>1, <1>2, <1>4 DEF StackOK, HandlersAreFor
<1>8. SendsAreBy(t)'
  BY <1>1, <1>2, <1>4 DEF StackOK, SendsAreBy
<1>9. Ascending(t)'
  <2> SUFFICES ASSUME NEW i \in 1..L, NEW j \in 1..L, i < j, stack'[t][j].op = "Send", stack'[t][i].op # "Get"
               PROVE  stack'[t][i].msg < stack'[t][j].msg
    BY <1>2 DEF Ascending
  <2>1. stack[t][i].msg < stack[t][j].msg
    BY <1>1, <1>4 DEF StackOK, Ascending
  <2>2. stack'[t][i] = stack[t][i]
    BY <1>1, <1>2
  <2> QED BY <1>4, <2>1, <2>2
<1>10. RunsOnce(t)'
  BY <1>1, <1>2, <1>4 DEF StackOK, RunsOnce
<1>11. Running(t)' = Running(t)
  <2>1. \A i \in 1..L, n \in MessageId : stack'[t][i] = OnMessage(n) <=> stack[t][i] = OnMessage(n)
    BY <1>1, <1>2, <1>4 DEF OnMessage
  <2> QED BY <1>1, <1>2, <2>1 DEF Running
<1>12. Awaited(t)' = Awaited(t)
  BY <1>1, <1>2, <1>4 DEF Awaited
<1> QED BY <1>5, <1>6, <1>7, <1>8, <1>9, <1>10, <1>11, <1>12 DEF StackOK

(* A handler is called.                                                    *)
LEMMA StackHandles ==
  ASSUME TypeOK, NEW t \in Thread, StackOK(t), ~Exited(t), UNCHANGED issued,
         NEW k \in MessageId, Enter(t, OnMessage(k)),
         k \in DOMAIN issued, issued[k].to = t, k \notin Running(t),
         \/ At(t, "Get", "sends") \/ At(t, "Get", "queue")
         \/ /\ At(t, "Send", "sends")
            /\ issued[k].kind = "send" /\ issued[k].from = Top(t).to
  PROVE  /\ StackOK(t)' /\ Running(t)' = Running(t) \cup {k}
         /\ Awaited(t)' = Awaited(t)
<1> DEFINE L == Len(stack[t])
<1>1. /\ DOMAIN stack[t] = 1..L /\ L \in Nat \ {0}
      /\ stack[t][L] = Top(t) 
      /\ \A i \in 1..L : stack[t][i] \in Call
  BY TopIsCall
<1>0. OnMessage(k) \in Call
  BY DEF OnMessage, Call, MessageId
<1>2. /\ DOMAIN stack'[t] = 1..(L + 1) /\ Len(stack'[t]) = L + 1
      /\ \A i \in 1..L : stack'[t][i] = stack[t][i]
      /\ stack'[t][L + 1] = OnMessage(k)
      /\ stack'[t] # << >>
  <2>1. stack' \in [Thread -> Seq(Call)] /\ Len(stack'[t]) = L + 1
    BY <1>0, Entered
  <2> QED BY <1>0, <1>1, <2>1, Entered
<1>3. \A i \in 1..L : /\ stack[t][i].op = "OnMessage" => stack[t][i] = OnMessage(stack[t][i].msg)
  BY <1>1, CallKinds
<1>4. OnMessage(k).op = "OnMessage" /\ OnMessage(k).msg = k /\ k > 0
  BY DEF OnMessage, MessageId
<1> HIDE DEF L
<1>5. GetIsLoop(t)'
  BY <1>1, <1>2, <1>4 DEF StackOK, GetIsLoop, Exited
<1>6. Nested(t)'
  <2> SUFFICES ASSUME NEW i \in 1..L
               PROVE  LET call == stack'[t][i]
                          above == stack'[t][i + 1]
                      IN  /\ call.op = "Get" => above.op = "OnMessage" /\ call.pc \in {"sends", "queue"}
                          /\ call.op = "OnMessage" => above.op = "Send"
                          /\ call.op = "Send" =>
                               /\ call.pc = "sends" /\ above.op = "OnMessage" /\ above.msg > 0
                               /\ issued[above.msg].kind = "send"
                               /\ issued[above.msg].from = call.to
    <3>1. Len(stack'[t]) - 1 = L /\ issued' = issued
      BY <1>1, <1>2
    <3> QED BY <3>1 DEF Nested
  <2>1. CASE i = L
    BY <1>1, <1>2, <1>4, <2>1 DEF At, In
  <2>2. CASE i # L
    <3>1. i \in 1..(L - 1) /\ i + 1 \in 1..L
      BY <1>1, <2>2
    <3>2. stack'[t][i] = stack[t][i] /\ stack'[t][i + 1] = stack[t][i + 1]
      BY <1>2, <3>1
    <3> QED BY <1>1, <3>1, <3>2 DEF StackOK, Nested, L
  <2> QED BY <2>1, <2>2
<1>7. HandlersAreFor(t)'
  BY <1>1, <1>2, <1>4 DEF StackOK, HandlersAreFor
<1>8. SendsAreBy(t)'
  BY <1>1, <1>2, <1>4 DEF StackOK, SendsAreBy
<1>9. Ascending(t)'
  <2> SUFFICES ASSUME NEW i \in 1..(L + 1), NEW j \in 1..(L + 1), i < j,
                      stack'[t][j].op = "Send", stack'[t][i].op # "Get"
               PROVE  stack'[t][i].msg < stack'[t][j].msg
    BY <1>2 DEF Ascending
  <2>1. j # L + 1
    BY <1>2, <1>4
  <2>2. i \in 1..L /\ j \in 1..L
    BY <1>1, <2>1
  <2> QED BY <1>1, <1>2, <2>2 DEF StackOK, Ascending
<1>10. RunsOnce(t)'
  <2>1. \A i \in 1..L : stack[t][i] # OnMessage(k)
    BY <1>1 DEF Running
  <2> SUFFICES ASSUME NEW i \in 1..(L + 1), NEW j \in 1..(L + 1),
                      stack'[t][i].op = "OnMessage", stack'[t][i] = stack'[t][j],
                      stack'[t][i].msg > 0
               PROVE  i = j
    BY <1>2 DEF RunsOnce
  <2>2. i \in 1..L <=> j \in 1..L
    BY <1>1, <1>2, <2>1
  <2>3. CASE i \in 1..L /\ j \in 1..L
    BY <1>1, <1>2, <2>3 DEF StackOK, RunsOnce
  <2> QED BY <1>1, <2>2, <2>3
<1>11. Running(t)' = Running(t) \cup {k}
  <2>1. \A n \in MessageId : OnMessage(n) = OnMessage(k) <=> n = k
    BY DEF OnMessage
  <2>2. ASSUME NEW n \in MessageId
        PROVE  n \in Running(t)' <=> n \in Running(t) \/ n = k
    BY <1>1, <1>2, <2>1 DEF Running
  <2> QED BY <2>2 DEF Running
<1>12. Awaited(t)' = Awaited(t)
  BY <1>1, <1>2, <1>4 DEF Awaited
<1> QED BY <1>5, <1>6, <1>7, <1>8, <1>9, <1>10, <1>11, <1>12 DEF StackOK

(* A handler calls Send.                                                   *)
LEMMA StackSends ==
  ASSUME TypeOK, NEW t \in Thread, StackOK(t), In(t, "OnMessage"), IssuedKept,
         NEW k \in MessageId, NEW c \in Call, Enter(t, c),
         c.op = "Send", c.msg = k, c.to # t, << t, c.to >> \in CanSend,
         k \in DOMAIN issued', issued'[k].to = c.to, issued'[k].from = t, issued'[k].kind = "send",
         \A n \in DOMAIN issued : n \in Int /\ n < k
  PROVE  /\ StackOK(t)' /\ Running(t)' = Running(t)
         /\ Awaited(t)' = Awaited(t) \cup {k}
<1> DEFINE L == Len(stack[t])
<1>1. /\ DOMAIN stack[t] = 1..L /\ L \in Nat \ {0}
      /\ stack[t][L] = Top(t) /\ Top(t).op = "OnMessage"
      /\ \A i \in 1..L : stack[t][i] \in Call
  BY TopIsCall DEF In
<1>2. /\ DOMAIN stack'[t] = 1..(L + 1) /\ Len(stack'[t]) = L + 1
      /\ \A i \in 1..L : stack'[t][i] = stack[t][i]
      /\ stack'[t][L + 1] = c
      /\ stack'[t] # << >>
  <2>1. stack' \in [Thread -> Seq(Call)] /\ Len(stack'[t]) = L + 1
    BY Entered
  <2> QED BY <1>1, <2>1, Entered
<1>3. \A i \in 1..L : stack[t][i].op = "OnMessage" => stack[t][i].msg \in 0..MaxMessages
  BY <1>1, CallKinds
<1> HIDE DEF L
<1>5. GetIsLoop(t)'
  BY <1>1, <1>2 DEF StackOK, GetIsLoop
<1>6. Nested(t)'
  <2> SUFFICES ASSUME NEW i \in 1..L
               PROVE  LET call == stack'[t][i]
                          above == stack'[t][i + 1]
                      IN  /\ call.op = "Get" => above.op = "OnMessage" /\ call.pc \in {"sends", "queue"}
                          /\ call.op = "OnMessage" => above.op = "Send"
                          /\ call.op = "Send" =>
                               /\ call.pc = "sends" /\ above.op = "OnMessage" /\ above.msg > 0
                               /\ issued'[above.msg].kind = "send"
                               /\ issued'[above.msg].from = call.to
    BY <1>1, <1>2, SMTT(40) DEF Nested
  <2>1. CASE i = L
    BY <1>1, <1>2, <2>1
  <2>2. CASE i # L
    <3>1. i \in 1..(L - 1) /\ i + 1 \in 1..L
      BY <1>1, <2>2
    <3>2. stack'[t][i] = stack[t][i] /\ stack'[t][i + 1] = stack[t][i + 1]
      BY <1>2, <3>1
    <3>3. stack[t][i + 1].op = "OnMessage" /\ stack[t][i + 1].msg > 0
          => issued'[stack[t][i + 1].msg] = issued[stack[t][i + 1].msg]
      BY <1>1, <3>1 DEF StackOK, HandlersAreFor, IssuedKept
    <3> QED BY <1>1, <3>1, <3>2, <3>3 DEF StackOK, Nested, L
  <2> QED BY <2>1, <2>2
<1>7. HandlersAreFor(t)'
  BY <1>1, <1>2 DEF StackOK, HandlersAreFor, IssuedKept
<1>8. SendsAreBy(t)'
  BY <1>1, <1>2 DEF StackOK, SendsAreBy, IssuedKept
<1>9. Ascending(t)'
  <2>1. \A i \in 1..L : stack[t][i].op # "Get" => stack[t][i].msg < k
    <3>1. \A i \in 1..L : stack[t][i].op \in {"Get", "OnMessage", "Send"}
      BY <1>1, CallKinds
    <3> SUFFICES ASSUME NEW i \in 1..L, stack[t][i].op # "Get" PROVE stack[t][i].msg < k
      OBVIOUS
    <3>2. CASE stack[t][i].op = "Send"
      BY <1>1, <3>2 DEF StackOK, SendsAreBy
    <3>3. CASE stack[t][i].op = "OnMessage" /\ stack[t][i].msg = 0
      BY <3>3 DEF MessageId
    <3>4. CASE stack[t][i].op = "OnMessage" /\ stack[t][i].msg > 0
      BY <1>1, <3>4 DEF StackOK, HandlersAreFor
    <3> QED BY <1>3, <3>1, <3>2, <3>3, <3>4
  <2> SUFFICES ASSUME NEW i \in 1..(L + 1), NEW j \in 1..(L + 1), i < j,
                      stack'[t][j].op = "Send", stack'[t][i].op # "Get"
               PROVE  stack'[t][i].msg < stack'[t][j].msg
    BY <1>2 DEF Ascending
  <2>2. i \in 1..L
    BY <1>1
  <2>3. CASE j = L + 1
    BY <1>2, <2>1, <2>2, <2>3
  <2>4. CASE j # L + 1
    <3>1. j \in 1..L
      BY <1>1, <2>4
    <3>2. i \in DOMAIN stack[t] /\ j \in DOMAIN stack[t]
      BY <1>1, <2>2, <3>1
    <3>3. stack'[t][i] = stack[t][i] /\ stack'[t][j] = stack[t][j]
      BY <1>2, <2>2, <3>1
    <3> QED BY <3>2, <3>3 DEF StackOK, Ascending
  <2> QED BY <2>3, <2>4
<1>10. RunsOnce(t)'
  BY <1>1, <1>2 DEF StackOK, RunsOnce, Running
<1>11. Running(t)' = Running(t)
  BY <1>1, <1>2 DEF Running, OnMessage
<1>12. Awaited(t)' = Awaited(t) \cup {k}
  BY <1>1, <1>2 DEF Awaited
<1> QED BY <1>5, <1>6, <1>7, <1>8, <1>9, <1>10, <1>11, <1>12 DEF StackOK

(* The top call is over, and a Get that becomes top may begin again.       *)
LEMMA StackShrinks ==
  ASSUME TypeOK, NEW t \in Thread, StackOK(t), ~Exited(t), UNCHANGED issued,
         stack' \in [Thread -> Seq(Call)],
         Len(stack'[t]) = Len(stack[t]) - 1,
         \A i \in 1..(Len(stack[t]) - 1) :
            \/ stack'[t][i] = stack[t][i]
            \/ stack[t][i].op = "Get" /\ stack'[t][i] = Get /\ i = Len(stack[t]) - 1
  PROVE  /\ StackOK(t)' 
         /\ Top(t).op = "OnMessage" => Running(t)' = Running(t) \ {Top(t).msg}
         /\ Top(t).op # "OnMessage" => Running(t)' = Running(t)
         /\ Awaited(t)' \subseteq Awaited(t)
         /\ Top(t).op = "Send" => Awaited(t) \subseteq Awaited(t)' \cup {Top(t).msg}
         /\ Top(t).op # "Send" => Awaited(t) \subseteq Awaited(t)'
<1> DEFINE L == Len(stack[t])
<1>1. /\ DOMAIN stack[t] = 1..L /\ L \in Nat \ {0}
      /\ stack[t][L] = Top(t) 
      /\ \A i \in 1..L : stack[t][i] \in Call
  BY TopIsCall
<1>2. DOMAIN stack'[t] = 1..(L - 1) /\ Len(stack'[t]) = L - 1
  BY <1>1
<1>3. \A i \in 1..L : stack[t][i].op = "OnMessage" => stack[t][i] = OnMessage(stack[t][i].msg)
  BY <1>1, CallKinds
<1>4. \A i \in 1..(L - 1) : /\ stack'[t][i].op = stack[t][i].op
                            /\ stack[t][i].op # "Get" \/ i # L - 1 => stack'[t][i] = stack[t][i]
  BY <1>1 DEF Get
<1> HIDE DEF L
<1>5. GetIsLoop(t)'
  BY <1>1, <1>2, <1>4, EmptySeq DEF StackOK, GetIsLoop, Exited
<1>6. Nested(t)'
  <2> SUFFICES ASSUME NEW i \in 1..(L - 2)
               PROVE  LET call == stack'[t][i]
                          above == stack'[t][i + 1]
                      IN  /\ call.op = "Get" => above.op = "OnMessage" /\ call.pc \in {"sends", "queue"}
                          /\ call.op = "OnMessage" => above.op = "Send"
                          /\ call.op = "Send" =>
                               /\ call.pc = "sends" /\ above.op = "OnMessage" /\ above.msg > 0
                               /\ issued[above.msg].kind = "send"
                               /\ issued[above.msg].from = call.to
    BY <1>1, <1>2 DEF Nested
  <2>1. i \in 1..(L - 1) /\ i + 1 \in 1..(L - 1) /\ i # L - 1
    BY <1>1
  <2>2. stack'[t][i] = stack[t][i] /\ stack'[t][i + 1].op = stack[t][i + 1].op
        /\ (stack[t][i + 1].op = "OnMessage" => stack'[t][i + 1] = stack[t][i + 1])
    BY <1>4, <2>1
  <2> QED BY <1>1, <2>1, <2>2 DEF StackOK, Nested, L
<1>7. HandlersAreFor(t)'
  BY <1>1, <1>2, <1>4 DEF StackOK, HandlersAreFor
<1>8. SendsAreBy(t)'
  BY <1>1, <1>2, <1>4 DEF StackOK, SendsAreBy
<1>9. Ascending(t)'
  BY <1>1, <1>2, <1>4, SMTT(40) DEF StackOK, Ascending
<1>10. RunsOnce(t)'
  BY <1>1, <1>2, <1>4 DEF StackOK, RunsOnce
<1>11. /\ Top(t).op = "OnMessage" => Running(t)' = Running(t) \ {Top(t).msg}
       /\ Top(t).op # "OnMessage" => Running(t)' = Running(t)
  <2>1. \A i \in 1..(L - 1), n \in MessageId : stack'[t][i] = OnMessage(n) <=> stack[t][i] = OnMessage(n)
    BY <1>1, <1>4 DEF OnMessage, Get
  <2>2. \A n \in MessageId : OnMessage(n).op = "OnMessage" /\ OnMessage(n).msg = n /\ n > 0
    BY DEF OnMessage, MessageId
  <2>3. CASE Top(t).op = "OnMessage"
    <3>1. ASSUME NEW n \in MessageId PROVE n \in Running(t)' <=> n \in Running(t) /\ n # Top(t).msg
      <4>1. n \in Running(t)' <=> \E i \in 1..(L - 1) : stack[t][i] = OnMessage(n)
        BY <1>2, <2>1 DEF Running
      <4>2. n \in Running(t) <=> \E i \in 1..L : stack[t][i] = OnMessage(n)
        BY <1>1 DEF Running
      <4>3. \A i \in 1..(L - 1) : stack[t][i] # stack[t][L] \/ Top(t).msg = 0
        <5> SUFFICES ASSUME NEW i \in 1..(L - 1), stack[t][i] = stack[t][L], Top(t).msg # 0 PROVE FALSE
          OBVIOUS
        <5>1. Top(t).msg > 0 /\ stack[t][i].op = "OnMessage" /\ stack[t][i].msg > 0
          BY <1>1, <2>3, CallKinds
        <5>2. i = L
          <6>1. i \in DOMAIN stack[t] /\ L \in DOMAIN stack[t]
            BY <1>1
          <6> QED BY <5>1, <6>1 DEF StackOK, RunsOnce
        <5> QED BY <1>1, <5>2
      <4>4. stack[t][L] = OnMessage(Top(t).msg)
        BY <1>1, <1>3, <2>3
      <4> QED BY <1>1, <4>1, <4>2, <4>3, <4>4, <2>2
    <3> QED BY <2>3, <3>1 DEF Running
  <2>4. CASE Top(t).op # "OnMessage"
    <3>1. ASSUME NEW n \in MessageId PROVE n \in Running(t)' <=> n \in Running(t)
      BY <1>1, <1>2, <2>1, <2>2, <2>4 DEF Running
    <3> QED BY <2>4, <3>1 DEF Running
  <2> QED BY <2>3, <2>4
<1>12. /\ Awaited(t)' \subseteq Awaited(t)
       /\ Top(t).op = "Send" => Awaited(t) \subseteq Awaited(t)' \cup {Top(t).msg}
       /\ Top(t).op # "Send" => Awaited(t) \subseteq Awaited(t)'
  <2>1. \A i \in 1..(L - 1), n \in MessageId :
          stack'[t][i].op = "Send" /\ stack'[t][i].msg = n <=> stack[t][i].op = "Send" /\ stack[t][i].msg = n
    BY <1>1, <1>4
  <2>2. \A n \in MessageId :
         n \in Awaited(t)' <=> \E i \in 1..(L - 1) : stack[t][i].op = "Send" /\ stack[t][i].msg = n
    BY <1>2, <2>1 DEF Awaited
  <2>3. \A n \in MessageId :
         n \in Awaited(t) <=> \E i \in 1..L : stack[t][i].op = "Send" /\ stack[t][i].msg = n
    BY <1>1 DEF Awaited
  <2>4. Awaited(t) \subseteq MessageId /\ Awaited(t)' \subseteq MessageId
    BY DEF Awaited
  <2> HIDE DEF Awaited
  <2>5. \A i \in 1..L : i \in 1..(L - 1) \/ i = L
    BY <1>1
  <2> QED BY <1>1, <2>2, <2>3, <2>4, <2>5
<1> QED BY <1>5, <1>6, <1>7, <1>8, <1>9, <1>10, <1>11, <1>12 DEF StackOK

---------------------------------------------------------------------------
(* What an action leaves of the other parts of the invariant.              *)

LEMMA IssuedMessages ==
  ASSUME TypeOK
  PROVE  /\ Len(issued) \in 0..MaxMessages /\ DOMAIN issued = 1..Len(issued)
         /\ \A n \in DOMAIN issued :
              /\ n \in MessageId /\ n \in Int
              /\ issued[n].from \in Thread /\ issued[n].to \in Thread
              /\ issued[n].kind \in {"send", "post", "delayed"}
              /\ issued[n].trigger \in 0..MaxTime
<1>1. issued \in Seq(Message) /\ Len(issued) <= MaxMessages
  BY DEF TypeOK
<1>2. MaxMessages \in Nat
  BY Limits
<1>3. Len(issued) \in Nat /\ DOMAIN issued = 1..Len(issued)
  BY <1>1
<1>4. \A n \in DOMAIN issued : issued[n] \in Message
  BY <1>1, <1>3, ElementOfSeq
<1> QED BY <1>1, <1>2, <1>3, <1>4 DEF MessageId, Message

LEMMA IssuedSame ==
  ASSUME UNCHANGED issued
  PROVE  IssuedKept
BY DEF IssuedKept

LEMMA BooksStay ==
  ASSUME TypeOK, Books, UNCHANGED << queues, issued, handled, cleared, ready >>,
         \A s \in Thread : /\ Running(s)' = Running(s)
                           /\ Awaited(s)' \subseteq Awaited(s)
                           /\ Awaited(s) \subseteq Awaited(s)' \cup ready
  PROVE  Books'
<1> USE DEF queues
<1>1. Recorded' /\ PostsInOrder'
  BY DEF Books, Recorded, PostsInOrder
<1>2. ASSUME NEW s \in Thread PROVE QueuedFor(s)' /\ InOnePlace(s)' /\ Placed(s)'
  BY DEF Books, QueuedFor, InOnePlace, Placed
<1>3. ASSUME NEW s \in Thread PROVE SendsWait(s)'
  <2>1. SendsWait(s)
    BY DEF Books
  <2> QED BY <2>1 DEF SendsWait
<1>4. ASSUME NEW s \in Thread PROVE RunningInOrder(s)' /\ QueuedInOrder(s)'
  BY DEF Books, RunningInOrder, QueuedInOrder, Before, Over
<1> QED BY <1>1, <1>2, <1>3, <1>4 DEF Books

LEMMA SignalStays ==
  ASSUME TypeOK, NEW t \in Thread, Others(t), IssuedKept,
         NEW n \in DOMAIN issued, Signalling(n),
         At(t, "Send", "signal") => issued[n].from # t
  PROVE  Signalling(n)'
<1>1. issued[n].from \in Thread /\ issued[n].from # t /\ issued'[n] = issued[n]
  BY IssuedMessages DEF Signalling, IssuedKept
<1>2. stack'[issued[n].from] = stack[issued[n].from]
  BY <1>1 DEF Others
<1> QED BY <1>1, <1>2 DEF Signalling, At, In, Top, Exited

LEMMA WakesStay ==
  ASSUME TypeOK, NEW s \in Thread, Wakes(s), stack'[s] = stack[s], IssuedKept,
         QueuedFor(s),
         wake[s] => wake'[s],
         fStop[s] => fStop'[s],
         fStop'[s] => fStop[s] \/ wake'[s],
         msgq[s] = << >> => msgq'[s] = << >> \/ wake'[s],
         wake'[s] \/ \A n \in Range(sendlist'[s]) :
                        \/ n \in Range(sendlist[s]) /\ (Signalling(n) => Signalling(n)')
                        \/ Signalling(n)',
         \A i \in DOMAIN stack[s] :
            stack[s][i].op = "Send" /\ stack[s][i].msg \in ready' => stack[s][i].msg \in ready \/ wake'[s]
  PROVE  Wakes(s)'
<1>1. LoopEnds(s)'
  BY DEF Wakes, LoopEnds
<1>2. GetWakes(s)'
  BY DEF Wakes, GetWakes, In, Top, Exited
<1>3. SendWakes(s)'
  BY DEF Wakes, SendWakes, At, In, Top, Exited, QueuedFor, IssuedKept
<1>4. AnswerWakes(s)'
  BY DEF Wakes, AnswerWakes
<1> QED BY <1>1, <1>2, <1>3, <1>4 DEF Wakes

LEMMA AnswersStay ==
  ASSUME NEW t \in Thread, AnswerWakes(t), NEW L \in Nat,
         DOMAIN stack[t] = 1..L, DOMAIN stack'[t] = 1..L,
         \A i \in 1..L :
            /\ stack'[t][i].op = stack[t][i].op
            /\ stack[t][i].op = "Send" =>
                 /\ stack'[t][i].msg = stack[t][i].msg
                 /\ stack[t][i].waited => stack'[t][i].waited
                 /\ stack'[t][i].pc \in {"sends", "wait"} =>
                      stack[t][i].pc \in {"sends", "wait"} \/ stack[t][i].msg \notin ready,
         wake[t] => wake'[t], UNCHANGED ready
  PROVE  AnswerWakes(t)'
<1> SUFFICES ASSUME NEW i \in 1..L, stack'[t][i].op = "Send", stack'[t][i].pc \in {"sends", "wait"},
                    stack'[t][i].msg \in ready', ~wake'[t]
             PROVE  \E j \in 1..L : j > i /\ stack'[t][j].op = "Send" /\ stack'[t][j].waited
  BY DEF AnswerWakes
<1>1. PICK j \in 1..L : j > i /\ stack[t][j].op = "Send" /\ stack[t][j].waited
  BY DEF AnswerWakes
<1> QED BY <1>1

(* What is below the top of a stack.                                       *)
LEMMA BelowTop ==
  ASSUME TypeOK, NEW t \in Thread, StackOK(t), ~Exited(t)
  PROVE  /\ Top(t).op = "Get" => Len(stack[t]) = 1 /\ t \in Loops
         /\ Top(t).op = "OnMessage" /\ Len(stack[t]) = 1 => t \notin Loops
         /\ Top(t).op = "Send" => Len(stack[t]) >= 2
         /\ Len(stack[t]) >= 2 =>
              LET call == stack[t][Len(stack[t]) - 1]
              IN  /\ call \in Call
                  /\ call.op = "Get" => Top(t).op = "OnMessage" /\ call.pc \in {"sends", "queue"}
                  /\ call.op = "OnMessage" => Top(t).op = "Send"
                  /\ call.op = "Send" =>
                       /\ call.pc = "sends" /\ Top(t).op = "OnMessage" /\ Top(t).msg > 0
                       /\ issued[Top(t).msg].kind = "send"
                       /\ issued[Top(t).msg].from = call.to
<1>1. PICK L \in Nat \ {0} : L = Len(stack[t])
  BY TopIsCall
<1>2. /\ DOMAIN stack[t] = 1..L /\ stack[t][L] = Top(t)
      /\ \A i \in 1..L : stack[t][i] \in Call
  BY <1>1, TopIsCall
<1>3. /\ Top(t).op = "Get" => L = 1 /\ t \in Loops
      /\ Top(t).op = "OnMessage" /\ L = 1 => t \notin Loops
      /\ Top(t).op = "Send" => L # 1
  <2>1. /\ \A i \in 1..L : stack[t][i].op = "Get" => i = 1 /\ t \in Loops
        /\ stack[t][1].op = IF t \in Loops THEN "Get" ELSE "OnMessage"
    BY <1>2 DEF StackOK, GetIsLoop, Exited
  <2> QED BY <1>2, <2>1
<1>4. ASSUME L >= 2
      PROVE  LET call == stack[t][L - 1]
             IN  /\ call.op = "Get" => Top(t).op = "OnMessage" /\ call.pc \in {"sends", "queue"}
                 /\ call.op = "OnMessage" => Top(t).op = "Send"
                 /\ call.op = "Send" =>
                      /\ call.pc = "sends" /\ Top(t).op = "OnMessage" /\ Top(t).msg > 0
                      /\ issued[Top(t).msg].kind = "send"
                      /\ issued[Top(t).msg].from = call.to
  <2>1. PICK j \in 1..(L - 1) : j = L - 1 /\ j + 1 = L
    BY <1>4
  <2>2. j \in 1..(Len(stack[t]) - 1) /\ stack[t][j + 1] = Top(t) /\ Nested(t)
    BY <1>1, <1>2, <2>1 DEF StackOK
  <2> QED BY <2>1, <2>2 DEF Nested
<1>5. L >= 2 => stack[t][L - 1] \in Call
  BY <1>2
<1>6. Top(t).op = "Send" => L >= 2
  BY <1>3
<1> HIDE DEF StackOK
<1> QED BY <1>1, <1>3, <1>4, <1>5, <1>6

LEMMA NewTop ==
  ASSUME NEW t \in Thread, stack' \in [Thread -> Seq(Call)], Len(stack'[t]) >= 1
  PROVE  ~Exited(t)' /\ Top(t)' = stack'[t][Len(stack'[t])]
<1>1. stack'[t] # << >>
  BY EmptySeq
<1> QED BY <1>1 DEF Exited, Top, Last

LEMMA GotoCall ==
  ASSUME NEW c \in Call, NEW p, 
         \/ c.op = "Get" /\ p \in {"sends", "queue", "stop", "wait"}
         \/ c.op = "Send" /\ p \in {"signal", "check", "sends", "wait"}
  PROVE  LET d == [c EXCEPT !.pc = p]
         IN  /\ d \in Call /\ d.op = c.op /\ d.pc = p
             /\ c.op = "Send" => d.msg = c.msg /\ d.to = c.to /\ d.waited = c.waited
BY DEF Call

LEMMA BystanderWakes ==
  ASSUME IInv, NEW t \in Thread, NEW s \in Thread, s # t,
         Others(t), ~At(t, "Send", "signal"), UNCHANGED << sendlist, msgq, ready, issued, fStop >>,
         wake[s] => wake'[s]
  PROVE  Wakes(s)'
<1>1. TypeOK /\ Wakes(s) /\ QueuedFor(s) /\ stack'[s] = stack[s] /\ IssuedKept
  BY IssuedSame DEF IInv, Books, Others
<1>2. \A n \in Range(sendlist[s]) : Signalling(n) => Signalling(n)'
  <2> SUFFICES ASSUME NEW n \in Range(sendlist[s]), Signalling(n) PROVE Signalling(n)'
    OBVIOUS
  <2>1. n \in DOMAIN issued
    BY <1>1 DEF QueuedFor
  <2> QED BY <1>1, <2>1, SignalStays
<1> QED BY <1>1, <1>2, WakesStay

(* The top call goes on, and the messages stay where they are.             *)
LEMMA GoesOn ==
  ASSUME IInv, NEW t \in Thread, ~Exited(t), NEW c \in Call, Become(t, c),
         c.op = Top(t).op, c.op # "OnMessage",
         c.op = "Send" => c.msg = Top(t).msg /\ c.to = Top(t).to
                          /\ (Top(t).waited => c.waited),
         UNCHANGED << queues, ready, issued, handled, cleared >>
  PROVE  /\ stack' \in [Thread -> Seq(Call)] /\ Others(t)
         /\ ~Exited(t)' /\ Top(t)' = c
         /\ Books' /\ \A s \in Thread : StackOK(s)'
         /\ /\ wake[t] => wake'[t]
            /\ c.op = "Send" /\ c.pc \in {"sends", "wait"} =>
                 Top(t).pc \in {"sends", "wait"} \/ Top(t).msg \notin ready
            => AnswerWakes(t)'
         /\ Len(stack'[t]) = Len(stack[t])
         /\ \A i \in 1..(Len(stack[t]) - 1) : stack'[t][i] = stack[t][i]
<1> DEFINE L == Len(stack[t])
<1>1. TypeOK /\ Books /\ StackOK(t) /\ AnswerWakes(t)
  BY DEF IInv, Wakes
<1>4. /\ stack' \in [Thread -> Seq(Call)] /\ Others(t) /\ Len(stack'[t]) = L
      /\ \A i \in 1..(L - 1) : stack'[t][i] = stack[t][i]
      /\ stack'[t][L] = c
  BY <1>1, Became
<1>5. IssuedKept
  BY IssuedSame
<1>6. ASSUME NEW s \in Thread
      PROVE  StackOK(s)' /\ Running(s)' = Running(s) /\ Awaited(s)' = Awaited(s)
  <2>1. StackOK(s)
    BY DEF IInv
  <2>2. CASE s = t
    BY <1>1, <2>1, <2>2, StackBecame
  <2>3. CASE s # t
    BY <1>1, <1>4, <1>5, <2>1, <2>3, StackStays DEF Others
  <2> QED BY <2>2, <2>3
<1>8. Books'
  BY <1>1, <1>6, BooksStay
<1>9. L \in Nat \ {0} /\ stack[t][L] = Top(t) /\ DOMAIN stack[t] = 1..L /\ DOMAIN stack'[t] = 1..L
  BY <1>1, <1>4, TopIsCall
<1>10. ~Exited(t)' /\ Top(t)' = c
  BY <1>4, <1>9, NewTop
<1>11. ASSUME wake[t] => wake'[t],
              c.op = "Send" /\ c.pc \in {"sends", "wait"} =>
                 Top(t).pc \in {"sends", "wait"} \/ Top(t).msg \notin ready
       PROVE  AnswerWakes(t)'
  <2>1. \A i \in 1..L : stack'[t][i] = stack[t][i] \/ i = L
    BY <1>4, <1>9
  <2>2. \A i \in 1..L :
          /\ stack'[t][i].op = stack[t][i].op
          /\ stack[t][i].op = "Send" =>
               /\ stack'[t][i].msg = stack[t][i].msg
               /\ stack[t][i].waited => stack'[t][i].waited
               /\ stack'[t][i].pc \in {"sends", "wait"} =>
                    stack[t][i].pc \in {"sends", "wait"} \/ stack[t][i].msg \notin ready
    BY <1>4, <1>9, <1>11, <2>1
  <2> QED BY <1>1, <1>9, <1>11, <2>2, AnswersStay
<1> QED BY <1>4, <1>6, <1>8, <1>10, <1>11

---------------------------------------------------------------------------
(* One lemma for each action.                                              *)

LEMMA SignalTargetKeeps ==
  ASSUME IInv, NEW t \in Thread, SignalTarget(t)
  PROVE  IInv'
<1> DEFINE c == [Top(t) EXCEPT !.pc = "check"]
           L == Len(stack[t])
<1>1. /\ TypeOK /\ Books /\ At(t, "Send", "signal") /\ ~Exited(t)
      /\ Top(t) \in Call /\ Top(t).op = "Send" /\ L \in DOMAIN stack[t] /\ stack[t][L] = Top(t)
  BY TopIsCall DEF IInv, SignalTarget, At, In
<1>2. /\ c \in Call /\ c.op = "Send" /\ c.pc = "check" 
      /\ c.msg = Top(t).msg /\ c.to = Top(t).to /\ c.waited = Top(t).waited
  BY <1>1, GotoCall
<1>3. Become(t, c) /\ wake' = [wake EXCEPT ![Top(t).to] = TRUE]
      /\ UNCHANGED << queues, fStop, ready, issued, history, clock >>
  BY DEF SignalTarget, Goto
<1>5. \A s \in Thread : wake[s] => wake'[s]
  BY <1>1, <1>3 DEF TypeOK
<1> HIDE DEF c, L
<1>4. /\ stack' \in [Thread -> Seq(Call)] /\ Others(t)
      /\ ~Exited(t)' /\ Top(t)' = c
      /\ Books' /\ \A s \in Thread : StackOK(s)'
      /\ AnswerWakes(t)'
  BY <1>1, <1>2, <1>3, <1>5, GoesOn DEF history
<1>7. TypeOK'
  BY <1>1, <1>3, <1>4 DEF TypeOK, queues, history
<1>10. ASSUME NEW s \in Thread PROVE Wakes(s)'
  <2>1. Wakes(s) /\ StackOK(t) /\ QueuedFor(s) /\ IssuedKept
    BY <1>3, IssuedSame DEF IInv, Books
  <2>2. CASE s = t
    BY <1>2, <1>4, <2>2 DEF Wakes, LoopEnds, GetWakes, SendWakes, At, In, Exited
  <2>3. CASE s # t
    <3>1. stack'[s] = stack[s]
      BY <1>4, <2>3 DEF Others
    <3>2. ASSUME NEW n \in Range(sendlist[s]), Signalling(n)
          PROVE  wake'[s] \/ Signalling(n)'
      <4>1. n \in DOMAIN issued /\ issued[n].to = s
        BY <2>1 DEF QueuedFor
      <4>2. CASE issued[n].from # t
        BY <1>1, <1>4, <2>1, <3>2, <4>1, <4>2, SignalStays
      <4>3. CASE issued[n].from = t
        <5>1. Top(t).msg = n
          BY <3>2, <4>3 DEF Signalling
        <5>2. Top(t).to = s
          BY <1>1, <2>1, <4>1, <5>1 DEF StackOK, SendsAreBy
        <5> QED BY <1>1, <1>3, <5>2 DEF TypeOK
      <4> QED BY <4>2, <4>3
    <3>3. sendlist' = sendlist /\ msgq' = msgq /\ fStop' = fStop /\ ready' = ready
      BY <1>3 DEF queues
    <3> QED BY <1>1, <1>5, <2>1, <3>1, <3>2, <3>3, WakesStay
  <2> QED BY <2>2, <2>3
<1> QED BY <1>4, <1>7, <1>10 DEF IInv

LEMMA CheckReadyKeeps ==
  ASSUME IInv, NEW t \in Thread, CheckReady(t)
  PROVE  IInv'
<1> DEFINE c == [Top(t) EXCEPT !.pc = "sends"]
           L == Len(stack[t])
<1>1. /\ TypeOK /\ Books /\ At(t, "Send", "check") /\ ~At(t, "Send", "signal") /\ ~Exited(t)
      /\ Top(t) \in Call /\ Top(t).op = "Send"
      /\ L \in Nat \ {0} /\ DOMAIN stack[t] = 1..L /\ stack[t][L] = Top(t)
      /\ \A i \in 1..L : stack[t][i] \in Call
  BY TopIsCall DEF IInv, CheckReady, At, In
<1>2. /\ c \in Call /\ c.op = "Send" /\ c.pc = "sends" 
      /\ c.msg = Top(t).msg /\ c.to = Top(t).to /\ c.waited = Top(t).waited
  BY <1>1, GotoCall
<1>3. UNCHANGED << queues, fStop, ready, issued, history, clock >>
  BY DEF CheckReady
<1> HIDE DEF c, L
<1>4. CASE Top(t).msg \notin ready
  <2>1. Become(t, c) /\ UNCHANGED wake
    BY <1>4 DEF CheckReady, Goto, c
  <2>2. /\ stack' \in [Thread -> Seq(Call)] /\ Others(t)
        /\ ~Exited(t)' /\ Top(t)' = c
        /\ Books' /\ \A s \in Thread : StackOK(s)'
        /\ AnswerWakes(t)'
    BY <1>1, <1>2, <1>3, <1>4, <2>1, GoesOn DEF history
  <2>3. TypeOK'
    BY <1>1, <1>3, <2>1, <2>2 DEF TypeOK, queues, history
  <2>4. ASSUME NEW s \in Thread PROVE Wakes(s)'
    <3>1. CASE s = t
      BY <1>2, <2>2, <3>1 DEF Wakes, LoopEnds, GetWakes, SendWakes, At, In, Exited
    <3>2. CASE s # t
      BY <1>1, <1>3, <2>1, <2>2, <3>2, BystanderWakes DEF queues
    <3> QED BY <3>1, <3>2
  <2> QED BY <2>2, <2>3, <2>4 DEF IInv
<1>5. CASE Top(t).msg \in ready
  <2>1. Return(t) /\ wake' = [wake EXCEPT ![t] = @ \/ Top(t).waited] /\ Top(t).waited \in BOOLEAN
    BY <1>1, <1>5, CallKinds DEF CheckReady
  <2>2. /\ stack' \in [Thread -> Seq(Call)] /\ Others(t)
        /\ Len(stack'[t]) = L - 1
        /\ \A i \in 1..(L - 1) : stack'[t][i] = stack[t][i]
    BY <1>1, <2>1, Returned DEF L
  <2>3. ASSUME NEW s \in Thread
        PROVE  /\ StackOK(s)' /\ Running(s)' = Running(s)
               /\ Awaited(s)' \subseteq Awaited(s)
               /\ Awaited(s) \subseteq Awaited(s)' \cup ready
    <3>1. StackOK(s) /\ IssuedKept
      BY <1>3, IssuedSame DEF IInv
    <3>2. CASE s = t
      BY <1>1, <1>3, <1>5, <2>2, <3>1, <3>2, StackShrinks DEF L
    <3>3. CASE s # t
      BY <1>1, <2>2, <3>1, <3>3, StackStays DEF Others
    <3> QED BY <3>2, <3>3
  <2>4. TypeOK'
    BY <1>1, <1>3, <2>1, <2>2 DEF TypeOK, queues, history
  <2>5. Books'
    BY <1>1, <1>3, <2>3, BooksStay DEF history
  <2>6. \A s \in Thread : wake[s] => wake'[s]
    BY <1>1, <2>1 DEF TypeOK
  <2>7. L >= 2 /\ stack[t][L - 1].op = "OnMessage"
    <3>1. StackOK(t)
      BY DEF IInv
    <3>2. L >= 2 /\ stack[t][L - 1] \in Call
      BY <1>1, <3>1, BelowTop DEF L
    <3>3. stack[t][L - 1].op \in {"Get", "OnMessage", "Send"}
      BY <3>2, CallKinds
    <3> QED BY <1>1, <3>1, <3>2, <3>3, BelowTop DEF L
  <2>8. ~Exited(t)' /\ Top(t)'.op = "OnMessage"
    BY <1>1, <2>2, <2>7, NewTop
  <2>9. AnswerWakes(t)'
    <3>1. AnswerWakes(t) /\ DOMAIN stack'[t] = 1..(L - 1)
      BY <1>1, <2>2 DEF IInv, Wakes
    <3> SUFFICES ASSUME NEW i \in 1..(L - 1), stack[t][i].op = "Send", stack[t][i].pc \in {"sends", "wait"},
                        stack[t][i].msg \in ready, ~wake'[t]
                 PROVE  \E j \in 1..(L - 1) : j > i /\ stack[t][j].op = "Send" /\ stack[t][j].waited
      BY <1>3, <2>2, <3>1 DEF AnswerWakes
    <3>2. PICK j \in 1..L : j > i /\ stack[t][j].op = "Send" /\ stack[t][j].waited
      BY <1>1, <2>6, <3>1 DEF AnswerWakes
    <3>3. ~Top(t).waited
      BY <1>1, <2>1 DEF TypeOK
    <3> QED BY <1>1, <3>2, <3>3
  <2>10. ASSUME NEW s \in Thread PROVE Wakes(s)'
    <3>1. CASE s = t
      BY <2>8, <2>9, <3>1 DEF Wakes, LoopEnds, GetWakes, SendWakes, At, In, Exited
    <3>2. CASE s # t
      BY <1>1, <1>3, <2>6, <2>2, <3>2, BystanderWakes DEF queues
    <3> QED BY <3>1, <3>2
  <2> QED BY <2>3, <2>4, <2>5, <2>10 DEF IInv
<1> QED BY <1>4, <1>5

LEMMA NoMoreSendsKeeps ==
  ASSUME IInv, NEW t \in Thread, NoMoreSends(t)
  PROVE  IInv'
<1> DEFINE p == IF Top(t).op = "Get" THEN "queue" ELSE "wait"
           c == [Top(t) EXCEPT !.pc = p]
<1>1. /\ TypeOK /\ Books /\ ~At(t, "Send", "signal") /\ ~Exited(t)
      /\ Top(t) \in Call /\ Top(t).op \in {"Get", "Send"} /\ Top(t).pc = "sends"
  BY TopIsCall DEF IInv, NoMoreSends, At, In
<1>2. /\ c \in Call /\ c.op = Top(t).op /\ c.pc = p 
      /\ c.op = "Send" => c.msg = Top(t).msg /\ c.to = Top(t).to /\ c.waited = Top(t).waited
  BY <1>1, GotoCall
<1>3. /\ UNCHANGED << queues, wake, fStop, ready, issued, history, clock >>
      /\ Become(t, c)
  BY DEF NoMoreSends, Goto
<1> HIDE DEF c
<1>4. /\ stack' \in [Thread -> Seq(Call)] /\ Others(t)
      /\ ~Exited(t)' /\ Top(t)' = c
      /\ Books' /\ \A s \in Thread : StackOK(s)'
      /\ AnswerWakes(t)'
  BY <1>1, <1>2, <1>3, GoesOn DEF history
<1>5. TypeOK'
  BY <1>1, <1>3, <1>4 DEF TypeOK, queues, history
<1>6. ASSUME NEW s \in Thread PROVE Wakes(s)'
  <2>1. CASE s = t
    <3>1. \A n \in Range(sendlist[t]) : ~Accepts(t, n)
      BY DEF NoMoreSends, Range
    <3>2. LoopEnds(t)' /\ sendlist' = sendlist
      BY <1>3, <1>4 DEF LoopEnds, Exited, queues
    <3>3. GetWakes(t)'
      BY <1>1, <1>2, <1>4, <3>1, <3>2 DEF GetWakes, Accepts, At, In
    <3>4. SendWakes(t)'
      BY <1>1, <1>2, <1>3, <1>4, <3>1, <3>2 DEF SendWakes, Accepts, At, In
    <3> QED BY <1>4, <2>1, <3>2, <3>3, <3>4 DEF Wakes
  <2>2. CASE s # t
    BY <1>1, <1>3, <1>4, <2>2, BystanderWakes DEF queues
  <2> QED BY <2>1, <2>2
<1> QED BY <1>4, <1>5, <1>6 DEF IInv

LEMMA LookAtStopKeeps ==
  ASSUME IInv, NEW t \in Thread, LookAtStop(t)
  PROVE  IInv'
<1> DEFINE c == [Top(t) EXCEPT !.pc = "wait"]
<1>1. /\ TypeOK /\ Books /\ ~At(t, "Send", "signal") /\ ~Exited(t)
      /\ Top(t) \in Call /\ Top(t).op = "Get" /\ Top(t).pc = "stop"
  BY TopIsCall DEF IInv, LookAtStop, At, In
<1>2. c \in Call /\ c.op = "Get" /\ c.pc = "wait"
  BY <1>1, GotoCall
<1>3. UNCHANGED << queues, wake, fStop, ready, issued, history, clock >>
  BY DEF LookAtStop
<1> HIDE DEF c
<1>4. CASE ~fStop[t]
  <2>1. Become(t, c)
    BY <1>4 DEF LookAtStop, Goto, c
  <2>2. /\ stack' \in [Thread -> Seq(Call)] /\ Others(t)
        /\ ~Exited(t)' /\ Top(t)' = c
        /\ Books' /\ \A s \in Thread : StackOK(s)'
        /\ AnswerWakes(t)'
    BY <1>1, <1>2, <1>3, <2>1, GoesOn DEF history
  <2>3. TypeOK'
    BY <1>1, <1>3, <2>2 DEF TypeOK, queues, history
  <2>4. ASSUME NEW s \in Thread PROVE Wakes(s)'
    <3>1. CASE s = t
      <4>1. LoopEnds(t)' /\ SendWakes(t)'
        BY <1>2, <2>2 DEF LoopEnds, SendWakes, At, In, Exited
      <4>2. ASSUME ~wake'[t]
            PROVE  (\A n \in Range(sendlist'[t]) : Signalling(n)') /\ msgq'[t] = << >> /\ ~fStop'[t]
        <5>1. GetWakes(t) /\ QueuedFor(t)
          BY DEF IInv, Wakes, Books
        <5>2. (\A n \in Range(sendlist[t]) : Signalling(n)) /\ msgq[t] = << >>
          BY <1>1, <1>3, <4>2, <5>1 DEF GetWakes, In
        <5>3. \A n \in Range(sendlist[t]) : Signalling(n)'
          BY <1>1, <1>3, <2>2, <5>1, <5>2, SignalStays, IssuedSame DEF QueuedFor
        <5> QED BY <1>3, <1>4, <5>2, <5>3 DEF queues
      <4>3. GetWakes(t)'
        BY <4>2 DEF GetWakes
      <4> QED BY <2>2, <3>1, <4>1, <4>3 DEF Wakes
    <3>2. CASE s # t
      BY <1>1, <1>3, <2>2, <3>2, BystanderWakes DEF queues
    <3> QED BY <3>1, <3>2
  <2> QED BY <2>2, <2>3, <2>4 DEF IInv
<1>5. CASE fStop[t]
  <2>1. stack' = [stack EXCEPT ![t] = << >>]
    BY <1>5 DEF LookAtStop
  <2>2. /\ stack' \in [Thread -> Seq(Call)] /\ Others(t)
        /\ stack'[t] = << >> /\ Len(stack'[t]) = 0 /\ Len(stack[t]) = 1 /\ t \in Loops
    <3>1. StackOK(t)
      BY DEF IInv
    <3> QED BY <1>1, <2>1, <3>1, BelowTop DEF TypeOK, Others
  <2>3. ASSUME NEW s \in Thread
        PROVE  StackOK(s)' /\ Running(s)' = Running(s) /\ Awaited(s)' = Awaited(s)
    <3>1. StackOK(s) /\ IssuedKept
      BY <1>3, IssuedSame DEF IInv
    <3>2. CASE s = t
      <4>1. /\ StackOK(t)' 
            /\ Running(t)' = Running(t)
            /\ Awaited(t)' \subseteq Awaited(t) /\ Awaited(t) \subseteq Awaited(t)'
        <5>1. /\ TypeOK /\ ~Exited(t) /\ stack' \in [Thread -> Seq(Call)]
              /\ Len(stack'[t]) = Len(stack[t]) - 1 /\ UNCHANGED issued
              /\ \A i \in 1..(Len(stack[t]) - 1) :
                   \/ stack'[t][i] = stack[t][i]
                   \/ stack[t][i].op = "Get" /\ stack'[t][i] = Get /\ i = Len(stack[t]) - 1
          BY <1>1, <1>3, <2>2
        <5> QED BY <1>1, <3>1, <3>2, <5>1, StackShrinks
      <4> QED BY <3>2, <4>1
    <3>3. CASE s # t
      BY <1>1, <2>2, <3>1, <3>3, StackStays DEF Others
    <3> QED BY <3>2, <3>3
  <2>4. TypeOK'
    BY <1>1, <1>3, <2>2 DEF TypeOK, queues, history
  <2>5. Books'
    BY <1>1, <1>3, <2>3, BooksStay DEF history
  <2>6. ASSUME NEW s \in Thread PROVE Wakes(s)'
    <3>1. CASE s = t
      BY <1>3, <1>5, <2>2, <3>1 DEF Wakes, LoopEnds, GetWakes, SendWakes, AnswerWakes, At, In, Exited
    <3>2. CASE s # t
      BY <1>1, <1>3, <2>2, <3>2, BystanderWakes DEF queues
    <3> QED BY <3>1, <3>2
  <2> QED BY <2>3, <2>4, <2>5, <2>6 DEF IInv
<1> QED BY <1>4, <1>5

LEMMA WaitKeeps ==
  ASSUME IInv, NEW t \in Thread, Wait(t)
  PROVE  IInv'
<1> DEFINE c == Again(t)
           L == Len(stack[t])
<1>1. /\ TypeOK /\ Books /\ ~At(t, "Send", "signal") /\ ~Exited(t)
      /\ Top(t) \in Call /\ Top(t).op \in {"Get", "Send"} /\ Top(t).pc = "wait"
      /\ L \in Nat \ {0} /\ DOMAIN stack[t] = 1..L /\ stack[t][L] = Top(t)
  BY TopIsCall DEF IInv, Wait, At, In
<1>2. /\ c \in Call /\ c.op = Top(t).op /\ c.pc \in {"sends", "check"}
      /\ c.op = "Get" => c.pc = "sends"
      /\ c.op = "Send" => c.pc = "check" /\ c.msg = Top(t).msg /\ c.to = Top(t).to /\ c.waited
  BY <1>1 DEF Again, Get, Call
<1>3. /\ UNCHANGED << queues, fStop, ready, issued, history, clock >>
      /\ Become(t, c)
      /\ wake' \in [Thread -> BOOLEAN] /\ \A s \in Thread : s # t => wake'[s] = wake[s]
  BY <1>1 DEF Wait, TypeOK
<1> HIDE DEF c, L
<1>4. /\ stack' \in [Thread -> Seq(Call)] /\ Others(t)
      /\ ~Exited(t)' /\ Top(t)' = c
      /\ Books' /\ \A s \in Thread : StackOK(s)'
      /\ Len(stack'[t]) = L
      /\ \A i \in 1..(L - 1) : stack'[t][i] = stack[t][i]
  BY <1>1, <1>2, <1>3, GoesOn DEF history, L
<1>5. TypeOK'
  BY <1>1, <1>3, <1>4 DEF TypeOK, queues, history
<1>6. ASSUME NEW s \in Thread PROVE Wakes(s)'
  <2>1. CASE s = t
    <3>1. LoopEnds(t)' /\ GetWakes(t)' /\ SendWakes(t)'
      BY <1>2, <1>4 DEF LoopEnds, GetWakes, SendWakes, At, In, Exited
    <3>2. DOMAIN stack'[t] = 1..L /\ stack'[t][L] = c
      BY <1>1, <1>4, NewTop
    <3>3. AnswerWakes(t)'
      <4>1. CASE c.op = "Get"
        <5>1. L = 1
          BY <1>1, <1>2, <4>1, BelowTop DEF IInv, L
        <5> QED BY <3>2, <4>1, <5>1 DEF AnswerWakes
      <4>2. CASE c.op = "Send"
        <5> SUFFICES ASSUME NEW i \in 1..L, stack'[t][i].op = "Send", stack'[t][i].pc \in {"sends", "wait"}
                     PROVE  \E j \in 1..L : j > i /\ stack'[t][j].op = "Send" /\ stack'[t][j].waited
          BY <3>2 DEF AnswerWakes
        <5>1. i # L
          BY <1>2, <3>2, <4>2
        <5> QED BY <1>1, <1>2, <3>2, <4>2, <5>1
      <4> QED BY <1>1, <1>2, <4>1, <4>2
    <3> QED BY <2>1, <3>1, <3>3 DEF Wakes
  <2>2. CASE s # t
    BY <1>1, <1>3, <1>4, <2>2, BystanderWakes DEF queues
  <2> QED BY <2>1, <2>2
<1> QED BY <1>4, <1>5, <1>6 DEF IInv

LEMMA QuitKeeps ==
  ASSUME IInv, NEW t \in Thread, NEW u \in Thread, Quit(t, u)
  PROVE  IInv'
<1>1. TypeOK /\ Books /\ In(t, "OnMessage") /\ ~At(t, "Send", "signal")
  BY DEF IInv, Quit, At, In
<1>2. /\ fStop' = [fStop EXCEPT ![u] = TRUE] /\ wake' = [wake EXCEPT ![u] = TRUE]
      /\ atQuit' = atQuit \cup Range(sendlist[u]) \cup Range(msgq[u])
      /\ UNCHANGED << stack, queues, ready, issued, handled, cleared, clock >>
  BY DEF Quit
<1>3. IssuedKept /\ Others(t)
  BY <1>2, IssuedSame DEF Others
<1>4. ASSUME NEW s \in Thread
      PROVE  StackOK(s)' /\ Running(s)' = Running(s) /\ Awaited(s)' = Awaited(s)
  BY <1>1, <1>2, <1>3, StackStays DEF IInv
<1>5. Books'
  BY <1>1, <1>2, <1>4, BooksStay
<1>6. TypeOK'
  <2>1. Range(sendlist[u]) \cup Range(msgq[u]) \subseteq MessageId
    BY <1>1, IssuedMessages DEF Books, QueuedFor
  <2> QED BY <1>1, <1>2, <2>1 DEF TypeOK, queues
<1>7. ASSUME NEW s \in Thread PROVE Wakes(s)'
  <2>1. Wakes(s) /\ QueuedFor(s)
    BY DEF IInv, Books
  <2>2. (wake[s] => wake'[s]) /\ (fStop[s] => fStop'[s]) /\ (fStop'[s] => fStop[s] \/ wake'[s])
    BY <1>1, <1>2 DEF TypeOK
  <2>3. \A n \in Range(sendlist[s]) : Signalling(n) => Signalling(n)'
    BY <1>2 DEF Signalling, At, In, Top, Exited
  <2> QED BY <1>1, <1>2, <1>3, <2>1, <2>2, <2>3, WakesStay DEF queues
<1> QED BY <1>4, <1>5, <1>6, <1>7 DEF IInv

LEMMA TickKeeps ==
  ASSUME IInv, Tick \/ UNCHANGED vars
  PROVE  IInv'
<1>1. TypeOK /\ Books
  BY DEF IInv
<1>2. /\ clock' \in 0..MaxTime
      /\ UNCHANGED << stack, queues, wake, fStop, ready, issued, history >>
  BY <1>1, Limits DEF Tick, TypeOK, vars
<1>3. IssuedKept
  BY <1>2, IssuedSame
<1>4. ASSUME NEW s \in Thread
      PROVE  StackOK(s)' /\ Running(s)' = Running(s) /\ Awaited(s)' = Awaited(s)
  BY <1>1, <1>2, <1>3, StackStays DEF IInv
<1>5. Books'
  BY <1>1, <1>2, <1>4, BooksStay DEF history
<1>6. TypeOK'
  BY <1>1, <1>2 DEF TypeOK, queues, history
<1>7. ASSUME NEW s \in Thread PROVE Wakes(s)'
  <2>1. Wakes(s) /\ QueuedFor(s)
    BY DEF IInv, Books
  <2>2. \A n \in Range(sendlist[s]) : Signalling(n) => Signalling(n)'
    BY <1>2 DEF Signalling, At, In, Top, Exited
  <2> QED BY <1>1, <1>2, <1>3, <2>1, <2>2, WakesStay DEF queues
<1> QED BY <1>4, <1>5, <1>6, <1>7 DEF IInv

---------------------------------------------------------------------------
(* A new message.                                                          *)

LEMMA QueueTypes ==
  ASSUME TypeOK, NEW t \in Thread
  PROVE  /\ sendlist[t] \in Seq(MessageId) /\ msgq[t] \in Seq(MessageId)
         /\ handled[t] \in Seq(MessageId) /\ dmsgq[t] \subseteq MessageId
         /\ DOMAIN sendlist[t] = 1..Len(sendlist[t]) /\ Len(sendlist[t]) \in Nat
         /\ DOMAIN msgq[t] = 1..Len(msgq[t]) /\ Len(msgq[t]) \in Nat
         /\ DOMAIN handled[t] = 1..Len(handled[t]) /\ Len(handled[t]) \in Nat
<1>1. /\ sendlist[t] \in Seq(MessageId) /\ msgq[t] \in Seq(MessageId)
      /\ handled[t] \in Seq(MessageId) /\ dmsgq[t] \subseteq MessageId
  BY DEF TypeOK
<1> QED BY <1>1

LEMMA RunningIssued ==
  ASSUME TypeOK, NEW t \in Thread, StackOK(t)
  PROVE  \A n \in Running(t) : n \in DOMAIN issued /\ issued[n].to = t
<1> SUFFICES ASSUME NEW n \in Running(t) PROVE n \in DOMAIN issued /\ issued[n].to = t
  OBVIOUS
<1>1. PICK i \in DOMAIN stack[t] : stack[t][i] = OnMessage(n)
  BY DEF Running
<1>2. n > 0 /\ stack[t][i].op = "OnMessage" /\ stack[t][i].msg = n
  BY <1>1 DEF Running, MessageId, OnMessage
<1> QED BY <1>2 DEF StackOK, HandlersAreFor

LEMMA AwaitedIssued ==
  ASSUME TypeOK, NEW t \in Thread, StackOK(t)
  PROVE  \A n \in Awaited(t) : n \in DOMAIN issued /\ issued[n].from = t
BY DEF Awaited, StackOK, SendsAreBy

LEMMA IssueNew ==
  ASSUME TypeOK, NEW t \in Thread, NEW u \in Thread,
         NEW kind \in {"send", "post", "delayed"}, NEW trigger \in 0..MaxTime,
         Len(issued) < MaxMessages, Issue(t, u, kind, trigger)
  PROVE  /\ IssuedKept /\ NewMessage \in MessageId /\ NewMessage \notin DOMAIN issued
         /\ DOMAIN issued' = DOMAIN issued \cup {NewMessage}
         /\ \A n \in DOMAIN issued : n \in Int /\ n < NewMessage
         /\ issued'[NewMessage].from = t /\ issued'[NewMessage].to = u
         /\ issued'[NewMessage].kind = kind /\ issued'[NewMessage].trigger = trigger
         /\ issued' \in Seq(Message) /\ Len(issued') <= MaxMessages
<1> DEFINE m == [from |-> t, to |-> u, kind |-> kind, trigger |-> trigger]
<1>1. m \in Message /\ issued \in Seq(Message) /\ issued' = Append(issued, m)
  BY DEF Message, TypeOK, Issue
<1>2. Len(issued) \in 0..MaxMessages /\ DOMAIN issued = 1..Len(issued)
  BY IssuedMessages
<1>3. m.from = t /\ m.to = u /\ m.kind = kind /\ m.trigger = trigger
  OBVIOUS
<1> HIDE DEF m
<1>4. /\ issued' \in Seq(Message) /\ Len(issued') = Len(issued) + 1
      /\ \A n \in 1..Len(issued) : issued'[n] = issued[n]
      /\ issued'[Len(issued) + 1] = m
  BY <1>1, AppendProperties
<1>5. DOMAIN issued' = 1..(Len(issued) + 1)
  BY <1>4
<1>6. MaxMessages \in Nat
  BY Limits
<1> QED BY <1>2, <1>3, <1>4, <1>5, <1>6 DEF IssuedKept, NewMessage, MessageId

(* What Post, PostDelayed and Send have in common.                         *)
NewMessageIn(t, u, kind, trigger) ==
  /\ Len(issued) < MaxMessages /\ Issue(t, u, kind, trigger)
  /\ UNCHANGED << handled, cleared, ready >>
  /\ \A s \in Thread : Running(s)' = Running(s)
  /\ \A s \in Thread : Awaited(s)' = Awaited(s)
                                       \cup IF s = t /\ kind = "send" THEN {NewMessage} ELSE {}
  /\ sendlist' = IF kind = "send" THEN [sendlist EXCEPT ![u] = Append(@, NewMessage)] ELSE sendlist
  /\ msgq' = IF kind = "post" THEN [msgq EXCEPT ![u] = Append(@, NewMessage)] ELSE msgq
  /\ dmsgq' = IF kind = "delayed" THEN [dmsgq EXCEPT ![u] = @ \cup {NewMessage}] ELSE dmsgq

LEMMA BooksGrow ==
  ASSUME IInv, NEW t \in Thread, NEW u \in Loops,
         NEW kind \in {"send", "post", "delayed"}, NEW trigger \in 0..MaxTime,
         NewMessageIn(t, u, kind, trigger)
  PROVE  /\ Books'
         /\ sendlist' \in [Thread -> Seq(MessageId)]
         /\ msgq' \in [Thread -> Seq(MessageId)]
         /\ dmsgq' \in [Thread -> SUBSET MessageId]
         /\ issued' \in Seq(Message) /\ Len(issued') <= MaxMessages
<1> DEFINE new == NewMessage
<1>1. TypeOK /\ Books /\ u \in Thread /\ new \in Int
  <2>1. TypeOK /\ Books
    BY DEF IInv
  <2>2. Len(issued) \in Int
    BY <2>1, IssuedMessages
  <2> QED BY <2>1, <2>2, CallRelations DEF NewMessage
<1>2. /\ IssuedKept /\ new \in MessageId /\ new \in Int /\ new \notin DOMAIN issued
      /\ DOMAIN issued' = DOMAIN issued \cup {new}
      /\ \A n \in DOMAIN issued : n \in Int /\ n < new
      /\ issued'[new].from = t /\ issued'[new].to = u
      /\ issued'[new].kind = kind /\ issued'[new].trigger = trigger
      /\ issued' \in Seq(Message) /\ Len(issued') <= MaxMessages
  <2>1. Len(issued) < MaxMessages /\ Issue(t, u, kind, trigger)
    BY DEF NewMessageIn
  <2>2. /\ IssuedKept /\ NewMessage \in MessageId /\ NewMessage \notin DOMAIN issued
        /\ DOMAIN issued' = DOMAIN issued \cup {NewMessage}
        /\ \A n \in DOMAIN issued : n \in Int /\ n < NewMessage
        /\ issued'[NewMessage].from = t /\ issued'[NewMessage].to = u
        /\ issued'[NewMessage].kind = kind /\ issued'[NewMessage].trigger = trigger
        /\ issued' \in Seq(Message) /\ Len(issued') <= MaxMessages
    BY <1>1, <2>1, IssueNew
  <2> QED BY <1>1, <2>2
<1> HIDE DEF new
<1>0. UNCHANGED << handled, cleared, ready >> /\ \A s \in Thread : Running(s)' = Running(s)
  BY DEF NewMessageIn
<1>a. \A s \in Thread, n \in DOMAIN issued' :
        n \in Awaited(s)' <=> n \in Awaited(s) \/ (n = new /\ s = t /\ kind = "send")
  BY DEF NewMessageIn, new
<1>s. sendlist' = IF kind = "send" THEN [sendlist EXCEPT ![u] = Append(@, new)] ELSE sendlist
  BY DEF NewMessageIn, new
<1>q. msgq' = IF kind = "post" THEN [msgq EXCEPT ![u] = Append(@, new)] ELSE msgq
  BY DEF NewMessageIn, new
<1>d. dmsgq' = IF kind = "delayed" THEN [dmsgq EXCEPT ![u] = @ \cup {new}] ELSE dmsgq
  BY DEF NewMessageIn, new
<1>3. \A n \in DOMAIN issued : issued'[n] = issued[n]
  BY <1>2 DEF IssuedKept
<1>4. /\ sendlist' \in [Thread -> Seq(MessageId)]
      /\ msgq' \in [Thread -> Seq(MessageId)]
      /\ dmsgq' \in [Thread -> SUBSET MessageId]
  <2>1. /\ Append(sendlist[u], new) \in Seq(MessageId)
        /\ Append(msgq[u], new) \in Seq(MessageId)
    BY <1>1, <1>2, QueueTypes, AppendProperties
  <2> QED BY <1>1, <1>2, <1>s, <1>q, <1>d, <2>1 DEF TypeOK
<1>5. ASSUME NEW s \in Thread
      PROVE  /\ \A n \in Range(sendlist[s]) : n \in DOMAIN issued /\ issued[n].to = s /\ issued[n].kind = "send"
             /\ \A n \in Range(msgq[s]) : n \in DOMAIN issued /\ issued[n].to = s /\ issued[n].kind # "send"
             /\ \A n \in dmsgq[s] : n \in DOMAIN issued /\ issued[n].to = s /\ issued[n].kind = "delayed"
             /\ \A n \in Range(handled[s]) : n \in DOMAIN issued /\ issued[n].to = s
             /\ \A n \in Running(s) : n \in DOMAIN issued /\ issued[n].to = s
             /\ \A n \in Awaited(s) : n \in DOMAIN issued /\ issued[n].from = s
  BY <1>1, RunningIssued, AwaitedIssued DEF IInv, Books, QueuedFor
<1>6. ASSUME NEW s \in Thread
      PROVE  /\ \A n : n \in Range(sendlist'[s]) <=>
                          n \in Range(sendlist[s]) \/ (n = new /\ s = u /\ kind = "send")
             /\ \A n : n \in Range(msgq'[s]) <=>
                          n \in Range(msgq[s]) \/ (n = new /\ s = u /\ kind = "post")
             /\ \A n : n \in dmsgq'[s] <=> n \in dmsgq[s] \/ (n = new /\ s = u /\ kind = "delayed")
             /\ IsInjective(sendlist[s]) => IsInjective(sendlist'[s])
             /\ IsInjective(msgq[s]) => IsInjective(msgq'[s])
  <2>1. sendlist[s] \in Seq(MessageId) /\ msgq[s] \in Seq(MessageId)
    BY <1>1, QueueTypes
  <2>2. sendlist'[s] = IF s = u /\ kind = "send" THEN Append(sendlist[s], new) ELSE sendlist[s]
    BY <1>1, <1>s DEF TypeOK
  <2>3. msgq'[s] = IF s = u /\ kind = "post" THEN Append(msgq[s], new) ELSE msgq[s]
    BY <1>1, <1>q DEF TypeOK
  <2>4. dmsgq'[s] = dmsgq[s] \cup IF s = u /\ kind = "delayed" THEN {new} ELSE {}
    BY <1>1, <1>d DEF TypeOK
  <2>5. /\ Range(Append(sendlist[s], new)) = Range(sendlist[s]) \cup {new}
        /\ IsInjective(sendlist[s]) => IsInjective(Append(sendlist[s], new))
        /\ Range(Append(msgq[s], new)) = Range(msgq[s]) \cup {new}
        /\ IsInjective(msgq[s]) => IsInjective(Append(msgq[s], new))
    BY <1>2, <1>5, <2>1, AppendElements
  <2> QED BY <2>2, <2>3, <2>4, <2>5
<1>7. ASSUME NEW s \in Thread PROVE QueuedFor(s)'
  BY <1>0, <1>2, <1>3, <1>5, <1>6 DEF QueuedFor
<1>8. ASSUME NEW s \in Thread PROVE InOnePlace(s)'
  <2>1. InOnePlace(s)
    BY <1>1 DEF Books
  <2>2. /\ new \notin Range(sendlist[s]) /\ new \notin Range(msgq[s]) /\ new \notin dmsgq[s]
        /\ new \notin Running(s) /\ new \notin Range(handled[s])
    BY <1>2, <1>5
  <2>3. Running(s)' = Running(s) /\ handled' = handled
    BY <1>0
  <2> QED BY <1>6, <2>1, <2>2, <2>3 DEF InOnePlace
<1>9. ASSUME NEW s \in Thread PROVE SendsWait(s)'
  <2>1. SendsWait(s) /\ Recorded
    BY <1>1 DEF Books
  <2> SUFFICES ASSUME NEW n \in DOMAIN issued', NEW from \in Thread,
                      issued'[n].to = s, issued'[n].from = from, issued'[n].kind = "send"
               PROVE  /\ n \in Range(sendlist'[s]) \cup Running(s)' =>
                           n \in Awaited(from)' /\ n \notin ready'
                      /\ n \in Awaited(from)' /\ n \notin ready' =>
                           n \in Range(sendlist'[s]) \cup Running(s)'
    BY DEF SendsWait
  <2>2. CASE n = new
    BY <1>0, <1>1, <1>a, <1>2, <1>6, <2>1, <2>2 DEF Recorded
  <2>3. CASE n # new
    <3>1. n \in DOMAIN issued /\ issued'[n] = issued[n]
      BY <1>1, <1>2, <1>3, <2>3
    <3>2. n \in Range(sendlist'[s]) <=> n \in Range(sendlist[s])
      BY <1>6, <2>3
    <3>3. n \in Awaited(from)' <=> n \in Awaited(from)
      BY <1>a, <2>3, <3>1
    <3> QED BY <1>0, <2>1, <3>1, <3>2, <3>3 DEF SendsWait
  <2> QED BY <2>2, <2>3
<1>10. ASSUME NEW s \in Thread PROVE Placed(s)'
  <2> SUFFICES ASSUME NEW n \in DOMAIN issued', issued'[n].to = s
               PROVE  /\ s \in Loops
                      /\ n \in UNION {cleared, Range(handled[s]), Running(s),
                                      Range(sendlist'[s]), Range(msgq'[s]), dmsgq'[s]}
    BY <1>0 DEF Placed
  <2>1. CASE n = new
    BY <1>0, <1>1, <1>2, <1>6, <2>1
  <2>2. CASE n # new
    <3>1. n \in DOMAIN issued /\ issued[n].to = s
      BY <1>1, <1>2, <1>3, <2>2, IssuedMessages
    <3>2. /\ s \in Loops
          /\ n \in UNION {cleared, Range(handled[s]), Running(s),
                          Range(sendlist[s]), Range(msgq[s]), dmsgq[s]}
      BY <1>1, <3>1 DEF Books, Placed
    <3> QED BY <1>6, <3>2
  <2> QED BY <2>1, <2>2
<1>11. Recorded'
  BY <1>0, <1>1, <1>2 DEF Books, Recorded
<1>12. ASSUME NEW n \in DOMAIN issued, NEW m \in DOMAIN issued', Before(m, n)'
       PROVE  m \in DOMAIN issued /\ Before(m, n)
  BY <1>2, <1>3, <1>12 DEF Before
<1>13. PostsInOrder'
  <2> SUFFICES ASSUME NEW s \in Thread
               PROVE  /\ IsInjective(handled[s])
                      /\ \A j \in DOMAIN handled[s] : \A m \in 1..(handled[s][j] - 1) :
                           LET n == handled[s][j] IN
                           /\ issued'[m].to = s
                           /\ issued'[m].kind = issued'[n].kind /\ issued'[n].kind \in {"post", "delayed"}
                           /\ issued'[m].trigger <= issued'[n].trigger
                           => m \in cleared \/ \E i \in 1..(j - 1) : handled[s][i] = m
    BY <1>0 DEF PostsInOrder
  <2>1. PostsInOrder
    BY <1>1 DEF Books
  <2>2. \A j \in DOMAIN handled[s] : handled[s][j] \in DOMAIN issued
    BY <1>5 DEF Range
  <2>3. \A n \in DOMAIN issued : \A m \in 1..(n - 1) : m \in DOMAIN issued
    BY <1>1, IssuedMessages
  <2> QED BY <1>3, <2>1, <2>2, <2>3 DEF PostsInOrder
<1>14. ASSUME NEW s \in Thread PROVE RunningInOrder(s)'
  <2>1. RunningInOrder(s)
    BY <1>1 DEF Books
  <2> QED BY <1>0, <1>5, <1>12, <2>1 DEF RunningInOrder, Over
<1>15. ASSUME NEW s \in Thread PROVE QueuedInOrder(s)'
  <2>1. QueuedInOrder(s)
    BY <1>1 DEF Books
  <2>2. \A p \in DOMAIN msgq[s] : msgq[s][p] \in DOMAIN issued
    BY <1>5 DEF Range
  <2>3. CASE msgq'[s] = msgq[s]
    BY <1>0, <1>12, <2>1, <2>2, <2>3 DEF QueuedInOrder, Over
  <2>4. CASE s = u /\ kind = "post"
    <3>1. /\ DOMAIN msgq[s] = 1..Len(msgq[s]) /\ Len(msgq[s]) \in Nat
          /\ DOMAIN msgq'[s] = 1..(Len(msgq[s]) + 1)
          /\ \A p \in 1..Len(msgq[s]) : msgq'[s][p] = msgq[s][p]
          /\ msgq'[s][Len(msgq[s]) + 1] = new
      <4>1. msgq[s] \in Seq(MessageId) /\ msgq'[s] = Append(msgq[s], new)
        BY <1>1, <1>q, <2>4 DEF TypeOK
      <4> QED BY <1>2, <4>1, AppendProperties
    <3> SUFFICES ASSUME NEW p \in 1..(Len(msgq[s]) + 1), NEW m \in DOMAIN issued', NEW n \in DOMAIN issued',
                        n = msgq'[s][p], Before(m, n)'
                 PROVE  \/ Over(s, m) \/ m \in Running(s)
                        \/ \E q \in 1..(p - 1) : msgq'[s][q] = m
      BY <1>0, <3>1 DEF QueuedInOrder, Over
    <3>2. CASE p \in 1..Len(msgq[s])
      <4>1. n = msgq[s][p] /\ n \in DOMAIN issued
        BY <2>2, <3>1, <3>2
      <4>2. m \in DOMAIN issued /\ Before(m, n)
        BY <1>12, <4>1
      <4>3. Over(s, m) \/ m \in Running(s) \/ \E q \in 1..(p - 1) : msgq[s][q] = m
        BY <2>1, <3>1, <3>2, <4>1, <4>2 DEF QueuedInOrder
      <4>4. \A q \in 1..(p - 1) : msgq'[s][q] = msgq[s][q]
        BY <3>1, <3>2
      <4> QED BY <4>3, <4>4
    <3>3. CASE p = Len(msgq[s]) + 1
      <4>1. n = new
        BY <3>1, <3>3
      <4>2. m \in DOMAIN issued /\ issued[m].to = s /\ issued[m].kind = "post"
        BY <1>1, <1>2, <1>3, <2>4, <4>1 DEF Before
      <4>3. m \in UNION {cleared, Range(handled[s]), Running(s),
                         Range(sendlist[s]), Range(msgq[s]), dmsgq[s]}
        BY <1>1, <4>2 DEF Books, Placed
      <4>4. m \notin Range(sendlist[s]) /\ m \notin dmsgq[s]
        BY <1>5, <4>2
      <4>5. CASE m \in Range(msgq[s])
        BY <3>1, <3>3, <4>5 DEF Range
      <4> QED BY <4>3, <4>4, <4>5 DEF Over
    <3> QED BY <3>1, <3>2, <3>3
  <2> QED BY <1>1, <1>q, <2>3, <2>4 DEF TypeOK
<1> QED BY <1>2, <1>4, <1>7, <1>8, <1>9, <1>10, <1>11, <1>13, <1>14, <1>15 DEF Books
(* Post and PostDelayed.                                                   *)
LEMMA PostingKeeps ==
  ASSUME IInv, NEW t \in Thread, NEW u \in Loops,
         NEW kind \in {"post", "delayed"}, NEW trigger \in 0..MaxTime,
         Len(issued) < MaxMessages, Issue(t, u, kind, trigger),
         wake' = [wake EXCEPT ![u] = TRUE],
         UNCHANGED << stack, sendlist, fStop, ready, history, clock >>,
         msgq' = IF kind = "post" THEN [msgq EXCEPT ![u] = Append(@, NewMessage)] ELSE msgq,
         dmsgq' = IF kind = "delayed" THEN [dmsgq EXCEPT ![u] = @ \cup {NewMessage}] ELSE dmsgq
  PROVE  IInv'
<1>1. TypeOK /\ Books /\ u \in Thread /\ kind # "send" /\ kind \in {"send", "post", "delayed"}
  BY CallRelations DEF IInv
<1>2. IssuedKept
  BY <1>1, IssueNew
<1>3. ASSUME NEW s \in Thread
      PROVE  StackOK(s)' /\ Running(s)' = Running(s) /\ Awaited(s)' = Awaited(s)
  BY <1>1, <1>2, StackStays DEF IInv
<1>4. NewMessageIn(t, u, kind, trigger)
  BY <1>1, <1>3 DEF NewMessageIn, history
<1>5. /\ Books'
      /\ sendlist' \in [Thread -> Seq(MessageId)]
      /\ msgq' \in [Thread -> Seq(MessageId)]
      /\ dmsgq' \in [Thread -> SUBSET MessageId]
      /\ issued' \in Seq(Message) /\ Len(issued') <= MaxMessages
  BY <1>1, <1>4, BooksGrow
<1>6. wake' \in [Thread -> BOOLEAN] /\ \A s \in Thread : wake[s] => wake'[s]
  BY <1>1 DEF TypeOK
<1>7. TypeOK'
  BY <1>1, <1>5, <1>6 DEF TypeOK, history
<1>8. ASSUME NEW s \in Thread PROVE Wakes(s)'
  <2>1. Wakes(s) /\ QueuedFor(s)
    BY DEF IInv, Books
  <2>2. \A n \in Range(sendlist[s]) : Signalling(n) => Signalling(n)'
    BY <1>2, <2>1 DEF Signalling, At, In, Top, Exited, QueuedFor, IssuedKept
  <2>3. msgq[s] = << >> => msgq'[s] = << >> \/ wake'[s]
    BY <1>1 DEF TypeOK
  <2>4. stack'[s] = stack[s] /\ sendlist' = sendlist /\ fStop' = fStop /\ ready' = ready
    OBVIOUS
  <2> QED BY <1>1, <1>2, <1>6, <2>1, <2>2, <2>3, <2>4, WakesStay
<1> QED BY <1>3, <1>5, <1>7, <1>8 DEF IInv

LEMMA PostKeeps ==
  ASSUME IInv, NEW t \in Thread, NEW u \in Thread, Post(t, u)
  PROVE  IInv'
<1>1. u \in Loops /\ Len(issued) < MaxMessages /\ 0 \in 0..MaxTime
  BY CallRelations, Limits DEF Post, MayCall
<1> QED BY <1>1, PostingKeeps DEF Post

LEMMA PostDelayedKeeps ==
  ASSUME IInv, NEW t \in Thread, NEW u \in Thread, PostDelayed(t, u)
  PROVE  IInv'
<1>1. u \in Loops /\ Len(issued) < MaxMessages
  BY CallRelations DEF PostDelayed, MayCall
<1>2. clock + 1 \in 0..MaxTime
  BY Limits DEF PostDelayed, IInv, TypeOK
<1> QED BY <1>1, <1>2, PostingKeeps DEF PostDelayed

LEMMA SendKeeps ==
  ASSUME IInv, NEW t \in Thread, NEW u \in Thread, Send(t, u)
  PROVE  IInv'
<1> DEFINE c == [op |-> "Send", pc |-> "signal", to |-> u, msg |-> NewMessage, waited |-> FALSE]
           L == Len(stack[t])
           new == NewMessage
<1>1. /\ TypeOK /\ Books /\ StackOK(t) /\ In(t, "OnMessage") /\ ~At(t, "Send", "signal")
      /\ u \in Loops /\ u # t /\ << t, u >> \in CanSend /\ Len(issued) < MaxMessages
      /\ 0 \in 0..MaxTime
  BY CallRelations, Limits DEF IInv, Send, MayCall, At, In
<1>2. /\ Issue(t, u, "send", 0) /\ Enter(t, c)
      /\ sendlist' = [sendlist EXCEPT ![u] = Append(@, new)]
      /\ UNCHANGED << msgq, dmsgq, wake, fStop, ready, history, clock >>
  BY DEF Send
<1>3. /\ IssuedKept /\ NewMessage \in MessageId
      /\ DOMAIN issued' = DOMAIN issued \cup {NewMessage}
      /\ \A n \in DOMAIN issued : n \in Int /\ n < NewMessage
      /\ issued'[NewMessage].from = t /\ issued'[NewMessage].to = u
      /\ issued'[NewMessage].kind = "send"
  BY <1>1, <1>2, IssueNew
<1>4. /\ c \in Call /\ c.op = "Send" /\ c.pc = "signal" /\ c.to = u /\ c.msg = NewMessage
      /\ ~c.waited
  BY <1>3 DEF Call
<1>5. L \in Nat \ {0} /\ DOMAIN stack[t] = 1..L
  BY <1>1, TopIsCall DEF In
<1> HIDE DEF c, L
<1>6. /\ stack' \in [Thread -> Seq(Call)] /\ Others(t)
      /\ Len(stack'[t]) = L + 1
      /\ \A i \in 1..L : stack'[t][i] = stack[t][i]
      /\ stack'[t][L + 1] = c
  BY <1>1, <1>2, <1>4, Entered DEF L
<1>7. ~Exited(t)' /\ Top(t)' = c /\ DOMAIN stack'[t] = 1..(L + 1)
  BY <1>5, <1>6, NewTop
<1>8. ASSUME NEW s \in Thread
      PROVE  /\ StackOK(s)' /\ Running(s)' = Running(s)
             /\ Awaited(s)' = Awaited(s) \cup IF s = t THEN {NewMessage} ELSE {}
  <2>1. CASE s = t
    <3>1. StackOK(t)' /\ Running(t)' = Running(t) /\ Awaited(t)' = Awaited(t) \cup {NewMessage}
      <4>1. NewMessage \in DOMAIN issued'
        BY <1>3
      <4> HIDE DEF new
      <4> QED BY <1>1, <1>2, <1>3, <1>4, <4>1, StackSends
    <3> QED BY <2>1, <3>1
  <2>2. CASE s # t
    <3>1. StackOK(s)' /\ Running(s)' = Running(s) /\ Awaited(s)' = Awaited(s)
      BY <1>1, <1>3, <1>6, <2>2, StackStays DEF IInv, Others
    <3> QED BY <2>2, <3>1
  <2> QED BY <2>1, <2>2
<1>9. NewMessageIn(t, u, "send", 0)
  BY <1>1, <1>2, <1>8 DEF NewMessageIn, history
<1>10. /\ Books'
       /\ sendlist' \in [Thread -> Seq(MessageId)]
       /\ msgq' \in [Thread -> Seq(MessageId)]
       /\ dmsgq' \in [Thread -> SUBSET MessageId]
       /\ issued' \in Seq(Message) /\ Len(issued') <= MaxMessages
  BY <1>1, <1>9, BooksGrow
<1>11. TypeOK'
  BY <1>1, <1>2, <1>6, <1>10 DEF TypeOK, history
<1>12. ASSUME NEW s \in Thread PROVE Wakes(s)'
  <2>1. Wakes(s) /\ QueuedFor(s)
    BY DEF IInv, Books
  <2>2. CASE s = t
    <3>1. AnswerWakes(t)'
      <4> SUFFICES ASSUME NEW i \in 1..(L + 1), stack'[t][i].op = "Send", stack'[t][i].pc \in {"sends", "wait"},
                          stack'[t][i].msg \in ready', ~wake'[t]
                   PROVE  \E j \in 1..(L + 1) : j > i /\ stack'[t][j].op = "Send" /\ stack'[t][j].waited
        BY <1>7 DEF AnswerWakes
      <4>1. i \in 1..L
        BY <1>4, <1>5, <1>6
      <4>2. PICK j \in 1..L : j > i /\ stack[t][j].op = "Send" /\ stack[t][j].waited
        BY <1>2, <1>5, <1>6, <2>1, <2>2, <4>1 DEF Wakes, AnswerWakes
      <4> QED BY <1>5, <1>6, <4>2
    <3> QED BY <1>4, <1>7, <2>2, <3>1 DEF Wakes, LoopEnds, GetWakes, SendWakes, At, In, Exited
  <2>3. CASE s # t
    <3>1. stack'[s] = stack[s] /\ msgq' = msgq /\ wake' = wake /\ fStop' = fStop /\ ready' = ready
      BY <1>2, <1>6, <2>3 DEF Others
    <3>2. \A n \in Range(sendlist[s]) : Signalling(n) => Signalling(n)'
      BY <1>1, <1>3, <1>6, <2>1, SignalStays DEF QueuedFor
    <3>3. PICK k \in MessageId : k = NewMessage
      BY <1>3
    <3>4. Signalling(k)'
      BY <1>3, <1>4, <1>7, <3>3 DEF Signalling, At, In
    <3>6. \A n \in Range(sendlist'[s]) : n \in Range(sendlist[s]) \/ n = k
      <4>1. sendlist[s] \in Seq(MessageId) /\ sendlist'[s] \in {sendlist[s], Append(sendlist[s], k)}
        BY <1>1, <1>2, <3>3 DEF TypeOK
      <4>2. Range(Append(sendlist[s], k)) = Range(sendlist[s]) \cup {k}
        BY <4>1, AppendElements
      <4> QED BY <4>1, <4>2
    <3>5. \A n \in Range(sendlist'[s]) : \/ n \in Range(sendlist[s]) /\ (Signalling(n) => Signalling(n)')
                                         \/ Signalling(n)'
      BY <3>2, <3>4, <3>6
    <3> QED BY <1>1, <1>3, <2>1, <3>1, <3>5, WakesStay
  <2> QED BY <2>2, <2>3
<1> QED BY <1>8, <1>10, <1>11, <1>12 DEF IInv
---------------------------------------------------------------------------
(* A message is taken from a queue and its handler called.                 *)

LEMMA HandlerEntered ==
  ASSUME IInv, NEW t \in Thread, ~Exited(t), UNCHANGED << issued, ready, wake >>,
         NEW k \in DOMAIN issued, Enter(t, OnMessage(k)),
         issued[k].to = t, k \notin Running(t),
         \/ At(t, "Get", "sends") \/ At(t, "Get", "queue")
         \/ /\ At(t, "Send", "sends")
            /\ issued[k].kind = "send" /\ issued[k].from = Top(t).to
  PROVE  /\ stack' \in [Thread -> Seq(Call)] /\ Others(t) /\ Wakes(t)'
         /\ Running(t)' = Running(t) \cup {k}
         /\ \A s \in Thread : StackOK(s)' /\ Awaited(s)' = Awaited(s)
         /\ \A s \in Thread : s # t => Running(s)' = Running(s)
<1> DEFINE L == Len(stack[t])
<1>1. /\ TypeOK /\ StackOK(t) /\ AnswerWakes(t) /\ k \in MessageId
      /\ L \in Nat \ {0} /\ DOMAIN stack[t] = 1..L
  BY TopIsCall, IssuedMessages DEF IInv, Wakes
<1>2. OnMessage(k) \in Call /\ OnMessage(k).op = "OnMessage"
  BY <1>1 DEF OnMessage, Call, MessageId
<1> HIDE DEF L
<1>3. /\ stack' \in [Thread -> Seq(Call)] /\ Others(t)
      /\ Len(stack'[t]) = L + 1
      /\ \A i \in 1..L : stack'[t][i] = stack[t][i]
      /\ stack'[t][L + 1] = OnMessage(k)
  BY <1>1, <1>2, Entered DEF L
<1>4. ~Exited(t)' /\ Top(t)' = OnMessage(k) /\ DOMAIN stack'[t] = 1..(L + 1)
  BY <1>1, <1>3, NewTop
<1>5. StackOK(t)' /\ Running(t)' = Running(t) \cup {k} /\ Awaited(t)' = Awaited(t)
  BY <1>1, StackHandles
<1>6. ASSUME NEW s \in Thread, s # t
      PROVE  StackOK(s)' /\ Running(s)' = Running(s) /\ Awaited(s)' = Awaited(s)
  BY <1>1, <1>3, <1>6, StackStays, IssuedSame DEF IInv, Others
<1>7. AnswerWakes(t)'
  <2> SUFFICES ASSUME NEW i \in 1..(L + 1), stack'[t][i].op = "Send", stack'[t][i].pc \in {"sends", "wait"},
                      stack'[t][i].msg \in ready, ~wake[t]
               PROVE  \E j \in 1..(L + 1) : j > i /\ stack'[t][j].op = "Send" /\ stack'[t][j].waited
    BY <1>4 DEF AnswerWakes
  <2>1. i \in 1..L
    BY <1>1, <1>2, <1>3
  <2>2. PICK j \in 1..L : j > i /\ stack[t][j].op = "Send" /\ stack[t][j].waited
    BY <1>1, <1>3, <2>1 DEF AnswerWakes
  <2> QED BY <1>1, <1>3, <2>2
<1>8. Wakes(t)'
  BY <1>2, <1>4, <1>7 DEF Wakes, LoopEnds, GetWakes, SendWakes, At, In, Exited
<1> QED BY <1>3, <1>5, <1>6, <1>8

LEMMA ReceiveSendKeeps ==
  ASSUME IInv, NEW t \in Thread, ReceiveSend(t)
  PROVE  IInv'
<1>1. TypeOK /\ Books /\ \A s \in Thread : QueuedFor(s) /\ InOnePlace(s)
  BY DEF IInv, Books
<1>2. PICK i \in DOMAIN sendlist[t] :
        /\ Accepts(t, sendlist[t][i])
        /\ sendlist' = [sendlist EXCEPT ![t] = RemoveAt(@, i)]
        /\ Enter(t, OnMessage(sendlist[t][i]))
        /\ UNCHANGED << msgq, dmsgq, wake, fStop, ready, issued, history, clock >>
  BY DEF ReceiveSend
<1>3. PICK k \in DOMAIN issued :
        /\ k = sendlist[t][i] /\ k \in Range(sendlist[t])
        /\ issued[k].to = t /\ issued[k].kind = "send" /\ k \notin Running(t)
  BY <1>1, <1>2 DEF QueuedFor, InOnePlace, Range
<1>4. /\ sendlist'[t] \in Seq(MessageId)
      /\ Range(sendlist'[t]) = Range(sendlist[t]) \ {k} /\ IsInjective(sendlist'[t])
      /\ sendlist' \in [Thread -> Seq(MessageId)]
      /\ \A s \in Thread : s # t => sendlist'[s] = sendlist[s]
  <2>1. sendlist[t] \in Seq(MessageId) /\ i \in 1..Len(sendlist[t]) /\ IsInjective(sendlist[t])
    BY <1>1, <1>2, QueueTypes DEF InOnePlace
  <2>2. /\ RemoveAt(sendlist[t], i) \in Seq(MessageId)
        /\ Range(RemoveAt(sendlist[t], i)) = Range(sendlist[t]) \ {k}
        /\ IsInjective(RemoveAt(sendlist[t], i))
    BY <1>3, <2>1, RemoveAtProperties, RemoveAtElements
  <2> QED BY <1>1, <1>2, <2>2 DEF TypeOK
<1>5. ~Exited(t) /\ ~At(t, "Send", "signal")
      /\ \/ At(t, "Get", "sends")
         \/ At(t, "Send", "sends") /\ issued[k].kind = "send" /\ issued[k].from = Top(t).to
  BY <1>2, <1>3 DEF Accepts, At, In
<1>6. /\ stack' \in [Thread -> Seq(Call)] /\ Others(t) /\ Wakes(t)'
      /\ Running(t)' = Running(t) \cup {k}
      /\ \A s \in Thread : StackOK(s)' /\ Awaited(s)' = Awaited(s)
      /\ \A s \in Thread : s # t => Running(s)' = Running(s)
  BY <1>2, <1>3, <1>5, HandlerEntered
<1>7. TypeOK'
  BY <1>1, <1>2, <1>4, <1>6 DEF TypeOK, history
<1>8. UNCHANGED << msgq, dmsgq, wake, fStop, ready, issued, handled, cleared >>
  BY <1>2 DEF history
<1>9. ASSUME NEW s \in Thread
      PROVE  /\ Range(sendlist'[s]) \subseteq Range(sendlist[s])
             /\ Running(s) \subseteq Running(s)'
             /\ Range(sendlist'[s]) \cup Running(s)' = Range(sendlist[s]) \cup Running(s)
             /\ \A n \in Running(s)' : n \in Running(s) \/ n = k
  <2>1. CASE s = t
    BY <1>3, <1>4, <1>6, <2>1
  <2>2. CASE s # t
    <3>1. sendlist'[s] = sendlist[s] /\ Running(s)' = Running(s)
      BY <1>4, <1>6, <2>2
    <3> QED BY <3>1
  <2> QED BY <2>1, <2>2
<1>10. Recorded' /\ PostsInOrder'
  BY <1>1, <1>8 DEF Books, Recorded, PostsInOrder
<1>11. ASSUME NEW s \in Thread PROVE QueuedFor(s)'
  BY <1>1, <1>8, <1>9 DEF QueuedFor
<1>12. ASSUME NEW s \in Thread PROVE InOnePlace(s)'
  <2>1. InOnePlace(s)
    BY <1>1
  <2>2. CASE s = t
    <3>1. k \notin Range(msgq[t]) /\ k \notin dmsgq[t] /\ k \notin Range(handled[t])
      BY <1>1, <1>3 DEF QueuedFor, InOnePlace
    <3> QED BY <1>4, <1>6, <1>8, <2>1, <2>2, <3>1 DEF InOnePlace
  <2>3. CASE s # t
    BY <1>4, <1>6, <1>8, <2>1, <2>3 DEF InOnePlace
  <2> QED BY <2>2, <2>3
<1>13. ASSUME NEW s \in Thread PROVE Placed(s)'
  <2>1. Placed(s)
    BY <1>1 DEF Books
  <2> QED BY <1>8, <1>9, <2>1 DEF Placed
<1>14. ASSUME NEW s \in Thread PROVE SendsWait(s)'
  <2>1. SendsWait(s)
    BY <1>1 DEF Books
  <2> QED BY <1>6, <1>8, <1>9, <2>1 DEF SendsWait
<1>15. ASSUME NEW s \in Thread PROVE RunningInOrder(s)' /\ QueuedInOrder(s)'
  <2>1. RunningInOrder(s) /\ QueuedInOrder(s)
    BY <1>1 DEF Books
  <2>2. \A m, n \in DOMAIN issued : Before(m, n)' <=> Before(m, n)
    BY <1>8 DEF Before
  <2>3. \A m : Over(s, m)' <=> Over(s, m)
    BY <1>8 DEF Over
  <2>4. \A m \in DOMAIN issued : ~Before(m, k)
    BY <1>3 DEF Before
  <2>5. RunningInOrder(s)'
    <3>1. \A n \in Running(s) : n \in DOMAIN issued
      BY <1>1, RunningIssued DEF IInv
    <3> QED BY <1>8, <1>9, <2>1, <2>2, <2>3, <2>4, <3>1 DEF RunningInOrder
  <2>6. QueuedInOrder(s)'
    BY <1>8, <1>9, <2>1, <2>2, <2>3 DEF QueuedInOrder
  <2> QED BY <2>5, <2>6
<1>16. Books'
  BY <1>10, <1>11, <1>12, <1>13, <1>14, <1>15 DEF Books
<1>17. ASSUME NEW s \in Thread, s # t PROVE Wakes(s)'
  <2>1. Wakes(s) /\ QueuedFor(s) /\ stack'[s] = stack[s] /\ sendlist'[s] = sendlist[s] /\ IssuedKept
    BY <1>1, <1>4, <1>6, <1>8, <1>17, IssuedSame DEF IInv, Others
  <2>2. \A n \in Range(sendlist[s]) : Signalling(n) => Signalling(n)'
    BY <1>1, <1>5, <1>6, <2>1, SignalStays DEF QueuedFor
  <2> QED BY <1>1, <1>8, <2>1, <2>2, WakesStay
<1> QED BY <1>6, <1>7, <1>16, <1>17 DEF IInv
---------------------------------------------------------------------------
(* The delayed messages that are due, in line.                             *)

DueLines(t) == Lined(Due(t), Sooner)

LEMMA DueInLine ==
  ASSUME TypeOK, NEW t \in Thread, QueuedFor(t), NEW due \in DueLines(t)
  PROVE  /\ due \in Seq(MessageId) /\ DOMAIN due = 1..Len(due) /\ Len(due) \in Nat
         /\ Range(due) = Due(t) /\ IsInjective(due)
         /\ \A i, j \in 1..Len(due) : i < j => Sooner(due[i], due[j])
<1> DEFINE S == Due(t)
<1>1. S \subseteq MessageId /\ S \subseteq DOMAIN issued
  BY QueueTypes DEF Due, QueuedFor
<1>2. Cardinality(S) \in Nat
  <2>1. IsFiniteSet(MessageId)
    BY Limits, FS_Interval DEF MessageId
  <2> QED BY <1>1, <2>1, FS_Subset, FS_CardinalityType
<1> DEFINE c == Cardinality(S)
<1>3. /\ due \in [1..c -> S] /\ Range(due) = S
      /\ \A i, j \in DOMAIN due : i < j => Sooner(due[i], due[j])
  BY DEF DueLines, Lined
<1> HIDE DEF S, c
<1>4. due \in Seq(MessageId)
  <2>1. due \in [1..c -> MessageId] /\ c \in Nat
    BY <1>1, <1>2, <1>3 DEF c
  <2> QED BY <2>1, SeqDef
<1>5. DOMAIN due = 1..Len(due) /\ Len(due) \in Nat
  BY <1>4
<1>6. IsInjective(due)
  <2> SUFFICES ASSUME NEW i \in 1..Len(due), NEW j \in 1..Len(due), i < j, due[i] = due[j]
               PROVE  FALSE
    BY <1>5 DEF IsInjective
  <2>1. due[i] \in S /\ Sooner(due[i], due[i])
    BY <1>3, <1>5
  <2>2. due[i] \in Int /\ issued[due[i]].trigger \in Int
    BY <1>1, <2>1, IssuedMessages
  <2> QED BY <2>1, <2>2 DEF Sooner
<1> QED BY <1>3, <1>4, <1>5, <1>6 DEF S

LineInOrder(t, q) ==
  \A p \in DOMAIN q : \A m, n \in DOMAIN issued :
    n = q[p] /\ Before(m, n) => Over(t, m) \/ \E r \in 1..(p - 1) : q[r] = m

LEMMA NextInLine ==
  ASSUME IInv, NEW t \in Thread, At(t, "Get", "queue"), NEW due \in DueLines(t),
         NEW q, q = msgq[t] \o due
  PROVE  /\ q \in Seq(MessageId) /\ IsInjective(q)
         /\ Range(q) = Range(msgq[t]) \cup Due(t)
         /\ Running(t) = {} /\ LineInOrder(t, q)
<1>1. TypeOK /\ QueuedFor(t) /\ InOnePlace(t) /\ Placed(t) /\ QueuedInOrder(t) /\ StackOK(t)
  BY DEF IInv, Books
<1>2. /\ due \in Seq(MessageId) /\ DOMAIN due = 1..Len(due) /\ Len(due) \in Nat
      /\ Range(due) = Due(t) /\ IsInjective(due)
      /\ \A i, j \in 1..Len(due) : i < j => Sooner(due[i], due[j])
  BY <1>1, DueInLine
<1>3. /\ msgq[t] \in Seq(MessageId) /\ DOMAIN msgq[t] = 1..Len(msgq[t]) /\ Len(msgq[t]) \in Nat
  BY <1>1, QueueTypes
<1>4. q \in Seq(MessageId) /\ Range(q) = Range(msgq[t]) \cup Due(t)
  BY <1>2, <1>3, ConcatElements, ConcatProperties
<1>5. IsInjective(q)
  <2>1. IsInjective(msgq[t]) /\ Range(msgq[t]) \cap Range(due) = {}
    BY <1>1, <1>2 DEF InOnePlace, Due
  <2> QED BY <1>2, <1>3, <2>1, ConcatIsInjective
<1>6. Running(t) = {}
  <2>1. Len(stack[t]) = 1 /\ Top(t).op = "Get" /\ DOMAIN stack[t] = 1..1 /\ stack[t][1] = Top(t)
    BY <1>1, BelowTop, TopIsCall DEF At, In
  <2> QED BY <2>1 DEF Running, OnMessage
<1>7. /\ DOMAIN q = 1..(Len(msgq[t]) + Len(due))
      /\ \A p \in 1..(Len(msgq[t]) + Len(due)) :
            q[p] = IF p <= Len(msgq[t]) THEN msgq[t][p] ELSE due[p - Len(msgq[t])]
  BY <1>2, <1>3, ConcatProperties
<1>8. ASSUME NEW p \in DOMAIN q, NEW m \in DOMAIN issued, NEW n \in DOMAIN issued,
             n = q[p], Before(m, n), ~Over(t, m)
      PROVE  \E r \in 1..(p - 1) : q[r] = m
  <2>1. CASE p <= Len(msgq[t])
    <3>1. p \in DOMAIN msgq[t] /\ n = msgq[t][p]
      BY <1>3, <1>7, <1>8, <2>1
    <3>2. PICK r \in 1..(p - 1) : msgq[t][r] = m
      BY <1>1, <1>6, <1>8, <3>1 DEF QueuedInOrder
    <3>3. q[r] = m
      BY <1>3, <1>7, <2>1, <3>2
    <3> QED BY <3>3
  <2>2. CASE p > Len(msgq[t])
    <3>1. PICK j \in 1..Len(due) : p = Len(msgq[t]) + j /\ n = due[j]
      <4>1. p - Len(msgq[t]) \in 1..Len(due) /\ n = due[p - Len(msgq[t])]
        BY <1>2, <1>3, <1>7, <1>8, <2>2
      <4>2. p = Len(msgq[t]) + (p - Len(msgq[t]))
        BY <1>3, <1>7
      <4> QED BY <4>1, <4>2
    <3>2. n \in Due(t)
      BY <1>2, <3>1 DEF Range
    <3>3. n \in dmsgq[t] /\ issued[n].to = t /\ issued[n].kind = "delayed" /\ issued[n].trigger <= clock
      BY <1>1, <3>2 DEF QueuedFor, Due
    <3>4. /\ m < n /\ issued[m].to = t /\ issued[m].kind = "delayed"
          /\ issued[m].trigger <= issued[n].trigger
      BY <1>8, <3>3 DEF Before
    <3>5. /\ issued[m].trigger \in Int /\ issued[n].trigger \in Int
          /\ m \in Int /\ n \in Int /\ clock \in Int
      <4>1. clock \in Int
        BY <1>1, Limits DEF TypeOK
      <4> QED BY <1>1, <4>1, IssuedMessages, Limits
    <3>6. m \in Range(msgq[t]) \cup dmsgq[t]
      <4>1. m \in UNION {cleared, Range(handled[t]), Running(t), Range(sendlist[t]), Range(msgq[t]), dmsgq[t]}
        BY <1>1, <3>4 DEF Placed
      <4>2. m \notin Range(sendlist[t])
        BY <1>1, <3>4 DEF QueuedFor
      <4> QED BY <1>6, <1>8, <4>1, <4>2 DEF Over
    <3>7. CASE m \in Range(msgq[t])
      <4>1. PICK r \in 1..Len(msgq[t]) : msgq[t][r] = m
        BY <1>3, <3>7 DEF Range
      <4>2. r \in 1..(p - 1) /\ q[r] = m
        BY <1>2, <1>3, <1>7, <3>1, <4>1
      <4> QED BY <4>2
    <3>8. CASE m \in dmsgq[t]
      <4>1. m \in Due(t)
        BY <3>3, <3>4, <3>5, <3>8 DEF Due
      <4>2. PICK i \in 1..Len(due) : due[i] = m
        BY <1>2, <4>1 DEF Range
      <4>3. i < j
        <5>1. i # j
          BY <3>1, <3>4, <3>5, <4>2
        <5>2. ~(j < i)
          <6>1. ~Sooner(n, m)
            BY <3>4, <3>5 DEF Sooner
          <6>2. \A a, b \in 1..Len(due) : a < b => Sooner(due[a], due[b])
            BY <1>2
          <6> QED BY <3>1, <4>2, <6>1, <6>2
        <5> QED BY <5>1, <5>2
      <4>4. PICK r \in 1..(p - 1) : r = Len(msgq[t]) + i
        BY <1>2, <1>3, <3>1, <4>3
      <4>5. q[r] = m
        BY <1>2, <1>3, <1>7, <3>1, <4>2, <4>4
      <4> QED BY <4>5
    <3> QED BY <3>6, <3>7, <3>8
  <2> QED BY <1>3, <1>7, <2>1, <2>2
<1>9. LineInOrder(t, q)
  BY <1>8 DEF LineInOrder
<1> QED BY <1>4, <1>5, <1>6, <1>9

LEMMA LookAtQueueKeeps ==
  ASSUME IInv, NEW t \in Thread, LookAtQueue(t)
  PROVE  IInv'
<1>1. /\ TypeOK /\ Books /\ \A s \in Thread : QueuedFor(s) /\ InOnePlace(s)
      /\ At(t, "Get", "queue") /\ ~At(t, "Send", "signal") /\ ~Exited(t)
      /\ Top(t) \in Call /\ Top(t).op = "Get" /\ Top(t).pc = "queue"
  BY TopIsCall DEF IInv, Books, LookAtQueue, At, In
<1>2. PICK due \in DueLines(t) :
        IF msgq[t] \o due = << >>
        THEN msgq' = msgq /\ Goto(t, "stop")
        ELSE /\ msgq' = [msgq EXCEPT ![t] = Tail(msgq[t] \o due)]
             /\ Enter(t, OnMessage(Head(msgq[t] \o due)))
  BY DEF LookAtQueue, DueLines
<1>3. /\ dmsgq' = [dmsgq EXCEPT ![t] = @ \ Due(t)]
      /\ UNCHANGED << sendlist, wake, fStop, ready, issued, handled, cleared, history, clock >>
  BY DEF LookAtQueue, history
<1>8. PICK q : q = msgq[t] \o due
  OBVIOUS
<1>4. /\ q \in Seq(MessageId) /\ IsInjective(q)
      /\ Range(q) = Range(msgq[t]) \cup Due(t)
      /\ Running(t) = {} /\ LineInOrder(t, q)
  <2>1. At(t, "Get", "queue")
    BY <1>1
  <2> QED BY <1>8, <2>1, NextInLine
<1>5. IssuedKept
  BY <1>3, IssuedSame
<1>6. CASE q = << >>
  <2> DEFINE c == [Top(t) EXCEPT !.pc = "stop"]
  <2>1. c \in Call /\ c.op = "Get" /\ c.pc = "stop"
    BY <1>1, GotoCall
  <2>2. msgq' = msgq /\ Become(t, c)
    BY <1>2, <1>6, <1>8 DEF Goto
  <2> HIDE DEF c
  <2>3. Range(msgq[t]) = {} /\ Due(t) = {}
    <3>1. DOMAIN q = {}
      BY <1>6
    <3>2. Range(q) = {}
      BY <3>1 DEF Range
    <3> QED BY <1>4, <3>2
  <2>4. msgq[t] = << >>
    <3>1. msgq[t] \in Seq(MessageId) /\ DOMAIN msgq[t] = 1..Len(msgq[t]) /\ Len(msgq[t]) \in Nat
      BY <1>1, QueueTypes
    <3>2. Len(msgq[t]) = 0
      <4>1. Len(msgq[t]) >= 1 => msgq[t][1] \in Range(msgq[t])
        BY <3>1 DEF Range
      <4> QED BY <2>3, <3>1, <4>1
    <3> QED BY <3>1, <3>2, EmptySeq
  <2>5. UNCHANGED queues
    BY <1>1, <1>3, <2>2, <2>3 DEF queues, TypeOK
  <2>6. /\ stack' \in [Thread -> Seq(Call)] /\ Others(t)
        /\ ~Exited(t)' /\ Top(t)' = c
        /\ Books' /\ \A s \in Thread : StackOK(s)'
        /\ AnswerWakes(t)'
    BY <1>1, <1>3, <2>1, <2>2, <2>5, GoesOn
  <2>7. TypeOK'
    BY <1>1, <1>3, <2>5, <2>6 DEF TypeOK, queues, history
  <2>8. ASSUME NEW s \in Thread PROVE Wakes(s)'
    <3>1. CASE s = t
      <4>1. LoopEnds(t)' /\ SendWakes(t)'
        BY <2>1, <2>6 DEF LoopEnds, SendWakes, At, In, Exited
      <4>2. ASSUME ~wake'[t]
            PROVE  (\A n \in Range(sendlist'[t]) : Signalling(n)') /\ msgq'[t] = << >>
        <5>1. GetWakes(t)
          BY DEF IInv, Wakes
        <5>2. \A n \in Range(sendlist[t]) : Signalling(n)
          BY <1>1, <1>3, <4>2, <5>1 DEF GetWakes, In
        <5>3. \A n \in Range(sendlist[t]) : Signalling(n)'
          BY <1>1, <1>5, <2>6, <5>2, SignalStays DEF QueuedFor
        <5> QED BY <1>3, <2>2, <2>4, <5>3
      <4>3. GetWakes(t)'
        BY <2>1, <2>6, <4>2 DEF GetWakes
      <4> QED BY <2>6, <3>1, <4>1, <4>3 DEF Wakes
    <3>2. CASE s # t
      BY <1>1, <1>3, <2>5, <2>6, <3>2, BystanderWakes DEF queues
    <3> QED BY <3>1, <3>2
  <2> QED BY <2>6, <2>7, <2>8 DEF IInv
<1>7. CASE q # << >>
  <2>1. PICK k \in MessageId : k = Head(q)
    BY <1>4, <1>7, HeadTailProperties
  <2>2. msgq' = [msgq EXCEPT ![t] = Tail(q)] /\ Enter(t, OnMessage(k))
    BY <1>2, <1>7, <1>8, <2>1
  <2>3. /\ k \in Range(q) /\ Tail(q) \in Seq(MessageId)
        /\ Range(Tail(q)) = Range(q) \ {k} /\ IsInjective(Tail(q))
        /\ k = q[1] /\ Len(q) \in Nat \ {0} /\ DOMAIN q = 1..Len(q)
        /\ DOMAIN Tail(q) = 1..(Len(q) - 1)
        /\ \A p \in 1..(Len(q) - 1) : Tail(q)[p] = q[p + 1]
    <3>1. /\ Tail(q) \in Seq(MessageId) /\ Len(Tail(q)) = Len(q) - 1
          /\ \A p \in 1..(Len(q) - 1) : Tail(q)[p] = q[p + 1]
      BY <1>4, <1>7, HeadTailProperties
    <3>2. Len(q) \in Nat \ {0} /\ DOMAIN q = 1..Len(q) /\ Head(q) = q[1]
      BY <1>4, <1>7, EmptySeq
    <3>3. DOMAIN Tail(q) = 1..(Len(q) - 1)
      BY <3>1, <3>2
    <3>4. k \in Range(q) /\ Range(Tail(q)) = Range(q) \ {k} /\ IsInjective(Tail(q))
      BY <1>4, <1>7, <2>1, TailElements
    <3> QED BY <2>1, <3>1, <3>2, <3>3, <3>4
  <2>4. /\ \A s \in Thread : s # t => msgq'[s] = msgq[s] /\ dmsgq'[s] = dmsgq[s]
        /\ msgq'[t] = Tail(q) /\ dmsgq'[t] = dmsgq[t] \ Due(t)
        /\ Due(t) \subseteq dmsgq[t]
        /\ msgq' \in [Thread -> Seq(MessageId)] /\ dmsgq' \in [Thread -> SUBSET MessageId]
    BY <1>1, <1>3, <2>2, <2>3 DEF TypeOK, Due
  <2>5. /\ k \in DOMAIN issued /\ issued[k].to = t /\ issued[k].kind # "send"
        /\ k \notin Running(t) /\ k \notin Range(sendlist[t]) /\ k \notin Range(handled[t])
    <3>1. k \in Range(msgq[t]) \cup dmsgq[t]
      BY <1>4, <2>3, <2>4
    <3>2. k \in DOMAIN issued /\ issued[k].to = t /\ issued[k].kind # "send"
      BY <1>1, <3>1 DEF QueuedFor
    <3>3. k \notin Range(sendlist[t])
      BY <1>1, <3>2 DEF QueuedFor
    <3>4. k \notin Running(t) /\ k \notin Range(handled[t])
      BY <1>1, <3>1 DEF InOnePlace
    <3> QED BY <3>2, <3>3, <3>4
  <2>6. /\ stack' \in [Thread -> Seq(Call)] /\ Others(t) /\ Wakes(t)'
        /\ Running(t)' = {k}
        /\ \A s \in Thread : StackOK(s)' /\ Awaited(s)' = Awaited(s)
        /\ \A s \in Thread : s # t => Running(s)' = Running(s)
    <3>1. Running(t) \cup {k} = {k}
      BY <1>4
    <3>2. /\ stack' \in [Thread -> Seq(Call)] /\ Others(t) /\ Wakes(t)'
          /\ Running(t)' = Running(t) \cup {k}
          /\ \A s \in Thread : StackOK(s)' /\ Awaited(s)' = Awaited(s)
          /\ \A s \in Thread : s # t => Running(s)' = Running(s)
      BY <1>1, <1>3, <2>2, <2>5, HandlerEntered
    <3> QED BY <3>1, <3>2
  <2>7. TypeOK'
    BY <1>1, <1>3, <2>4, <2>6 DEF TypeOK, history
  <2>8. Recorded' /\ PostsInOrder'
    BY <1>1, <1>3 DEF Books, Recorded, PostsInOrder
  <2>9. ASSUME NEW s \in Thread PROVE QueuedFor(s)'
    <3>1. CASE s = t
      <4>1. Range(msgq'[t]) \subseteq Range(msgq[t]) \cup dmsgq[t] /\ dmsgq'[t] \subseteq dmsgq[t]
        BY <1>4, <2>3, <2>4
      <4> QED BY <1>1, <1>3, <3>1, <4>1 DEF QueuedFor
    <3>2. CASE s # t
      BY <1>1, <1>3, <2>4, <3>2 DEF QueuedFor
    <3> QED BY <3>1, <3>2
  <2>10. ASSUME NEW s \in Thread PROVE InOnePlace(s)'
    <3>1. CASE s = t
      <4>1. InOnePlace(t)
        BY <1>1
      <4>2. Range(msgq'[t]) = (Range(msgq[t]) \cup Due(t)) \ {k} /\ IsInjective(msgq'[t])
        BY <1>4, <2>3, <2>4
      <4>3. k \notin dmsgq'[t]
        BY <1>4, <2>3, <2>4, <4>1 DEF InOnePlace
      <4>4. sendlist'[t] = sendlist[t] /\ handled'[t] = handled[t]
        BY <1>3
      <4>5. Range(msgq'[t]) \cap dmsgq'[t] = {}
        BY <2>4, <4>1, <4>2 DEF InOnePlace
      <4>6. Range(sendlist[t]) \cup Range(msgq'[t]) \cup dmsgq'[t]
            = Range(sendlist[t]) \cup ((Range(msgq[t]) \cup dmsgq[t]) \ {k})
        BY <2>4, <4>2, <4>3
      <4>7. (Range(sendlist[t]) \cup Range(msgq'[t]) \cup dmsgq'[t])
              \cap ({k} \cup Range(handled[t])) = {}
        BY <2>5, <4>1, <4>6 DEF InOnePlace
      <4> QED BY <2>5, <2>6, <3>1, <4>1, <4>2, <4>4, <4>5, <4>7 DEF InOnePlace
    <3>2. CASE s # t
      BY <1>1, <1>3, <2>4, <2>6, <3>2 DEF InOnePlace
    <3> QED BY <3>1, <3>2
  <2>11. ASSUME NEW s \in Thread PROVE Placed(s)'
    <3>1. Placed(s)
      BY <1>1 DEF Books
    <3>2. CASE s = t
      <4>1. Range(msgq[t]) \cup dmsgq[t] \subseteq Range(msgq'[t]) \cup dmsgq'[t] \cup {k}
        BY <1>4, <2>3, <2>4
      <4> QED BY <1>3, <1>4, <2>6, <3>1, <3>2, <4>1 DEF Placed
    <3>3. CASE s # t
      BY <1>3, <2>4, <2>6, <3>1, <3>3 DEF Placed
    <3> QED BY <3>2, <3>3
  <2>12. ASSUME NEW s \in Thread PROVE SendsWait(s)'
    <3>1. SendsWait(s)
      BY <1>1 DEF Books
    <3>2. \A n \in DOMAIN issued : issued[n].kind = "send" => (n \in Running(s)' <=> n \in Running(s))
      <4>1. CASE s = t
        BY <1>4, <2>5, <2>6, <4>1
      <4> QED BY <2>6, <4>1
    <3> QED BY <1>3, <2>6, <3>1, <3>2, SMTT(40) DEF SendsWait
  <2>13. /\ \A m, n \in DOMAIN issued : Before(m, n)' <=> Before(m, n)
         /\ \A s \in Thread, m \in DOMAIN issued : Over(s, m)' <=> Over(s, m)
    BY <1>3 DEF Before, Over
  <2>14. ASSUME NEW s \in Thread PROVE RunningInOrder(s)'
    <3>1. CASE s = t
      <4>1. ASSUME NEW m \in DOMAIN issued, Before(m, k) PROVE Over(t, m)
        <5>1. 1 \in DOMAIN q
          BY <2>3
        <5>2. Over(t, m) \/ \E r \in 1..(1 - 1) : q[r] = m
          BY <1>4, <2>3, <2>5, <4>1, <5>1 DEF LineInOrder
        <5> QED BY <5>2
      <4> QED BY <1>3, <2>5, <2>6, <2>13, <3>1, <4>1 DEF RunningInOrder
    <3>2. CASE s # t
      <4>1. RunningInOrder(s) /\ \A n \in Running(s) : n \in DOMAIN issued
        BY <1>1, RunningIssued DEF IInv, Books
      <4> QED BY <1>3, <2>6, <2>13, <3>2, <4>1 DEF RunningInOrder
    <3> QED BY <3>1, <3>2
  <2>15. ASSUME NEW s \in Thread PROVE QueuedInOrder(s)'
    <3>1. CASE s = t
      <4> SUFFICES ASSUME NEW p \in DOMAIN msgq'[t], NEW m \in DOMAIN issued', NEW n \in DOMAIN issued',
                          n = msgq'[t][p], Before(m, n)', ~Over(t, m)', m \notin Running(t)'
                   PROVE  \E r \in 1..(p - 1) : msgq'[t][r] = m
        BY <3>1 DEF QueuedInOrder
      <4>5. /\ p \in 1..(Len(q) - 1) /\ m \in DOMAIN issued /\ n \in DOMAIN issued
            /\ n = Tail(q)[p] /\ Before(m, n) /\ ~Over(t, m) /\ m # k
        BY <1>3, <2>3, <2>4, <2>6, <2>13
      <4>1. p + 1 \in DOMAIN q /\ n = q[p + 1]
        BY <2>3, <4>5
      <4>2. PICK r \in 1..(p + 1 - 1) : q[r] = m
        BY <1>4, <2>3, <4>1, <4>5 DEF LineInOrder
      <4>3. PICK i \in 1..(p - 1) : r = i + 1
        <5>1. r # 1
          BY <2>3, <4>2, <4>5
        <5>2. r - 1 \in 1..(p - 1) /\ r = (r - 1) + 1
          BY <2>3, <4>2, <4>5, <5>1
        <5> QED BY <5>2
      <4>4. Tail(q)[i] = m
        BY <2>3, <4>2, <4>3, <4>5
      <4> QED BY <2>4, <4>4
    <3>2. CASE s # t
      <4>1. QueuedInOrder(s)
        BY <1>1 DEF Books
      <4>2. msgq'[s] = msgq[s] /\ Running(s)' = Running(s) /\ issued' = issued
        BY <1>3, <2>4, <2>6, <3>2
      <4> QED BY <2>13, <4>1, <4>2 DEF QueuedInOrder
    <3> QED BY <3>1, <3>2
  <2>16. Books'
    BY <2>8, <2>9, <2>10, <2>11, <2>12, <2>14, <2>15 DEF Books
  <2>17. ASSUME NEW s \in Thread, s # t PROVE Wakes(s)'
    <3>1. Wakes(s) /\ stack'[s] = stack[s] /\ msgq'[s] = msgq[s]
      BY <2>4, <2>6, <2>17 DEF IInv, Others
    <3>2. \A n \in Range(sendlist[s]) : Signalling(n) => Signalling(n)'
      BY <1>1, <1>5, <2>6, SignalStays DEF QueuedFor
    <3> QED BY <1>1, <1>3, <1>5, <3>1, <3>2, WakesStay
  <2> QED BY <2>6, <2>7, <2>16, <2>17 DEF IInv
<1> QED BY <1>6, <1>7

---------------------------------------------------------------------------
(* A handler is over.                                                      *)

LEMMA HandlerReturnsKeeps ==
  ASSUME IInv, NEW t \in Thread, HandlerReturns(t)
  PROVE  IInv'
<1> DEFINE L == Len(stack[t])
<1>1. /\ TypeOK /\ Books /\ \A s \in Thread : StackOK(s) /\ Wakes(s)
      /\ \A s \in Thread : QueuedFor(s) /\ InOnePlace(s) /\ Placed(s) /\ SendsWait(s)
      /\ \A s \in Thread : RunningInOrder(s) /\ QueuedInOrder(s)
      /\ In(t, "OnMessage") /\ ~At(t, "Send", "signal") /\ ~Exited(t)
      /\ Top(t) \in Call /\ Top(t).op = "OnMessage"
      /\ L \in Nat \ {0} /\ DOMAIN stack[t] = 1..L /\ stack[t][L] = Top(t)
      /\ \A i \in 1..L : stack[t][i] \in Call
  BY TopIsCall DEF IInv, Books, HandlerReturns, At, In
<1> HIDE DEF L
<1>2. PICK n \in 0..MaxMessages : n = Top(t).msg
  BY <1>1, CallKinds
<1>3. /\ IF Sent(n)
         THEN /\ ready' = ready \cup {n}
              /\ wake' = [wake EXCEPT ![issued[n].from] = TRUE]
         ELSE UNCHANGED << ready, wake >>
      /\ handled' = IF n = 0 THEN handled ELSE [handled EXCEPT ![t] = Append(@, n)]
      /\ stack' = [stack EXCEPT ![t] = AfterHandler(t)]
      /\ UNCHANGED << sendlist, msgq, dmsgq, fStop, issued, cleared, atQuit, clock >>
  BY <1>2 DEF HandlerReturns, queues
<1>4. IssuedKept
  BY <1>3, IssuedSame
<1>5. /\ n # 0 => n \in MessageId /\ n \in DOMAIN issued /\ issued[n].to = t
      /\ n # 0 => n \in Running(t) /\ n \notin Range(handled[t])
  <2> SUFFICES ASSUME n # 0
               PROVE  /\ n \in MessageId /\ n \in DOMAIN issued /\ issued[n].to = t
                      /\ n \in Running(t) /\ n \notin Range(handled[t])
    OBVIOUS
  <2>1. n > 0 /\ n \in MessageId /\ Top(t) = OnMessage(n)
    BY <1>1, <1>2, CallKinds, Limits DEF MessageId
  <2>2. n \in Running(t)
    BY <1>1, <2>1 DEF Running
  <2>3. n \in DOMAIN issued /\ issued[n].to = t
    BY <1>1, <2>2, RunningIssued
  <2>4. n \notin Range(handled[t])
    BY <1>1, <2>2 DEF InOnePlace
  <2> QED BY <2>1, <2>2, <2>3, <2>4
<1>6. Sent(n) <=> n # 0 /\ issued[n].kind = "send"
  BY <1>2, Limits DEF Sent
<1>7. /\ \A m : m \in ready' <=> m \in ready \/ (m = n /\ Sent(n))
      /\ \A s \in Thread : wake[s] => wake'[s]
      /\ Sent(n) => wake'[issued[n].from]
      /\ wake' \in [Thread -> BOOLEAN]
  <2>1. Sent(n) => issued[n].from \in Thread
    BY <1>1, <1>5, <1>6, IssuedMessages
  <2> QED BY <1>1, <1>3, <2>1 DEF TypeOK
<1>8. /\ handled' \in [Thread -> Seq(MessageId)]
      /\ \A s \in Thread : s # t => handled'[s] = handled[s]
      /\ n = 0 => handled'[t] = handled[t]
      /\ n # 0 => handled'[t] = Append(handled[t], n)
      /\ \A m : m \in Range(handled'[t]) <=> m \in Range(handled[t]) \/ (m = n /\ n # 0)
      /\ IsInjective(handled'[t])
  <2>1. handled[t] \in Seq(MessageId) /\ handled \in [Thread -> Seq(MessageId)] /\ IsInjective(handled[t])
    BY <1>1 DEF TypeOK, InOnePlace
  <2>2. CASE n = 0
    BY <1>3, <2>1, <2>2
  <2>3. CASE n # 0
    <3>1. handled' = [handled EXCEPT ![t] = Append(handled[t], n)] /\ n \in MessageId
      BY <1>3, <1>5, <2>3
    <3>2. Append(handled[t], n) \in Seq(MessageId)
      BY <2>1, <3>1, AppendProperties
    <3>3. Range(Append(handled[t], n)) = Range(handled[t]) \cup {n} /\ IsInjective(Append(handled[t], n))
      BY <1>5, <2>1, <2>3, <3>1, AppendElements
    <3> QED BY <2>1, <2>3, <3>1, <3>2, <3>3
  <2> QED BY <2>2, <2>3
<1>9. /\ stack' \in [Thread -> Seq(Call)] /\ Others(t)
      /\ Len(stack'[t]) = L - 1
      /\ \A i \in 1..(L - 1) :
           stack'[t][i] = IF stack[t][i].op = "Get" /\ stack[t][i].pc = "queue" /\ i = L - 1
                          THEN Get ELSE stack[t][i]
  BY <1>1, <1>3, HandlerLeft DEF L
<1>10. /\ StackOK(t)' /\ Awaited(t)' = Awaited(t)
       /\ \A m : m \in Running(t)' <=> m \in Running(t) /\ m # n
  <2>1. \A i \in 1..(Len(stack[t]) - 1) :
           \/ stack'[t][i] = stack[t][i]
           \/ stack[t][i].op = "Get" /\ stack'[t][i] = Get /\ i = Len(stack[t]) - 1
    BY <1>9 DEF L
  <2>2. UNCHANGED issued /\ Len(stack'[t]) = Len(stack[t]) - 1
    BY <1>3, <1>9 DEF L
  <2>3. /\ StackOK(t)' /\ Running(t)' = Running(t) \ {Top(t).msg}
        /\ Awaited(t)' \subseteq Awaited(t) /\ Awaited(t) \subseteq Awaited(t)'
    BY <1>1, <1>9, <2>1, <2>2, StackShrinks
  <2> QED BY <1>2, <2>3
<1>11. ASSUME NEW s \in Thread, s # t
       PROVE  StackOK(s)' /\ Running(s)' = Running(s) /\ Awaited(s)' = Awaited(s)
  BY <1>1, <1>4, <1>9, <1>11, StackStays DEF Others
<1>12. TypeOK'
  <2>1. ready' \subseteq MessageId
    BY <1>1, <1>5, <1>6, <1>7 DEF TypeOK
  <2> QED BY <1>1, <1>3, <1>7, <1>8, <1>9, <2>1 DEF TypeOK
<1>13. Recorded'
  BY <1>1, <1>3, <1>5, <1>6, <1>7 DEF Books, Recorded
<1>14. PostsInOrder'
  <2> SUFFICES ASSUME NEW s \in Thread
               PROVE  /\ IsInjective(handled'[s])
                      /\ \A j \in DOMAIN handled'[s] : \A m \in 1..(handled'[s][j] - 1) :
                           LET k == handled'[s][j] IN
                           /\ issued[m].to = s
                           /\ issued[m].kind = issued[k].kind /\ issued[k].kind \in {"post", "delayed"}
                           /\ issued[m].trigger <= issued[k].trigger
                           => m \in cleared \/ \E i \in 1..(j - 1) : handled'[s][i] = m
    BY <1>3 DEF PostsInOrder
  <2>1. /\ IsInjective(handled[s])
        /\ \A j \in DOMAIN handled[s] : \A m \in 1..(handled[s][j] - 1) :
             LET k == handled[s][j] IN
             /\ issued[m].to = s
             /\ issued[m].kind = issued[k].kind /\ issued[k].kind \in {"post", "delayed"}
             /\ issued[m].trigger <= issued[k].trigger
             => m \in cleared \/ \E i \in 1..(j - 1) : handled[s][i] = m
    BY <1>1 DEF Books, PostsInOrder
  <2>2. CASE handled'[s] = handled[s]
    BY <2>1, <2>2
  <2>3. CASE s = t /\ n # 0
    <3>1. /\ DOMAIN handled[t] = 1..Len(handled[t]) /\ Len(handled[t]) \in Nat
          /\ DOMAIN handled'[t] = 1..(Len(handled[t]) + 1)
          /\ \A j \in 1..Len(handled[t]) : handled'[t][j] = handled[t][j]
          /\ handled'[t][Len(handled[t]) + 1] = n
      <4>1. handled[t] \in Seq(MessageId) /\ n \in MessageId /\ handled'[t] = Append(handled[t], n)
        BY <1>1, <1>5, <1>8, <2>3 DEF TypeOK
      <4> QED BY <4>1, AppendProperties
    <3>2. ASSUME NEW j \in 1..Len(handled[t]), NEW m \in 1..(handled'[t][j] - 1),
                 issued[m].to = t, issued[m].kind = issued[handled'[t][j]].kind,
                 issued[handled'[t][j]].kind \in {"post", "delayed"},
                 issued[m].trigger <= issued[handled'[t][j]].trigger,
                 m \notin cleared
          PROVE  \E i \in 1..(j - 1) : handled'[t][i] = m
      <4>3. handled'[t][j] = handled[t][j]
        BY <3>1
      <4>4. /\ j \in DOMAIN handled[s] /\ m \in 1..(handled[s][j] - 1)
            /\ issued[m].to = s /\ issued[m].kind = issued[handled[s][j]].kind
            /\ issued[handled[s][j]].kind \in {"post", "delayed"}
            /\ issued[m].trigger <= issued[handled[s][j]].trigger
        BY <2>3, <3>1, <3>2, <4>3
      <4>1. PICK i \in 1..(j - 1) : handled[t][i] = m
        BY <2>1, <2>3, <3>2, <4>4
      <4>2. handled'[t][i] = m
        BY <3>1, <4>1
      <4> QED BY <4>2
    <3>3. ASSUME NEW m \in 1..(n - 1),
                 issued[m].to = t, issued[m].kind = issued[n].kind,
                 issued[n].kind \in {"post", "delayed"},
                 issued[m].trigger <= issued[n].trigger,
                 m \notin cleared
          PROVE  \E i \in 1..Len(handled[t]) : handled'[t][i] = m
      <4>1. m \in DOMAIN issued /\ n \in DOMAIN issued /\ m < n
        BY <1>1, <1>5, <2>3, IssuedMessages
      <4>2. Before(m, n)
        BY <1>5, <2>3, <3>3, <4>1 DEF Before
      <4>3. m \in Range(handled[t])
        BY <1>1, <1>5, <2>3, <3>3, <4>1, <4>2 DEF RunningInOrder, Over
      <4> QED BY <3>1, <4>3 DEF Range
    <3>4. ASSUME NEW j \in 1..(Len(handled[t]) + 1), NEW m \in 1..(handled'[t][j] - 1),
                 issued[m].to = t, issued[m].kind = issued[handled'[t][j]].kind,
                 issued[handled'[t][j]].kind \in {"post", "delayed"},
                 issued[m].trigger <= issued[handled'[t][j]].trigger,
                 m \notin cleared
          PROVE  \E i \in 1..(j - 1) : handled'[t][i] = m
      <4>1. CASE j \in 1..Len(handled[t])
        BY <3>2, <3>4, <4>1
      <4>2. CASE j = Len(handled[t]) + 1
        <5>1. handled'[t][j] = n
          BY <3>1, <4>2
        <5>2. \E i \in 1..Len(handled[t]) : handled'[t][i] = m
          BY <3>3, <3>4, <5>1
        <5> QED BY <3>1, <4>2, <5>2
      <4> QED BY <3>1, <4>1, <4>2
    <3> QED BY <1>8, <2>3, <3>1, <3>4
  <2> QED BY <1>8, <2>2, <2>3
<1>15. ASSUME NEW s \in Thread PROVE QueuedFor(s)'
  <2>1. \A m \in Range(handled'[s]) : m \in DOMAIN issued /\ issued[m].to = s
    <3>1. CASE s = t
      BY <1>1, <1>5, <1>8, <3>1 DEF QueuedFor
    <3>2. CASE s # t
      BY <1>1, <1>8, <3>2 DEF QueuedFor
    <3> QED BY <3>1, <3>2
  <2> QED BY <1>1, <1>3, <2>1 DEF QueuedFor
<1>16. ASSUME NEW s \in Thread PROVE InOnePlace(s)'
  <2>1. InOnePlace(s)
    BY <1>1
  <2>2. CASE s = t
    <3>1. /\ \A m : m \in Running(t)' \cup Range(handled'[t]) => m \in Running(t) \cup Range(handled[t])
          /\ Running(t)' \cap Range(handled'[t]) = {}
      <4>1. Running(t) \cap Range(handled[t]) = {}
        BY <2>1, <2>2 DEF InOnePlace
      <4> QED BY <1>5, <1>8, <1>10, <4>1
    <3> QED BY <1>3, <1>8, <2>1, <2>2, <3>1 DEF InOnePlace
  <2>3. CASE s # t
    <3>1. handled'[s] = handled[s] /\ Running(s)' = Running(s)
      BY <1>8, <1>11, <2>3
    <3> QED BY <1>3, <2>1, <3>1 DEF InOnePlace
  <2> QED BY <2>2, <2>3
<1>17. ASSUME NEW s \in Thread PROVE Placed(s)'
  <2>1. Placed(s) /\ ~(0 \in DOMAIN issued)
    BY <1>1, IssuedMessages
  <2>2. CASE s = t
    <3>1. \A m \in DOMAIN issued : m \in Running(t) \cup Range(handled[t])
                                   => m \in Running(t)' \cup Range(handled'[t])
      BY <1>8, <1>10, <2>1
    <3> QED BY <1>3, <2>1, <2>2, <3>1 DEF Placed
  <2>3. CASE s # t
    <3>1. handled'[s] = handled[s] /\ Running(s)' = Running(s)
      BY <1>8, <1>11, <2>3
    <3> QED BY <1>3, <2>1, <3>1 DEF Placed
  <2> QED BY <2>2, <2>3
<1>18. ASSUME NEW s \in Thread PROVE SendsWait(s)'
  <2> SUFFICES ASSUME NEW m \in DOMAIN issued, NEW from \in Thread,
                      issued[m].to = s, issued[m].from = from, issued[m].kind = "send"
               PROVE  /\ m \in Range(sendlist[s]) \cup Running(s)' =>
                           m \in Awaited(from)' /\ m \notin ready'
                      /\ m \in Awaited(from)' /\ m \notin ready' =>
                           m \in Range(sendlist[s]) \cup Running(s)'
    BY <1>3 DEF SendsWait
  <2>1. /\ m \in Range(sendlist[s]) \cup Running(s) =>
             m \in Awaited(from) /\ m \notin ready
        /\ m \in Awaited(from) /\ m \notin ready =>
             m \in Range(sendlist[s]) \cup Running(s)
    BY <1>1 DEF SendsWait
  <2>2. Awaited(from)' = Awaited(from)
    BY <1>10, <1>11
  <2>3. CASE m = n
    <3>1. n # 0
      BY <1>1, <2>3, IssuedMessages
    <3>2. s = t /\ m \in ready' /\ m \notin Running(t)'
      BY <1>5, <1>6, <1>7, <1>10, <2>3, <3>1
    <3>3. m \notin Range(sendlist[t])
      BY <1>1, <1>5, <2>3, <3>1 DEF InOnePlace
    <3> QED BY <3>2, <3>3
  <2>4. CASE m # n
    <3>1. m \in ready' <=> m \in ready
      BY <1>7, <2>4
    <3>2. m \in Running(s)' <=> m \in Running(s)
      BY <1>10, <1>11, <2>4
    <3> QED BY <2>1, <2>2, <3>1, <3>2
  <2> QED BY <2>3, <2>4
<1>19. /\ \A m, k \in DOMAIN issued : Before(m, k)' <=> Before(m, k)
       /\ \A s \in Thread, m \in DOMAIN issued : Over(s, m) => Over(s, m)'
  <2>1. \A m, k \in DOMAIN issued : Before(m, k)' <=> Before(m, k)
    BY <1>3 DEF Before
  <2>2. ASSUME NEW s \in Thread, NEW m \in DOMAIN issued, Over(s, m) PROVE Over(s, m)'
    <3>1. m \in Range(handled[s]) => m \in Range(handled'[s])
      BY <1>8
    <3> QED BY <1>3, <2>2, <3>1 DEF Over
  <2> QED BY <2>1, <2>2
<1>20. ASSUME NEW s \in Thread PROVE RunningInOrder(s)'
  <2>1. /\ \A m \in Running(s)' : m \in Running(s)
        /\ \A m \in Running(s) : m \in DOMAIN issued
    BY <1>1, <1>10, <1>11, RunningIssued
  <2> QED BY <1>1, <1>3, <1>19, <2>1 DEF RunningInOrder
<1>21. ASSUME NEW s \in Thread PROVE QueuedInOrder(s)'
  <2>1. \A m \in DOMAIN issued : m \in Running(s) => m \in Running(s)' \/ Over(s, m)'
    <3>1. CASE s = t
      <4>1. n # 0 => Over(t, n)'
        BY <1>8 DEF Over
      <4> QED BY <1>1, <1>10, <3>1, <4>1, IssuedMessages
    <3>2. CASE s # t
      BY <1>11, <3>2
    <3> QED BY <3>1, <3>2
  <2> QED BY <1>1, <1>3, <1>19, <2>1 DEF QueuedInOrder
<1>22. Books'
  BY <1>13, <1>14, <1>15, <1>16, <1>17, <1>18, <1>20, <1>21 DEF Books
<1>23. Wakes(t)'
  <2>1. DOMAIN stack'[t] = 1..(L - 1)
    BY <1>1, <1>9
  <2>2. /\ stack'[t] = << >> => t \notin Loops
        /\ stack'[t] # << >> =>
             /\ Top(t)' = stack'[t][L - 1]
             /\ Top(t)'.op \in {"Get", "Send"} => Top(t)'.pc = "sends"
    <3>1. /\ L = 1 => t \notin Loops
          /\ L >= 2 => /\ stack[t][L - 1].op = "Get" => stack[t][L - 1].pc \in {"sends", "queue"}
                       /\ stack[t][L - 1].op = "Send" => stack[t][L - 1].pc = "sends"
      BY <1>1, BelowTop DEF L
    <3>2. CASE L = 1
      <4>1. stack'[t] = << >>
        BY <1>1, <1>9, <3>2, EmptySeq
      <4> QED BY <3>1, <3>2, <4>1
    <3>3. CASE L >= 2
      <4>1. Len(stack'[t]) >= 1 /\ Top(t)' = stack'[t][L - 1] /\ stack'[t] # << >>
        BY <1>1, <1>9, <3>3, NewTop DEF Exited
      <4>2. Get.pc = "sends" /\ Get.op = "Get"
        BY DEF Get
      <4>3. stack'[t][L - 1] = IF stack[t][L - 1].op = "Get" /\ stack[t][L - 1].pc = "queue"
                               THEN Get ELSE stack[t][L - 1]
        BY <1>1, <1>9, <3>3
      <4> QED BY <3>1, <3>3, <4>1, <4>2, <4>3
    <3> QED BY <1>1, <3>2, <3>3
  <2>3. LoopEnds(t)' /\ GetWakes(t)' /\ SendWakes(t)'
    BY <2>2 DEF LoopEnds, GetWakes, SendWakes, At, In, Exited
  <2>4. AnswerWakes(t)'
    <3> SUFFICES ASSUME NEW i \in 1..(L - 1), stack'[t][i].op = "Send", stack'[t][i].pc \in {"sends", "wait"},
                        stack'[t][i].msg \in ready', ~wake'[t]
                 PROVE  \E j \in 1..(L - 1) : j > i /\ stack'[t][j].op = "Send" /\ stack'[t][j].waited
      BY <2>1 DEF AnswerWakes
    <3>1. stack[t][i] = stack'[t][i] /\ i \in 1..L
      BY <1>1, <1>9 DEF Get
    <3>2. stack[t][i].msg # n \/ ~Sent(n)
      <4>1. SendsAreBy(t)
        BY <1>1 DEF StackOK
      <4>2. issued[stack[t][i].msg].from = t
        BY <1>1, <3>1, <4>1 DEF SendsAreBy
      <4> QED BY <1>7, <4>2
    <3>3. stack[t][i].msg \in ready /\ ~wake[t]
      BY <1>7, <3>1, <3>2
    <3>4. PICK j \in 1..L : j > i /\ stack[t][j].op = "Send" /\ stack[t][j].waited
      BY <1>1, <3>1, <3>3 DEF Wakes, AnswerWakes
    <3>5. j \in 1..(L - 1)
      BY <1>1, <3>4
    <3>6. stack'[t][j] = stack[t][j]
      BY <1>9, <3>4, <3>5
    <3> QED BY <3>4, <3>5, <3>6
  <2> QED BY <2>3, <2>4 DEF Wakes
<1>24. ASSUME NEW s \in Thread, s # t PROVE Wakes(s)'
  <2>1. stack'[s] = stack[s]
    BY <1>9, <1>24 DEF Others
  <2>2. \A m \in Range(sendlist[s]) : Signalling(m) => Signalling(m)'
    BY <1>1, <1>4, <1>9, SignalStays DEF QueuedFor
  <2>3. \A i \in DOMAIN stack[s] :
          stack[s][i].op = "Send" /\ stack[s][i].msg \in ready' => stack[s][i].msg \in ready \/ wake'[s]
    <3>1. SendsAreBy(s)
      BY <1>1 DEF StackOK
    <3> QED BY <1>7, <3>1 DEF SendsAreBy
  <2> QED BY <1>1, <1>3, <1>4, <1>7, <2>1, <2>2, <2>3, WakesStay
<1> QED BY <1>10, <1>11, <1>12, <1>22, <1>23, <1>24 DEF IInv

---------------------------------------------------------------------------
(* Messages are cleared.                                                   *)

LEMMA LeftInLine ==
  ASSUME NEW queue \in Seq(MessageId), IsInjective(queue), NEW gone,
         NEW line \in Without(queue, gone)
  PROVE  /\ line \in Seq(MessageId) /\ IsInjective(line)
         /\ Range(line) = Range(queue) \ gone
         /\ \A i, j \in DOMAIN line : i < j =>
              \E a, b \in DOMAIN queue : a < b /\ queue[a] = line[i] /\ queue[b] = line[j]
<1> DEFINE S == Range(queue) \ gone
           c == Cardinality(S)
<1>1. S \subseteq MessageId
  BY DEF Range
<1>2. c \in Nat
  <2>1. IsFiniteSet(MessageId)
    BY Limits, FS_Interval DEF MessageId
  <2> QED BY <1>1, <2>1, FS_Subset, FS_CardinalityType
<1>3. /\ line \in [1..c -> S] /\ Range(line) = S
      /\ \A i, j \in DOMAIN line : i < j =>
           \E a, b \in DOMAIN queue : a < b /\ queue[a] = line[i] /\ queue[b] = line[j]
  BY DEF Without, Lined
<1> HIDE DEF S, c
<1>4. line \in Seq(MessageId) /\ DOMAIN line = 1..c
  <2>1. line \in [1..c -> MessageId]
    BY <1>1, <1>3
  <2> QED BY <1>2, <2>1, SeqDef
<1>5. IsInjective(line)
  <2>1. \A a, b \in DOMAIN queue : a < b => queue[a] # queue[b]
    <3>1. DOMAIN queue = 1..Len(queue) /\ Len(queue) \in Nat
      OBVIOUS
    <3> QED BY <3>1 DEF IsInjective
  <2>2. \A i, j \in 1..c : i < j => line[i] # line[j]
    BY <1>3, <1>4, <2>1
  <2> QED BY <1>2, <1>4, <2>2 DEF IsInjective
<1> QED BY <1>3, <1>4, <1>5 DEF S

LEMMA ClearKeeps ==
  ASSUME IInv, NEW t \in Thread, NEW u \in Thread, Clear(t, u)
  PROVE  IInv'
<1>1. /\ TypeOK /\ Books /\ \A s \in Thread : StackOK(s) /\ Wakes(s)
      /\ \A s \in Thread : QueuedFor(s) /\ InOnePlace(s) /\ Placed(s) /\ SendsWait(s)
      /\ \A s \in Thread : RunningInOrder(s) /\ QueuedInOrder(s)
  BY DEF IInv, Books
<1>2. PICK mine \in SUBSET DOMAIN issued : mine = {n \in DOMAIN issued : issued[n].from = t}
  OBVIOUS
<1>3. PICK sends : sends = mine \cap Range(sendlist[u])
  OBVIOUS
<1>4. /\ cleared' = cleared \cup (sends \cup (mine \cap (Range(msgq[u]) \cup dmsgq[u])))
      /\ ready' = ready \cup sends
      /\ dmsgq' = [dmsgq EXCEPT ![u] = @ \ mine]
      /\ wake' = IF sends = {} THEN wake ELSE [wake EXCEPT ![t] = TRUE]
      /\ UNCHANGED << stack, fStop, issued, handled, atQuit, clock >>
  BY <1>2, <1>3 DEF Clear
<1>5. PICK left \in Without(sendlist[u], mine) : sendlist' = [sendlist EXCEPT ![u] = left]
  BY <1>2 DEF Clear
<1>6. PICK rest \in Without(msgq[u], mine) : msgq' = [msgq EXCEPT ![u] = rest]
  BY <1>2 DEF Clear
<1>7. /\ left \in Seq(MessageId) /\ IsInjective(left)
      /\ Range(left) = Range(sendlist[u]) \ mine
  <2>1. sendlist[u] \in Seq(MessageId) /\ IsInjective(sendlist[u])
    BY <1>1, QueueTypes DEF InOnePlace
  <2> QED BY <2>1, LeftInLine
<1>8. /\ rest \in Seq(MessageId) /\ IsInjective(rest)
      /\ Range(rest) = Range(msgq[u]) \ mine
      /\ \A i, j \in DOMAIN rest : i < j =>
           \E a, b \in DOMAIN msgq[u] : a < b /\ msgq[u][a] = rest[i] /\ msgq[u][b] = rest[j]
  <2>1. msgq[u] \in Seq(MessageId) /\ IsInjective(msgq[u])
    BY <1>1, QueueTypes DEF InOnePlace
  <2> QED BY <2>1, LeftInLine
<1>9. /\ sendlist'[u] = left /\ msgq'[u] = rest /\ dmsgq'[u] = dmsgq[u] \ mine
      /\ \A s \in Thread : s # u => sendlist'[s] = sendlist[s] /\ msgq'[s] = msgq[s] /\ dmsgq'[s] = dmsgq[s]
      /\ sendlist' \in [Thread -> Seq(MessageId)] /\ msgq' \in [Thread -> Seq(MessageId)]
      /\ dmsgq' \in [Thread -> SUBSET MessageId]
  BY <1>1, <1>4, <1>5, <1>6, <1>7, <1>8 DEF TypeOK
<1>10. ASSUME NEW s \in Thread
       PROVE  /\ Range(sendlist'[s]) \subseteq Range(sendlist[s]) /\ IsInjective(sendlist'[s])
              /\ Range(msgq'[s]) \subseteq Range(msgq[s]) /\ IsInjective(msgq'[s])
              /\ dmsgq'[s] \subseteq dmsgq[s]
              /\ Range(sendlist[s]) \cup Range(msgq[s]) \cup dmsgq[s]
                   \subseteq Range(sendlist'[s]) \cup Range(msgq'[s]) \cup dmsgq'[s] \cup cleared'
  <2>1. CASE s = u
    BY <1>3, <1>4, <1>7, <1>8, <1>9, <2>1
  <2>2. CASE s # u
    <3>1. sendlist'[s] = sendlist[s] /\ msgq'[s] = msgq[s] /\ dmsgq'[s] = dmsgq[s]
      BY <1>9, <2>2
    <3>2. InOnePlace(s)
      BY <1>1
    <3> QED BY <3>1, <3>2 DEF InOnePlace
  <2> QED BY <2>1, <2>2
<1>11. mine \subseteq MessageId /\ sends \subseteq DOMAIN issued /\ sends \subseteq MessageId
  BY <1>1, <1>2, <1>3, IssuedMessages
<1>12. wake' \in [Thread -> BOOLEAN] /\ (\A s \in Thread : wake[s] => wake'[s])
       /\ (sends # {} => wake'[t])
  BY <1>1, <1>4 DEF TypeOK
<1>13. TypeOK'
  BY <1>1, <1>4, <1>9, <1>11, <1>12 DEF TypeOK
<1>14. IssuedKept /\ Others(t)
  BY <1>4, IssuedSame DEF Others
<1>15. ASSUME NEW s \in Thread
       PROVE  StackOK(s)' /\ Running(s)' = Running(s) /\ Awaited(s)' = Awaited(s)
  BY <1>1, <1>4, <1>14, StackStays
<1>16. Recorded' /\ PostsInOrder'
  BY <1>1, <1>4, <1>11 DEF Books, Recorded, PostsInOrder
<1>17. ASSUME NEW s \in Thread PROVE QueuedFor(s)'
  BY <1>1, <1>4, <1>10 DEF QueuedFor
<1>18. ASSUME NEW s \in Thread PROVE InOnePlace(s)'
  <2>1. InOnePlace(s)
    BY <1>1
  <2> QED BY <1>4, <1>10, <1>15, <2>1 DEF InOnePlace
<1>19. ASSUME NEW s \in Thread PROVE Placed(s)'
  <2>1. Placed(s)
    BY <1>1
  <2>2. cleared \subseteq cleared'
    BY <1>4
  <2> QED BY <1>4, <1>10, <1>15, <2>1, <2>2 DEF Placed
<1>20. ASSUME NEW s \in Thread PROVE SendsWait(s)'
  <2> SUFFICES ASSUME NEW m \in DOMAIN issued, NEW from \in Thread,
                      issued[m].to = s, issued[m].from = from, issued[m].kind = "send"
               PROVE  /\ m \in Range(sendlist'[s]) \cup Running(s) =>
                           m \in Awaited(from) /\ m \notin ready'
                      /\ m \in Awaited(from) /\ m \notin ready' =>
                           m \in Range(sendlist'[s]) \cup Running(s)
    BY <1>4, <1>15 DEF SendsWait
  <2>1. /\ m \in Range(sendlist[s]) \cup Running(s) =>
             m \in Awaited(from) /\ m \notin ready
        /\ m \in Awaited(from) /\ m \notin ready =>
             m \in Range(sendlist[s]) \cup Running(s)
    BY <1>1 DEF SendsWait
  <2>2. CASE m \in sends
    <3>1. s = u /\ m \in Range(sendlist[u]) /\ m \in mine
      BY <1>1, <1>3, <2>2 DEF QueuedFor
    <3>2. m \notin Range(sendlist'[s]) /\ m \notin Running(s)
      BY <1>1, <1>7, <1>9, <3>1 DEF InOnePlace
    <3> QED BY <1>4, <2>2, <3>2
  <2>3. CASE m \notin sends
    <3>1. m \in ready' <=> m \in ready
      BY <1>4, <2>3
    <3>2. m \in Range(sendlist[s]) <=> m \in Range(sendlist'[s])
      <4>1. CASE s = u
        BY <1>3, <1>7, <1>9, <2>3, <4>1
      <4>2. CASE s # u
        BY <1>9, <4>2
      <4> QED BY <4>1, <4>2
    <3> QED BY <2>1, <3>1, <3>2
  <2> QED BY <2>2, <2>3
<1>21. /\ \A m, k \in DOMAIN issued : Before(m, k)' <=> Before(m, k)
       /\ \A s \in Thread, m \in DOMAIN issued : Over(s, m) => Over(s, m)'
       /\ \A s \in Thread, m \in DOMAIN issued : m \in cleared' => Over(s, m)'
  BY <1>4 DEF Before, Over
<1>22. ASSUME NEW s \in Thread PROVE RunningInOrder(s)'
  <2>1. \A m \in Running(s) : m \in DOMAIN issued
    BY <1>1, RunningIssued
  <2> QED BY <1>1, <1>4, <1>15, <1>21, <2>1 DEF RunningInOrder
<1>23. ASSUME NEW s \in Thread PROVE QueuedInOrder(s)'
  <2>1. CASE s = u
    <3>1. /\ msgq[u] \in Seq(MessageId) /\ DOMAIN msgq[u] = 1..Len(msgq[u]) /\ Len(msgq[u]) \in Nat
          /\ DOMAIN rest = 1..Len(rest) /\ Len(rest) \in Nat
      BY <1>1, <1>8, QueueTypes
    <3> SUFFICES ASSUME NEW p \in DOMAIN rest, NEW m \in DOMAIN issued, NEW n \in DOMAIN issued,
                        n = rest[p], Before(m, n), ~Over(u, m), m \notin cleared', m \notin Running(u)
                 PROVE  \E q \in 1..(p - 1) : rest[q] = m
      BY <1>4, <1>9, <1>15, <1>21, <2>1 DEF QueuedInOrder
    <3>2. PICK b \in DOMAIN msgq[u] : msgq[u][b] = n
      BY <1>8 DEF Range
    <3>3. PICK a \in 1..(b - 1) : msgq[u][a] = m
      BY <1>1, <3>2 DEF QueuedInOrder
    <3>4. a \in DOMAIN msgq[u] /\ a < b /\ m \in Range(msgq[u])
      BY <3>1, <3>2, <3>3 DEF Range
    <3>5. PICK r \in DOMAIN rest : rest[r] = m
      <4>1. m \in Range(rest)
        BY <1>4, <1>8, <3>4
      <4> QED BY <4>1 DEF Range
    <3>6. r # p
      <4>1. m # n
        BY <1>1, IssuedMessages DEF Before
      <4> QED BY <3>5, <4>1
    <3>7. ASSUME p < r PROVE FALSE
      <4>1. PICK x \in DOMAIN msgq[u], y \in DOMAIN msgq[u] :
              x < y /\ msgq[u][x] = rest[p] /\ msgq[u][y] = rest[r]
        BY <1>8, <3>7
      <4>2. x = b /\ y = a
        BY <1>1, <3>2, <3>3, <3>4, <3>5, <4>1 DEF InOnePlace, IsInjective
      <4> QED BY <3>1, <3>4, <4>1, <4>2
    <3> QED BY <3>1, <3>5, <3>6, <3>7
  <2>2. CASE s # u
    <3>1. msgq'[s] = msgq[s] /\ issued' = issued /\ Running(s)' = Running(s) /\ QueuedInOrder(s)
      BY <1>1, <1>4, <1>9, <1>15, <2>2
    <3> QED BY <1>21, <3>1 DEF QueuedInOrder
  <2> QED BY <2>1, <2>2
<1>24. Books'
  BY <1>16, <1>17, <1>18, <1>19, <1>20, <1>22, <1>23 DEF Books
<1>25. ASSUME NEW s \in Thread PROVE Wakes(s)'
  <2>1. msgq[s] = << >> => msgq'[s] = << >>
    <3>1. CASE s = u
      <4>1. msgq[u] = << >> => Range(msgq[u]) = {}
        BY DEF Range
      <4> QED BY <1>8, <1>9, <3>1, <4>1, EmptyRange
    <3>2. CASE s # u
      BY <1>9, <3>2
    <3> QED BY <3>1, <3>2
  <2>2. \A n \in Range(sendlist[s]) : Signalling(n) => Signalling(n)'
    BY <1>4 DEF Signalling, At, In, Top, Exited
  <2>3. \A n \in Range(sendlist'[s]) : n \in Range(sendlist[s]) /\ (Signalling(n) => Signalling(n)')
    BY <1>10, <2>2
  <2>4. \A i \in DOMAIN stack[s] :
          stack[s][i].op = "Send" /\ stack[s][i].msg \in ready' => stack[s][i].msg \in ready \/ wake'[s]
    <3> SUFFICES ASSUME NEW i \in DOMAIN stack[s], stack[s][i].op = "Send", stack[s][i].msg \in sends
                 PROVE  wake'[s]
      BY <1>4
    <3>1. issued[stack[s][i].msg].from = s
      BY <1>1 DEF StackOK, SendsAreBy
    <3>2. s = t
      BY <1>2, <1>3, <3>1
    <3> QED BY <1>12, <3>2
  <2> QED BY <1>1, <1>4, <1>12, <1>14, <2>1, <2>3, <2>4, WakesStay
<1> QED BY <1>13, <1>15, <1>24, <1>25 DEF IInv

---------------------------------------------------------------------------
(* The invariant holds at first and after every step.                      *)

LEMMA InitialStack ==
  ASSUME Init, NEW t \in Thread
  PROVE  /\ stack[t] \in Seq(Call)
         /\ DOMAIN stack[t] = 1..Len(stack[t]) /\ Len(stack[t]) \in 0..2
         /\ t \in Loops => Len(stack[t]) >= 1 /\ stack[t][1] = Get
         /\ t \notin Loops => Len(stack[t]) <= 1
         /\ \A i \in 1..Len(stack[t]) :
              stack[t][i] = IF t \in Loops /\ i = 1 THEN Get ELSE OnMessage(0)
<1>1. Get \in Call /\ OnMessage(0) \in Call
  BY Limits DEF Get, OnMessage, Call
<1> DEFINE a == IF t \in Loops THEN << Get >> ELSE << >>
           b == IF t \in Starts THEN << OnMessage(0) >> ELSE << >>
<1>2. stack[t] = a \o b
  BY DEF Init
<1>3. /\ a \in Seq(Call) /\ Len(a) = IF t \in Loops THEN 1 ELSE 0
      /\ \A i \in 1..Len(a) : a[i] = Get
  <2>1. CASE t \in Loops
    BY <1>1, <2>1
  <2>2. CASE t \notin Loops
    BY <1>1, <2>2
  <2> QED BY <2>1, <2>2
<1>4. /\ b \in Seq(Call) /\ Len(b) \in {0, 1}
      /\ \A i \in 1..Len(b) : b[i] = OnMessage(0)
  <2>1. CASE t \in Starts
    BY <1>1, <2>1
  <2>2. CASE t \notin Starts
    BY <1>1, <2>2
  <2> QED BY <2>1, <2>2
<1> HIDE DEF a, b
<1>5. /\ a \o b \in Seq(Call) /\ Len(a \o b) = Len(a) + Len(b)
      /\ \A i \in 1..(Len(a) + Len(b)) :
           (a \o b)[i] = IF i <= Len(a) THEN a[i] ELSE b[i - Len(a)]
  BY <1>3, <1>4, ConcatProperties
<1>6. ASSUME NEW i \in 1..(Len(a) + Len(b))
      PROVE  (a \o b)[i] = IF t \in Loops /\ i = 1 THEN Get ELSE OnMessage(0)
  <2>1. CASE t \in Loops
    <3>1. Len(a) = 1
      BY <1>3, <2>1
    <3>2. CASE i = 1
      BY <1>3, <1>5, <2>1, <3>1, <3>2
    <3>3. CASE i # 1
      <4>1. i - 1 \in 1..Len(b) /\ ~(i <= Len(a))
        BY <1>4, <3>1, <3>3
      <4> QED BY <1>4, <1>5, <3>1, <3>3, <4>1
    <3> QED BY <3>2, <3>3
  <2>2. CASE t \notin Loops
    <3>1. Len(a) = 0
      BY <1>3, <2>2
    <3>2. i - Len(a) \in 1..Len(b) /\ ~(i <= Len(a))
      BY <1>4, <3>1
    <3> QED BY <1>4, <1>5, <2>2, <3>2
  <2> QED BY <2>1, <2>2
<1>7. stack[t] \in Seq(Call) /\ Len(stack[t]) = Len(a) + Len(b)
  BY <1>2, <1>5
<1> QED BY <1>2, <1>3, <1>4, <1>6, <1>7

LEMMA InitialStackOK ==
  ASSUME Init, NEW t \in Thread
  PROVE  StackOK(t) /\ Wakes(t) /\ Running(t) = {} /\ Awaited(t) = {}
<1>1. /\ stack[t] \in Seq(Call)
      /\ DOMAIN stack[t] = 1..Len(stack[t]) /\ Len(stack[t]) \in 0..2
      /\ t \in Loops => Len(stack[t]) >= 1 /\ stack[t][1] = Get
      /\ t \notin Loops => Len(stack[t]) <= 1
      /\ \A i \in 1..Len(stack[t]) :
           stack[t][i] = IF t \in Loops /\ i = 1 THEN Get ELSE OnMessage(0)
  BY InitialStack
<1>2. /\ Get.op = "Get" /\ Get.pc = "sends"
      /\ OnMessage(0).op = "OnMessage" /\ OnMessage(0).msg = 0
  BY DEF Get, OnMessage
<1>3. \A i \in DOMAIN stack[t] : stack[t][i].op # "Send"
  BY <1>1, <1>2
<1>4. GetIsLoop(t)
  <2>1. stack[t] # << >> => Len(stack[t]) >= 1
    BY <1>1, EmptySeq
  <2> QED BY <1>1, <1>2, <2>1 DEF GetIsLoop
<1>5. Nested(t)
  <2> SUFFICES ASSUME NEW i \in 1..(Len(stack[t]) - 1)
               PROVE  stack[t][i] = Get /\ stack[t][i + 1] = OnMessage(0)
    BY <1>2 DEF Nested
  <2>1. t \in Loops /\ i = 1 /\ i + 1 \in 1..Len(stack[t]) /\ i + 1 # 1
    BY <1>1
  <2> QED BY <1>1, <2>1
<1>6. HandlersAreFor(t) /\ SendsAreBy(t) /\ Ascending(t) /\ RunsOnce(t)
  BY <1>1, <1>2, <1>3 DEF HandlersAreFor, SendsAreBy, Ascending, RunsOnce
<1>7. Running(t) = {} /\ Awaited(t) = {}
  <2>1. \A n \in MessageId, i \in DOMAIN stack[t] : stack[t][i] # OnMessage(n)
    BY <1>1, <1>2 DEF OnMessage, Get, MessageId
  <2> QED BY <1>3, <2>1 DEF Running, Awaited
<1>8. LoopEnds(t)
  <2>1. t \in Loops => stack[t] # << >>
    BY <1>1
  <2> QED BY <2>1 DEF LoopEnds
<1>9. ~Exited(t) => Top(t) \in {Get, OnMessage(0)}
  <2>1. ~Exited(t) => Len(stack[t]) \in 1..Len(stack[t])
    BY <1>1, EmptySeq DEF Exited
  <2> QED BY <1>1, <2>1 DEF Top, Last
<1>10. GetWakes(t) /\ SendWakes(t) /\ AnswerWakes(t)
  BY <1>2, <1>3, <1>9 DEF GetWakes, SendWakes, AnswerWakes, At, In
<1> QED BY <1>4, <1>5, <1>6, <1>7, <1>8, <1>10 DEF StackOK, Wakes

LEMMA InitialInv ==
  ASSUME Init
  PROVE  IInv
<1>1. \A t \in Thread : StackOK(t) /\ Wakes(t) /\ Running(t) = {} /\ Awaited(t) = {}
  BY InitialStackOK
<1>2. /\ sendlist = [t \in Thread |-> << >>] /\ msgq = [t \in Thread |-> << >>]
      /\ dmsgq = [t \in Thread |-> {}] /\ handled = [t \in Thread |-> << >>]
      /\ ready = {} /\ cleared = {} /\ issued = << >>
  BY DEF Init
<1>3. TypeOK
  <2>1. stack \in [Thread -> Seq(Call)]
    <3>1. \A t \in Thread : stack[t] \in Seq(Call)
      BY InitialStack
    <3>2. \E f : stack = [t \in Thread |-> f[t]]
      <4>1. stack = [t \in Thread |-> stack[t]]
        BY DEF Init
      <4> QED BY <4>1
    <3> QED BY <3>1, <3>2
  <2>2. issued \in Seq(Message) /\ Len(issued) = 0
    BY <1>2, EmptySeq
  <2>3. << >> \in Seq(MessageId)
    BY EmptySeq
  <2>4. 0 \in 0..MaxTime /\ 0 <= MaxMessages
    BY Limits
  <2> QED BY <1>2, <2>1, <2>2, <2>3, <2>4 DEF Init, TypeOK
<1>4. /\ DOMAIN issued = {}
      /\ \A t \in Thread : /\ Range(sendlist[t]) = {} /\ Range(msgq[t]) = {} /\ dmsgq[t] = {}
                           /\ Range(handled[t]) = {}
                           /\ DOMAIN sendlist[t] = {} /\ DOMAIN msgq[t] = {} /\ DOMAIN handled[t] = {}
  <2>1. DOMAIN << >> = {} /\ Range(<< >>) = {}
    BY DEF Range
  <2> QED BY <1>2, <2>1
<1>5. Recorded /\ PostsInOrder
  BY <1>2, <1>4 DEF Recorded, PostsInOrder, IsInjective
<1>6. ASSUME NEW t \in Thread
      PROVE  /\ QueuedFor(t) /\ InOnePlace(t) /\ Placed(t) /\ SendsWait(t)
             /\ RunningInOrder(t) /\ QueuedInOrder(t)
  <2>1. QueuedFor(t) /\ Placed(t) /\ SendsWait(t) /\ RunningInOrder(t) /\ QueuedInOrder(t)
    BY <1>1, <1>4 DEF QueuedFor, Placed, SendsWait, RunningInOrder, QueuedInOrder
  <2>2. InOnePlace(t)
    BY <1>1, <1>4 DEF InOnePlace, IsInjective
  <2> QED BY <2>1, <2>2
<1> QED BY <1>1, <1>3, <1>5, <1>6 DEF IInv, Books

LEMMA NextKeeps ==
  ASSUME IInv, [Next]_vars
  PROVE  IInv'
<1>1. CASE Tick \/ UNCHANGED vars
  BY <1>1, TickKeeps
<1>2. ASSUME NEW t \in Thread, Runs(t) PROVE IInv'
  BY <1>2, SignalTargetKeeps, CheckReadyKeeps, ReceiveSendKeeps, NoMoreSendsKeeps,
     LookAtQueueKeeps, LookAtStopKeeps, WaitKeeps, HandlerReturnsKeeps DEF Runs
<1>3. ASSUME NEW t \in Thread, Calls(t) PROVE IInv'
  BY <1>3, PostKeeps, PostDelayedKeeps, SendKeeps, ClearKeeps, QuitKeeps DEF Calls
<1> QED BY <1>1, <1>2, <1>3 DEF Next

(* The inductive invariant holds in every reachable state.                 *)
THEOREM Invariant == Spec => []IInv
<1>1. Init => IInv
  BY InitialInv
<1>2. IInv /\ [Next]_vars => IInv'
  BY NextKeeps
<1> QED BY <1>1, <1>2, PTL DEF Spec

---------------------------------------------------------------------------
(* What follows from the invariant.                                        *)

LEMMA TopOfWaiting ==
  ASSUME TypeOK, NEW t \in Thread, ~Exited(t)
  PROVE  \E L \in Nat \ {0} : /\ DOMAIN stack[t] = 1..L /\ L = Len(stack[t])
                              /\ Top(t) = stack[t][L] /\ Top(t) \in Call
BY TopIsCall

LEMMA AnswerIsSeen ==
  ASSUME IInv, NEW t \in Thread, ~wake[t], At(t, "Send", "wait")
  PROVE  Top(t).msg \notin ready
<1>1. TypeOK /\ AnswerWakes(t) /\ ~Exited(t)
  BY DEF IInv, Wakes, At, In
<1>2. PICK L \in Nat \ {0} : DOMAIN stack[t] = 1..L /\ Top(t) = stack[t][L]
  BY <1>1, TopOfWaiting
<1>3. L \in DOMAIN stack[t] /\ \A j \in DOMAIN stack[t] : ~(j > L)
  BY <1>2
<1> QED BY <1>1, <1>2, <1>3 DEF AnswerWakes, At, In

LEMMA WakeUpsAreKept ==
  ASSUME IInv
  PROVE  NoLostWakeUp
<1> SUFFICES ASSUME NEW t \in Thread, ~wake[t]
             PROVE  /\ At(t, "Get", "wait") \/ At(t, "Send", "wait") =>
                         \A n \in Range(sendlist[t]) :
                            \/ Signalling(n)
                            \/ At(t, "Send", "wait") /\ issued[n].from # Top(t).to
                    /\ At(t, "Get", "wait") => msgq[t] = << >> /\ ~fStop[t]
                    /\ At(t, "Send", "wait") => Top(t).msg \notin ready
  BY DEF NoLostWakeUp
<1>1. GetWakes(t) /\ SendWakes(t)
  BY DEF IInv, Wakes
<1>2. At(t, "Get", "wait") =>
        (\A n \in Range(sendlist[t]) : Signalling(n)) /\ msgq[t] = << >> /\ ~fStop[t]
  BY <1>1 DEF GetWakes, At, In
<1>3. At(t, "Send", "wait") =>
        \A n \in Range(sendlist[t]) : issued[n].from = Top(t).to => Signalling(n)
  BY <1>1 DEF SendWakes
<1> QED BY <1>2, <1>3, AnswerIsSeen

LEMMA AtMostOne ==
  ASSUME NEW S, \A a, b \in S : a = b
  PROVE  Cardinality(S) = IF S = {} THEN 0 ELSE 1
<1>1. CASE S = {}
  BY <1>1, FS_EmptySet
<1>2. CASE S # {}
  <2>1. PICK a \in S : S = {a}
    BY <1>2
  <2> QED BY <1>2, <2>1, FS_Singleton
<1> QED BY <1>1, <1>2

LEMMA SendersWait ==
  ASSUME IInv
  PROVE  SenderStillWaits
<1>1. TypeOK /\ Books
  BY DEF IInv
<1> SUFFICES ASSUME NEW n \in DOMAIN issued, issued[n].kind = "send",
                    NEW from, from = issued[n].from, NEW to, to = issued[n].to
             PROVE  /\ Handling(to, n) + Listed(to, n) <= 1
                    /\ Handling(to, n) + Listed(to, n) = 1 =>
                         /\ {i \in DOMAIN stack[from] :
                               stack[from][i].op = "Send" /\ stack[from][i].msg = n} # {}
                         /\ n \notin ready
  BY DEF SenderStillWaits
<1>2. from \in Thread /\ to \in Thread /\ n \in MessageId
  BY <1>1, IssuedMessages
<1>3. StackOK(to) /\ InOnePlace(to) /\ SendsWait(to)
  BY <1>1, <1>2 DEF IInv, Books
<1> DEFINE H == {i \in DOMAIN stack[to] : stack[to][i] = OnMessage(n)}
           S == {i \in DOMAIN sendlist[to] : sendlist[to][i] = n}
<1>4. /\ Cardinality(H) = IF H = {} THEN 0 ELSE 1
      /\ H # {} <=> n \in Running(to)
  <2>1. OnMessage(n).op = "OnMessage" /\ OnMessage(n).msg > 0
    BY <1>2 DEF OnMessage, MessageId
  <2>2. \A a, b \in H : a = b
    BY <1>3, <2>1 DEF StackOK, RunsOnce
  <2>3. H # {} <=> n \in Running(to)
    BY <1>2 DEF Running
  <2> HIDE DEF H
  <2> QED BY <2>2, <2>3, AtMostOne
<1>5. /\ Cardinality(S) = IF S = {} THEN 0 ELSE 1
      /\ S # {} <=> n \in Range(sendlist[to])
  <2>1. \A a, b \in S : a = b
    BY <1>3 DEF InOnePlace, IsInjective
  <2>2. S # {} <=> n \in Range(sendlist[to])
    BY DEF Range
  <2> HIDE DEF S
  <2> QED BY <2>1, <2>2, AtMostOne
<1>6. H = {} \/ S = {}
  BY <1>3, <1>4, <1>5 DEF InOnePlace
<1>7. Handling(to, n) = Cardinality(H) /\ Listed(to, n) = Cardinality(S)
  BY DEF Handling, Listed
<1>8. n \in Range(sendlist[to]) \cup Running(to) => n \in Awaited(from) /\ n \notin ready
  BY <1>2, <1>3 DEF SendsWait
<1>9. n \in Awaited(from) =>
        {i \in DOMAIN stack[from] : stack[from][i].op = "Send" /\ stack[from][i].msg = n} # {}
  BY DEF Awaited
<1> HIDE DEF H, S
<1> QED BY <1>4, <1>5, <1>6, <1>7, <1>8, <1>9

LEMMA CalleesReenter ==
  ASSUME IInv
  PROVE  OnlyCalleeReenters
<1> SUFFICES ASSUME NEW t \in Thread, NEW i \in 1..(Len(stack[t]) - 1), stack[t][i].op = "Send"
             PROVE  LET m == issued[stack[t][i + 1].msg]
                    IN  m.kind = "send" /\ m.from = stack[t][i].to
  BY DEF OnlyCalleeReenters
<1>1. Nested(t)
  BY DEF IInv, StackOK
<1> QED BY <1>1 DEF Nested

---------------------------------------------------------------------------
(* When all threads wait: a thread in a Send waits for another one that is *)
(* in a Send, and if that one waits for the first its Send is younger.     *)

LEMMA WaitsInSend ==
  ASSUME IInv, AllIdle, NEW t \in Thread, At(t, "Send", "wait")
  PROVE  /\ Top(t).to \in Thread /\ << t, Top(t).to >> \in CanSend
         /\ Top(t).msg \in Int /\ At(Top(t).to, "Send", "wait")
         /\ Top(Top(t).to).to = t => Top(t).msg < Top(Top(t).to).msg
<1>1. /\ TypeOK /\ Books /\ \A s \in Thread : StackOK(s) /\ Wakes(s) /\ ~fStop[s]
      /\ \A s \in Thread : Exited(s) \/ Waits(s)
      /\ ~Exited(t) /\ Top(t).op = "Send" /\ Top(t).pc = "wait"
  BY DEF IInv, AllIdle, Stopped, At, In
<1>2. PICK L \in Nat \ {0} : DOMAIN stack[t] = 1..L /\ Top(t) = stack[t][L] /\ Top(t) \in Call
  BY <1>1, TopOfWaiting
<1>3. PICK u \in Thread, n \in MessageId : u = Top(t).to /\ n = Top(t).msg
  BY <1>1, <1>2, CallKinds
<1>4. L \in DOMAIN stack[t]
  BY <1>2
<1>5. /\ n \in DOMAIN issued /\ issued[n].from = t /\ issued[n].to = u /\ issued[n].kind = "send"
      /\ << t, u >> \in CanSend
  BY <1>1, <1>2, <1>3, <1>4 DEF StackOK, SendsAreBy
<1>6. ~wake[t] /\ n \notin ready /\ n \in Awaited(t) /\ n \in Int
  <2>1. ~wake[t]
    BY <1>1 DEF Waits
  <2>2. n \notin ready
    BY <1>3, <2>1, AnswerIsSeen
  <2> QED BY <1>1, <1>2, <1>3, <1>4, <1>5, <2>1, <2>2, IssuedMessages DEF Awaited
<1>7. n \in Range(sendlist[u]) \cup Running(u)
  BY <1>1, <1>5, <1>6 DEF Books, SendsWait
<1>8. u \in Loops /\ ~Exited(u) /\ Waits(u) /\ ~wake[u]
  <2>1. u \in Loops
    BY <1>1, <1>5 DEF Books, Placed
  <2>2. ~Exited(u)
    BY <1>1, <2>1 DEF Wakes, LoopEnds, Exited
  <2> QED BY <1>1, <2>1, <2>2 DEF Waits
<1>9. ~Signalling(n)
  BY <1>1, <1>5 DEF Signalling, At
<1>10. PICK K \in Nat \ {0} : /\ DOMAIN stack[u] = 1..K /\ K = Len(stack[u])
                              /\ Top(u) = stack[u][K] /\ Top(u) \in Call
  BY <1>1, <1>8, TopOfWaiting
<1>11. At(u, "Send", "wait")
  <2> SUFFICES ASSUME At(u, "Get", "wait") PROVE FALSE
    BY <1>8 DEF Waits
  <2>1. n \notin Range(sendlist[u])
    BY <1>1, <1>8, <1>9 DEF Wakes, GetWakes, At, In
  <2>2. K = 1 /\ Top(u).op = "Get"
    BY <1>1, <1>8, <1>10, BelowTop DEF At, In
  <2>3. n \notin Running(u)
    BY <1>10, <2>2 DEF Running, OnMessage
  <2> QED BY <1>7, <2>1, <2>3
<1>12. ASSUME Top(u).to = t PROVE n < Top(u).msg
  <2>1. n \notin Range(sendlist[u])
    BY <1>1, <1>5, <1>8, <1>9, <1>11, <1>12 DEF Wakes, SendWakes
  <2>2. PICK i \in 1..K : stack[u][i] = OnMessage(n)
    BY <1>7, <1>10, <2>1 DEF Running
  <2>3. Top(u).op = "Send" /\ OnMessage(n).op = "OnMessage" /\ OnMessage(n).msg = n
    BY <1>11 DEF At, In, OnMessage
  <2>4. i < K /\ i \in DOMAIN stack[u] /\ K \in DOMAIN stack[u]
    BY <1>10, <2>2, <2>3
  <2> QED BY <1>1, <1>10, <2>2, <2>3, <2>4 DEF StackOK, Ascending
<1> QED BY <1>3, <1>5, <1>6, <1>11, <1>12

LEMMA SendsAreAnswered ==
  ASSUME IInv
  PROVE  SendsReturn
<1> SUFFICES ASSUME AllIdle, NEW s \in Thread, NEW j \in DOMAIN stack[s], stack[s][j].op = "Send"
             PROVE  FALSE
  BY DEF SendsReturn
<1>1. TypeOK /\ \A t \in Thread : StackOK(t) /\ (Exited(t) \/ Waits(t))
  BY DEF IInv, AllIdle
<1> DEFINE W == {t \in Thread : At(t, "Send", "wait")}
<1>2. s \in W
  <2>1. ~Exited(s) /\ Waits(s)
    <3>1. Len(stack[s]) >= 1
      BY <1>1, TopIsCall
    <3>2. stack[s] # << >>
      BY <3>1
    <3> QED BY <1>1, <3>2 DEF Exited
  <2>2. ASSUME At(s, "Get", "wait") PROVE FALSE
    <3>1. Len(stack[s]) = 1 /\ Top(s).op = "Get" /\ DOMAIN stack[s] = 1..1 /\ Top(s) = stack[s][1]
      BY <1>1, <2>1, <2>2, BelowTop, TopIsCall DEF At, In
    <3> QED BY <3>1
  <2> QED BY <2>1, <2>2 DEF Waits
<1>3. PICK rank \in [CanSend -> 0..Cardinality(CanSend)] :
        \A e, f \in CanSend : e[2] = f[1] /\ e[1] # f[2] => rank[f] < rank[e]
  BY NoRing
<1> DEFINE R(t) == rank[<< t, Top(t).to >>]
<1>4. \A t \in W : R(t) \in Nat
  BY <1>3, WaitsInSend
<1>5. PICK t \in W : \A u \in W : R(t) <= R(u)
  <2> DEFINE T == {R(t) : t \in W}
  <2>1. T \in SUBSET Nat /\ T # {}
    BY <1>2, <1>4
  <2>2. PICK x \in T : \A y \in T : x <= y
    <3> HIDE DEF T
    <3> QED BY <2>1, NatMin
  <2> QED BY <2>2
<1>6. PICK u \in W : /\ u = Top(t).to /\ << t, u >> \in CanSend /\ << u, Top(u).to >> \in CanSend
                     /\ Top(t).msg \in Int /\ Top(u).msg \in Int
                     /\ Top(u).to = t => Top(t).msg < Top(u).msg
  BY WaitsInSend
<1>7. CASE Top(u).to = t
  <2>1. Top(t).msg < Top(u).msg /\ Top(u).msg < Top(t).msg
    BY <1>6, <1>7, WaitsInSend
  <2> QED BY <1>6, <2>1
<1>8. CASE Top(u).to # t
  <2>1. PICK v : v = Top(u).to
    OBVIOUS
  <2>2. rank[<< u, v >>] < rank[<< t, u >>]
    BY <1>3, <1>6, <1>8, <2>1
  <2>3. R(u) < R(t)
    BY <1>6, <2>1, <2>2
  <2> HIDE DEF R
  <2> QED BY <1>4, <1>5, <1>6, <2>3
<1> QED BY <1>7, <1>8

LEMMA MessagesAreHandled ==
  ASSUME IInv
  PROVE  AllHandled
<1> SUFFICES ASSUME AllIdle, NEW n \in DOMAIN issued, n \notin cleared
             PROVE  n \in Range(handled[issued[n].to])
  BY DEF AllHandled
<1>1. /\ TypeOK /\ Books /\ SendsReturn
      /\ \A t \in Thread : StackOK(t) /\ Wakes(t) /\ ~fStop[t] /\ (Exited(t) \/ Waits(t))
  BY SendsAreAnswered DEF IInv, AllIdle, Stopped
<1>2. PICK t \in Thread, from \in Thread : t = issued[n].to /\ from = issued[n].from
  BY <1>1, IssuedMessages
<1>3. t \in Loops /\ n \in UNION {cleared, Range(handled[t]), Running(t),
                                  Range(sendlist[t]), Range(msgq[t]), dmsgq[t]}
  BY <1>1, <1>2 DEF Books, Placed
<1>4. ~Exited(t) /\ Waits(t)
  BY <1>1, <1>3 DEF Wakes, LoopEnds, Exited
<1>5. \A s \in Thread : ~In(s, "Send")
  <2> SUFFICES ASSUME NEW s \in Thread, In(s, "Send") PROVE FALSE
    OBVIOUS
  <2>1. PICK L \in Nat \ {0} : DOMAIN stack[s] = 1..L /\ Top(s) = stack[s][L]
    BY <1>1, TopOfWaiting DEF In
  <2>2. L \in DOMAIN stack[s] /\ stack[s][L].op = "Send"
    BY <2>1 DEF In
  <2> QED BY <1>1, <2>2 DEF SendsReturn
<1>6. At(t, "Get", "wait") /\ ~wake[t] /\ dmsgq[t] = {}
  BY <1>4, <1>5 DEF Waits, At, In
<1>7. msgq[t] = << >> /\ \A m \in Range(sendlist[t]) : Signalling(m)
  BY <1>1, <1>6 DEF Wakes, GetWakes, At, In
<1>8. Range(msgq[t]) = {}
  BY <1>7 DEF Range
<1>9. n \notin Range(sendlist[t])
  BY <1>2, <1>5, <1>7 DEF Signalling, At
<1>10. Running(t) = {}
  <2>1. Len(stack[t]) = 1 /\ Top(t).op = "Get" /\ DOMAIN stack[t] = 1..1 /\ Top(t) = stack[t][1]
    BY <1>1, <1>4, <1>6, BelowTop, TopIsCall DEF At, In
  <2> QED BY <2>1 DEF Running, OnMessage
<1> QED BY <1>2, <1>3, <1>6, <1>8, <1>9, <1>10

---------------------------------------------------------------------------
(* The properties of ThreadQueue, for any threads, relations and bounds.   *)

(* Every variable has its type: the stacks hold calls and the queues       *)
(* messages, whatever Post, Send, Clear and Quit do.                       *)
THEOREM TypeCorrect == Spec => []TypeOK
<1>1. IInv => TypeOK
  BY DEF IInv
<1> QED BY <1>1, Invariant, PTL

(* A thread in Wait() without a signal has nothing to do, although a Send  *)
(* and the Sends nested in it share one signal: CheckReady's WakeUp gives  *)
(* back what an inner Wait() consumed.                                     *)
THEOREM WakeUpsAreNotLost == Spec => []NoLostWakeUp
<1>1. IInv => NoLostWakeUp
  BY WakeUpsAreKept
<1> QED BY <1>1, Invariant, PTL

(* The local "ready" a message refers to exists as long as anybody may set *)
(* it: a message of a Send is in one place, and its Send waits.            *)
THEOREM ReadyIsAlive == Spec => []SenderStillWaits
<1>1. IInv => SenderStillWaits
  BY SendersWait
<1> QED BY <1>1, Invariant, PTL

(* Only Sends of the thread a Send waits for run on top of it.             *)
THEOREM ReentryIsByCallee == Spec => []OnlyCalleeReenters
<1>1. IInv => OnlyCalleeReenters
  BY CalleesReenter
<1> QED BY <1>1, Invariant, PTL

(* Get hands out posted messages once and in the order of their posting,   *)
(* and delayed ones in the order of their time, also after a Clear.        *)
THEOREM MessagesInOrder == Spec => []PostsInOrder
<1>1. IInv => PostsInOrder
  BY DEF IInv, Books
<1> QED BY <1>1, Invariant, PTL

(* If no ring of more than two threads Sends, the threads do not end up    *)
(* all waiting with a Send that has not returned.                          *)
THEOREM NoDeadlock == Spec => []SendsReturn
<1>1. IInv => SendsReturn
  BY SendsAreAnswered
<1> QED BY <1>1, Invariant, PTL

(* When all threads wait, every message was handled or cleared.            *)
THEOREM NothingIsForgotten == Spec => []AllHandled
<1>1. IInv => AllHandled
  BY MessagesAreHandled
<1> QED BY <1>1, Invariant, PTL
=============================================================================
