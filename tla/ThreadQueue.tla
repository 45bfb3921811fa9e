---------------------------- MODULE ThreadQueue ----------------------------
(***************************************************************************)
(* rtc::Thread and rtc::MessageQueue (webrtc/base): threads that run a     *)
(* message loop, Post messages to each other's queues and Send, that is    *)
(* wait until the other thread has run the message.                        *)
(*                                                                         *)
(* A thread is a stack of calls in progress.  At its bottom is the loop of *)
(* ProcessMessages, which is always inside MessageQueue::Get; above it are *)
(* handlers (OnMessage) and the Send or Post a handler has called, and a   *)
(* waiting Send may run handlers on top of itself.  A step is what a       *)
(* thread does between two points where another thread can see it: one     *)
(* critical section of crit_, one WakeUp, one read of fStop_ or one Wait.  *)
(*                                                                         *)
(* Left out: Peek, disposed messages, a limited cmsWait, sockets.          *)
(***************************************************************************)
EXTENDS Integers, SequencesExt, FiniteSetsExt

CONSTANTS Thread,
          Loops,   \* the threads that process messages
          Starts,  \* the threads that start in code of their own
          CanSend, CanPost, CanDelay,  \* who calls whom, as pairs
          CanStop,
          MaxMessages,  \* bound on the messages posted and sent
          MaxFrom,      \* the same, for each thread
          MaxTime       \* bound on the clock

ASSUME CallRelations == /\ Loops \subseteq Thread /\ Starts \subseteq Thread
                        /\ CanSend \subseteq Thread \X Loops
                        /\ CanPost \subseteq Thread \X Loops
                        /\ CanDelay \subseteq Thread \X Loops
                        /\ CanStop \subseteq Thread \X Thread

(* A Send from t to u lets in only what u sends, so threads may Send to    *)
(* each other but not in a larger ring, in which all would wait for ever.  *)
ASSUME NoRing == \E rank \in [CanSend -> 0..Cardinality(CanSend)] :
                   \A e, f \in CanSend :
                      e[2] = f[1] /\ e[1] # f[2] => rank[f] < rank[e]

ASSUME Limits == /\ {MaxMessages, MaxTime} \subseteq Nat
                 /\ MaxFrom \in [Thread -> Nat]

VARIABLES
  stack,     \* per thread, the calls in progress
  sendlist,  \* sendlist_: messages of Sends not yet taken up
  msgq,      \* msgq_
  dmsgq,     \* dmsgq_, whose order is that of trigger and number
  wake,      \* the wake-up signal of the thread's socket server
  fStop,     \* fStop_
  ready,     \* the messages whose Send's local "ready" was set
  issued,    \* history: what was put in a queue, in this order
  handled,   \* history: per thread, the messages handled, in this order
  cleared,   \* history: the messages Clear removed
  atQuit,    \* history: what was in the queues of a thread told to quit
  clock      \* Time()

queues == << sendlist, msgq, dmsgq >>
history == << handled, cleared, atQuit >>
vars == << stack, queues, wake, fStop, ready, issued, history, clock >>

(* A message is its number in issued.  It is for an object of the thread   *)
(* it comes from.                                                          *)
MessageId == 1..MaxMessages

Message == [from : Thread, to : Thread, kind : {"send", "post", "delayed"},
            trigger : 0..MaxTime]

Call == [op : {"Get"}, pc : {"sends", "queue", "stop", "wait"}]
          \cup [op : {"OnMessage"}, msg : 0..MaxMessages]
          \cup [op : {"Send"}, pc : {"signal", "check", "sends", "wait"},
                to : Thread, msg : MessageId, waited : BOOLEAN]

TypeOK ==
  /\ stack \in [Thread -> Seq(Call)]
  /\ sendlist \in [Thread -> Seq(MessageId)]
  /\ msgq \in [Thread -> Seq(MessageId)]
  /\ dmsgq \in [Thread -> SUBSET MessageId]
  /\ wake \in [Thread -> BOOLEAN]
  /\ fStop \in [Thread -> BOOLEAN]
  /\ ready \subseteq MessageId
  /\ issued \in Seq(Message) /\ Len(issued) <= MaxMessages
  /\ handled \in [Thread -> Seq(MessageId)]
  /\ cleared \subseteq MessageId /\ atQuit \subseteq MessageId
  /\ clock \in 0..MaxTime

Get == [op |-> "Get", pc |-> "sends"]
OnMessage(n) == [op |-> "OnMessage", msg |-> n]

(* A thread may start in code of its own, a Runnable or the application's, *)
(* which calls others; a thread that loops then processes messages.        *)
Init ==
  /\ stack = [t \in Thread |-> (IF t \in Loops THEN << Get >> ELSE << >>)
                             \o (IF t \in Starts THEN << OnMessage(0) >> ELSE << >>)]
  /\ sendlist = [t \in Thread |-> << >>]
  /\ msgq = [t \in Thread |-> << >>]
  /\ dmsgq = [t \in Thread |-> {}]
  /\ wake = [t \in Thread |-> FALSE]
  /\ fStop = [t \in Thread |-> FALSE]
  /\ ready = {}
  /\ issued = << >>
  /\ handled = [t \in Thread |-> << >>]
  /\ cleared = {} /\ atQuit = {}
  /\ clock = 0

---------------------------------------------------------------------------
(* The stack.                                                              *)

Exited(t) == stack[t] = << >>
Top(t) == Last(stack[t])
In(t, op) == ~Exited(t) /\ Top(t).op = op
At(t, op, pc) == In(t, op) /\ Top(t).pc = pc

Enter(t, call) == stack' = [stack EXCEPT ![t] = Append(@, call)]
Become(t, call) == stack' = [stack EXCEPT ![t] = Append(Front(@), call)]
Goto(t, pc) == Become(t, [Top(t) EXCEPT !.pc = pc])
Return(t) == stack' = [stack EXCEPT ![t] = Front(@)]

Issue(t, u, kind, trigger) ==
  issued' = Append(issued, [from |-> t, to |-> u, kind |-> kind,
                            trigger |-> trigger])

(* A handler may call thread u if it is in the relation and u takes calls: *)
(* Post and Send test fStop_, outside crit_, and then take crit_ to queue   *)
(* the message.  The two are one step here.                                *)
MayCall(t, u, relation) ==
  /\ In(t, "OnMessage") /\ << t, u >> \in relation
  /\ Len(issued) < MaxMessages
  /\ Cardinality({n \in DOMAIN issued : issued[n].from = t}) < MaxFrom[t]
  /\ ~fStop[u]

NewMessage == Len(issued) + 1

---------------------------------------------------------------------------
(* Post() and PostDelayed().                                               *)

(* A mutant: no WakeUp.                                                    *)
PostQuietly(t, u) ==
  /\ MayCall(t, u, CanPost)
  /\ Issue(t, u, "post", 0)
  /\ msgq' = [msgq EXCEPT ![u] = Append(@, NewMessage)]
  /\ UNCHANGED << stack, sendlist, dmsgq, wake, fStop, ready, history, clock >>

Post(t, u) ==
  /\ MayCall(t, u, CanPost)
  /\ Issue(t, u, "post", 0)
  /\ msgq' = [msgq EXCEPT ![u] = Append(@, NewMessage)]
  /\ wake' = [wake EXCEPT ![u] = TRUE]
  /\ UNCHANGED << stack, sendlist, dmsgq, fStop, ready, history, clock >>

PostDelayed(t, u) ==
  /\ MayCall(t, u, CanDelay)
  /\ clock < MaxTime
  /\ Issue(t, u, "delayed", clock + 1)
  /\ dmsgq' = [dmsgq EXCEPT ![u] = @ \cup {NewMessage}]
  /\ wake' = [wake EXCEPT ![u] = TRUE]
  /\ UNCHANGED << stack, sendlist, msgq, fStop, ready, history, clock >>

---------------------------------------------------------------------------
(* Send().                                                                 *)

(* Left out: a Send to the thread itself, which is a plain call.           *)
Send(t, u) ==
  /\ t # u /\ MayCall(t, u, CanSend)
  /\ Issue(t, u, "send", 0)
  /\ sendlist' = [sendlist EXCEPT ![u] = Append(@, NewMessage)]
  /\ Enter(t, [op |-> "Send", pc |-> "signal", to |-> u, msg |-> NewMessage,
               waited |-> FALSE])
  /\ UNCHANGED << msgq, dmsgq, wake, fStop, ready, history, clock >>

SignalTarget(t) ==
  /\ At(t, "Send", "signal")
  /\ wake' = [wake EXCEPT ![Top(t).to] = TRUE]
  /\ Goto(t, "check")
  /\ UNCHANGED << queues, fStop, ready, issued, history, clock >>

(* A mutant: the WakeUp for what the wait consumed is missing.             *)
CheckReadyNoWakeUp(t) ==
  /\ At(t, "Send", "check")
  /\ IF Top(t).msg \in ready THEN Return(t) ELSE Goto(t, "sends")
  /\ UNCHANGED << queues, wake, fStop, ready, issued, history, clock >>

(* The loop's test.  A Send that waited may have consumed the wake-up of a *)
(* message that is not its own, and gives it back.                         *)
CheckReady(t) ==
  /\ At(t, "Send", "check")
  /\ IF Top(t).msg \in ready
     THEN /\ wake' = [wake EXCEPT ![t] = @ \/ Top(t).waited]
          /\ Return(t)
     ELSE Goto(t, "sends") /\ UNCHANGED wake
  /\ UNCHANGED << queues, fStop, ready, issued, history, clock >>

---------------------------------------------------------------------------
(* ReceiveSendsFromThread(): in Get from any thread, in a Send only from   *)
(* the thread it waits for.                                                *)

(* Mutants of the choice of sender: anybody's, or nobody's in a Send.      *)
AcceptsAny(t, n) == At(t, "Get", "sends") \/ At(t, "Send", "sends")
AcceptsInGet(t, n) == At(t, "Get", "sends")

Accepts(t, n) ==
  \/ At(t, "Get", "sends")
  \/ At(t, "Send", "sends") /\ issued[n].from = Top(t).to

(* A mutant: the reply is given before the handler has run.                *)
ReceiveSendRepliesFirst(t) ==
  \E i \in DOMAIN sendlist[t] :
    LET n == sendlist[t][i] IN
    /\ Accepts(t, n)
    /\ \A j \in 1..(i - 1) : ~Accepts(t, sendlist[t][j])
    /\ sendlist' = [sendlist EXCEPT ![t] = RemoveAt(@, i)]
    /\ Enter(t, OnMessage(n))
    /\ ready' = ready \cup {n}
    /\ UNCHANGED << msgq, dmsgq, wake, fStop, issued, history, clock >>

(* PopSendMessageFromThread() and the call of the handler.                 *)
ReceiveSend(t) ==
  \E i \in DOMAIN sendlist[t] :
    LET n == sendlist[t][i] IN
    /\ Accepts(t, n)
    /\ \A j \in 1..(i - 1) : ~Accepts(t, sendlist[t][j])
    /\ sendlist' = [sendlist EXCEPT ![t] = RemoveAt(@, i)]
    /\ Enter(t, OnMessage(n))
    /\ UNCHANGED << msgq, dmsgq, wake, fStop, ready, issued, history, clock >>

NoMoreSends(t) ==
  /\ At(t, "Get", "sends") \/ At(t, "Send", "sends")
  /\ \A i \in DOMAIN sendlist[t] : ~Accepts(t, sendlist[t][i])
  /\ Goto(t, IF Top(t).op = "Get" THEN "queue" ELSE "wait")
  /\ UNCHANGED << queues, wake, fStop, ready, issued, history, clock >>

---------------------------------------------------------------------------
(* Get().                                                                  *)

Due(t) == {n \in dmsgq[t] : issued[n].trigger <= clock}

Sooner(m, n) ==
  \/ issued[m].trigger < issued[n].trigger
  \/ issued[m].trigger = issued[n].trigger /\ m < n

(* The set S in line, in the order of the relation "before".               *)
Lined(S, before(_, _)) ==
  {line \in [1..Cardinality(S) -> S] :
     /\ Range(line) = S
     /\ \A i, j \in DOMAIN line : i < j => before(line[i], line[j])}

(* A mutant: a delayed message stays in dmsgq_.                            *)
LookAtQueueAgain(t) ==
  /\ At(t, "Get", "queue")
  /\ \E due \in Lined(Due(t), Sooner) :
       LET q == msgq[t] \o due IN
         IF q = << >>
         THEN msgq' = msgq /\ Goto(t, "stop")
         ELSE msgq' = [msgq EXCEPT ![t] = Tail(q)] /\ Enter(t, OnMessage(Head(q)))
  /\ UNCHANGED << sendlist, dmsgq, wake, fStop, ready, issued, history, clock >>

(* Delayed messages that are due join the queue, and its first message is  *)
(* dispatched.                                                             *)
LookAtQueue(t) ==
  /\ At(t, "Get", "queue")
  /\ \E due \in Lined(Due(t), Sooner) :
       LET q == msgq[t] \o due IN
         IF q = << >>
         THEN msgq' = msgq /\ Goto(t, "stop")
         ELSE msgq' = [msgq EXCEPT ![t] = Tail(q)] /\ Enter(t, OnMessage(Head(q)))
  /\ dmsgq' = [dmsgq EXCEPT ![t] = @ \ Due(t)]
  /\ UNCHANGED << sendlist, wake, fStop, ready, issued, history, clock >>

(* Get returns false and the thread is over, or it goes to wait.           *)
LookAtStop(t) ==
  /\ At(t, "Get", "stop")
  /\ IF fStop[t] THEN stack' = [stack EXCEPT ![t] = << >>] ELSE Goto(t, "wait")
  /\ UNCHANGED << queues, wake, fStop, ready, issued, history, clock >>

---------------------------------------------------------------------------
(* Wait() of the socket server, in Get until the first delayed message is  *)
(* due, in a Send without a limit; either looks at everything again.       *)
Again(t) == IF Top(t).op = "Get" THEN Get
            ELSE [Top(t) EXCEPT !.pc = "check", !.waited = TRUE]

Wait(t) ==
  /\ At(t, "Get", "wait") \/ At(t, "Send", "wait")
  /\ \/ wake[t] /\ wake' = [wake EXCEPT ![t] = FALSE]
     \/ /\ ~wake[t] /\ Top(t).op = "Get"
        /\ \E n \in dmsgq[t] : issued[n].trigger <= clock
        /\ UNCHANGED wake
  /\ Become(t, Again(t))
  /\ UNCHANGED << queues, fStop, ready, issued, history, clock >>

---------------------------------------------------------------------------
(* Handlers.                                                               *)

Sent(n) == n > 0 /\ issued[n].kind = "send"

(* The next call of the loop's Get begins, or of a Send's inner loop.      *)
AfterHandler(t) ==
  LET below == Front(stack[t])
  IN  IF below # << >> /\ Last(below).op = "Get" /\ Last(below).pc = "queue"
      THEN Append(Front(below), Get)
      ELSE below

(* A mutant: "ready" is set for every message.                             *)
HandlerReturnsToAll(t) ==
  /\ In(t, "OnMessage")
  /\ LET n == Top(t).msg
     IN  /\ IF Sent(n) THEN wake' = [wake EXCEPT ![issued[n].from] = TRUE]
                       ELSE UNCHANGED wake
         /\ ready' = ready \cup {n}
         /\ handled' = IF n = 0 THEN handled
                       ELSE [handled EXCEPT ![t] = Append(@, n)]
  /\ stack' = [stack EXCEPT ![t] = AfterHandler(t)]
  /\ UNCHANGED << queues, fStop, issued, cleared, atQuit, clock >>

(* OnMessage() is over.  If the message was sent, its Send is told.        *)
HandlerReturns(t) ==
  /\ In(t, "OnMessage")
  /\ LET n == Top(t).msg
     IN  /\ IF Sent(n)
            THEN /\ ready' = ready \cup {n}
                 /\ wake' = [wake EXCEPT ![issued[n].from] = TRUE]
            ELSE UNCHANGED << ready, wake >>
         /\ handled' = IF n = 0 THEN handled
                       ELSE [handled EXCEPT ![t] = Append(@, n)]
  /\ stack' = [stack EXCEPT ![t] = AfterHandler(t)]
  /\ UNCHANGED << queues, fStop, issued, cleared, atQuit, clock >>

(* A queue without what is in "gone", the rest in the order it was in.     *)
Without(queue, gone) ==
  LET before(m, n) == \E i, j \in DOMAIN queue :
                        i < j /\ queue[i] = m /\ queue[j] = n
  IN  Lined(Range(queue) \ gone, before)

(* Clear(), which an object calls when it is destroyed: thread t removes   *)
(* from u's queues what is for objects of its own, and a Send of its own   *)
(* that is removed may return.                                             *)
Clear(t, u) ==
  LET mine == {n \in DOMAIN issued : issued[n].from = t}
      sends == mine \cap Range(sendlist[u])
      gone == sends \cup (mine \cap (Range(msgq[u]) \cup dmsgq[u]))
  IN  /\ In(t, "OnMessage")
      /\ gone # {}
      /\ cleared' = cleared \cup gone
      /\ ready' = ready \cup sends
      /\ \E line \in Without(sendlist[u], mine) :
            sendlist' = [sendlist EXCEPT ![u] = line]
      /\ \E line \in Without(msgq[u], mine) : msgq' = [msgq EXCEPT ![u] = line]
      /\ dmsgq' = [dmsgq EXCEPT ![u] = @ \ mine]
      /\ wake' = IF sends = {} THEN wake ELSE [wake EXCEPT ![t] = TRUE]
      /\ UNCHANGED << stack, fStop, issued, handled, atQuit, clock >>

(* Quit().                                                                 *)
Quit(t, u) ==
  /\ In(t, "OnMessage") /\ << t, u >> \in CanStop /\ ~fStop[u]
  /\ fStop' = [fStop EXCEPT ![u] = TRUE]
  /\ wake' = [wake EXCEPT ![u] = TRUE]
  /\ atQuit' = atQuit \cup Range(sendlist[u]) \cup Range(msgq[u])
  /\ UNCHANGED << stack, queues, ready, issued, handled, cleared, clock >>

(* Time matters only to delayed messages.                                  *)
Tick ==
  /\ clock < MaxTime
  /\ \E t \in Thread : dmsgq[t] # {}
  /\ clock' = clock + 1
  /\ UNCHANGED << stack, queues, wake, fStop, ready, issued, history >>

Runs(t) ==
  \/ SignalTarget(t) \/ CheckReady(t)
  \/ ReceiveSend(t) \/ NoMoreSends(t)
  \/ LookAtQueue(t) \/ LookAtStop(t) \/ Wait(t)
  \/ HandlerReturns(t)

Calls(t) ==
  \E u \in Thread :
    Post(t, u) \/ PostDelayed(t, u) \/ Send(t, u) \/ Clear(t, u) \/ Quit(t, u)

Next == Tick \/ \E t \in Thread : Runs(t) \/ Calls(t)

Spec == Init /\ [][Next]_vars

---------------------------------------------------------------------------
(* Properties.                                                             *)

(* A thread that waits without a wake-up signal has nothing to do: whoever *)
(* gave it something, also while it waited inside a Send or in a handler   *)
(* on top of one, has left it a signal or is about to.                     *)
Signalling(n) ==
  LET t == issued[n].from IN At(t, "Send", "signal") /\ Top(t).msg = n

NoLostWakeUp ==
  \A t \in Thread : ~wake[t] =>
    /\ At(t, "Get", "wait") \/ At(t, "Send", "wait") =>
         \A n \in Range(sendlist[t]) :
            \/ Signalling(n)
            \/ At(t, "Send", "wait") /\ issued[n].from # Top(t).to
    /\ At(t, "Get", "wait") => msgq[t] = << >> /\ ~fStop[t]
    /\ At(t, "Send", "wait") => Top(t).msg \notin ready

(* The flag "ready" is a local variable of Send.  As long as a sent message *)
(* is in a queue or being handled, its Send is still there, and it was not *)
(* answered yet; and no message is in two places.                          *)
Handling(t, n) == Cardinality({i \in DOMAIN stack[t] : stack[t][i] = OnMessage(n)})
Listed(t, n) == Cardinality({i \in DOMAIN sendlist[t] : sendlist[t][i] = n})

SenderStillWaits ==
  \A n \in DOMAIN issued : issued[n].kind = "send" =>
    LET from == issued[n].from
        to == issued[n].to
        waits == {i \in DOMAIN stack[from] :
                    stack[from][i].op = "Send" /\ stack[from][i].msg = n}
    IN  /\ Handling(to, n) + Listed(to, n) <= 1
        /\ Handling(to, n) + Listed(to, n) = 1 => waits # {} /\ n \notin ready

(* What runs on top of a waiting Send is a Send of the very thread it      *)
(* waits for: no posted message and, as the test ThreeThreadsInvoke wants, *)
(* no third thread gets into the middle of a handler.                      *)
OnlyCalleeReenters ==
  \A t \in Thread : \A i \in 1..(Len(stack[t]) - 1) :
    stack[t][i].op = "Send" =>
      LET m == issued[stack[t][i + 1].msg] IN m.kind = "send" /\ m.from = stack[t][i].to

(* Messages are handled once, and in the order of their posting; delayed   *)
(* ones in the order of their time, even if the loop is late.              *)
PostsInOrder ==
  \A t \in Thread :
    /\ IsInjective(handled[t])
    /\ \A j \in DOMAIN handled[t] : \A m \in 1..(handled[t][j] - 1) :
         LET n == handled[t][j] IN
         /\ issued[m].to = t
         /\ issued[m].kind = issued[n].kind /\ issued[n].kind \in {"post", "delayed"}
         /\ issued[m].trigger <= issued[n].trigger
         => m \in cleared \/ \E i \in 1..(j - 1) : handled[t][i] = m

(* No thread can take a step, now or after some time has passed: every one *)
(* has ended or waits.                                                     *)
Waits(t) ==
  /\ At(t, "Get", "wait") \/ At(t, "Send", "wait")
  /\ ~wake[t]
  /\ Top(t).op = "Get" => dmsgq[t] = {}

Stopped == \E t \in Thread : fStop[t]
AllIdle == ~Stopped /\ \A t \in Thread : Exited(t) \/ Waits(t)

(* Two threads may Send to each other at the same time, and nested, and a  *)
(* third one to them: unless a thread was stopped they do not end up all   *)
(* waiting with a Send that has not returned.                              *)
SendsReturn ==
  AllIdle => \A t \in Thread : \A i \in DOMAIN stack[t] : stack[t][i].op # "Send"

(* Nor with a message left in a queue: each was handled or cleared.        *)
AllHandled ==
  AllIdle => \A n \in DOMAIN issued :
               n \in cleared \/ n \in Range(handled[issued[n].to])

(* messagequeue.h says of a queue that is stopped: "any pending Sends and  *)
(* *ready* Posts [...] will be delivered before Get (or Peek) returns      *)
(* false".  Get reads fStop_ after it has looked at the queues.            *)
PendingIsDelivered ==
  \A t \in Thread : Exited(t) =>
    atQuit \cap (Range(sendlist[t]) \cup Range(msgq[t])) = {}

============================================================================
