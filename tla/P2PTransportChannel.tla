------------------------ MODULE P2PTransportChannel ------------------------
(***************************************************************************)
(* One end of an ICE component: P2PTransportChannel and its Connections    *)
(* (webrtc/p2p/base/p2ptransportchannel.cc and port.cc), all on the worker *)
(* thread.  The peer and the network are the environment: pings, ping      *)
(* responses and data come in whenever the protocol allows it, or never.   *)
(*                                                                         *)
(* A handler takes the channel's record through the steps of the code.     *)
(* What the thread was posted is a set: a message is handled at any time   *)
(* and in any order, which allows all that the thread's queue does, and a  *)
(* second message of a kind adds nothing to the first (the handler of a    *)
(* connection that is gone gets no message).                               *)
(*                                                                         *)
(* Time is abstract: a state that the code leaves after some time without  *)
(* an answer may be left at any update.  A connection is one pair of       *)
(* candidates, with its own priority, so that the RTT never decides.  Left *)
(* out: TCP connections, whose connected() may be false, role conflicts,   *)
(* ICE restarts, and the statistics of the route.                          *)
(***************************************************************************)
EXTENDS Integers, FiniteSets

CONSTANTS Connection,  \* the pairs that connections may be created for
          Priority,    \* Connection::priority()
          Network,     \* the network of the local candidate
          None,        \* NULL
          MaxConnections \* bound on the connections at a time

ASSUME PriorityAssumption ==
  /\ Priority \in [Connection -> Nat]
  /\ \A c, d \in Connection : Priority[c] = Priority[d] => c = d
ASSUME FiniteAssumption == IsFiniteSet(Connection) /\ MaxConnections \in Nat

VARIABLES
  ice_role_,
  ch          \* the channel

vars == << ice_role_, ch >>

(* The write states, from the best to the worst.                           *)
WRITABLE == 0
WRITE_UNRELIABLE == 1
WRITE_INIT == 2
WRITE_TIMEOUT == 3

ConnectionState ==
  [write_state : WRITABLE..WRITE_TIMEOUT, receiving : BOOLEAN,
   pruned : BOOLEAN, nominated : BOOLEAN,
   heard : BOOLEAN,                 \* last_received() > 0
   pings : {"none", "open", "cleared"}]
     \* pings since the last response, and whether one can still be answered

Sort == "MSG_SORT"

ASSUME NoneAssumption == None \notin Connection \cup ConnectionState
ASSUME SortAssumption == Sort \notin Connection

Channel ==
  [connections : [Connection -> ConnectionState \cup {None}],
   best_connection : Connection \cup {None},
   pending_best_connection : Connection \cup {None},
   sort_dirty : BOOLEAN,
   posted : SUBSET ({Sort} \cup Connection),
   state : {"INIT", "CONNECTING", "COMPLETED", "FAILED"},
   writable : BOOLEAN, receiving : BOOLEAN]

Connections(w) == {c \in Connection : w.connections[c] # None}

(* A connection that receives or was writable has heard of its peer.       *)
Heard(w) ==
  \A c \in Connections(w) :
    LET s == w.connections[c]
    IN  s.receiving \/ s.write_state < WRITE_INIT => s.heard

TypeOK ==
  /\ ice_role_ \in {"CONTROLLING", "CONTROLLED"}
  /\ ch \in Channel
  /\ Heard(ch)

(* A channel that was connected and has no connection yet.                 *)
Init ==
  /\ ice_role_ \in {"CONTROLLING", "CONTROLLED"}
  /\ ch = [connections |-> [c \in Connection |-> None],
           best_connection |-> None, pending_best_connection |-> None,
           sort_dirty |-> FALSE, posted |-> {}, state |-> "INIT",
           writable |-> FALSE, receiving |-> FALSE]

---------------------------------------------------------------------------
(* How connections compare.                                                *)

Writable(w, c) == w.connections[c].write_state = WRITABLE
Active(w, c) == w.connections[c].write_state # WRITE_TIMEOUT
Weak(w, c) == ~(Writable(w, c) /\ w.connections[c].receiving)

BetterState(w, a, b) ==
  LET s == w.connections[a] t == w.connections[b]
  IN  \/ s.write_state < t.write_state
      \/ (s.write_state = t.write_state /\ s.receiving /\ ~t.receiving)

SameState(w, a, b) == ~BetterState(w, a, b) /\ ~BetterState(w, b, a)

(* The first of the connections cs once they are sorted.                   *)
First(w, cs) ==
  IF cs = {} THEN None
  ELSE CHOOSE a \in cs : \A b \in cs \ {a} :
         \/ BetterState(w, a, b)
         \/ SameState(w, a, b) /\ Priority[a] > Priority[b]

Top(w) == First(w, Connections(w))

BestNominated(w) ==
  w.best_connection # None /\ w.connections[w.best_connection].nominated

(* A mutant: the controlled side does not care what is nominated.          *)
ShouldSwitchNominated(w, a, b) ==
  /\ a # b
  /\ \/ a = None \/ b = None
     \/ /\ a # None /\ b # None
        /\ \/ BetterState(w, b, a)
           \/ SameState(w, a, b) /\ Priority[b] > Priority[a]

ShouldSwitch(w, a, b) ==
  /\ a # b
  /\ \/ a = None \/ b = None
     \/ /\ a # None /\ b # None
        /\ \/ BetterState(w, b, a)
           \/ /\ SameState(w, a, b)
              /\ ~(ice_role_ = "CONTROLLED" /\ w.connections[a].nominated)
              /\ Priority[b] > Priority[a]

---------------------------------------------------------------------------
(* What changes a connection.                                              *)

RequestSort(w) ==
  [w EXCEPT !.sort_dirty = TRUE,
            !.posted = IF w.sort_dirty THEN @ ELSE @ \cup {Sort}]

(* A mutant: no sort after the pending connection was taken.               *)
OnConnectionStateChangeNoSort(w, c) ==
  IF ice_role_ = "CONTROLLED" /\ c = w.pending_best_connection /\ Writable(w, c)
  THEN [w EXCEPT !.pending_best_connection = None, !.best_connection = c]
  ELSE RequestSort(w)

(* A mutant: the pending connection is not taken.                          *)
OnConnectionStateChangeOnlySorts(w, c) == RequestSort(w)

(* The pending connection is taken once it is writable.                    *)
OnConnectionStateChange(w, c) ==
  RequestSort(
    IF ice_role_ = "CONTROLLED" /\ c = w.pending_best_connection /\ Writable(w, c)
    THEN [w EXCEPT !.pending_best_connection = None, !.best_connection = c]
    ELSE w)

SetWriteState(w, c, s) ==
  IF w.connections[c].write_state = s THEN w
  ELSE OnConnectionStateChange([w EXCEPT !.connections[c].write_state = s], c)

(* A mutant: when it was is not remembered.                                *)
SetReceivingNoTime(w, c) ==
  LET v == [w EXCEPT !.connections[c] = [@ EXCEPT !.receiving = TRUE]]
  IN  IF w.connections[c].receiving THEN v ELSE OnConnectionStateChange(v, c)

SetReceiving(w, c) ==
  LET v == [w EXCEPT !.connections[c] = [@ EXCEPT !.receiving = TRUE, !.heard = TRUE]]
  IN  IF w.connections[c].receiving THEN v ELSE OnConnectionStateChange(v, c)

Destroy(w, cs) == [w EXCEPT !.posted = @ \cup cs]

(* A connection that timed out starts again, unless it was pruned.         *)
StartAgain(w, c) ==
  IF ~w.connections[c].pruned /\ ~Active(w, c)
  THEN SetWriteState(w, c, WRITE_INIT) ELSE w

Pruned(s) == [s EXCEPT !.pruned = TRUE, !.write_state = WRITE_TIMEOUT,
                       !.pings = IF @ = "open" THEN "cleared" ELSE @]

WithPruned(w, cs) ==
  [w EXCEPT !.connections = [c \in Connection |->
     IF c \in cs THEN Pruned(w.connections[c]) ELSE w.connections[c]]]

(* A mutant: a connection that was pruned before signals a change again.   *)
PruneAgain(w, cs) ==
  LET v == WithPruned(w, cs)
  IN  IF cs # {} THEN RequestSort(v) ELSE v

Prune(w, cs) ==
  LET hit == {c \in cs : ~w.connections[c].pruned \/ Active(w, c)}
      v == WithPruned(w, hit)
  IN  IF \E c \in hit : Active(w, c) THEN RequestSort(v) ELSE v

(* Connection::UpdateState() of every connection.  For one of them, c, the *)
(* time has run out: its pings get no answer, it receives nothing, or it   *)
(* has received nothing for so long that it is dead.                       *)
RunsOut(w, c) ==
  LET s == w.connections[c]
  IN  (IF s.pings # "none" /\ Active(w, c) THEN {"answer"} ELSE {})
        \cup (IF s.receiving THEN {"receiving"} ELSE {})
        \cup (IF ~s.receiving /\ (s.heard \/ ~Active(w, c)) THEN {"life"} ELSE {})

UpdateConnectionStates(w, c, out) ==
  LET s == w.connections[c]
      t == [s EXCEPT
              !.write_state = IF "answer" \notin out THEN s.write_state
                              ELSE IF s.write_state = WRITABLE THEN WRITE_UNRELIABLE
                              ELSE WRITE_TIMEOUT,
              !.receiving = s.receiving /\ "receiving" \notin out]
      v == IF t = s THEN w ELSE OnConnectionStateChange([w EXCEPT !.connections[c] = t], c)
  IN  IF "life" \in out THEN Destroy(v, {c}) ELSE v

(* The channels that w may be after the update.                            *)
Updated(w) ==
  {w} \cup UNION {{UpdateConnectionStates(w, c, out) : out \in SUBSET RunsOut(w, c)} :
                  c \in Connections(w)}

---------------------------------------------------------------------------
(* Sorting.                                                                *)

(* At most one active connection per network, and at least one: completed. *)
ComputeState(w) ==
  LET active == {c \in Connections(w) : Active(w, c)}
  IN  CASE Connections(w) = {} /\ w.state = "INIT" -> "INIT"
        [] active = {} /\ ~(Connections(w) = {} /\ w.state = "INIT") -> "FAILED"
        [] OTHER -> IF \E c, d \in active : c # d /\ Network[c] = Network[d]
                    THEN "CONNECTING" ELSE "COMPLETED"

UpdateState(w) ==
  [w EXCEPT !.state = ComputeState(w),
            !.writable = w.best_connection # None /\ Writable(w, w.best_connection),
            !.receiving = \E c \in Connections(w) : w.connections[c].receiving]

(* The best connection on its own network, else the first in the order.    *)
Premier(w, n) ==
  LET on == {c \in Connections(w) : Network[c] = n}
  IN  IF w.best_connection \in on THEN w.best_connection
      ELSE First(w, on)

(* A mutant: the premier connection may be weak.                           *)
PruneConnectionsForWeak(w) ==
  Prune(w, {c \in Connections(w) : LET p == Premier(w, Network[c])
                                   IN  c # p /\ Priority[p] >= Priority[c]})

PruneConnections(w) ==
  Prune(w, {c \in Connections(w) : LET p == Premier(w, Network[c])
                                   IN  c # p /\ ~Weak(w, p) /\ Priority[p] >= Priority[c]})

(* A mutant: the best connection is spared.                                *)
HandleAllTimedOutButBest(w) ==
  IF \A c \in Connections(w) : ~Active(w, c)
  THEN Destroy(w, Connections(w) \ {w.best_connection}) ELSE w

HandleAllTimedOut(w) ==
  IF \A c \in Connections(w) : ~Active(w, c) THEN Destroy(w, Connections(w)) ELSE w

(* What is left to do for a channel whose connections are up to date.      *)
Resort(w) ==
  LET u == [w EXCEPT !.sort_dirty = FALSE]
      v == IF ShouldSwitch(u, u.best_connection, Top(u))
           THEN [u EXCEPT !.best_connection = Top(u)] ELSE u
      p == IF ice_role_ = "CONTROLLING" \/ BestNominated(v)
           THEN PruneConnections(v) ELSE v
  IN  UpdateState(HandleAllTimedOut(p))

SortConnections(w) == \E v \in Updated(w) : ch' = Resort(v)

---------------------------------------------------------------------------
(* The events.                                                             *)

NewConnection ==
  [write_state |-> WRITE_INIT, receiving |-> FALSE, pruned |-> FALSE,
   nominated |-> FALSE, heard |-> FALSE, pings |-> "none"]

AddConnection(w, c) == [w EXCEPT !.connections[c] = NewConnection]

CreateConnections(w, cs) ==
  [w EXCEPT !.connections = [c \in Connection |->
     IF c \in cs THEN NewConnection ELSE w.connections[c]]]

(* AddRemoteCandidate() and OnPortReady(): any connections may be new.     *)
AddRemoteCandidate ==
  /\ \E cs \in SUBSET (Connection \ Connections(ch)) :
       /\ Cardinality(Connections(ch) \cup cs) <= MaxConnections
       /\ SortConnections(CreateConnections(ch, cs))
  /\ UNCHANGED ice_role_

OnNominated(w, c) ==
  CASE Writable(w, c) /\ w.best_connection # c ->
         RequestSort([w EXCEPT !.pending_best_connection = None, !.best_connection = c])
    [] ~Writable(w, c) -> [w EXCEPT !.pending_best_connection = c]
    [] OTHER -> w

HandleBindingRequest(w, c, use_candidate) ==
  LET v == StartAgain(SetReceiving(w, c), c)
  IN  IF ice_role_ = "CONTROLLED" /\ use_candidate
      THEN OnNominated([v EXCEPT !.connections[c].nominated = TRUE], c) ELSE v

(* A ping from an address that has no connection yet.                      *)
OnUnknownAddress ==
  /\ Cardinality(Connections(ch)) < MaxConnections
  /\ \E c \in Connection \ Connections(ch), use_candidate \in BOOLEAN :
       SortConnections(HandleBindingRequest(AddConnection(ch, c), c, use_candidate))
  /\ UNCHANGED ice_role_

ReceivePing(c) ==
  /\ \E use_candidate \in BOOLEAN : ch' = HandleBindingRequest(ch, c, use_candidate)
  /\ UNCHANGED ice_role_

(* The response makes the connection writable, pruned or not.              *)
ReceivePingResponse(c) ==
  /\ ch.connections[c].pings = "open"
  /\ ch' = [SetWriteState(SetReceiving(ch, c), c, WRITABLE) EXCEPT
              !.connections[c].pings = "none"]
  /\ UNCHANGED ice_role_

(* An error that is not recoverable.                                       *)
ReceiveErrorResponse(c) ==
  /\ ch.connections[c].pings = "open"
  /\ ch' = Destroy(ch, {c})
  /\ UNCHANGED ice_role_

(* OnReadPacket() of the connection and of the channel: as long as nothing *)
(* is nominated, the controlled side sends where it receives.              *)
ReceiveData(c) ==
  /\ LET w == SetReceiving(ch, c)
         v == IF ice_role_ = "CONTROLLED" /\ ~BestNominated(w) /\ Writable(w, c)
              THEN [w EXCEPT !.best_connection = c] ELSE w
     IN  ch' = StartAgain(v, c)
  /\ UNCHANGED ice_role_

OnSort ==
  /\ Sort \in ch.posted
  /\ SortConnections([ch EXCEPT !.posted = @ \ {Sort}])
  /\ UNCHANGED ice_role_

(* One of the connections that may be pinged is, or it is too soon.        *)
Pingable(w) ==
  {c \in Connections(w) :
     \/ w.best_connection = None \/ Active(w, c)
     \/ w.best_connection # None /\ Weak(w, w.best_connection)}

OnCheckAndPing ==
  /\ \E w \in Updated(ch) :
       \/ ch' = w
       \/ \E c \in Pingable(w) : ch' = [w EXCEPT !.connections[c].pings = "open"]
  /\ UNCHANGED ice_role_

(* A mutant: it stays pending.                                             *)
OnConnectionDestroyedStaysPending(c) ==
  /\ c \in ch.posted
  /\ LET w == [ch EXCEPT
                 !.posted = @ \ {c},
                 !.connections[c] = None]
     IN  ch' = UpdateState(IF w.best_connection = c
                           THEN RequestSort([w EXCEPT !.best_connection = None]) ELSE w)
  /\ UNCHANGED ice_role_

(* MSG_DELETE of a connection, and OnConnectionDestroyed().                *)
OnConnectionDestroyed(c) ==
  /\ c \in ch.posted
  /\ LET w == [ch EXCEPT
                 !.posted = @ \ {c},
                 !.connections[c] = None,
                 !.pending_best_connection = IF @ = c THEN None ELSE @]
     IN  ch' = UpdateState(IF w.best_connection = c
                           THEN RequestSort([w EXCEPT !.best_connection = None]) ELSE w)
  /\ UNCHANGED ice_role_

Next ==
  \/ AddRemoteCandidate \/ OnUnknownAddress \/ OnSort \/ OnCheckAndPing
  \/ \E c \in Connections(ch) :
       \/ ReceivePing(c) \/ ReceivePingResponse(c) \/ ReceiveErrorResponse(c)
       \/ ReceiveData(c) \/ OnConnectionDestroyed(c)

Spec == Init /\ [][Next]_vars

---------------------------------------------------------------------------
(* Properties.                                                             *)

(* The best and the pending connection, and those that are to be deleted,  *)
(* exist: the channel never calls one that is deleted, whatever comes      *)
(* between Destroy() and the message.                                      *)
NoDangling ==
  /\ {ch.best_connection, ch.pending_best_connection} \subseteq Connections(ch) \cup {None}
  /\ ch.posted \subseteq {Sort} \cup Connections(ch)

(* A sort that is needed is never missing.  As long as none is posted, the *)
(* best connection is what a sort would keep (but a controlled side that   *)
(* follows the media may prefer another of the same state), and what the   *)
(* channel tells its users is what its connections are.                    *)
SortIsPosted ==
  Sort \notin ch.posted =>
    /\ ~ch.sort_dirty
    /\ IF ice_role_ = "CONTROLLING" \/ ch.best_connection = None
       THEN ~ShouldSwitch(ch, ch.best_connection, Top(ch))
       ELSE ~BetterState(ch, Top(ch), ch.best_connection)
    /\ ch = UpdateState(ch)

(* What the peer nominated and is writable is taken: nothing stays pending *)
(* that could be used.                                                     *)
PendingIsTaken ==
  ch.pending_best_connection # None =>
    /\ ice_role_ = "CONTROLLED"
    /\ ~Writable(ch, ch.pending_best_connection)

(* A sort is final.  It may prune connections and so post another sort, but *)
(* if nothing else happens that one chooses the same connection, prunes    *)
(* none and posts no third: the channel neither sorts for ever nor goes to *)
(* and fro between two connections.                                        *)
SortIsFinal ==
  LET again(w) == Resort([w EXCEPT !.posted = @ \ {Sort}])
      first == again(ch)
  IN  again(first) = [first EXCEPT !.posted = @ \ {Sort}, !.sort_dirty = FALSE]

(* When all connections have timed out, all of them are on their way out,  *)
(* unless the sort that finds out is still to come.                        *)
AllTimedOutGo ==
  (Sort \notin ch.posted /\ \A c \in Connections(ch) : ~Active(ch, c)) =>
    Connections(ch) \subseteq ch.posted

(* The controlled side leaves a nominated connection only for another that *)
(* is nominated or in a better state, or because it was deleted.           *)
NominatedStays ==
  [][(/\ ice_role_ = "CONTROLLED" /\ BestNominated(ch)
      /\ ch'.best_connection # ch.best_connection)
     => \/ ch.best_connection \notin Connections(ch')
        \/ BestNominated(ch')
        \/ BetterState(ch', ch'.best_connection, ch.best_connection)]_vars

(* No connection is pruned unless one on its network with a higher         *)
(* priority can be used.                                                   *)
PrunedForBetter ==
  [][\A c \in Connections(ch) \cap Connections(ch') :
       ~ch.connections[c].pruned /\ ch'.connections[c].pruned =>
         \E p \in Connections(ch') :
           /\ Network[p] = Network[c] /\ Priority[p] > Priority[c] /\ ~Weak(ch', p)]_vars

============================================================================
