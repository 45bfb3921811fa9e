--------------------- MODULE P2PTransportChannel_proof ---------------------
(***************************************************************************)
(* Proofs about P2PTransportChannel: its properties hold for any finite    *)
(* set of connections, any networks and any distinct priorities.           *)
(***************************************************************************)
EXTENDS P2PTransportChannel, SequenceLemmas

---------------------------------------------------------------------------
(* The inductive invariant.  First what holds of a channel at any time,    *)
(* also in the middle of a handler.                                        *)

Exists(w) ==
  /\ {w.best_connection, w.pending_best_connection} \subseteq Connections(w) \cup {None}
  /\ w.posted \subseteq {Sort} \cup Connections(w)

(* What is pending was nominated and waits to become writable.             *)
Pending(w) ==
  w.pending_best_connection # None =>
    /\ ice_role_ = "CONTROLLED"
    /\ ~Writable(w, w.pending_best_connection)
    /\ w.connections[w.pending_best_connection].nominated

Sound(w) == w \in Channel /\ Heard(w) /\ Exists(w) /\ Pending(w)

(* Then what holds unless a sort is posted: no connection should take the  *)
(* place of the best one, ...                                              *)
Chosen(w) ==
  \A c \in Connections(w) : c # w.best_connection =>
    /\ w.best_connection # None
    /\ ~BetterState(w, c, w.best_connection)
    /\ ice_role_ = "CONTROLLING" /\ SameState(w, c, w.best_connection) =>
         Priority[c] <= Priority[w.best_connection]

(* ... what the channel tells its users is up to date, ...                 *)
Reported(w) ==
  /\ w.state = ComputeState(w)
  /\ w.writable = (w.best_connection # None /\ Writable(w, w.best_connection))
  /\ w.receiving = (\E c \in Connections(w) : w.connections[c].receiving)

(* ... and connections that have all timed out are to be deleted.          *)
TimedOutGo(w) ==
  (\A c \in Connections(w) : ~Active(w, c)) => Connections(w) \subseteq w.posted

Settled(w) ==
  Sort \notin w.posted => ~w.sort_dirty /\ Chosen(w) /\ Reported(w) /\ TimedOutGo(w)

IInv == ice_role_ \in {"CONTROLLING", "CONTROLLED"} /\ Sound(ch) /\ Settled(ch)

---------------------------------------------------------------------------
(* The order of connections.                                               *)

Better(w, a, b) ==
  \/ BetterState(w, a, b)
  \/ SameState(w, a, b) /\ Priority[a] > Priority[b]

LEMMA Order ==
  ASSUME NEW w \in Channel, NEW a \in Connections(w), NEW b \in Connections(w),
         NEW c \in Connections(w)
  PROVE  /\ ~Better(w, a, a)
         /\ a # b => Better(w, a, b) \/ Better(w, b, a)
         /\ Better(w, a, b) /\ Better(w, b, c) => Better(w, a, c)
<1> DEFINE s(x) == w.connections[x]
<1>1. /\ s(a) \in ConnectionState /\ s(b) \in ConnectionState /\ s(c) \in ConnectionState
      /\ a \in Connection /\ b \in Connection /\ c \in Connection
  BY DEF Channel, Connections
<1>2. /\ s(a).write_state \in Int /\ s(b).write_state \in Int /\ s(c).write_state \in Int
      /\ s(a).receiving \in BOOLEAN /\ s(b).receiving \in BOOLEAN /\ s(c).receiving \in BOOLEAN
  BY <1>1 DEF ConnectionState, WRITABLE, WRITE_TIMEOUT
<1>3. /\ Priority[a] \in Int /\ Priority[b] \in Int /\ Priority[c] \in Int
      /\ a # b => Priority[a] # Priority[b]
  BY <1>1, PriorityAssumption
<1> QED BY <1>2, <1>3 DEF Better, SameState, BetterState

(* A connection with the fewest better ones has none.                      *)
LEMMA FirstExists ==
  ASSUME NEW w \in Channel, NEW cs \in SUBSET Connections(w), cs # {}
  PROVE  \E a \in cs : \A b \in cs \ {a} : Better(w, a, b)
<1> DEFINE above(a) == {b \in cs : Better(w, b, a)}
           T == {Cardinality(above(a)) : a \in cs}
<1>1. IsFiniteSet(cs) /\ \A a \in cs : IsFiniteSet(above(a))
  <2>1. IsFiniteSet(cs)
    BY FiniteAssumption, FS_Subset DEF Connections
  <2> QED BY <2>1, FS_Subset
<1>2. T \in SUBSET Nat /\ T # {}
  BY <1>1, FS_CardinalityType
<1>3. PICK n \in T : \A m \in T : n <= m
  BY <1>2, NatMin
<1>4. PICK a \in cs : n = Cardinality(above(a))
  OBVIOUS
<1> SUFFICES ASSUME NEW b \in cs \ {a}, ~Better(w, a, b) PROVE FALSE
  OBVIOUS
<1>5. b \in above(a) /\ above(b) \subseteq above(a) /\ b \notin above(b)
  <2>1. \A c \in cs : /\ ~Better(w, b, b) /\ Better(w, b, a)
                      /\ Better(w, c, b) => Better(w, c, a)
    BY Order
  <2> QED BY <2>1
<1>6. Cardinality(above(b)) < Cardinality(above(a))
  <2>1. \A A, B : IsFiniteSet(A) /\ B \subseteq A /\ B # A =>
                    Cardinality(B) < Cardinality(A)
    <3> SUFFICES ASSUME NEW A, NEW B, IsFiniteSet(A), B \subseteq A, B # A
                 PROVE  Cardinality(B) < Cardinality(A)
      OBVIOUS
    <3>1. IsFiniteSet(B) /\ Cardinality(B) <= Cardinality(A) /\ Cardinality(A) # Cardinality(B)
      BY FS_Subset
    <3>2. Cardinality(B) \in Nat /\ Cardinality(A) \in Nat
      BY <3>1, FS_CardinalityType
    <3> QED BY <3>1, <3>2
  <2> HIDE DEF above
  <2> QED BY <1>1, <1>5, <2>1
<1>7. Cardinality(above(b)) \in T
  OBVIOUS
<1>8. Cardinality(above(b)) \in Nat /\ Cardinality(above(a)) \in Nat
  <2>1. b \in cs /\ IsFiniteSet(above(a)) /\ IsFiniteSet(above(b))
    BY <1>1
  <2> HIDE DEF above
  <2> QED BY <2>1, FS_CardinalityType
<1> HIDE DEF above, T
<1> QED BY <1>3, <1>4, <1>6, <1>7, <1>8

LEMMA FirstIsBest ==
  ASSUME NEW w \in Channel, NEW cs \in SUBSET Connections(w), cs # {}
  PROVE  /\ First(w, cs) \in cs
         /\ \A b \in cs \ {First(w, cs)} : Better(w, First(w, cs), b)
BY FirstExists DEF First, Better

---------------------------------------------------------------------------
(* What a handler does to the channel between two sorts.                   *)

Noted(w) == w.sort_dirty => Sort \in w.posted

(* Nothing that a sort looks at has changed.                               *)
Unmoved(w, v) ==
  /\ v.best_connection = w.best_connection /\ v.sort_dirty = w.sort_dirty
  /\ v.state = w.state /\ v.writable = w.writable /\ v.receiving = w.receiving
  /\ \A c \in Connections(w) :
       /\ v.connections[c].write_state = w.connections[c].write_state
       /\ v.connections[c].receiving = w.connections[c].receiving

(* The best connection changes only for one that was nominated.            *)
Follows(w, v) ==
  BestNominated(w) /\ v.best_connection # w.best_connection => BestNominated(v)

Step(w, v) ==
  /\ Sound(v) /\ Connections(v) = Connections(w) /\ w.posted \subseteq v.posted
  /\ Noted(w) => Noted(v) /\ (Sort \in v.posted \/ Unmoved(w, v))
  /\ \A c \in Connections(w) :
       /\ w.connections[c].nominated => v.connections[c].nominated
       /\ v.connections[c].pruned = w.connections[c].pruned
  /\ Follows(w, v)

LEMMA FieldTypes ==
  ASSUME NEW w \in Channel
  PROVE  /\ \A c \in Connections(w) : c \in Connection /\ w.connections[c] \in ConnectionState
         /\ None \notin Connections(w) /\ Sort \notin Connections(w)
         /\ w.sort_dirty \in BOOLEAN /\ w.writable \in BOOLEAN /\ w.receiving \in BOOLEAN
         /\ w.posted \in SUBSET ({Sort} \cup Connection)
BY NoneAssumption, SortAssumption DEF Channel, Connections

LEMMA StateTypes ==
  ASSUME NEW s \in ConnectionState
  PROVE  /\ s.write_state \in Int /\ 0 <= s.write_state /\ s.write_state <= 3
         /\ s.receiving \in BOOLEAN /\ s.pruned \in BOOLEAN /\ s.nominated \in BOOLEAN
         /\ s.heard \in BOOLEAN /\ s # None
BY NoneAssumption DEF ConnectionState, WRITABLE, WRITE_TIMEOUT

Replaced(w, c, t) == [w EXCEPT !.connections[c] = t]

LEMMA ReplaceConnection ==
  ASSUME NEW w \in Channel, NEW c \in Connection, NEW t \in ConnectionState
  PROVE  LET v == Replaced(w, c, t) IN
         /\ v \in Channel
         /\ Connections(v) = Connections(w) \cup {c}
         /\ c \in Connections(w) => Connections(v) = Connections(w)
         /\ v.connections[c] = t
         /\ \A d \in Connection : d # c => v.connections[d] = w.connections[d]
         /\ v.best_connection = w.best_connection
         /\ v.pending_best_connection = w.pending_best_connection
         /\ v.posted = w.posted /\ v.sort_dirty = w.sort_dirty
         /\ v.state = w.state /\ v.writable = w.writable /\ v.receiving = w.receiving
BY NoneAssumption DEF Replaced, Channel, Connections

LEMMA NoStep ==
  ASSUME NEW w, Sound(w)
  PROVE  Step(w, w)
BY DEF Step, Unmoved, Follows

LEMMA StepKeepsNomination ==
  ASSUME NEW w, NEW v, Sound(w), Step(w, v), BestNominated(w)
  PROVE  BestNominated(v)
<1>1. w.best_connection \in Connections(w)
  BY DEF BestNominated, Sound, Exists
<1> QED BY <1>1 DEF Step, Follows, BestNominated

LEMMA StepsCompose ==
  ASSUME NEW w, NEW v, NEW u, Sound(w), Step(w, v), Step(v, u)
  PROVE  Step(w, u)
<1>1. BestNominated(w) => BestNominated(u)
  BY StepKeepsNomination DEF Step
<1> QED BY <1>1 DEF Step, Unmoved, Follows

LEMMA StepKeepsSettled ==
  ASSUME NEW w, NEW v, Sound(w), Settled(w), Step(w, v)
  PROVE  Settled(v)
<1> SUFFICES ASSUME Sort \notin v.posted
             PROVE  ~v.sort_dirty /\ Chosen(v) /\ Reported(v) /\ TimedOutGo(v)
  BY DEF Settled
<1>1. /\ ~w.sort_dirty /\ Chosen(w) /\ Reported(w) /\ TimedOutGo(w)
      /\ Unmoved(w, v) /\ Connections(v) = Connections(w) /\ w.posted \subseteq v.posted
  BY DEF Settled, Step, Noted
<1>2. w.best_connection = None \/ w.best_connection \in Connections(w)
  BY DEF Sound, Exists
<1>3. \A c \in Connections(w) : /\ Writable(v, c) <=> Writable(w, c)
                                /\ Active(v, c) <=> Active(w, c)
                                /\ \A d \in Connections(w) :
                                     BetterState(v, c, d) <=> BetterState(w, c, d)
  BY <1>1 DEF Unmoved, Writable, Active, BetterState
<1>4. Chosen(v)
  BY <1>1, <1>2, <1>3 DEF Chosen, Unmoved, SameState
<1>5. ComputeState(v) = ComputeState(w)
  BY <1>1, <1>3 DEF ComputeState, Unmoved
<1>6. Reported(v)
  BY <1>1, <1>2, <1>3, <1>5 DEF Reported, Unmoved
<1>7. TimedOutGo(v)
  BY <1>1, <1>3 DEF TimedOutGo
<1> QED BY <1>1, <1>4, <1>6, <1>7 DEF Unmoved

LEMMA RequestSortDoes ==
  ASSUME NEW w \in Channel
  PROVE  LET r == RequestSort(w)
         IN  /\ r \in Channel /\ r.connections = w.connections
             /\ Connections(r) = Connections(w)
             /\ r.best_connection = w.best_connection
             /\ r.pending_best_connection = w.pending_best_connection
             /\ r.state = w.state /\ r.writable = w.writable /\ r.receiving = w.receiving
             /\ r.sort_dirty = TRUE
             /\ w.posted \subseteq r.posted /\ r.posted \subseteq w.posted \cup {Sort}
             /\ Noted(w) => Sort \in r.posted
BY DEF RequestSort, Channel, Connections, Noted

(* A change of a connection that a sort does not look at.                  *)
LEMMA QuietChange ==
  ASSUME NEW w, Sound(w), NEW c \in Connections(w), NEW t \in ConnectionState,
         t.write_state = w.connections[c].write_state,
         t.receiving = w.connections[c].receiving,
         w.connections[c].heard => t.heard,
         w.connections[c].nominated => t.nominated,
         t.pruned = w.connections[c].pruned
  PROVE  Step(w, Replaced(w, c, t))
<1> DEFINE v == Replaced(w, c, t)
<1>1. w \in Channel /\ c \in Connection /\ None \notin Connections(w)
  BY FieldTypes DEF Sound
<1>2. /\ v \in Channel /\ Connections(v) = Connections(w)
      /\ v.connections[c] = t
      /\ \A d \in Connection : d # c => v.connections[d] = w.connections[d]
      /\ v.best_connection = w.best_connection
      /\ v.pending_best_connection = w.pending_best_connection
      /\ v.posted = w.posted /\ v.sort_dirty = w.sort_dirty
      /\ v.state = w.state /\ v.writable = w.writable /\ v.receiving = w.receiving
  BY <1>1, ReplaceConnection
<1> HIDE DEF v
<1>3. \A d \in Connections(w) : /\ v.connections[d].write_state = w.connections[d].write_state
                                /\ v.connections[d].receiving = w.connections[d].receiving
                                /\ w.connections[d].heard => v.connections[d].heard
                                /\ w.connections[d].nominated => v.connections[d].nominated
                                /\ v.connections[d].pruned = w.connections[d].pruned
  BY <1>2, FieldTypes DEF Sound
<1>4. Heard(v) /\ Exists(v)
  BY <1>2, <1>3 DEF Sound, Heard, Exists
<1>5. Pending(v)
  BY <1>1, <1>2, <1>3 DEF Sound, Pending, Exists, Writable
<1>6. Unmoved(w, v)
  BY <1>2, <1>3 DEF Unmoved
<1>7. Step(w, v)
  BY <1>2, <1>3, <1>4, <1>5, <1>6 DEF Sound, Step, Follows, Noted
<1> QED BY <1>7 DEF v

(* A change that is signalled.                                             *)
LEMMA SignalledChange ==
  ASSUME NEW w, Sound(w), NEW c \in Connections(w), NEW t \in ConnectionState,
         t.receiving \/ t.write_state < WRITE_INIT => t.heard,
         t.nominated = w.connections[c].nominated,
         t.pruned = w.connections[c].pruned
  PROVE  LET r == OnConnectionStateChange(Replaced(w, c, t), c)
         IN  /\ Step(w, r) /\ r.connections[c] = t
             /\ \A d \in Connection : d # c => r.connections[d] = w.connections[d]
             /\ (w.pending_best_connection = c => t.write_state # WRITABLE) =>
                  r.best_connection = w.best_connection
<1> DEFINE v == Replaced(w, c, t)
           taken == [v EXCEPT !.pending_best_connection = None, !.best_connection = c]
           takes == ice_role_ = "CONTROLLED" /\ c = v.pending_best_connection /\ Writable(v, c)
           u == IF takes THEN taken ELSE v
           r == RequestSort(u)
<1>1. w \in Channel /\ c \in Connection /\ None \notin Connections(w)
  BY FieldTypes DEF Sound
<1>2. /\ v \in Channel /\ Connections(v) = Connections(w)
      /\ v.connections[c] = t
      /\ \A d \in Connection : d # c => v.connections[d] = w.connections[d]
      /\ v.best_connection = w.best_connection
      /\ v.pending_best_connection = w.pending_best_connection
      /\ v.posted = w.posted /\ v.sort_dirty = w.sort_dirty
  BY <1>1, ReplaceConnection
<1>3. OnConnectionStateChange(v, c) = r
  BY DEF OnConnectionStateChange
<1> HIDE DEF v
<1>4. /\ u \in Channel /\ u.connections = v.connections
      /\ u.posted = v.posted /\ u.sort_dirty = v.sort_dirty
      /\ u.best_connection = IF takes THEN c ELSE v.best_connection
      /\ u.pending_best_connection = IF takes THEN None ELSE v.pending_best_connection
  BY <1>1, <1>2 DEF Channel
<1> HIDE DEF u, takes
<1>5. /\ r \in Channel /\ r.connections = v.connections
      /\ r.best_connection = u.best_connection
      /\ r.pending_best_connection = u.pending_best_connection
      /\ r.sort_dirty = TRUE
      /\ w.posted \subseteq r.posted /\ r.posted \subseteq w.posted \cup {Sort}
      /\ Noted(w) => Sort \in r.posted
  BY <1>2, <1>4, RequestSortDoes DEF Noted
<1> HIDE DEF r
<1>6. Connections(r) = Connections(w)
  BY <1>2, <1>5 DEF Connections
<1>7. \A d \in Connections(w) : /\ r.connections[d].nominated = w.connections[d].nominated
                                /\ r.connections[d].pruned = w.connections[d].pruned
  BY <1>2, <1>5 DEF Connections
<1>8. Heard(r)
  BY <1>2, <1>5, <1>6 DEF Sound, Heard, Connections
<1>9. Exists(r)
  BY <1>2, <1>4, <1>5, <1>6 DEF Sound, Exists
<1>10. Pending(r)
  <2> SUFFICES ASSUME r.pending_best_connection # None PROVE
                  /\ ice_role_ = "CONTROLLED"
                  /\ ~Writable(r, r.pending_best_connection)
                  /\ r.connections[r.pending_best_connection].nominated
    BY DEF Pending
  <2>1. /\ ~takes /\ r.pending_best_connection = w.pending_best_connection
        /\ r.pending_best_connection \in Connections(w)
    BY <1>2, <1>4, <1>5 DEF Sound, Exists
  <2>2. ice_role_ = "CONTROLLED" /\ r.connections[r.pending_best_connection].nominated
    BY <1>7, <2>1 DEF Sound, Pending
  <2>3. CASE r.pending_best_connection = c
    BY <1>2, <1>5, <2>1, <2>2, <2>3 DEF takes, Writable
  <2>4. CASE r.pending_best_connection # c
    <3>1. r.connections[r.pending_best_connection] = w.connections[w.pending_best_connection]
      BY <1>2, <1>5, <2>1, <2>4 DEF Connections
    <3> QED BY <2>1, <2>2, <3>1 DEF Sound, Pending, Writable
  <2> QED BY <2>3, <2>4
<1>11. Follows(w, r)
  <2>1. CASE takes
    BY <1>1, <1>2, <1>4, <1>5, <1>7, <2>1 DEF takes, Follows, BestNominated, Sound, Pending
  <2> QED BY <1>2, <1>4, <1>5, <2>1 DEF Follows
<1>12. Step(w, r)
  BY <1>5, <1>6, <1>7, <1>8, <1>9, <1>10, <1>11 DEF Step, Sound, Noted
<1>13. (w.pending_best_connection = c => t.write_state # WRITABLE) =>
          r.best_connection = w.best_connection
  BY <1>2, <1>4, <1>5 DEF takes, Writable
<1> QED BY <1>2, <1>3, <1>5, <1>12, <1>13 DEF v

---------------------------------------------------------------------------
(* The operators that handlers are made of.                                *)

LEMMA SetWriteStateSteps ==
  ASSUME NEW w, Sound(w), NEW c \in Connections(w), NEW s \in WRITABLE..WRITE_TIMEOUT,
         s < WRITE_INIT => w.connections[c].heard
  PROVE  LET r == SetWriteState(w, c, s)
         IN  /\ Step(w, r)
             /\ r.connections[c] = [w.connections[c] EXCEPT !.write_state = s]
             /\ (w.pending_best_connection = c => s # WRITABLE) =>
                  r.best_connection = w.best_connection
<1>1. w.connections[c] \in ConnectionState /\ c \in Connection /\ w \in Channel
  BY FieldTypes DEF Sound
<1>2. CASE w.connections[c].write_state = s
  BY <1>1, <1>2, NoStep DEF SetWriteState, ConnectionState
<1>3. CASE w.connections[c].write_state # s
  <2>1. PICK t : t = [w.connections[c] EXCEPT !.write_state = s]
    OBVIOUS
  <2>2. /\ t \in ConnectionState /\ t.write_state = s /\ t.receiving = w.connections[c].receiving
        /\ t.heard = w.connections[c].heard
        /\ t.nominated = w.connections[c].nominated /\ t.pruned = w.connections[c].pruned
    BY <1>1, <2>1 DEF ConnectionState
  <2>3. t.receiving \/ t.write_state < WRITE_INIT => t.heard
    BY <2>2 DEF Sound, Heard
  <2>4. [w EXCEPT !.connections[c].write_state = s] = Replaced(w, c, t)
    BY <2>1 DEF Replaced
  <2>5. SetWriteState(w, c, s) = OnConnectionStateChange(Replaced(w, c, t), c)
    BY <1>3, <2>4 DEF SetWriteState
  <2>6. LET r == OnConnectionStateChange(Replaced(w, c, t), c)
        IN  /\ Step(w, r) /\ r.connections[c] = t
            /\ (w.pending_best_connection = c => t.write_state # WRITABLE) =>
                 r.best_connection = w.best_connection
    BY <2>2, <2>3, SignalledChange
  <2> QED BY <2>1, <2>2, <2>5, <2>6
<1> QED BY <1>2, <1>3

LEMMA SetReceivingSteps ==
  ASSUME NEW w, Sound(w), NEW c \in Connections(w)
  PROVE  LET r == SetReceiving(w, c)
         IN  /\ Step(w, r)
             /\ r.connections[c] = [w.connections[c] EXCEPT !.receiving = TRUE, !.heard = TRUE]
             /\ r.best_connection = w.best_connection
<1>1. w.connections[c] \in ConnectionState /\ c \in Connection /\ w \in Channel
  BY FieldTypes DEF Sound
<1>2. PICK t : t = [w.connections[c] EXCEPT !.receiving = TRUE, !.heard = TRUE]
  OBVIOUS
<1>3. /\ t \in ConnectionState /\ t.write_state = w.connections[c].write_state
      /\ t.receiving = TRUE /\ t.heard = TRUE
      /\ t.nominated = w.connections[c].nominated /\ t.pruned = w.connections[c].pruned
  BY <1>1, <1>2 DEF ConnectionState
<1>4. w.pending_best_connection = c => t.write_state # WRITABLE
  BY <1>1, <1>3, FieldTypes DEF Sound, Pending, Writable
<1>5. SetReceiving(w, c) = IF w.connections[c].receiving THEN Replaced(w, c, t)
                           ELSE OnConnectionStateChange(Replaced(w, c, t), c)
  BY <1>2 DEF SetReceiving, Replaced
<1>6. CASE w.connections[c].receiving
  <2>1. w.connections[c].receiving = TRUE
    BY <1>1, <1>6, StateTypes
  <2>2. Step(w, Replaced(w, c, t))
    BY <1>3, <2>1, QuietChange
  <2>3. /\ Replaced(w, c, t).connections[c] = t
        /\ Replaced(w, c, t).best_connection = w.best_connection
    BY <1>1, <1>3, ReplaceConnection
  <2> QED BY <1>2, <1>5, <1>6, <2>2, <2>3
<1>7. CASE ~w.connections[c].receiving
  <2>1. LET r == OnConnectionStateChange(Replaced(w, c, t), c)
        IN  Step(w, r) /\ r.connections[c] = t /\ r.best_connection = w.best_connection
    BY <1>3, <1>4, SignalledChange
  <2> QED BY <1>2, <1>5, <1>7, <2>1
<1> QED BY <1>6, <1>7

LEMMA StartAgainSteps ==
  ASSUME NEW w, Sound(w), NEW c \in Connections(w)
  PROVE  LET r == StartAgain(w, c)
         IN  /\ Step(w, r) /\ r.best_connection = w.best_connection
             /\ w.connections[c].write_state = WRITE_INIT => r = w
<1>1. WRITE_INIT \in WRITABLE..WRITE_TIMEOUT /\ ~(WRITE_INIT < WRITE_INIT)
      /\ WRITE_INIT # WRITABLE /\ WRITE_INIT # WRITE_TIMEOUT
  BY DEF WRITE_INIT, WRITABLE, WRITE_TIMEOUT
<1>2. /\ Step(w, SetWriteState(w, c, WRITE_INIT))
      /\ SetWriteState(w, c, WRITE_INIT).best_connection = w.best_connection
  BY <1>1, SetWriteStateSteps
<1> QED BY <1>1, <1>2, NoStep DEF StartAgain, Active

LEMMA DestroySteps ==
  ASSUME NEW w, Sound(w), NEW cs \in SUBSET Connections(w)
  PROVE  LET r == Destroy(w, cs)
         IN  /\ Step(w, r) /\ r.connections = w.connections
             /\ r.posted = w.posted \cup cs
             /\ r.best_connection = w.best_connection
<1> DEFINE r == Destroy(w, cs)
<1>1. w \in Channel /\ Connections(w) \subseteq Connection
  BY DEF Sound, Connections
<1>2. /\ r \in Channel /\ r.connections = w.connections
      /\ r.posted = w.posted \cup cs
      /\ r.best_connection = w.best_connection /\ r.sort_dirty = w.sort_dirty
      /\ r.pending_best_connection = w.pending_best_connection
      /\ r.state = w.state /\ r.writable = w.writable /\ r.receiving = w.receiving
  BY <1>1 DEF Destroy, Channel
<1> HIDE DEF r
<1>3. Connections(r) = Connections(w)
  BY <1>2 DEF Connections
<1>4. Sound(r)
  BY <1>2, <1>3 DEF Sound, Heard, Exists, Pending, Writable
<1>5. Noted(w) => Noted(r) /\ Unmoved(w, r)
  BY <1>2 DEF Noted, Unmoved
<1>6. Step(w, r)
  BY <1>2, <1>3, <1>4, <1>5 DEF Step, Follows
<1> QED BY <1>2, <1>6 DEF r

LEMMA OnNominatedSteps ==
  ASSUME NEW w, Sound(w), NEW c \in Connections(w), ice_role_ = "CONTROLLED",
         w.connections[c].nominated
  PROVE  LET r == OnNominated(w, c)
         IN  /\ Step(w, r)
             /\ ~Writable(w, c) => r.best_connection = w.best_connection
<1>1. w \in Channel /\ c \in Connection /\ c # None
  BY FieldTypes DEF Sound
<1>2. CASE Writable(w, c) /\ w.best_connection # c
  <2> DEFINE v == [w EXCEPT !.pending_best_connection = None, !.best_connection = c]
             r == RequestSort(v)
  <2>1. /\ v \in Channel /\ v.connections = w.connections
        /\ v.posted = w.posted /\ v.sort_dirty = w.sort_dirty
        /\ v.best_connection = c /\ v.pending_best_connection = None
    BY <1>1 DEF Channel
  <2> HIDE DEF v
  <2>2. /\ r \in Channel /\ r.connections = w.connections
        /\ r.best_connection = c /\ r.pending_best_connection = None
        /\ r.sort_dirty = TRUE
        /\ w.posted \subseteq r.posted /\ r.posted \subseteq w.posted \cup {Sort}
        /\ Noted(w) => Sort \in r.posted
    BY <2>1, RequestSortDoes DEF Noted
  <2>3. OnNominated(w, c) = r
    BY <1>2 DEF OnNominated, v
  <2> HIDE DEF r
  <2>4. Connections(r) = Connections(w)
    BY <2>2 DEF Connections
  <2>5. Sound(r)
    BY <2>2, <2>4 DEF Sound, Heard, Exists, Pending
  <2>6. BestNominated(r)
    BY <1>1, <2>2 DEF BestNominated
  <2>7. Step(w, r)
    BY <2>2, <2>4, <2>5, <2>6 DEF Step, Follows, Noted
  <2> QED BY <1>2, <2>3, <2>7
<1>3. CASE ~Writable(w, c)
  <2> DEFINE r == [w EXCEPT !.pending_best_connection = c]
  <2>1. /\ r \in Channel /\ r.connections = w.connections
        /\ r.posted = w.posted /\ r.sort_dirty = w.sort_dirty
        /\ r.best_connection = w.best_connection /\ r.pending_best_connection = c
        /\ r.state = w.state /\ r.writable = w.writable /\ r.receiving = w.receiving
    BY <1>1 DEF Channel
  <2>2. OnNominated(w, c) = r
    BY <1>3 DEF OnNominated
  <2> HIDE DEF r
  <2>3. Connections(r) = Connections(w)
    BY <2>1 DEF Connections
  <2>4. Sound(r)
    BY <1>3, <2>1, <2>3 DEF Sound, Heard, Exists, Pending, Writable
  <2>5. Step(w, r)
    BY <2>1, <2>3, <2>4 DEF Step, Follows, Noted, Unmoved
  <2> QED BY <2>1, <2>2, <2>5
<1>4. CASE Writable(w, c) /\ w.best_connection = c
  <2>1. OnNominated(w, c) = w
    BY <1>4 DEF OnNominated
  <2> QED BY <2>1, NoStep
<1> QED BY <1>2, <1>3, <1>4

LEMMA HandleBindingRequestSteps ==
  ASSUME NEW w, Sound(w), NEW c \in Connections(w), NEW use_candidate \in BOOLEAN
  PROVE  LET r == HandleBindingRequest(w, c, use_candidate)
         IN  /\ Step(w, r)
             /\ w.connections[c].write_state = WRITE_INIT =>
                  r.best_connection = w.best_connection
<1>1. PICK v : v = SetReceiving(w, c)
  OBVIOUS
<1>2. /\ Step(w, v) /\ v.best_connection = w.best_connection
      /\ v.connections[c] = [w.connections[c] EXCEPT !.receiving = TRUE, !.heard = TRUE]
  BY <1>1, SetReceivingSteps
<1>3. Sound(v) /\ c \in Connections(v)
  BY <1>2 DEF Step
<1>4. PICK u : u = StartAgain(v, c)
  OBVIOUS
<1>5. /\ Step(v, u) /\ u.best_connection = v.best_connection
      /\ v.connections[c].write_state = WRITE_INIT => u = v
  BY <1>3, <1>4, StartAgainSteps
<1>6. Sound(u) /\ c \in Connections(u) /\ Step(w, u) /\ u.best_connection = w.best_connection
  BY <1>2, <1>3, <1>5, StepsCompose DEF Step
<1>7. w.connections[c].write_state = WRITE_INIT => u.connections[c].write_state = WRITE_INIT
  <2>1. w.connections[c] \in ConnectionState
    BY FieldTypes DEF Sound
  <2> QED BY <1>2, <1>5, <2>1 DEF ConnectionState
<1>8. CASE ice_role_ = "CONTROLLED" /\ use_candidate
  <2>1. PICK t : t = [u.connections[c] EXCEPT !.nominated = TRUE]
    OBVIOUS
  <2>2. u.connections[c] \in ConnectionState /\ u \in Channel /\ c \in Connection
    BY <1>6, FieldTypes DEF Sound
  <2>3. /\ t \in ConnectionState /\ t.nominated = TRUE
        /\ t.write_state = u.connections[c].write_state
        /\ t.receiving = u.connections[c].receiving /\ t.heard = u.connections[c].heard
        /\ t.pruned = u.connections[c].pruned
    BY <2>1, <2>2 DEF ConnectionState
  <2>4. PICK x : x = Replaced(u, c, t)
    OBVIOUS
  <2>5. /\ Step(u, x) /\ x.connections[c] = t /\ x.best_connection = u.best_connection
    <3>1. Step(u, Replaced(u, c, t))
      BY <1>6, <2>3, QuietChange
    <3> QED BY <2>2, <2>3, <2>4, <3>1, ReplaceConnection
  <2>6. HandleBindingRequest(w, c, use_candidate) = OnNominated(x, c)
    BY <1>1, <1>4, <1>8, <2>1, <2>4 DEF HandleBindingRequest, Replaced
  <2>7. Sound(x) /\ c \in Connections(x) /\ x.connections[c].nominated
    BY <1>6, <2>3, <2>5 DEF Step
  <2>8. /\ Step(x, OnNominated(x, c))
        /\ ~Writable(x, c) => OnNominated(x, c).best_connection = x.best_connection
    BY <1>8, <2>7, OnNominatedSteps
  <2>9. Step(w, OnNominated(x, c))
    <3>1. Step(w, x)
      BY <1>6, <2>5, StepsCompose
    <3> QED BY <2>8, <3>1, StepsCompose
  <2>10. w.connections[c].write_state = WRITE_INIT => ~Writable(x, c)
    BY <1>7, <2>3, <2>5 DEF Writable, WRITE_INIT, WRITABLE
  <2> QED BY <1>6, <2>5, <2>6, <2>8, <2>9, <2>10
<1>9. CASE ~(ice_role_ = "CONTROLLED" /\ use_candidate)
  <2>1. HandleBindingRequest(w, c, use_candidate) = u
    BY <1>1, <1>4, <1>9 DEF HandleBindingRequest
  <2> QED BY <1>6, <2>1
<1> QED BY <1>8, <1>9

LEMMA UpdateSteps ==
  ASSUME NEW w, Sound(w), NEW v \in Updated(w)
  PROVE  Step(w, v) /\ v.best_connection = w.best_connection
<1>1. CASE v = w
  BY <1>1, NoStep
<1>2. ASSUME NEW c \in Connections(w), NEW out \in SUBSET RunsOut(w, c),
             v = UpdateConnectionStates(w, c, out)
      PROVE  Step(w, v) /\ v.best_connection = w.best_connection
  <2>1. w.connections[c] \in ConnectionState
    BY FieldTypes DEF Sound
  <2>2. PICK s : s = w.connections[c]
    OBVIOUS
  <2>3. PICK t : t = [s EXCEPT
              !.write_state = IF "answer" \notin out THEN s.write_state
                              ELSE IF s.write_state = WRITABLE THEN WRITE_UNRELIABLE
                              ELSE WRITE_TIMEOUT,
              !.receiving = s.receiving /\ "receiving" \notin out]
    OBVIOUS
  <2>4. /\ t.write_state = s.write_state \/ t.write_state \in {WRITE_UNRELIABLE, WRITE_TIMEOUT}
        /\ t.write_state = WRITE_UNRELIABLE => s.write_state \in {WRITABLE, WRITE_UNRELIABLE}
        /\ t.receiving => s.receiving
        /\ t \in ConnectionState /\ t.heard = s.heard
        /\ t.nominated = s.nominated /\ t.pruned = s.pruned
    <3>1. s \in ConnectionState
      BY <2>1, <2>2
    <3>2. PICK n \in WRITABLE..WRITE_TIMEOUT :
             /\ n = IF "answer" \notin out THEN s.write_state
                    ELSE IF s.write_state = WRITABLE THEN WRITE_UNRELIABLE
                    ELSE WRITE_TIMEOUT
             /\ n = s.write_state \/ n \in {WRITE_UNRELIABLE, WRITE_TIMEOUT}
             /\ n = WRITE_UNRELIABLE => s.write_state \in {WRITABLE, WRITE_UNRELIABLE}
      BY <3>1 DEF ConnectionState, WRITABLE, WRITE_UNRELIABLE, WRITE_TIMEOUT
    <3>3. PICK b \in BOOLEAN : b = (s.receiving /\ "receiving" \notin out)
      OBVIOUS
    <3>4. t = [s EXCEPT !.write_state = n, !.receiving = b]
      BY <2>3, <3>2, <3>3
    <3> QED BY <3>1, <3>2, <3>3, <3>4 DEF ConnectionState
  <2>5. t.receiving \/ t.write_state < WRITE_INIT => t.heard
    BY <2>2, <2>4 DEF Sound, Heard, WRITABLE, WRITE_INIT, WRITE_UNRELIABLE, WRITE_TIMEOUT
  <2>6. w.pending_best_connection = c => t.write_state # WRITABLE
    BY <2>1, <2>2, <2>4, FieldTypes
       DEF Sound, Pending, Writable, WRITABLE, WRITE_UNRELIABLE, WRITE_TIMEOUT
  <2>7. PICK x : x = IF t = s THEN w ELSE OnConnectionStateChange(Replaced(w, c, t), c)
    OBVIOUS
  <2>8. Step(w, x) /\ x.best_connection = w.best_connection
    <3>1. CASE t = s
      BY <2>7, <3>1, NoStep
    <3>2. LET r == OnConnectionStateChange(Replaced(w, c, t), c)
          IN  Step(w, r) /\ r.best_connection = w.best_connection
      BY <2>2, <2>4, <2>5, <2>6, SignalledChange
    <3> QED BY <2>7, <3>1, <3>2
  <2>9. v = IF "life" \in out THEN Destroy(x, {c}) ELSE x
    BY <1>2, <2>2, <2>3, <2>7 DEF UpdateConnectionStates, Replaced
  <2>10. /\ Step(x, Destroy(x, {c}))
         /\ Destroy(x, {c}).best_connection = x.best_connection
    <3>1. Sound(x) /\ {c} \in SUBSET Connections(x)
      BY <2>8 DEF Step
    <3> QED BY <3>1, DestroySteps
  <2>11. Step(w, Destroy(x, {c}))
    BY <2>8, <2>10, StepsCompose
  <2> QED BY <2>8, <2>9, <2>10, <2>11
<1> QED BY <1>1, <1>2 DEF Updated

---------------------------------------------------------------------------
(* Sorting, in its parts.                                                  *)

Clean(w) == [w EXCEPT !.sort_dirty = FALSE]

Switched(w) ==
  IF ShouldSwitch(w, w.best_connection, Top(w))
  THEN [w EXCEPT !.best_connection = Top(w)] ELSE w

MayPrune(w) == ice_role_ = "CONTROLLING" \/ BestNominated(w)

Trim(w) == IF MayPrune(w) THEN PruneConnections(w) ELSE w

Prunable(w) ==
  {c \in Connections(w) : LET p == Premier(w, Network[c])
                          IN  c # p /\ ~Weak(w, p) /\ Priority[p] >= Priority[c]}

Hit(w, cs) == {c \in cs : ~w.connections[c].pruned \/ Active(w, c)}

(* What can be pruned was pruned.                                          *)
Trimmed(w) ==
  MayPrune(w) => \A c \in Prunable(w) : w.connections[c].pruned /\ ~Active(w, c)

LEMMA ResortParts ==
  ASSUME NEW w
  PROVE  Resort(w) = UpdateState(HandleAllTimedOut(Trim(Switched(Clean(w)))))
BY DEF Resort, Trim, MayPrune, Switched, Clean

LEMMA CleanDoes ==
  ASSUME NEW w \in Channel
  PROVE  LET r == Clean(w)
         IN  /\ r \in Channel /\ r.connections = w.connections
             /\ Connections(r) = Connections(w)
             /\ r.best_connection = w.best_connection
             /\ r.pending_best_connection = w.pending_best_connection
             /\ r.posted = w.posted /\ r.sort_dirty = FALSE
             /\ r.state = w.state /\ r.writable = w.writable /\ r.receiving = w.receiving
BY DEF Clean, Channel, Connections

LEMMA SoundIsAboutConnections ==
  ASSUME NEW w, NEW v, Sound(w), v \in Channel, v.connections = w.connections,
         v.pending_best_connection = w.pending_best_connection,
         v.best_connection \in Connections(w) \cup {None},
         v.posted \subseteq w.posted \cup {Sort} \cup Connections(w)
  PROVE  Sound(v)
BY DEF Sound, Heard, Exists, Pending, Writable, Connections

LEMMA BetterOnly ==
  ASSUME NEW w \in Channel, NEW a \in Connections(w), NEW b \in Connections(w),
         Better(w, a, b)
  PROVE  /\ ~BetterState(w, b, a)
         /\ SameState(w, b, a) => Priority[b] <= Priority[a]
<1>1. /\ w.connections[a] \in ConnectionState /\ w.connections[b] \in ConnectionState
      /\ Priority[a] \in Nat /\ Priority[b] \in Nat
  BY FieldTypes, PriorityAssumption
<1>2. /\ w.connections[a].write_state \in Int /\ w.connections[b].write_state \in Int
      /\ w.connections[a].receiving \in BOOLEAN /\ w.connections[b].receiving \in BOOLEAN
  BY <1>1, StateTypes
<1> QED BY <1>1, <1>2 DEF Better, SameState, BetterState

LEMMA FirstIsUnique ==
  ASSUME NEW w \in Channel, NEW cs \in SUBSET Connections(w), NEW a \in cs,
         \A b \in cs \ {a} : Better(w, a, b)
  PROVE  First(w, cs) = a
<1>1. First(w, cs) \in cs /\ \A b \in cs \ {First(w, cs)} : Better(w, First(w, cs), b)
  BY FirstIsBest
<1>2. First(w, cs) # a => Better(w, a, First(w, cs)) /\ Better(w, First(w, cs), a)
  BY <1>1
<1> QED BY <1>1, <1>2, Order

LEMMA TopOfChannel ==
  ASSUME NEW w, Sound(w)
  PROVE  /\ Connections(w) = {} => Top(w) = None /\ w.best_connection = None
         /\ Connections(w) # {} =>
              /\ Top(w) \in Connections(w) /\ Top(w) # None
              /\ \A c \in Connections(w) : c # Top(w) =>
                   /\ Better(w, Top(w), c) /\ ~BetterState(w, c, Top(w))
                   /\ SameState(w, c, Top(w)) => Priority[c] <= Priority[Top(w)]
<1>1. w \in Channel /\ None \notin Connections(w)
  BY FieldTypes DEF Sound
<1>2. CASE Connections(w) = {}
  BY <1>2 DEF Top, First, Sound, Exists
<1>3. CASE Connections(w) # {}
  <2>1. /\ Top(w) \in Connections(w)
        /\ \A c \in Connections(w) \ {Top(w)} : Better(w, Top(w), c)
    BY <1>1, <1>3, FirstIsBest DEF Top
  <2>2. ASSUME NEW c \in Connections(w), c # Top(w)
        PROVE  /\ Better(w, Top(w), c) /\ ~BetterState(w, c, Top(w))
               /\ SameState(w, c, Top(w)) => Priority[c] <= Priority[Top(w)]
    BY <1>1, <2>1, <2>2, BetterOnly
  <2> QED BY <1>1, <1>3, <2>1, <2>2
<1> QED BY <1>2, <1>3

(* A switch makes the choice right, ...                                    *)
LEMMA SwitchedDoes ==
  ASSUME NEW w, Sound(w), ice_role_ \in {"CONTROLLING", "CONTROLLED"}
  PROVE  LET r == Switched(w)
         IN  /\ Sound(r) /\ Chosen(r) /\ r.connections = w.connections
             /\ ~ShouldSwitch(r, r.best_connection, Top(r))
             /\ Connections(r) = Connections(w)
             /\ r.pending_best_connection = w.pending_best_connection
             /\ r.posted = w.posted /\ r.sort_dirty = w.sort_dirty
             /\ r.state = w.state
             /\ (/\ ice_role_ = "CONTROLLED" /\ BestNominated(w)
                 /\ r.best_connection # w.best_connection)
                => BetterState(w, r.best_connection, w.best_connection)
<1> DEFINE r == Switched(w)
<1>1. w \in Channel /\ None \notin Connections(w) /\ Top(w) \in Connections(w) \cup {None}
      /\ w.best_connection \in Connections(w) \cup {None}
      /\ Connections(w) \subseteq Connection
  BY TopOfChannel, FieldTypes DEF Sound, Exists
<1>2. /\ r \in Channel /\ r.connections = w.connections
      /\ r.pending_best_connection = w.pending_best_connection
      /\ r.posted = w.posted /\ r.sort_dirty = w.sort_dirty /\ r.state = w.state
      /\ r.best_connection = IF ShouldSwitch(w, w.best_connection, Top(w)) THEN Top(w)
                             ELSE w.best_connection
  BY <1>1 DEF Switched, Channel
<1> HIDE DEF r
<1>3. Connections(r) = Connections(w)
  BY <1>2 DEF Connections
<1>4. Sound(r)
  BY <1>1, <1>2, <1>3, SoundIsAboutConnections
<1>5. Chosen(r)
  <2> SUFFICES ASSUME NEW c \in Connections(w), c # r.best_connection
               PROVE  /\ r.best_connection # None
                      /\ ~BetterState(w, c, r.best_connection)
                      /\ ice_role_ = "CONTROLLING" /\ SameState(w, c, r.best_connection) =>
                           Priority[c] <= Priority[r.best_connection]
    BY <1>2, <1>3 DEF Chosen, BetterState, SameState
  <2>1. /\ Top(w) \in Connections(w) /\ Top(w) # None
        /\ \A d \in Connections(w) : d # Top(w) =>
             /\ Better(w, Top(w), d) /\ ~BetterState(w, d, Top(w))
             /\ SameState(w, d, Top(w)) => Priority[d] <= Priority[Top(w)]
    BY TopOfChannel
  <2>2. CASE r.best_connection = Top(w)
    BY <2>1, <2>2
  <2>3. CASE r.best_connection # Top(w)
    <3>1. /\ r.best_connection = w.best_connection
          /\ ~ShouldSwitch(w, w.best_connection, Top(w))
      BY <1>2, <2>3
    <3>2. w.best_connection # None /\ w.best_connection \in Connections(w)
      BY <1>1, <2>1, <3>1 DEF ShouldSwitch
    <3>3. /\ ~BetterState(w, Top(w), w.best_connection)
          /\ ice_role_ = "CONTROLLED"
      <4>1. Priority[Top(w)] \in Nat /\ Priority[w.best_connection] \in Nat
        BY <1>1, <2>1, <3>2, PriorityAssumption
      <4>2. Better(w, Top(w), w.best_connection)
        BY <2>1, <2>3, <3>1, <3>2
      <4>3. SameState(w, Top(w), w.best_connection) = SameState(w, w.best_connection, Top(w))
        BY DEF SameState
      <4> QED BY <2>1, <2>3, <3>1, <3>2, <4>1, <4>2, <4>3 DEF ShouldSwitch, Better
    <3>4. ~BetterState(w, c, w.best_connection)
      <4>1. CASE c = Top(w)
        BY <3>3, <4>1
      <4>2. CASE c # Top(w)
        <5>1. ~BetterState(w, c, Top(w)) /\ ~BetterState(w, Top(w), w.best_connection)
          BY <2>1, <3>3, <4>2
        <5>2. /\ w.connections[c] \in ConnectionState
              /\ w.connections[Top(w)] \in ConnectionState
              /\ w.connections[w.best_connection] \in ConnectionState
          BY <1>1, <2>1, <3>2, FieldTypes
        <5> QED BY <5>1, <5>2, StateTypes DEF BetterState
      <4> QED BY <4>1, <4>2
    <3> QED BY <3>1, <3>2, <3>3, <3>4
  <2> QED BY <2>2, <2>3
<1>6. (/\ ice_role_ = "CONTROLLED" /\ BestNominated(w)
       /\ r.best_connection # w.best_connection)
      => BetterState(w, r.best_connection, w.best_connection)
  <2> SUFFICES ASSUME ice_role_ = "CONTROLLED", BestNominated(w),
                      r.best_connection # w.best_connection
               PROVE  BetterState(w, r.best_connection, w.best_connection)
    OBVIOUS
  <2>1. w.best_connection # None /\ w.best_connection \in Connections(w)
        /\ w.connections[w.best_connection].nominated
    BY <1>1 DEF BestNominated
  <2>2. Top(w) # None
    BY <2>1, TopOfChannel
  <2> QED BY <1>2, <2>1, <2>2 DEF ShouldSwitch
<1>7. ~ShouldSwitch(r, r.best_connection, Top(r))
  <2>1. Top(r) = Top(w)
    BY <1>2, <1>3 DEF Top, First, BetterState, SameState
  <2> QED BY <1>2, <2>1 DEF ShouldSwitch, BetterState, SameState
<1> QED BY <1>2, <1>3, <1>4, <1>5, <1>6, <1>7 DEF r

(* ... and a right choice is not switched, unless the controlled side      *)
(* follows the media.                                                      *)
LEMMA ChosenStays ==
  ASSUME NEW w, Sound(w), Chosen(w), ice_role_ \in {"CONTROLLING", "CONTROLLED"}
  PROVE  /\ ~BetterState(w, Top(w), w.best_connection) \/ w.best_connection = None
         /\ w.best_connection = None => Top(w) = None
         /\ MayPrune(w) => ~ShouldSwitch(w, w.best_connection, Top(w))
<1>1. CASE Connections(w) = {}
  BY <1>1, TopOfChannel DEF ShouldSwitch
<1>2. CASE Connections(w) # {}
  <2>1. /\ Top(w) \in Connections(w) /\ Top(w) # None
        /\ \A c \in Connections(w) : c # Top(w) => Better(w, Top(w), c)
    BY <1>2, TopOfChannel
  <2>2. w.best_connection \in Connections(w) /\ w.best_connection # None
    BY <2>1, FieldTypes DEF Chosen, Sound, Exists
  <2>3. CASE Top(w) = w.best_connection
    BY <2>2, <2>3, Order DEF ShouldSwitch, Better, Sound
  <2>4. CASE Top(w) # w.best_connection
    <3>1. Priority[Top(w)] \in Nat /\ Priority[w.best_connection] \in Nat
      BY <2>1, <2>2, FieldTypes, PriorityAssumption DEF Sound
    <3>2. /\ ~BetterState(w, Top(w), w.best_connection)
          /\ ice_role_ = "CONTROLLING" /\ SameState(w, Top(w), w.best_connection) =>
               Priority[Top(w)] <= Priority[w.best_connection]
      BY <2>1, <2>4 DEF Chosen
    <3>3. Better(w, Top(w), w.best_connection)
      BY <2>1, <2>2, <2>4
    <3> QED BY <2>1, <2>2, <2>4, <3>1, <3>2, <3>3
           DEF ShouldSwitch, Better, SameState, MayPrune, BestNominated
  <2> QED BY <2>3, <2>4
<1> QED BY <1>1, <1>2

LEMMA PrunedState ==
  ASSUME NEW s \in ConnectionState
  PROVE  /\ Pruned(s) \in ConnectionState
         /\ Pruned(s).receiving = s.receiving /\ Pruned(s).heard = s.heard
         /\ Pruned(s).nominated = s.nominated
         /\ Pruned(s).pruned = TRUE /\ Pruned(s).write_state = WRITE_TIMEOUT
<1>1. PICK n \in {"none", "open", "cleared"} :
        n = IF s.pings = "open" THEN "cleared" ELSE s.pings
  BY DEF ConnectionState
<1>2. Pruned(s) = [s EXCEPT !.pruned = TRUE, !.write_state = WRITE_TIMEOUT, !.pings = n]
  BY <1>1 DEF Pruned, ConnectionState
<1>3. WRITE_TIMEOUT \in WRITABLE..WRITE_TIMEOUT
  BY DEF WRITABLE, WRITE_TIMEOUT
<1> QED BY <1>2, <1>3 DEF ConnectionState

LEMMA PruneDoes ==
  ASSUME NEW w \in Channel, NEW cs \in SUBSET Connections(w)
  PROVE  LET r == Prune(w, cs)
             hit == Hit(w, cs)
         IN  /\ r \in Channel /\ Connections(r) = Connections(w)
             /\ \A c \in Connection :
                  r.connections[c] = IF c \in hit THEN Pruned(w.connections[c])
                                     ELSE w.connections[c]
             /\ r.best_connection = w.best_connection
             /\ r.pending_best_connection = w.pending_best_connection
             /\ r.state = w.state /\ r.writable = w.writable /\ r.receiving = w.receiving
             /\ w.posted \subseteq r.posted /\ r.posted \subseteq w.posted \cup {Sort}
             /\ Noted(w) => Noted(r)
             /\ hit = {} => r = w
<1> DEFINE hit == Hit(w, cs)
           v == WithPruned(w, hit)
           r == Prune(w, cs)
<1>1. hit \subseteq Connections(w) /\ Connections(w) \subseteq Connection
  BY DEF Hit, Connections
<1>2. \A c \in hit : Pruned(w.connections[c]) \in ConnectionState
  BY <1>1, FieldTypes, PrunedState
<1>3. w.connections \in [Connection -> ConnectionState \cup {None}]
  BY DEF Channel
<1> HIDE DEF hit
<1>4. PICK f : f = [c \in Connection |-> IF c \in hit THEN Pruned(w.connections[c])
                                         ELSE w.connections[c]]
  OBVIOUS
<1>5. f \in [Connection -> ConnectionState \cup {None}]
  BY <1>2, <1>3, <1>4
<1>6. v = [w EXCEPT !.connections = f]
  BY <1>4 DEF WithPruned
<1>7. /\ v \in Channel /\ v.connections = f
      /\ v.best_connection = w.best_connection
      /\ v.pending_best_connection = w.pending_best_connection
      /\ v.state = w.state /\ v.writable = w.writable /\ v.receiving = w.receiving
      /\ v.posted = w.posted /\ v.sort_dirty = w.sort_dirty
  BY <1>5, <1>6 DEF Channel
<1>8. Connections(v) = Connections(w)
  BY <1>1, <1>2, <1>4, <1>7, NoneAssumption DEF Connections
<1>9. r = IF \E c \in hit : Active(w, c) THEN RequestSort(v) ELSE v
  BY DEF Prune, Hit, hit
<1>10. hit = {} => v = w
  <2> SUFFICES ASSUME hit = {} PROVE v = w
    OBVIOUS
  <2>1. f = w.connections
    BY <1>3, <1>4
  <2> QED BY <1>6, <2>1 DEF Channel
<1> HIDE DEF v, r
<1>11. LET q == RequestSort(v)
       IN  /\ q \in Channel /\ q.connections = f /\ Connections(q) = Connections(w)
           /\ q.best_connection = w.best_connection
           /\ q.pending_best_connection = w.pending_best_connection
           /\ q.state = w.state /\ q.writable = w.writable /\ q.receiving = w.receiving
           /\ w.posted \subseteq q.posted /\ q.posted \subseteq w.posted \cup {Sort}
           /\ Noted(w) => Noted(q)
  BY <1>7, <1>8, RequestSortDoes DEF Noted
<1>12. Noted(w) => Noted(v)
  BY <1>7 DEF Noted
<1>13. CASE \E c \in hit : Active(w, c)
  BY <1>4, <1>9, <1>11, <1>13 DEF r, hit
<1>14. CASE ~\E c \in hit : Active(w, c)
  BY <1>4, <1>7, <1>8, <1>9, <1>10, <1>12, <1>14 DEF r, hit
<1> QED BY <1>13, <1>14

LEMMA PremierIs ==
  ASSUME NEW w, Sound(w), NEW c \in Connections(w)
  PROVE  LET p == Premier(w, Network[c])
             on == {d \in Connections(w) : Network[d] = Network[c]}
         IN  /\ p \in on
             /\ w.best_connection \in on => p = w.best_connection
             /\ w.best_connection \notin on => \A d \in on \ {p} : Better(w, p, d)
<1> DEFINE p == Premier(w, Network[c])
           on == {d \in Connections(w) : Network[d] = Network[c]}
<1>1. on \in SUBSET Connections(w) /\ on # {} /\ w \in Channel
  BY DEF Sound
<1>2. p = IF w.best_connection \in on THEN w.best_connection ELSE First(w, on)
  BY DEF Premier
<1> HIDE DEF p, on
<1>3. First(w, on) \in on /\ \A d \in on \ {First(w, on)} : Better(w, First(w, on), d)
  BY <1>1, FirstIsBest
<1>4. /\ p \in on
      /\ w.best_connection \in on => p = w.best_connection
      /\ w.best_connection \notin on => \A d \in on \ {p} : Better(w, p, d)
  BY <1>2, <1>3
<1> QED BY <1>4 DEF p, on

(* Pruning only lowers what is pruned; premier connections and the best    *)
(* one are spared.                                                         *)
LEMMA TrimDoes ==
  ASSUME NEW w, Sound(w), Chosen(w), ice_role_ \in {"CONTROLLING", "CONTROLLED"},
         ~ShouldSwitch(w, w.best_connection, Top(w)), Noted(w)
  PROVE  LET r == Trim(w)
         IN  /\ Sound(r) /\ Chosen(r) /\ Trimmed(r) /\ Noted(r)
             /\ ~ShouldSwitch(r, r.best_connection, Top(r))
             /\ Connections(r) = Connections(w)
             /\ w.posted \subseteq r.posted /\ r.posted \subseteq w.posted \cup {Sort}
             /\ r.best_connection = w.best_connection
             /\ r.state = w.state
             /\ BestNominated(w) => BestNominated(r)
             /\ ~MayPrune(w) => r = w
             /\ \A c \in Connections(w) :
                  ~w.connections[c].pruned /\ r.connections[c].pruned =>
                    \E p \in Connections(w) :
                      Network[p] = Network[c] /\ Priority[p] > Priority[c] /\ ~Weak(r, p)
<1>1. CASE ~MayPrune(w)
  <2>1. Trim(w) = w
    BY <1>1 DEF Trim
  <2> QED BY <1>1, <2>1 DEF Trimmed
<1>2. CASE MayPrune(w)
  <2> DEFINE cs == Prunable(w)
             hit == Hit(w, cs)
             r == Prune(w, cs)
             m(c) == Premier(w, Network[c])
  <2>1. Trim(w) = r
    BY <1>2 DEF Trim, PruneConnections, Prunable
  <2>2. w \in Channel /\ cs \in SUBSET Connections(w) /\ hit \in SUBSET cs
        /\ Connections(w) \subseteq Connection /\ None \notin Connections(w)
    BY FieldTypes DEF Sound, Prunable, Hit
  <2>3. /\ r \in Channel /\ Connections(r) = Connections(w)
        /\ \A c \in Connection :
             r.connections[c] = IF c \in hit THEN Pruned(w.connections[c])
                                ELSE w.connections[c]
        /\ r.best_connection = w.best_connection
        /\ r.pending_best_connection = w.pending_best_connection
        /\ r.state = w.state
        /\ w.posted \subseteq r.posted /\ r.posted \subseteq w.posted \cup {Sort}
        /\ Noted(r)
    BY <2>2, PruneDoes
  <2>4. \A c \in Connections(w) :
          /\ m(c) \in Connections(w) /\ Network[m(c)] = Network[c]
          /\ w.best_connection \in Connections(w) /\ Network[w.best_connection] = Network[c] =>
               m(c) = w.best_connection
          /\ c \in cs => c # m(c) /\ ~Weak(w, m(c)) /\ Priority[m(c)] >= Priority[c]
          /\ c \in hit <=> c \in cs /\ (~w.connections[c].pruned \/ Active(w, c))
    <3> TAKE c \in Connections(w)
    <3>1. /\ m(c) \in Connections(w) /\ Network[m(c)] = Network[c]
          /\ w.best_connection \in Connections(w) /\ Network[w.best_connection] = Network[c] =>
               m(c) = w.best_connection
      BY PremierIs
    <3>2. c \in cs => c # m(c) /\ ~Weak(w, m(c)) /\ Priority[m(c)] >= Priority[c]
      BY DEF Prunable
    <3> QED BY <3>1, <3>2 DEF Hit
  <2>5. \A c \in Connections(w) : m(c) \notin hit
    <3> SUFFICES ASSUME NEW c \in Connections(w), m(c) \in cs PROVE FALSE
      BY <2>2
    <3>1. m(m(c)) = m(c)
      BY <2>4
    <3> QED BY <2>4, <3>1
  <2> HIDE DEF r, cs, hit, m
  <2>6. w.best_connection \notin hit
    BY <2>2, <2>4, <2>5
  <2>7. \A c \in Connections(w) :
          /\ w.connections[c] \in ConnectionState /\ r.connections[c] \in ConnectionState
          /\ r.connections[c].receiving = w.connections[c].receiving
          /\ r.connections[c].heard = w.connections[c].heard
          /\ r.connections[c].nominated = w.connections[c].nominated
          /\ c \in hit => r.connections[c].pruned /\ r.connections[c].write_state = WRITE_TIMEOUT
          /\ c \notin hit => r.connections[c] = w.connections[c]
          /\ w.connections[c].write_state <= r.connections[c].write_state
    <3> TAKE c \in Connections(w)
    <3>1. /\ w.connections[c] \in ConnectionState /\ c \in Connection
          /\ w.connections[c].write_state \in Int /\ w.connections[c].write_state <= 3
      BY <2>2, FieldTypes, StateTypes
    <3>2. /\ Pruned(w.connections[c]) \in ConnectionState
          /\ Pruned(w.connections[c]).receiving = w.connections[c].receiving
          /\ Pruned(w.connections[c]).heard = w.connections[c].heard
          /\ Pruned(w.connections[c]).nominated = w.connections[c].nominated
          /\ Pruned(w.connections[c]).pruned = TRUE
          /\ Pruned(w.connections[c]).write_state = WRITE_TIMEOUT
      BY <3>1, PrunedState
    <3>3. r.connections[c] = IF c \in hit THEN Pruned(w.connections[c]) ELSE w.connections[c]
      BY <2>3, <3>1
    <3>4. WRITE_TIMEOUT = 3
      BY DEF WRITE_TIMEOUT
    <3> QED BY <3>1, <3>2, <3>3, <3>4
  <2>8. Sound(r)
    <3>1. Heard(r)
      <4> SUFFICES ASSUME NEW c \in Connections(w)
                   PROVE  LET s == r.connections[c]
                          IN  s.receiving \/ s.write_state < WRITE_INIT => s.heard
        BY <2>3 DEF Heard
      <4>1. /\ w.connections[c].write_state \in Int /\ r.connections[c].write_state \in Int
            /\ w.connections[c].write_state <= r.connections[c].write_state
        BY <2>7, StateTypes
      <4>2. w.connections[c].receiving \/ w.connections[c].write_state < WRITE_INIT =>
              w.connections[c].heard
        BY DEF Sound, Heard
      <4> QED BY <2>7, <4>1, <4>2 DEF WRITE_INIT
    <3>2. Pending(r)
      <4> SUFFICES ASSUME r.pending_best_connection # None
                   PROVE  /\ ice_role_ = "CONTROLLED"
                          /\ ~Writable(r, r.pending_best_connection)
                          /\ r.connections[r.pending_best_connection].nominated
        BY DEF Pending
      <4>1. PICK c \in Connections(w) : c = r.pending_best_connection
        BY <2>3 DEF Sound, Exists
      <4>2. /\ ice_role_ = "CONTROLLED" /\ w.connections[c].write_state # WRITABLE
            /\ w.connections[c].nominated
        BY <2>3, <4>1 DEF Sound, Pending, Writable
      <4>3. r.connections[c].write_state # WRITABLE
        BY <2>7, <4>2, StateTypes DEF WRITABLE
      <4> QED BY <2>7, <4>1, <4>2, <4>3 DEF Writable
    <3>3. Exists(r)
      BY <2>3 DEF Sound, Exists
    <3> QED BY <2>3, <3>1, <3>2, <3>3 DEF Sound
  <2>9. Chosen(r)
    <3> SUFFICES ASSUME NEW c \in Connections(w), c # w.best_connection
                 PROVE  /\ w.best_connection # None
                        /\ ~BetterState(r, c, w.best_connection)
                        /\ ice_role_ = "CONTROLLING" /\ SameState(r, c, w.best_connection) =>
                             Priority[c] <= Priority[w.best_connection]
      BY <2>3 DEF Chosen
    <3>1. /\ w.best_connection # None
          /\ ~BetterState(w, c, w.best_connection)
          /\ ice_role_ = "CONTROLLING" /\ SameState(w, c, w.best_connection) =>
               Priority[c] <= Priority[w.best_connection]
      BY DEF Chosen
    <3>2. w.best_connection \in Connections(w)
      BY <3>1 DEF Sound, Exists
    <3>3. r.connections[w.best_connection] = w.connections[w.best_connection]
      BY <2>6, <2>7, <3>2
    <3>4. /\ w.connections[c].write_state \in Int /\ r.connections[c].write_state \in Int
          /\ w.connections[w.best_connection].write_state \in Int
          /\ w.connections[c].write_state <= r.connections[c].write_state
          /\ r.connections[c].receiving = w.connections[c].receiving
      BY <2>7, <3>2, StateTypes
    <3>5. CASE c \in hit
      <4>1. PICK b : b = m(c)
        OBVIOUS
      <4>2. b \in Connections(w) /\ ~Weak(w, b)
        BY <2>2, <2>4, <3>5, <4>1
      <4>3. w.connections[b].write_state = 0 /\ w.connections[b].receiving
        BY <4>2 DEF Weak, Writable, WRITABLE
      <4>4. b = w.best_connection \/ ~BetterState(w, b, w.best_connection)
        BY <4>2 DEF Chosen
      <4>5. w.connections[w.best_connection].write_state = 0
        BY <2>7, <3>2, <3>4, <4>3, <4>4, StateTypes DEF BetterState
      <4>6. r.connections[c].write_state = 3
        BY <2>7, <3>5 DEF WRITE_TIMEOUT
      <4>7. ~BetterState(r, c, w.best_connection) /\ BetterState(r, w.best_connection, c)
        BY <3>3, <4>5, <4>6 DEF BetterState
      <4> QED BY <3>1, <4>7 DEF SameState
    <3>6. CASE c \notin hit
      <4>1. r.connections[c] = w.connections[c]
        BY <2>7, <3>6
      <4> QED BY <3>1, <3>3, <4>1 DEF SameState, BetterState
    <3> QED BY <3>5, <3>6
  <2>10. BestNominated(w) <=> BestNominated(r)
    <3>1. w.best_connection # None => w.best_connection \in Connections(w)
      BY DEF Sound, Exists
    <3> QED BY <2>3, <2>7, <3>1 DEF BestNominated
  <2>11. ~ShouldSwitch(r, r.best_connection, Top(r))
    BY <1>2, <2>8, <2>9, <2>10, ChosenStays DEF MayPrune
  <2>12. \A c \in Connections(w) : Premier(r, Network[c]) = m(c)
    <3> TAKE c \in Connections(w)
    <3> DEFINE on == {d \in Connections(w) : Network[d] = Network[c]}
    <3>1. CASE w.best_connection \in on
      BY <2>3, <2>4, <3>1 DEF Premier
    <3>2. CASE w.best_connection \notin on
      <4>1. Premier(r, Network[c]) = First(r, on)
        BY <2>3, <3>2 DEF Premier
      <4>2. m(c) \in on /\ \A d \in on \ {m(c)} : Better(w, m(c), d)
        BY <3>2, PremierIs DEF m
      <4>3. r.connections[m(c)] = w.connections[m(c)]
        BY <2>4, <2>5, <2>7
      <4>4. ASSUME NEW d \in on \ {m(c)} PROVE Better(r, m(c), d)
        <5>1. CASE d \in hit
          <6>1. m(d) = m(c)
            BY DEF m
          <6>2. w.connections[m(c)].write_state = 0
            BY <2>2, <2>4, <5>1, <6>1 DEF Weak, Writable, WRITABLE
          <6>3. r.connections[d].write_state = 3
            BY <2>7, <5>1 DEF WRITE_TIMEOUT
          <6> QED BY <4>3, <6>2, <6>3 DEF Better, BetterState
        <5>2. CASE d \notin hit
          <6>1. r.connections[d] = w.connections[d] /\ Better(w, m(c), d)
            BY <2>7, <4>2, <5>2
          <6> QED BY <4>3, <6>1 DEF Better, SameState, BetterState
        <5> QED BY <5>1, <5>2
      <4> HIDE DEF on
      <4>5. on \in SUBSET Connections(r)
        BY <2>3 DEF on
      <4> QED BY <2>3, <4>1, <4>2, <4>4, <4>5, FirstIsUnique
    <3> QED BY <3>1, <3>2
  <2>13. Trimmed(r)
    <3> SUFFICES ASSUME NEW c \in Connections(w), c # m(c), ~Weak(r, m(c)),
                        Priority[m(c)] >= Priority[c]
                 PROVE  r.connections[c].pruned /\ ~Active(r, c)
      BY <2>3, <2>12 DEF Trimmed, Prunable
    <3>1. r.connections[m(c)] = w.connections[m(c)]
      BY <2>4, <2>5, <2>7
    <3>2. ~Weak(w, m(c))
      BY <3>1 DEF Weak, Writable
    <3>3. c \in cs
      BY <3>2 DEF cs, m, Prunable
    <3>4. CASE c \in hit
      BY <2>7, <3>4 DEF Active
    <3>5. CASE c \notin hit
      BY <2>4, <2>7, <3>3, <3>5 DEF Active
    <3> QED BY <3>4, <3>5
  <2>14. ASSUME NEW c \in Connections(w), ~w.connections[c].pruned, r.connections[c].pruned
         PROVE  \E p \in Connections(w) :
                  Network[p] = Network[c] /\ Priority[p] > Priority[c] /\ ~Weak(r, p)
    <3>1. c \in hit
      BY <2>7, <2>14
    <3>2. /\ m(c) \in Connections(w) /\ Network[m(c)] = Network[c]
          /\ c # m(c) /\ ~Weak(w, m(c)) /\ Priority[m(c)] >= Priority[c]
      BY <2>2, <2>4, <3>1
    <3>3. r.connections[m(c)] = w.connections[m(c)]
      BY <2>4, <2>5, <2>7
    <3>4. Priority[m(c)] > Priority[c]
      BY <2>2, <3>2, PriorityAssumption
    <3> QED BY <3>2, <3>3, <3>4 DEF Weak, Writable
  <2>15. r = Trim(w)
    BY <2>1
  <2> QED BY <1>2, <2>3, <2>8, <2>9, <2>10, <2>11, <2>13, <2>14, <2>15
<1> QED BY <1>1, <1>2


(* What depends on the connections and the best of them only.              *)
LEMMA Alike ==
  ASSUME NEW w, NEW v, v.connections = w.connections,
         v.best_connection = w.best_connection
  PROVE  /\ Connections(v) = Connections(w)
         /\ Chosen(w) => Chosen(v)
         /\ Trimmed(w) => Trimmed(v)
         /\ ~ShouldSwitch(w, w.best_connection, Top(w)) =>
              ~ShouldSwitch(v, v.best_connection, Top(v))
         /\ BestNominated(w) <=> BestNominated(v)
         /\ \A c : Weak(v, c) <=> Weak(w, c)
         /\ \A c : Active(v, c) <=> Active(w, c)
         /\ \A a, b : BetterState(v, a, b) <=> BetterState(w, a, b)
<1>1. Connections(v) = Connections(w)
  BY DEF Connections
<1>2. /\ \A a, b : BetterState(v, a, b) <=> BetterState(w, a, b)
      /\ \A a, b : SameState(v, a, b) <=> SameState(w, a, b)
      /\ \A c : Weak(v, c) <=> Weak(w, c)
      /\ \A c : Active(v, c) <=> Active(w, c)
      /\ BestNominated(w) <=> BestNominated(v)
  BY DEF BetterState, SameState, Weak, Writable, Active, BestNominated
<1>3. Top(v) = Top(w)
  BY <1>1 DEF Top, First, BetterState, SameState
<1>4. Prunable(v) = Prunable(w)
  BY <1>1 DEF Prunable, Premier, First, BetterState, SameState, Weak, Writable
<1>5. Chosen(w) => Chosen(v)
  BY <1>1, <1>2 DEF Chosen
<1>6. Trimmed(w) => Trimmed(v)
  BY <1>2, <1>4 DEF Trimmed, MayPrune
<1>7. ~ShouldSwitch(w, w.best_connection, Top(w)) =>
        ~ShouldSwitch(v, v.best_connection, Top(v))
  BY <1>2, <1>3 DEF ShouldSwitch
<1> QED BY <1>1, <1>2, <1>5, <1>6, <1>7

LEMMA HandleAllTimedOutDoes ==
  ASSUME NEW w, Sound(w)
  PROVE  LET r == HandleAllTimedOut(w)
         IN  /\ Sound(r) /\ TimedOutGo(r) /\ r.connections = w.connections
             /\ Connections(r) = Connections(w)
             /\ r.best_connection = w.best_connection
             /\ w.posted \subseteq r.posted /\ r.sort_dirty = w.sort_dirty
             /\ r.state = w.state
             /\ Noted(w) => Noted(r)
             /\ TimedOutGo(w) => r = w
<1> DEFINE all == \A c \in Connections(w) : ~Active(w, c)
           d == Destroy(w, Connections(w))
           r == HandleAllTimedOut(w)
<1>1. r = IF all THEN d ELSE w
  BY DEF HandleAllTimedOut
<1>2. /\ Step(w, d) /\ d.connections = w.connections
      /\ d.posted = w.posted \cup Connections(w)
      /\ d.best_connection = w.best_connection
  BY DestroySteps
<1>3. d.sort_dirty = w.sort_dirty /\ d.state = w.state
  BY DEF Destroy, Sound, Channel
<1>4. TimedOutGo(w) /\ all => d = w
  <2> SUFFICES ASSUME TimedOutGo(w), all PROVE d = w
    OBVIOUS
  <2>1. w.posted \cup Connections(w) = w.posted
    BY DEF TimedOutGo
  <2> QED BY <2>1 DEF Destroy, Sound, Channel
<1>5. CASE all
  <2>1. Sound(d) /\ Connections(d) = Connections(w)
    BY <1>2 DEF Step
  <2>2. TimedOutGo(d)
    BY <1>2, <2>1 DEF TimedOutGo
  <2>3. Noted(w) => Noted(d)
    BY <1>2, <1>3 DEF Noted
  <2> HIDE DEF d, all
  <2> QED BY <1>1, <1>2, <1>3, <1>4, <1>5, <2>1, <2>2, <2>3
<1>6. CASE ~all
  <2>1. TimedOutGo(w)
    BY <1>6 DEF TimedOutGo
  <2> QED BY <1>1, <1>6, <2>1
<1> QED BY <1>5, <1>6

LEMMA UpdateStateDoes ==
  ASSUME NEW w, Sound(w)
  PROVE  LET r == UpdateState(w)
         IN  /\ Sound(r) /\ Reported(r) /\ r.connections = w.connections
             /\ Connections(r) = Connections(w)
             /\ r.best_connection = w.best_connection
             /\ r.posted = w.posted /\ r.sort_dirty = w.sort_dirty
             /\ Reported(w) => r = w
<1> DEFINE r == UpdateState(w)
           active(v) == {c \in Connections(v) : Active(v, c)}
<1>1. w \in Channel
  BY DEF Sound
<1>2. PICK s : s = ComputeState(w)
  OBVIOUS
<1>3. s \in {"INIT", "CONNECTING", "COMPLETED", "FAILED"}
  BY <1>2 DEF ComputeState
<1>4. PICK b \in BOOLEAN : b <=> (w.best_connection # None /\ Writable(w, w.best_connection))
  <2>1. CASE w.best_connection # None /\ Writable(w, w.best_connection)
    BY <2>1
  <2>2. CASE ~(w.best_connection # None /\ Writable(w, w.best_connection))
    BY <2>2
  <2> QED BY <2>1, <2>2
<1>5. PICK g \in BOOLEAN : g <=> \E c \in Connections(w) : w.connections[c].receiving
  <2>1. CASE \E c \in Connections(w) : w.connections[c].receiving
    BY <2>1
  <2>2. CASE ~\E c \in Connections(w) : w.connections[c].receiving
    BY <2>2
  <2> QED BY <2>1, <2>2
<1>6. r = [w EXCEPT !.state = s, !.writable = b, !.receiving = g]
  <2>1. b = (w.best_connection # None /\ Writable(w, w.best_connection))
    BY <1>4, Zenon
  <2>2. g = (\E c \in Connections(w) : w.connections[c].receiving)
    BY <1>5, Zenon
  <2> QED BY <1>2, <2>1, <2>2, Zenon DEF UpdateState
<1>7. /\ r \in Channel /\ r.connections = w.connections
      /\ r.best_connection = w.best_connection
      /\ r.pending_best_connection = w.pending_best_connection
      /\ r.posted = w.posted /\ r.sort_dirty = w.sort_dirty
      /\ r.state = s /\ r.writable = b /\ r.receiving = g
  BY <1>1, <1>3, <1>6 DEF Channel
<1> HIDE DEF r
<1>8. Connections(r) = Connections(w)
  BY <1>7 DEF Connections
<1>9. Sound(r)
  <2>1. w.best_connection \in Connections(w) \cup {None}
    BY DEF Sound, Exists
  <2> QED BY <1>7, <2>1, SoundIsAboutConnections
<1>10. active(r) = active(w)
  BY <1>7, <1>8 DEF Active
<1>11. ComputeState(r) = s
  <2>1. /\ Connections(w) = {} => active(w) = {}
        /\ Connections(w) = {} /\ w.state = "INIT" => s = "INIT"
        /\ active(w) = {} /\ ~(Connections(w) = {} /\ w.state = "INIT") => s = "FAILED"
        /\ active(w) # {} =>
             s = IF \E c, d \in active(w) : c # d /\ Network[c] = Network[d]
                 THEN "CONNECTING" ELSE "COMPLETED"
    BY <1>2 DEF ComputeState
  <2>2. /\ Connections(r) = {} /\ r.state = "INIT" => ComputeState(r) = "INIT"
        /\ active(r) = {} /\ ~(Connections(r) = {} /\ r.state = "INIT") =>
             ComputeState(r) = "FAILED"
        /\ active(r) # {} /\ Connections(r) # {} =>
             ComputeState(r) = IF \E c, d \in active(r) : c # d /\ Network[c] = Network[d]
                               THEN "CONNECTING" ELSE "COMPLETED"
    BY DEF ComputeState
  <2> HIDE DEF active
  <2> QED BY <1>7, <1>8, <1>10, <2>1, <2>2
<1>12. Reported(r)
  <2>1. r.state = ComputeState(r)
    BY <1>7, <1>11
  <2>2. r.writable = (r.best_connection # None /\ Writable(r, r.best_connection))
    BY <1>4, <1>7 DEF Writable
  <2>3. r.receiving = (\E c \in Connections(r) : r.connections[c].receiving)
    BY <1>5, <1>7, <1>8
  <2> QED BY <2>1, <2>2, <2>3 DEF Reported
<1>13. Reported(w) => r = w
  <2> SUFFICES ASSUME Reported(w) PROVE r = w
    OBVIOUS
  <2>1. w.state = s /\ w.writable = b /\ w.receiving = g
    BY <1>1, <1>2, <1>4, <1>5 DEF Reported, Channel
  <2> QED BY <1>1, <1>6, <2>1 DEF Channel
<1> QED BY <1>7, <1>8, <1>9, <1>12, <1>13 DEF r

(* A sort leaves the channel as it should be.                              *)
LEMMA ResortDoes ==
  ASSUME NEW w, Sound(w), ice_role_ \in {"CONTROLLING", "CONTROLLED"}
  PROVE  LET r == Resort(w)
         IN  /\ Sound(r) /\ Settled(r) /\ Chosen(r) /\ Reported(r) /\ TimedOutGo(r)
             /\ Trimmed(r) /\ ~ShouldSwitch(r, r.best_connection, Top(r))
             /\ Connections(r) = Connections(w)
             /\ (/\ ice_role_ = "CONTROLLED" /\ BestNominated(w)
                 /\ r.best_connection # w.best_connection)
                => \/ BestNominated(r)
                   \/ BetterState(r, r.best_connection, w.best_connection)
             /\ \A c \in Connections(w) :
                  ~w.connections[c].pruned /\ r.connections[c].pruned =>
                    \E p \in Connections(w) :
                      Network[p] = Network[c] /\ Priority[p] > Priority[c] /\ ~Weak(r, p)
<1>1. PICK u : u = Clean(w)
  OBVIOUS
<1>2. /\ u \in Channel /\ u.connections = w.connections /\ Connections(u) = Connections(w)
      /\ u.best_connection = w.best_connection
      /\ u.pending_best_connection = w.pending_best_connection
      /\ u.posted = w.posted /\ u.sort_dirty = FALSE
  BY <1>1, CleanDoes DEF Sound
<1>3. Sound(u)
  BY <1>2, SoundIsAboutConnections DEF Sound, Exists
<1>4. PICK v : v = Switched(u)
  OBVIOUS
<1>5. /\ Sound(v) /\ Chosen(v) /\ v.connections = w.connections
      /\ ~ShouldSwitch(v, v.best_connection, Top(v))
      /\ Connections(v) = Connections(w)
      /\ v.sort_dirty = FALSE
      /\ (/\ ice_role_ = "CONTROLLED" /\ BestNominated(u)
          /\ v.best_connection # u.best_connection)
         => BetterState(u, v.best_connection, u.best_connection)
  BY <1>2, <1>3, <1>4, SwitchedDoes
<1>6. Noted(v)
  BY <1>5 DEF Noted
<1>7. PICK p : p = Trim(v)
  OBVIOUS
<1>8. /\ Sound(p) /\ Chosen(p) /\ Trimmed(p) /\ Noted(p)
      /\ ~ShouldSwitch(p, p.best_connection, Top(p))
      /\ Connections(p) = Connections(w)
      /\ p.best_connection = v.best_connection
      /\ BestNominated(v) => BestNominated(p)
      /\ ~MayPrune(v) => p = v
      /\ \A c \in Connections(w) :
           ~v.connections[c].pruned /\ p.connections[c].pruned =>
             \E d \in Connections(w) :
               Network[d] = Network[c] /\ Priority[d] > Priority[c] /\ ~Weak(p, d)
  BY <1>5, <1>6, <1>7, TrimDoes
<1>9. PICK h : h = HandleAllTimedOut(p)
  OBVIOUS
<1>10. /\ Sound(h) /\ TimedOutGo(h) /\ h.connections = p.connections
       /\ h.best_connection = p.best_connection /\ Noted(h)
  BY <1>8, <1>9, HandleAllTimedOutDoes
<1>11. PICK r : r = UpdateState(h)
  OBVIOUS
<1>12. /\ Sound(r) /\ Reported(r) /\ r.connections = h.connections
       /\ Connections(r) = Connections(h)
       /\ r.best_connection = h.best_connection
       /\ r.posted = h.posted /\ r.sort_dirty = h.sort_dirty
  BY <1>10, <1>11, UpdateStateDoes
<1>13. r.connections = p.connections /\ r.best_connection = p.best_connection
  BY <1>10, <1>12
<1>14. /\ Connections(r) = Connections(w) /\ Chosen(r) /\ Trimmed(r)
       /\ ~ShouldSwitch(r, r.best_connection, Top(r))
       /\ BestNominated(p) <=> BestNominated(r)
       /\ \A c : Weak(r, c) <=> Weak(p, c)
  BY <1>8, <1>13, Alike
<1>15. TimedOutGo(r)
  BY <1>10, <1>12 DEF TimedOutGo, Active
<1>16. Settled(r)
  BY <1>10, <1>12, <1>14, <1>15 DEF Settled, Noted, Sound, Channel
<1>17. ASSUME ice_role_ = "CONTROLLED", BestNominated(w), r.best_connection # w.best_connection
       PROVE  BestNominated(r) \/ BetterState(r, r.best_connection, w.best_connection)
  <2>1. BetterState(u, v.best_connection, u.best_connection)
    BY <1>2, <1>5, <1>8, <1>13, <1>17 DEF BestNominated
  <2>2. CASE BestNominated(v)
    BY <1>8, <1>14, <2>2
  <2>3. CASE ~BestNominated(v)
    <3>1. r.connections = u.connections
      BY <1>2, <1>5, <1>8, <1>13, <1>17, <2>3 DEF MayPrune
    <3> QED BY <1>2, <1>8, <1>13, <2>1, <3>1 DEF BetterState
  <2> QED BY <2>2, <2>3
<1>18. ASSUME NEW c \in Connections(w), ~w.connections[c].pruned, r.connections[c].pruned
       PROVE  \E d \in Connections(w) :
                Network[d] = Network[c] /\ Priority[d] > Priority[c] /\ ~Weak(r, d)
  BY <1>5, <1>8, <1>13, <1>14, <1>18
<1>19. r = Resort(w)
  BY <1>1, <1>4, <1>7, <1>9, <1>11, ResortParts
<1> QED BY <1>12, <1>14, <1>15, <1>16, <1>17, <1>18, <1>19

(* Another sort changes nothing.                                           *)
LEMMA ResortStays ==
  ASSUME NEW w, Sound(w), Reported(w), TimedOutGo(w), Trimmed(w),
         ~ShouldSwitch(w, w.best_connection, Top(w)), w.sort_dirty = FALSE
  PROVE  Resort(w) = w
<1>1. w \in Channel
  BY DEF Sound
<1>2. Clean(w) = w
  BY <1>1 DEF Clean, Channel
<1>3. Switched(w) = w
  BY DEF Switched
<1>4. Trim(w) = w
  <2>1. CASE ~MayPrune(w)
    BY <2>1 DEF Trim
  <2>2. CASE MayPrune(w)
    <3>1. Trim(w) = Prune(w, Prunable(w))
      BY <2>2 DEF Trim, PruneConnections, Prunable
    <3>2. Hit(w, Prunable(w)) = {}
      BY <2>2 DEF Hit, Trimmed
    <3>3. Prunable(w) \in SUBSET Connections(w)
      BY DEF Prunable
    <3> QED BY <1>1, <3>1, <3>2, <3>3, PruneDoes
  <2> QED BY <2>1, <2>2
<1>5. HandleAllTimedOut(w) = w
  BY HandleAllTimedOutDoes
<1>6. UpdateState(w) = w
  BY UpdateStateDoes
<1> QED BY <1>2, <1>3, <1>4, <1>5, <1>6, ResortParts

---------------------------------------------------------------------------
(* The handlers.                                                           *)

(* What any handler does: the invariant, and the two action properties.    *)
StaysNominated(w, r) ==
  (/\ ice_role_ = "CONTROLLED" /\ BestNominated(w)
   /\ r.best_connection # w.best_connection)
  => \/ w.best_connection \notin Connections(r)
     \/ BestNominated(r)
     \/ BetterState(r, r.best_connection, w.best_connection)

PrunesForBetter(w, r) ==
  \A c \in Connections(w) \cap Connections(r) :
    ~w.connections[c].pruned /\ r.connections[c].pruned =>
      \E p \in Connections(r) :
        Network[p] = Network[c] /\ Priority[p] > Priority[c] /\ ~Weak(r, p)

Handled(w, r) ==
  Sound(r) /\ Settled(r) /\ StaysNominated(w, r) /\ PrunesForBetter(w, r)

LEMMA StepHandles ==
  ASSUME NEW w, NEW v, Sound(w), Settled(w), Step(w, v)
  PROVE  Handled(w, v)
<1>1. Settled(v) /\ Sound(v)
  BY StepKeepsSettled DEF Step
<1>2. StaysNominated(w, v)
  BY DEF Step, Follows, StaysNominated
<1>3. PrunesForBetter(w, v)
  BY DEF Step, PrunesForBetter
<1> QED BY <1>1, <1>2, <1>3 DEF Handled

(* What comes before a sort leaves the best connection as it is.           *)
Prepared(w, v) ==
  /\ Connections(w) \subseteq Connections(v)
  /\ v.best_connection = w.best_connection
  /\ \A c \in Connections(w) :
       /\ w.connections[c].nominated => v.connections[c].nominated
       /\ v.connections[c].pruned = w.connections[c].pruned

LEMMA SortConnectionsHandles ==
  ASSUME NEW w, Sound(w), NEW v, Sound(v), Prepared(w, v), NEW u \in Updated(v),
         NEW r, r = Resort(u), ice_role_ \in {"CONTROLLING", "CONTROLLED"}
  PROVE  Handled(w, r)
<1>1. Step(v, u) /\ u.best_connection = v.best_connection
  BY UpdateSteps
<1>2. Sound(u) /\ Connections(u) = Connections(v)
  BY <1>1 DEF Step
<1>3. /\ Sound(r) /\ Settled(r) /\ Connections(r) = Connections(v)
      /\ (/\ ice_role_ = "CONTROLLED" /\ BestNominated(u)
          /\ r.best_connection # u.best_connection)
         => \/ BestNominated(r)
            \/ BetterState(r, r.best_connection, u.best_connection)
      /\ \A c \in Connections(v) :
           ~u.connections[c].pruned /\ r.connections[c].pruned =>
             \E p \in Connections(v) :
               Network[p] = Network[c] /\ Priority[p] > Priority[c] /\ ~Weak(r, p)
  BY <1>2, ResortDoes
<1>4. BestNominated(w) => BestNominated(u)
  <2>1. BestNominated(w) => BestNominated(v)
    BY DEF Prepared, BestNominated, Sound, Exists
  <2> QED BY <1>1, <2>1, StepKeepsNomination
<1>5. StaysNominated(w, r)
  BY <1>1, <1>3, <1>4 DEF StaysNominated, Prepared
<1>6. PrunesForBetter(w, r)
  BY <1>1, <1>3 DEF PrunesForBetter, Prepared, Step
<1> QED BY <1>3, <1>5, <1>6 DEF Handled

LEMMA NewConnectionType ==
  /\ NewConnection \in ConnectionState /\ NewConnection.write_state = WRITE_INIT
  /\ NewConnection.receiving = FALSE /\ NewConnection # None
<1>1. WRITE_INIT \in WRITABLE..WRITE_TIMEOUT
  BY DEF WRITABLE, WRITE_TIMEOUT, WRITE_INIT
<1>2. NewConnection \in ConnectionState
  BY <1>1 DEF NewConnection, ConnectionState
<1> QED BY <1>2, NoneAssumption DEF NewConnection

LEMMA Grown ==
  ASSUME NEW w, Sound(w), NEW v \in Channel, NEW cs \in SUBSET (Connection \ Connections(w)),
         \A c \in Connection : v.connections[c] = IF c \in cs THEN NewConnection
                                                  ELSE w.connections[c],
         v.best_connection = w.best_connection, v.posted = w.posted,
         v.pending_best_connection = w.pending_best_connection
  PROVE  Sound(v) /\ Prepared(w, v) /\ Connections(v) = Connections(w) \cup cs
<1>1. Connections(v) = Connections(w) \cup cs /\ Connections(w) \subseteq Connection
  BY NewConnectionType DEF Connections
<1>2. \A c \in Connections(w) : v.connections[c] = w.connections[c]
  BY <1>1
<1>3. \A c \in cs : v.connections[c] = NewConnection
  OBVIOUS
<1>4. Heard(v)
  <2> SUFFICES ASSUME NEW c \in Connections(v)
               PROVE  LET s == v.connections[c]
                      IN  s.receiving \/ s.write_state < WRITE_INIT => s.heard
    BY DEF Heard
  <2>1. CASE c \in cs
    <3>1. v.connections[c].write_state = WRITE_INIT /\ v.connections[c].receiving = FALSE
      BY <1>3, <2>1, NewConnectionType
    <3> QED BY <3>1 DEF WRITE_INIT
  <2>2. CASE c \in Connections(w)
    BY <1>2, <2>2 DEF Sound, Heard
  <2> QED BY <1>1, <2>1, <2>2
<1>5. Exists(v)
  BY <1>1 DEF Sound, Exists
<1>6. Pending(v)
  BY <1>2 DEF Sound, Exists, Pending, Writable
<1>7. Prepared(w, v)
  BY <1>1, <1>2 DEF Prepared
<1> QED BY <1>1, <1>4, <1>5, <1>6, <1>7 DEF Sound

LEMMA AddRemoteCandidateHandles ==
  ASSUME IInv, AddRemoteCandidate
  PROVE  \E r : ch' = r /\ Handled(ch, r)
<1>1. PICK cs \in SUBSET (Connection \ Connections(ch)) :
        SortConnections(CreateConnections(ch, cs))
  BY DEF AddRemoteCandidate
<1>2. PICK f : f = [c \in Connection |-> IF c \in cs THEN NewConnection
                                         ELSE ch.connections[c]]
  OBVIOUS
<1>3. PICK v : v = CreateConnections(ch, cs)
  OBVIOUS
<1>4. /\ v \in Channel /\ v.connections = f
      /\ v.best_connection = ch.best_connection /\ v.posted = ch.posted
      /\ v.pending_best_connection = ch.pending_best_connection
  <2>1. v = [ch EXCEPT !.connections = f]
    BY <1>2, <1>3 DEF CreateConnections
  <2>2. f \in [Connection -> ConnectionState \cup {None}]
    BY <1>2, NewConnectionType DEF IInv, Sound, Channel
  <2> QED BY <2>1, <2>2 DEF IInv, Sound, Channel
<1>5. Sound(v) /\ Prepared(ch, v)
  BY <1>2, <1>4, Grown DEF IInv
<1>6. PICK u \in Updated(v) : ch' = Resort(u)
  BY <1>1, <1>3 DEF SortConnections
<1>7. PICK r : r = Resort(u)
  OBVIOUS
<1>8. Handled(ch, r)
  BY <1>5, <1>7, SortConnectionsHandles DEF IInv
<1> QED BY <1>6, <1>7, <1>8

LEMMA OnUnknownAddressHandles ==
  ASSUME IInv, OnUnknownAddress
  PROVE  \E r : ch' = r /\ Handled(ch, r)
<1>1. PICK c \in Connection \ Connections(ch), use_candidate \in BOOLEAN :
        SortConnections(HandleBindingRequest(AddConnection(ch, c), c, use_candidate))
  BY DEF OnUnknownAddress
<1>2. PICK v : v = AddConnection(ch, c)
  OBVIOUS
<1>3. v = Replaced(ch, c, NewConnection)
  BY <1>2 DEF AddConnection, Replaced
<1>4. /\ v \in Channel /\ v.connections[c] = NewConnection
      /\ \A d \in Connection : d # c => v.connections[d] = ch.connections[d]
      /\ v.best_connection = ch.best_connection /\ v.posted = ch.posted
      /\ v.pending_best_connection = ch.pending_best_connection
  BY <1>3, NewConnectionType, ReplaceConnection DEF IInv, Sound
<1>5. Sound(v) /\ Prepared(ch, v) /\ Connections(v) = Connections(ch) \cup {c}
  <2>1. \A d \in Connection : v.connections[d] = IF d \in {c} THEN NewConnection
                                                 ELSE ch.connections[d]
    BY <1>4
  <2>2. {c} \in SUBSET (Connection \ Connections(ch))
    OBVIOUS
  <2> QED BY <1>4, <2>1, <2>2, Grown DEF IInv
<1>6. PICK h : h = HandleBindingRequest(v, c, use_candidate)
  OBVIOUS
<1>7. Step(v, h) /\ h.best_connection = v.best_connection
  <2>1. v.connections[c].write_state = WRITE_INIT /\ c \in Connections(v)
    BY <1>4, <1>5, NewConnectionType
  <2> QED BY <1>5, <1>6, <2>1, HandleBindingRequestSteps
<1>8. Sound(h) /\ Prepared(ch, h)
  BY <1>5, <1>7 DEF Step, Prepared
<1>9. PICK u \in Updated(h) : ch' = Resort(u)
  BY <1>1, <1>2, <1>6 DEF SortConnections
<1>10. PICK r : r = Resort(u)
  OBVIOUS
<1>11. Handled(ch, r)
  BY <1>8, <1>10, SortConnectionsHandles DEF IInv
<1> QED BY <1>9, <1>10, <1>11

Unposted(w) == [w EXCEPT !.posted = @ \ {Sort}]

LEMMA UnpostedDoes ==
  ASSUME NEW w, Sound(w)
  PROVE  LET v == Unposted(w)
         IN  /\ Sound(v) /\ v.connections = w.connections
             /\ v.best_connection = w.best_connection
             /\ v.posted = w.posted \ {Sort} /\ v.sort_dirty = w.sort_dirty
             /\ v.state = w.state /\ v.writable = w.writable /\ v.receiving = w.receiving
<1> DEFINE v == Unposted(w)
<1>1. /\ v \in Channel /\ v.connections = w.connections
      /\ v.best_connection = w.best_connection
      /\ v.pending_best_connection = w.pending_best_connection
      /\ v.posted = w.posted \ {Sort} /\ v.sort_dirty = w.sort_dirty
      /\ v.state = w.state /\ v.writable = w.writable /\ v.receiving = w.receiving
  BY DEF Sound, Unposted, Channel
<1> HIDE DEF v
<1>2. w.best_connection \in Connections(w) \cup {None}
  BY DEF Sound, Exists
<1>3. Sound(v)
  BY <1>1, <1>2, SoundIsAboutConnections
<1> QED BY <1>1, <1>3 DEF v

LEMMA OnSortHandles ==
  ASSUME IInv, OnSort
  PROVE  \E r : ch' = r /\ Handled(ch, r)
<1>1. PICK v : v = Unposted(ch)
  OBVIOUS
<1>2. Sound(v) /\ v.connections = ch.connections /\ v.best_connection = ch.best_connection
  BY <1>1, UnpostedDoes DEF IInv
<1>3. Prepared(ch, v)
  BY <1>2 DEF Prepared, Connections
<1>4. PICK u \in Updated(v) : ch' = Resort(u)
  BY <1>1 DEF OnSort, SortConnections, Unposted
<1>5. PICK r : r = Resort(u)
  OBVIOUS
<1>6. Handled(ch, r)
  BY <1>2, <1>3, <1>5, SortConnectionsHandles DEF IInv
<1> QED BY <1>4, <1>5, <1>6

LEMMA PingSteps ==
  ASSUME NEW w, Sound(w), NEW c \in Connections(w), NEW p \in {"none", "open", "cleared"}
  PROVE  Step(w, [w EXCEPT !.connections[c].pings = p])
<1>1. w.connections[c] \in ConnectionState /\ c \in Connection
  BY FieldTypes DEF Sound
<1>2. PICK t : t = [w.connections[c] EXCEPT !.pings = p]
  OBVIOUS
<1>3. /\ t \in ConnectionState
      /\ t.write_state = w.connections[c].write_state
      /\ t.receiving = w.connections[c].receiving /\ t.heard = w.connections[c].heard
      /\ t.nominated = w.connections[c].nominated /\ t.pruned = w.connections[c].pruned
  BY <1>1, <1>2 DEF ConnectionState
<1>4. Step(w, Replaced(w, c, t))
  BY <1>3, QuietChange
<1>5. Replaced(w, c, t) = [w EXCEPT !.connections[c].pings = p]
  BY <1>1, <1>2 DEF Replaced, Sound, Channel
<1> QED BY <1>4, <1>5

LEMMA OnCheckAndPingHandles ==
  ASSUME IInv, OnCheckAndPing
  PROVE  \E r : ch' = r /\ Handled(ch, r)
<1>1. PICK v \in Updated(ch) :
        ch' = v \/ \E c \in Pingable(v) : ch' = [v EXCEPT !.connections[c].pings = "open"]
  BY DEF OnCheckAndPing
<1>2. Step(ch, v) /\ Sound(v)
  BY UpdateSteps DEF IInv, Step
<1>3. CASE ch' = v
  BY <1>2, <1>3, StepHandles DEF IInv
<1>4. CASE \E c \in Pingable(v) : ch' = [v EXCEPT !.connections[c].pings = "open"]
  <2>1. PICK c \in Connections(v) : ch' = [v EXCEPT !.connections[c].pings = "open"]
    BY <1>4 DEF Pingable
  <2>2. PICK r : r = [v EXCEPT !.connections[c].pings = "open"]
    OBVIOUS
  <2>3. Step(v, r)
    BY <1>2, <2>2, PingSteps
  <2>4. Step(ch, r)
    BY <1>2, <2>3, StepsCompose DEF IInv
  <2> QED BY <2>1, <2>2, <2>4, StepHandles DEF IInv
<1> QED BY <1>1, <1>3, <1>4

LEMMA ReceivePingHandles ==
  ASSUME IInv, NEW c \in Connections(ch), ReceivePing(c)
  PROVE  \E r : ch' = r /\ Handled(ch, r)
<1>1. PICK use_candidate \in BOOLEAN : ch' = HandleBindingRequest(ch, c, use_candidate)
  BY DEF ReceivePing
<1>2. PICK r : r = HandleBindingRequest(ch, c, use_candidate)
  OBVIOUS
<1>3. Step(ch, r)
  BY <1>2, HandleBindingRequestSteps DEF IInv
<1> QED BY <1>1, <1>2, <1>3, StepHandles DEF IInv

LEMMA ReceivePingResponseHandles ==
  ASSUME IInv, NEW c \in Connections(ch), ReceivePingResponse(c)
  PROVE  \E r : ch' = r /\ Handled(ch, r)
<1>1. PICK v : v = SetReceiving(ch, c)
  OBVIOUS
<1>2. Step(ch, v) /\ v.connections[c].heard
  <2>1. /\ Step(ch, v)
        /\ v.connections[c] = [ch.connections[c] EXCEPT !.receiving = TRUE, !.heard = TRUE]
    BY <1>1, SetReceivingSteps DEF IInv
  <2>2. ch.connections[c] \in ConnectionState
    BY FieldTypes DEF IInv, Sound
  <2> QED BY <2>1, <2>2 DEF ConnectionState
<1>3. Sound(v) /\ c \in Connections(v)
  BY <1>2 DEF Step
<1>4. PICK u : u = SetWriteState(v, c, WRITABLE)
  OBVIOUS
<1>5. Step(v, u)
  <2>1. WRITABLE \in WRITABLE..WRITE_TIMEOUT
    BY DEF WRITABLE, WRITE_TIMEOUT
  <2> QED BY <1>2, <1>3, <1>4, <2>1, SetWriteStateSteps
<1>6. Sound(u) /\ c \in Connections(u)
  BY <1>3, <1>5 DEF Step
<1>7. PICK r : r = [u EXCEPT !.connections[c].pings = "none"]
  OBVIOUS
<1>8. Step(u, r)
  BY <1>6, <1>7, PingSteps
<1>9. Step(ch, r)
  <2>1. Step(ch, u)
    BY <1>2, <1>5, StepsCompose DEF IInv
  <2> QED BY <1>8, <2>1, StepsCompose DEF IInv
<1>10. ch' = r
  BY <1>1, <1>4, <1>7 DEF ReceivePingResponse
<1> QED BY <1>9, <1>10, StepHandles DEF IInv

LEMMA ReceiveErrorResponseHandles ==
  ASSUME IInv, NEW c \in Connections(ch), ReceiveErrorResponse(c)
  PROVE  \E r : ch' = r /\ Handled(ch, r)
<1>1. PICK r : r = Destroy(ch, {c})
  OBVIOUS
<1>2. Step(ch, r)
  <2>1. {c} \in SUBSET Connections(ch)
    OBVIOUS
  <2> QED BY <1>1, <2>1, DestroySteps DEF IInv
<1>3. ch' = r
  BY <1>1 DEF ReceiveErrorResponse
<1> QED BY <1>2, <1>3, StepHandles DEF IInv

(* The controlled side sends where it receives: nothing is better than a   *)
(* connection that is writable and receives.                               *)
LEMMA FollowDoes ==
  ASSUME NEW w, Sound(w), Settled(w), NEW c \in Connections(w), ice_role_ = "CONTROLLED",
         Writable(w, c), w.connections[c].receiving
  PROVE  LET v == [w EXCEPT !.best_connection = c]
         IN  /\ Sound(v) /\ Settled(v) /\ v.connections = w.connections
             /\ v.best_connection = c
<1>1. PICK v : v = [w EXCEPT !.best_connection = c]
  OBVIOUS
<1>2. w \in Channel /\ c \in Connection /\ c # None
  BY FieldTypes DEF Sound
<1>3. /\ v \in Channel /\ v.connections = w.connections /\ v.best_connection = c
      /\ v.pending_best_connection = w.pending_best_connection
      /\ v.posted = w.posted /\ v.sort_dirty = w.sort_dirty /\ v.state = w.state
      /\ v.writable = w.writable /\ v.receiving = w.receiving
  BY <1>1, <1>2 DEF Channel
<1>4. Connections(v) = Connections(w)
  BY <1>3 DEF Connections
<1>5. Sound(v)
  BY <1>3, SoundIsAboutConnections
<1>6. Chosen(v)
  <2> SUFFICES ASSUME NEW d \in Connections(w) PROVE ~BetterState(v, d, c)
    BY <1>2, <1>3, <1>4 DEF Chosen
  <2>1. w.connections[d].write_state \in Int /\ 0 <= w.connections[d].write_state
    BY <1>2, FieldTypes, StateTypes
  <2> QED BY <1>3, <2>1 DEF BetterState, Writable, WRITABLE
<1>7. ASSUME Sort \notin w.posted
      PROVE  ~v.sort_dirty /\ Reported(v) /\ TimedOutGo(v)
  <2>1. ~w.sort_dirty /\ Chosen(w) /\ Reported(w) /\ TimedOutGo(w)
    BY <1>7 DEF Settled
  <2>2. w.best_connection # None /\ Writable(w, w.best_connection)
    <3>1. CASE c = w.best_connection
      BY <1>2, <3>1
    <3>2. CASE c # w.best_connection
      <4>1. w.best_connection # None /\ ~BetterState(w, c, w.best_connection)
        BY <2>1, <3>2 DEF Chosen
      <4>2. w.best_connection \in Connections(w)
        BY <4>1 DEF Sound, Exists
      <4>3. /\ w.connections[w.best_connection].write_state \in Int
            /\ 0 <= w.connections[w.best_connection].write_state
        BY <1>2, <4>2, FieldTypes, StateTypes
      <4> QED BY <4>1, <4>3 DEF BetterState, Writable, WRITABLE
    <3> QED BY <3>1, <3>2
  <2>3. w.writable = TRUE
    BY <1>2, <2>1, <2>2 DEF Reported, Channel
  <2>4. v.writable = (v.best_connection # None /\ Writable(v, v.best_connection))
    BY <1>2, <1>3, <2>3 DEF Writable
  <2>5. v.state = ComputeState(v)
    <3>1. ComputeState(v) = ComputeState(w)
      BY <1>3, <1>4 DEF ComputeState, Active
    <3> QED BY <1>3, <2>1, <3>1 DEF Reported
  <2>6. v.receiving = (\E d \in Connections(v) : v.connections[d].receiving)
    BY <1>3, <1>4, <2>1 DEF Reported
  <2>7. TimedOutGo(v)
    BY <1>3, <1>4, <2>1 DEF TimedOutGo, Active
  <2> QED BY <1>3, <2>1, <2>4, <2>5, <2>6, <2>7 DEF Reported
<1>8. Settled(v)
  BY <1>3, <1>6, <1>7 DEF Settled
<1> QED BY <1>1, <1>3, <1>5, <1>8

LEMMA ReceiveDataHandles ==
  ASSUME IInv, NEW c \in Connections(ch), ReceiveData(c)
  PROVE  \E r : ch' = r /\ Handled(ch, r)
<1> DEFINE follows(w) == ice_role_ = "CONTROLLED" /\ ~BestNominated(w) /\ Writable(w, c)
           v(w) == IF follows(w) THEN [w EXCEPT !.best_connection = c] ELSE w
<1>1. PICK w : w = SetReceiving(ch, c)
  OBVIOUS
<1>2. Step(ch, w) /\ w.connections[c].receiving
  <2>1. /\ Step(ch, w)
        /\ w.connections[c] = [ch.connections[c] EXCEPT !.receiving = TRUE, !.heard = TRUE]
    BY <1>1, SetReceivingSteps DEF IInv
  <2>2. ch.connections[c] \in ConnectionState
    BY FieldTypes DEF IInv, Sound
  <2> QED BY <2>1, <2>2 DEF ConnectionState
<1>3. Sound(w) /\ Settled(w) /\ c \in Connections(w) /\ Connections(w) = Connections(ch)
  BY <1>2, StepKeepsSettled DEF IInv, Step
<1>4. PICK u : u = v(w)
  OBVIOUS
<1>5. ch' = StartAgain(u, c)
  BY <1>1, <1>4 DEF ReceiveData
<1>6. PICK r : r = StartAgain(u, c)
  OBVIOUS
<1>7. CASE follows(w)
  <2>1. /\ Sound(u) /\ Settled(u) /\ u.connections = w.connections
        /\ u.best_connection = c
    BY <1>2, <1>3, <1>4, <1>7, FollowDoes
  <2>2. Connections(u) = Connections(w)
    BY <2>1 DEF Connections
  <2>3. Step(u, r)
    BY <1>3, <1>6, <2>1, <2>2, StartAgainSteps
  <2>4. Sound(r) /\ Settled(r) /\ Connections(r) = Connections(ch)
    BY <1>3, <2>1, <2>2, <2>3, StepKeepsSettled DEF Step
  <2>5. ~BestNominated(ch)
    BY <1>2, <1>7, StepKeepsNomination DEF IInv
  <2>6. \A d \in Connections(ch) : r.connections[d].pruned = ch.connections[d].pruned
    BY <1>2, <1>3, <2>1, <2>2, <2>3 DEF Step
  <2>7. StaysNominated(ch, r)
    BY <2>5 DEF StaysNominated
  <2>8. PrunesForBetter(ch, r)
    BY <2>6 DEF PrunesForBetter
  <2> QED BY <1>5, <1>6, <2>4, <2>7, <2>8 DEF Handled
<1>8. CASE ~follows(w)
  <2>1. u = w
    BY <1>4, <1>8
  <2>2. Step(w, r)
    BY <1>3, <1>6, <2>1, StartAgainSteps
  <2>3. Step(ch, r)
    BY <1>2, <2>2, StepsCompose DEF IInv
  <2> QED BY <1>5, <1>6, <2>3, StepHandles DEF IInv
<1> QED BY <1>7, <1>8

LEMMA OnConnectionDestroyedHandles ==
  ASSUME IInv, NEW c \in Connections(ch), OnConnectionDestroyed(c)
  PROVE  \E r : ch' = r /\ Handled(ch, r)
<1>1. PICK w : w = [ch EXCEPT
                      !.posted = @ \ {c},
                      !.connections[c] = None,
                      !.pending_best_connection = IF @ = c THEN None ELSE @]
  OBVIOUS
<1>2. ch \in Channel /\ c \in Connection /\ c # Sort /\ c # None
      /\ Connections(ch) \subseteq Connection /\ None \notin Connections(ch)
  BY FieldTypes DEF IInv, Sound
<1>3. /\ w \in Channel /\ w.posted = ch.posted \ {c}
      /\ w.connections[c] = None
      /\ \A d \in Connection : d # c => w.connections[d] = ch.connections[d]
      /\ w.pending_best_connection = IF ch.pending_best_connection = c THEN None
                                     ELSE ch.pending_best_connection
      /\ w.best_connection = ch.best_connection /\ w.sort_dirty = ch.sort_dirty
      /\ w.state = ch.state /\ w.writable = ch.writable /\ w.receiving = ch.receiving
  BY <1>1, <1>2 DEF Channel
<1>4. Connections(w) = Connections(ch) \ {c}
  BY <1>2, <1>3 DEF Connections
<1>5. \A d \in Connections(w) : w.connections[d] = ch.connections[d]
  BY <1>2, <1>3, <1>4
<1>6. Noted(w)
  BY <1>2, <1>3 DEF IInv, Settled, Noted
<1>7. PICK v : v = IF w.best_connection = c THEN [w EXCEPT !.best_connection = None] ELSE w
  OBVIOUS
<1>8. /\ v \in Channel /\ v.connections = w.connections /\ v.posted = w.posted
      /\ v.pending_best_connection = w.pending_best_connection
      /\ v.sort_dirty = w.sort_dirty
      /\ v.best_connection = IF w.best_connection = c THEN None ELSE w.best_connection
  BY <1>3, <1>7 DEF Channel
<1>9. Connections(v) = Connections(w)
  BY <1>8 DEF Connections
<1>10. Sound(v)
  <2>1. Heard(v)
    BY <1>4, <1>5, <1>8, <1>9 DEF Heard, IInv, Sound
  <2>2. Exists(v)
    BY <1>3, <1>4, <1>8, <1>9 DEF Exists, IInv, Sound
  <2>3. Pending(v)
    <3>1. v.pending_best_connection # None =>
            /\ v.pending_best_connection = ch.pending_best_connection
            /\ v.pending_best_connection \in Connections(v)
      BY <1>3, <1>8, <2>2 DEF Exists
    <3> QED BY <1>5, <1>8, <1>9, <3>1 DEF Pending, IInv, Sound, Writable
  <2> QED BY <1>8, <2>1, <2>2, <2>3 DEF Sound
<1>11. PICK u : u = IF w.best_connection = c THEN RequestSort(v) ELSE v
  OBVIOUS
<1>12. /\ Sound(u) /\ u.connections = v.connections /\ Connections(u) = Connections(v)
       /\ u.best_connection = v.best_connection
       /\ w.best_connection = c => Sort \in u.posted
       /\ w.best_connection # c => u.posted = w.posted /\ u.sort_dirty = w.sort_dirty
  <2>1. CASE w.best_connection = c
    <3>1. u = RequestSort(v) /\ Noted(v)
      BY <1>6, <1>8, <1>11, <2>1 DEF Noted
    <3>2. /\ u \in Channel /\ u.connections = v.connections
          /\ u.best_connection = v.best_connection
          /\ u.pending_best_connection = v.pending_best_connection
          /\ u.posted \subseteq v.posted \cup {Sort} /\ Sort \in u.posted
          /\ Connections(u) = Connections(v)
      BY <1>8, <3>1, RequestSortDoes
    <3>3. v.best_connection \in Connections(v) \cup {None}
      BY <1>10 DEF Sound, Exists
    <3>4. Sound(u)
      BY <1>10, <3>2, <3>3, SoundIsAboutConnections
    <3> QED BY <2>1, <3>2, <3>4
  <2>2. CASE w.best_connection # c
    BY <1>8, <1>10, <1>11, <2>2
  <2> QED BY <2>1, <2>2
<1>13. PICK r : r = UpdateState(u)
  OBVIOUS
<1>14. /\ Sound(r) /\ Reported(r) /\ r.connections = w.connections
       /\ Connections(r) = Connections(w)
       /\ r.best_connection = v.best_connection
       /\ r.posted = u.posted /\ r.sort_dirty = u.sort_dirty
  BY <1>8, <1>9, <1>12, <1>13, UpdateStateDoes
<1>15. ch' = r
  <2>1. CASE w.best_connection = c
    <3>1. u = RequestSort([w EXCEPT !.best_connection = None])
      BY <1>7, <1>11, <2>1
    <3> QED BY <1>1, <1>13, <2>1, <3>1 DEF OnConnectionDestroyed
  <2>2. CASE w.best_connection # c
    <3>1. u = w
      BY <1>7, <1>11, <2>2
    <3> QED BY <1>1, <1>13, <2>2, <3>1 DEF OnConnectionDestroyed
  <2> QED BY <2>1, <2>2
<1>16. Settled(r)
  <2> SUFFICES ASSUME Sort \notin r.posted
               PROVE  ~r.sort_dirty /\ Chosen(r) /\ TimedOutGo(r)
    BY <1>14 DEF Settled
  <2>1. /\ w.best_connection # c /\ r.best_connection = ch.best_connection
        /\ r.posted = ch.posted \ {c} /\ r.sort_dirty = ch.sort_dirty
        /\ Sort \notin ch.posted
    BY <1>2, <1>3, <1>8, <1>12, <1>14
  <2>2. ~ch.sort_dirty /\ Chosen(ch) /\ Reported(ch) /\ TimedOutGo(ch)
    BY <2>1 DEF IInv, Settled
  <2>3. /\ Connections(r) = Connections(ch) \ {c}
        /\ \A d \in Connections(r) : r.connections[d] = ch.connections[d]
    BY <1>4, <1>5, <1>14
  <2>4. ch.best_connection \in Connections(ch) \cup {None} /\ ch.best_connection # c
    BY <1>3, <2>1 DEF IInv, Sound, Exists
  <2>5. Chosen(r)
    <3> SUFFICES ASSUME NEW d \in Connections(r), d # r.best_connection
                 PROVE  /\ r.best_connection # None
                        /\ ~BetterState(r, d, r.best_connection)
                        /\ ice_role_ = "CONTROLLING" /\ SameState(r, d, r.best_connection) =>
                             Priority[d] <= Priority[r.best_connection]
      BY DEF Chosen
    <3>1. /\ ch.best_connection # None
          /\ ~BetterState(ch, d, ch.best_connection)
          /\ ice_role_ = "CONTROLLING" /\ SameState(ch, d, ch.best_connection) =>
               Priority[d] <= Priority[ch.best_connection]
      BY <2>1, <2>2, <2>3 DEF Chosen
    <3>2. r.connections[ch.best_connection] = ch.connections[ch.best_connection]
      BY <2>3, <2>4, <3>1
    <3> QED BY <2>1, <2>3, <3>1, <3>2 DEF BetterState, SameState
  <2>6. TimedOutGo(r)
    <3> SUFFICES ASSUME \A d \in Connections(r) : ~Active(r, d),
                        NEW e \in Connections(r)
                 PROVE  e \in r.posted
      BY DEF TimedOutGo
    <3>1. ch.best_connection # None /\ ch.best_connection \in Connections(r)
      BY <2>1, <2>2, <2>3, <2>4 DEF Chosen
    <3>2. \A d \in Connections(ch) \ {c} : ~Active(ch, d)
      BY <2>3 DEF Active
    <3>3. ~Active(ch, c)
      <4>1. ~BetterState(ch, c, ch.best_connection)
        BY <2>2, <2>4 DEF Chosen
      <4>2. ch.connections[ch.best_connection].write_state = WRITE_TIMEOUT
        BY <2>3, <3>1, <3>2 DEF Active
      <4>3. ch.connections[c].write_state \in Int /\ ch.connections[c].write_state <= 3
        BY <1>2, FieldTypes, StateTypes
      <4> QED BY <4>1, <4>2, <4>3 DEF BetterState, Active, WRITE_TIMEOUT
    <3>4. Connections(ch) \subseteq ch.posted
      BY <2>2, <3>2, <3>3 DEF TimedOutGo
    <3> QED BY <2>1, <2>3, <3>4
  <2> QED BY <2>1, <2>2, <2>5, <2>6
<1>17. StaysNominated(ch, r)
  <2>1. r.best_connection # ch.best_connection => ch.best_connection = c
    BY <1>3, <1>8, <1>14
  <2> QED BY <1>4, <1>14, <2>1 DEF StaysNominated
<1>18. PrunesForBetter(ch, r)
  BY <1>4, <1>5, <1>14 DEF PrunesForBetter
<1> QED BY <1>14, <1>15, <1>16, <1>17, <1>18 DEF Handled

LEMMA NextHandles ==
  ASSUME IInv, Next
  PROVE  \E r : ch' = r /\ ice_role_' = ice_role_ /\ Handled(ch, r)
<1>1. ice_role_' = ice_role_
  BY DEF Next, AddRemoteCandidate, OnUnknownAddress, OnSort, OnCheckAndPing, ReceivePing,
         ReceivePingResponse, ReceiveErrorResponse, ReceiveData, OnConnectionDestroyed
<1>2. \E r : ch' = r /\ Handled(ch, r)
  <2>1. CASE AddRemoteCandidate
    BY <2>1, AddRemoteCandidateHandles
  <2>2. CASE OnUnknownAddress
    BY <2>2, OnUnknownAddressHandles
  <2>3. CASE OnSort
    BY <2>3, OnSortHandles
  <2>4. CASE OnCheckAndPing
    BY <2>4, OnCheckAndPingHandles
  <2>5. ASSUME NEW c \in Connections(ch), ReceivePing(c)
        PROVE  \E r : ch' = r /\ Handled(ch, r)
    BY <2>5, ReceivePingHandles
  <2>6. ASSUME NEW c \in Connections(ch), ReceivePingResponse(c)
        PROVE  \E r : ch' = r /\ Handled(ch, r)
    BY <2>6, ReceivePingResponseHandles
  <2>7. ASSUME NEW c \in Connections(ch), ReceiveErrorResponse(c)
        PROVE  \E r : ch' = r /\ Handled(ch, r)
    BY <2>7, ReceiveErrorResponseHandles
  <2>8. ASSUME NEW c \in Connections(ch), ReceiveData(c)
        PROVE  \E r : ch' = r /\ Handled(ch, r)
    BY <2>8, ReceiveDataHandles
  <2>9. ASSUME NEW c \in Connections(ch), OnConnectionDestroyed(c)
        PROVE  \E r : ch' = r /\ Handled(ch, r)
    BY <2>9, OnConnectionDestroyedHandles
  <2> QED BY <2>1, <2>2, <2>3, <2>4, <2>5, <2>6, <2>7, <2>8, <2>9 DEF Next
<1> QED BY <1>1, <1>2

LEMMA InitIInv == Init => IInv
<1> SUFFICES ASSUME Init PROVE IInv
  OBVIOUS
<1>1. /\ ice_role_ \in {"CONTROLLING", "CONTROLLED"}
      /\ ch = [connections |-> [c \in Connection |-> None],
               best_connection |-> None, pending_best_connection |-> None,
               sort_dirty |-> FALSE, posted |-> {}, state |-> "INIT",
               writable |-> FALSE, receiving |-> FALSE]
  BY DEF Init
<1>2. ch \in Channel
  <2>1. [c \in Connection |-> None] \in [Connection -> ConnectionState \cup {None}]
    OBVIOUS
  <2> QED BY <1>1, <2>1 DEF Channel
<1>3. /\ Connections(ch) = {} /\ ch.best_connection = None
      /\ ch.pending_best_connection = None /\ ch.posted = {} /\ ch.sort_dirty = FALSE
      /\ ch.state = "INIT" /\ ch.writable = FALSE /\ ch.receiving = FALSE
  BY <1>1 DEF Connections
<1>4. Sound(ch)
  BY <1>2, <1>3 DEF Sound, Heard, Exists, Pending
<1>5. ComputeState(ch) = "INIT"
  BY <1>3 DEF ComputeState
<1>6. Settled(ch)
  BY <1>3, <1>5 DEF Settled, Chosen, Reported, TimedOutGo
<1> QED BY <1>1, <1>4, <1>6 DEF IInv

LEMMA NextIInv == IInv /\ [Next]_vars => IInv'
<1> SUFFICES ASSUME IInv, [Next]_vars PROVE IInv'
  OBVIOUS
<1>1. PICK r : ch' = r /\ ice_role_' = ice_role_ /\ Sound(r) /\ Settled(r)
  <2>1. CASE Next
    BY <2>1, NextHandles DEF Handled
  <2>2. CASE UNCHANGED vars
    BY <2>2 DEF IInv, vars
  <2> QED BY <2>1, <2>2
<1>2. Sound(ch)'
  BY <1>1 DEF Sound, Heard, Exists, Pending, Writable, Connections
<1>3. Chosen(r) => Chosen(ch)'
  BY <1>1 DEF Chosen, BetterState, SameState, Connections
<1>4. Reported(r) => Reported(ch)'
  BY <1>1 DEF Reported, ComputeState, Writable, Active, Connections
<1>5. TimedOutGo(r) => TimedOutGo(ch)'
  BY <1>1 DEF TimedOutGo, Active, Connections
<1>6. Settled(ch)'
  BY <1>1, <1>3, <1>4, <1>5 DEF Settled
<1> QED BY <1>1, <1>2, <1>6 DEF IInv

---------------------------------------------------------------------------
(* The theorems.                                                           *)

(* The invariant holds: what the channel refers to exists, what is pending *)
(* waits, and unless a sort is posted the choice, the report and the       *)
(* deletions are as a sort would leave them.                               *)
THEOREM Invariant == Spec => []IInv
BY InitIInv, NextIInv, PTL DEF Spec

(* Every field stays in its type, and a connection that receives or was    *)
(* writable has heard of its peer.                                         *)
THEOREM TypeCorrect == Spec => []TypeOK
<1>1. IInv => TypeOK
  BY DEF IInv, TypeOK, Sound
<1> QED BY <1>1, Invariant, PTL

(* The best and the pending connection and those that wait for MSG_DELETE  *)
(* exist: Destroy() only posts, and OnConnectionDestroyed() forgets all.   *)
THEOREM NothingDangles == Spec => []NoDangling
<1>1. IInv => NoDangling
  BY DEF IInv, NoDangling, Sound, Exists
<1> QED BY <1>1, Invariant, PTL

(* RequestSort() is called wherever a sort could change something.         *)
THEOREM SortsArePosted == Spec => []SortIsPosted
<1>1. IInv => SortIsPosted
  <2> SUFFICES ASSUME IInv, Sort \notin ch.posted
               PROVE  /\ ~ch.sort_dirty
                      /\ IF ice_role_ = "CONTROLLING" \/ ch.best_connection = None
                         THEN ~ShouldSwitch(ch, ch.best_connection, Top(ch))
                         ELSE ~BetterState(ch, Top(ch), ch.best_connection)
                      /\ ch = UpdateState(ch)
    BY DEF SortIsPosted
  <2>1. Sound(ch) /\ ~ch.sort_dirty /\ Chosen(ch) /\ Reported(ch)
    BY DEF IInv, Settled
  <2>2. ch = UpdateState(ch)
    BY <2>1, UpdateStateDoes
  <2>3. /\ ~BetterState(ch, Top(ch), ch.best_connection) \/ ch.best_connection = None
        /\ ch.best_connection = None => Top(ch) = None
        /\ MayPrune(ch) => ~ShouldSwitch(ch, ch.best_connection, Top(ch))
    BY <2>1, ChosenStays DEF IInv
  <2>4. CASE ch.best_connection = None
    BY <2>1, <2>2, <2>3, <2>4 DEF ShouldSwitch
  <2>5. CASE ch.best_connection # None /\ ice_role_ = "CONTROLLING"
    BY <2>1, <2>2, <2>3, <2>5 DEF MayPrune
  <2>6. CASE ch.best_connection # None /\ ice_role_ # "CONTROLLING"
    BY <2>1, <2>2, <2>3, <2>6
  <2> QED BY <2>4, <2>5, <2>6
<1> QED BY <1>1, Invariant, PTL

(* OnConnectionStateChange() takes what is pending once it is writable.    *)
THEOREM PendingWaits == Spec => []PendingIsTaken
<1>1. IInv => PendingIsTaken
  BY DEF IInv, PendingIsTaken, Sound, Pending
<1> QED BY <1>1, Invariant, PTL

(* HandleAllTimedOut() misses no connection, whatever comes before the     *)
(* deletions.                                                              *)
THEOREM TimedOutAreDeleted == Spec => []AllTimedOutGo
<1>1. IInv => AllTimedOutGo
  BY DEF IInv, AllTimedOutGo, Settled, TimedOutGo
<1> QED BY <1>1, Invariant, PTL

(* A sort that follows a sort changes nothing: sorting ends.               *)
THEOREM SortsEnd == Spec => []SortIsFinal
<1>1. IInv => SortIsFinal
  <2> SUFFICES ASSUME IInv PROVE SortIsFinal
    OBVIOUS
  <2>1. PICK first : first = Resort(Unposted(ch))
    OBVIOUS
  <2>2. /\ Sound(first) /\ Chosen(first) /\ Reported(first) /\ TimedOutGo(first)
        /\ Trimmed(first) /\ ~ShouldSwitch(first, first.best_connection, Top(first))
    BY <2>1, UnpostedDoes, ResortDoes DEF IInv
  <2>3. PICK p : p = Unposted(first)
    OBVIOUS
  <2>4. /\ Sound(p) /\ p.connections = first.connections
        /\ p.best_connection = first.best_connection
        /\ p.posted = first.posted \ {Sort} /\ p.state = first.state
        /\ p.writable = first.writable /\ p.receiving = first.receiving
    BY <2>2, <2>3, UnpostedDoes
  <2>5. PICK q : q = Clean(p)
    OBVIOUS
  <2>6. /\ q \in Channel /\ q.connections = first.connections
        /\ q.pending_best_connection = p.pending_best_connection
        /\ q.best_connection = first.best_connection
        /\ q.posted = first.posted \ {Sort} /\ q.sort_dirty = FALSE
        /\ q.state = first.state
        /\ q.writable = first.writable /\ q.receiving = first.receiving
        /\ Connections(q) = Connections(p)
    BY <2>4, <2>5, CleanDoes DEF Sound
  <2>7. Sound(q)
    <3>1. p.best_connection \in Connections(p) \cup {None}
      BY <2>4 DEF Sound, Exists
    <3> QED BY <2>4, <2>6, <3>1, SoundIsAboutConnections
  <2>8. /\ Connections(q) = Connections(first) /\ Trimmed(q)
        /\ ~ShouldSwitch(q, q.best_connection, Top(q))
        /\ \A c : Active(q, c) <=> Active(first, c)
    BY <2>2, <2>6, Alike
  <2>9. TimedOutGo(q)
    <3>1. Sort \notin Connections(first)
      BY <2>2, FieldTypes DEF Sound
    <3> QED BY <2>2, <2>6, <2>8, <3>1 DEF TimedOutGo
  <2>10. Reported(q)
    <3>1. ComputeState(q) = ComputeState(first)
      BY <2>6, <2>8 DEF ComputeState, Active
    <3> QED BY <2>2, <2>6, <2>8, <3>1 DEF Reported, Writable
  <2>11. Resort(q) = q
    BY <2>6, <2>7, <2>8, <2>9, <2>10, ResortStays
  <2>12. Resort(p) = Resort(q)
    <3>1. Clean(q) = Clean(p)
      BY <2>4, <2>5 DEF Clean, Sound, Channel
    <3> QED BY <3>1, ResortParts
  <2>13. q = [first EXCEPT !.posted = @ \ {Sort}, !.sort_dirty = FALSE]
    BY <2>2, <2>3, <2>5 DEF Unposted, Clean, Sound, Channel
  <2>14. Resort(Unposted(first)) = [first EXCEPT !.posted = @ \ {Sort}, !.sort_dirty = FALSE]
    BY <2>3, <2>11, <2>12, <2>13
  <2> QED BY <2>1, <2>14 DEF SortIsFinal, Unposted
<1> QED BY <1>1, Invariant, PTL

(* ShouldSwitchBestConnection(), OnNominated() and OnReadPacket() leave a  *)
(* nominated connection only for a nominated or a better one.              *)
THEOREM NominatedIsKept == Spec => NominatedStays
<1> DEFINE Stays ==
      (/\ ice_role_ = "CONTROLLED" /\ BestNominated(ch)
       /\ ch'.best_connection # ch.best_connection)
      => \/ ch.best_connection \notin Connections(ch')
         \/ BestNominated(ch')
         \/ BetterState(ch', ch'.best_connection, ch.best_connection)
<1>1. IInv /\ [Next]_vars => [Stays]_vars
  <2> SUFFICES ASSUME IInv, Next PROVE Stays
    OBVIOUS
  <2>1. PICK r : ch' = r /\ StaysNominated(ch, r)
    BY NextHandles DEF Handled
  <2> QED BY <2>1 DEF StaysNominated
<1>2. Spec => [][Stays]_vars
  BY <1>1, Invariant, PTL DEF Spec
<1> QED BY <1>2 DEF NominatedStays

(* PruneConnections() keeps on every network one connection that can be    *)
(* used and has a higher priority than all it prunes.                      *)
THEOREM OnlyWorseArePruned == Spec => PrunedForBetter
<1> DEFINE Prunes ==
      \A c \in Connections(ch) \cap Connections(ch') :
        ~ch.connections[c].pruned /\ ch'.connections[c].pruned =>
          \E p \in Connections(ch') :
            /\ Network[p] = Network[c] /\ Priority[p] > Priority[c] /\ ~Weak(ch', p)
<1>1. IInv /\ [Next]_vars => [Prunes]_vars
  <2> SUFFICES ASSUME IInv, Next PROVE Prunes
    OBVIOUS
  <2>1. PICK r : ch' = r /\ PrunesForBetter(ch, r)
    BY NextHandles DEF Handled
  <2> QED BY <2>1 DEF PrunesForBetter
<1>2. Spec => [][Prunes]_vars
  BY <1>1, Invariant, PTL DEF Spec
<1> QED BY <1>2 DEF PrunedForBetter

=============================================================================
