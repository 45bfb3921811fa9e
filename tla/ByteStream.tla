----------------------------- MODULE ByteStream -----------------------------
(***************************************************************************)
(* What a PseudoTcp connection promises its two users, without packets:    *)
(* in each direction a stream of bytes, which arrive in order, each once,  *)
(* and after they were written; a reader is never given back less than he  *)
(* was shown, and a writer is never further ahead than the send buffer is  *)
(* long.  After Close() nothing more arrives.                              *)
(*                                                                         *)
(* Byte i of a stream is the number First + i.  An end may be spoiled (in  *)
(* PseudoTcp: it stored data before the connect message); what arrives     *)
(* there from then on may be anything.                                     *)
(***************************************************************************)
EXTENDS Integers, Sequences

CONSTANTS End, First, SndBuf, RcvBuf

VARIABLES
  written,   \* how many bytes the user of an end wrote
  nread,     \* how many bytes he read
  readable,  \* the bytes he may read next
  closed,    \* whether the user of an end called Close()
  spoiled    \* the ends that are spoiled

streamVars == << written, nread, readable, closed, spoiled >>

Init ==
  /\ written = [e \in End |-> 0] /\ nread = [e \in End |-> 0]
  /\ readable = [e \in End |-> << >>]
  /\ closed = [e \in End |-> FALSE] /\ spoiled = {}

Arrived(e) == nread[e] + Len(readable[e])

(* How many bytes a step moves is what the primed variable says.           *)

Write(e) ==
  /\ written'[e] > written[e]
  /\ \A p \in End \ ({e} \cup spoiled) :
       closed[p] \/ written'[e] - Arrived(p) <= SndBuf
  /\ written' = [written EXCEPT ![e] = written'[e]]
  /\ UNCHANGED << nread, readable, closed, spoiled >>

(* The next bytes of those the other end wrote, or anything.               *)
Arrive(e) ==
  /\ Len(readable'[e]) \in (Len(readable[e]) + 1) .. RcvBuf
  /\ ~closed[e]
  /\ LET n == Len(readable'[e]) - Len(readable[e])
         next == [i \in 1..n |-> IF e \in spoiled THEN readable'[e][Len(readable[e]) + i]
                                 ELSE First + Arrived(e) + i - 1]
     IN  /\ e \in spoiled \/ \A p \in End \ {e} : Arrived(e) + n <= written[p]
         /\ readable' = [readable EXCEPT ![e] = @ \o next]
  /\ UNCHANGED << written, nread, closed, spoiled >>

Read(e) ==
  /\ nread'[e] \in (nread[e] + 1) .. Arrived(e)
  /\ nread' = [nread EXCEPT ![e] = nread'[e]]
  /\ readable' = [readable EXCEPT ![e] = SubSeq(@, nread'[e] - nread[e] + 1, Len(@))]
  /\ UNCHANGED << written, closed, spoiled >>

Close(e) ==
  /\ closed'[e] /\ ~closed[e]
  /\ closed' = [closed EXCEPT ![e] = TRUE]
  /\ UNCHANGED << written, nread, readable, spoiled >>

Spoil(e) ==
  /\ e \notin spoiled /\ spoiled' = spoiled \cup {e}
  /\ UNCHANGED << written, nread, readable, closed >>

Next == \E e \in End : Write(e) \/ Arrive(e) \/ Read(e) \/ Close(e) \/ Spoil(e)

Spec == Init /\ [][Next]_streamVars

=============================================================================
