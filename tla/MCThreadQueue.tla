--------------------------- MODULE MCThreadQueue ---------------------------
(* TLC's instance of ThreadQueue: two threads that call each other, as the *)
(* signaling and the worker thread do, and a third that calls one of them. *)
EXTENDS ThreadQueue

CONSTANTS signaling, worker, app

MCThread == {signaling, worker, app}
MCLoops == {signaling, worker}
MCCanSend == {<< signaling, worker >>, << worker, signaling >>, << app, signaling >>}
MCCanPost == {<< worker, signaling >>}
MCCanDelay == {<< app, worker >>}
MCCanStop == {<< app, worker >>}
MCMaxFrom == [t \in MCThread |-> IF t = app THEN 1 ELSE 2]
============================================================================
