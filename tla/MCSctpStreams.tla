--------------------------- MODULE MCSctpStreams ---------------------------
(* TLC's instance of SctpStreams and the mutants of its definitions.       *)
EXTENDS SctpStreams
===========================================================================
