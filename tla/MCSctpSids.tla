----------------------------- MODULE MCSctpSids -----------------------------
(* TLC's instance of SctpSids and the mutants of its definitions.          *)
EXTENDS SctpSids
===========================================================================
