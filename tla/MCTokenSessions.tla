-------------------------- MODULE MCTokenSessions --------------------------
(* TokenSessions for TLC: threads and slots are model values, none of them
   interchangeable, for the run has a liveness property. *)
EXTENDS TokenSessions
=============================================================================
