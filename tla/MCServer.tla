------------------------------- MODULE MCServer -------------------------------
(* Server with two workers and two requests, each handed over as two       *)
(* tasks: more tasks than there are workers.                               *)
EXTENDS Server
=============================================================================
