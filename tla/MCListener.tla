------------------------------ MODULE MCListener ------------------------------
(* Listener on a small instance: two sessions, two requests per queue.      *)
EXTENDS Listener
=============================================================================
