------------------------------- MODULE MCLogger -------------------------------
(* Logger with two writers and more entries than three files hold.         *)
EXTENDS Logger
=============================================================================
