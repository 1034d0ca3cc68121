----------------------------- MODULE MCThreadPool -----------------------------
(* ThreadPool with two workers, two clients and three tasks: one more task *)
(* than there are workers.  Names are strings because Nobody is one.       *)
EXTENDS ThreadPool
=============================================================================
