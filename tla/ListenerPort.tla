----------------------------- MODULE ListenerPort -----------------------------
(***************************************************************************)
(* What an http::Listener promises the NetworkManagerCore that owns it,    *)
(* whatever its thread does meanwhile: the owner registers a socket, queues *)
(* messages and stops; the listening thread takes the messages, may stop   *)
(* by itself, and once the listener is stopped closes the socket and then  *)
(* empties the queue, at some time or never.  A message is only a number   *)
(* of messages waiting.                                                    *)
(*                                                                         *)
(* Module Listener implements this, and so does, for each of its handles,  *)
(* module NetworkManagerCore, which models listeners from outside.         *)
(***************************************************************************)
EXTENDS Naturals

CONSTANT Invalid  \* no socket

VARIABLES
  registered,  \* the socket the owner has the listener down with
  socket,      \* the open socket of the listener
  listening,   \* the listener's switch
  pending,     \* how many outgoing messages wait
  teardown,    \* the socket is closed, and the queue still to be emptied
  alive        \* the listener has not been destroyed

vars == <<registered, socket, listening, pending, teardown, alive>>

Init ==
  /\ registered = Invalid /\ socket = Invalid /\ listening = FALSE
  /\ pending = 0 /\ teardown = FALSE /\ alive = TRUE

(* initSocket and startListening: only once the last socket is closed.     *)
Open ==
  /\ alive /\ registered = Invalid /\ socket = Invalid /\ ~listening
  /\ registered' # Invalid /\ socket' = registered' /\ listening' = TRUE
  /\ UNCHANGED <<pending, teardown, alive>>

Push ==
  /\ registered # Invalid /\ pending' = pending + 1
  /\ UNCHANGED <<registered, socket, listening, teardown, alive>>

Stop ==
  /\ registered # Invalid /\ registered' = Invalid /\ listening' = FALSE
  /\ UNCHANGED <<socket, pending, teardown, alive>>

(* The steps of the listening thread need its socket, and are not those of *)
(* a teardown.                                                             *)
Take ==
  /\ socket # Invalid /\ ~teardown /\ pending > 0 /\ pending' = pending - 1
  /\ UNCHANGED <<registered, socket, listening, teardown, alive>>

SelfStop ==
  /\ socket # Invalid /\ ~teardown /\ listening' = FALSE
  /\ UNCHANGED <<registered, socket, pending, teardown, alive>>

Close ==
  /\ socket # Invalid /\ ~teardown /\ ~listening
  /\ socket' = Invalid /\ teardown' = TRUE
  /\ UNCHANGED <<registered, listening, pending, alive>>

(* The owner may have opened the next socket since, and queued for it.     *)
Clear ==
  /\ teardown /\ teardown' = FALSE /\ pending' = 0
  /\ UNCHANGED <<registered, socket, listening, alive>>

(* ~Listener; a socket left open is lost with it.                          *)
Destroy ==
  /\ alive /\ alive' = FALSE
  /\ registered' = Invalid /\ socket' = Invalid /\ listening' = FALSE
  /\ pending' = 0 /\ teardown' = FALSE

Next ==
  \/ Open \/ Push \/ Stop \/ Destroy
  \/ Take \/ SelfStop \/ Close \/ Clear

Spec == Init /\ [][Next]_vars
=============================================================================
