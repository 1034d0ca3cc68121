---------------------------- MODULE AbstractManager ----------------------------
(***************************************************************************)
(* What the NetworkManager promises to those who call it: calls are taken  *)
(* while it is initialized, and executed, with what they do to the         *)
(* sockets, only until kill has joined the network thread.  A call that is *)
(* not executed by then waits; nothing says that it is ever answered.      *)
(*                                                                         *)
(* Module NetworkManager implements this, and the manager as module Server *)
(* models it, from outside, takes none but these steps.                    *)
(***************************************************************************)

CONSTANT Caller  \* threads that make blocking calls

VARIABLES
  phase,     \* "down", "up", or how far kill has got: "stopping", "stopped"
  sockets,   \* whether sockets are registered
  callState  \* of each caller: "idle", "waiting" or "answered"

vars == <<phase, sockets, callState>>

(* Before the first init, or after it. *)
Init ==
  /\ phase \in {"down", "up"} /\ sockets = FALSE
  /\ callState = [c \in Caller |-> "idle"]

Serving == phase \in {"up", "stopping"}
Goto(from, to) == phase = from /\ phase' = to
Move(c, from, to) == callState[c] = from /\ callState' = [callState EXCEPT ![c] = to]

Start == Goto("down", "up") /\ UNCHANGED <<sockets, callState>>

Call(c) == phase # "down" /\ Move(c, "idle", "waiting") /\ UNCHANGED <<phase, sockets>>

(* A call is executed; its caller gets the answer then or later.           *)
Answer(c) ==
  /\ Serving /\ sockets' \in BOOLEAN /\ UNCHANGED phase
  /\ Move(c, "waiting", "answered") \/ Move(c, "waiting", "idle")

Return(c) == Move(c, "answered", "idle") /\ UNCHANGED <<phase, sockets>>

(* The same for a caller that is not followed here.                        *)
Execute == Serving /\ sockets' \in BOOLEAN /\ UNCHANGED <<phase, callState>>

(* kill, in the order it goes: the flag, the join, the core, the end.      *)
Stop == Goto("up", "stopping") /\ UNCHANGED <<sockets, callState>>
Join == Goto("stopping", "stopped") /\ UNCHANGED <<sockets, callState>>
Reset == phase = "stopped" /\ sockets' = FALSE /\ UNCHANGED <<phase, callState>>
Down == Goto("stopped", "down") /\ sockets' = FALSE /\ UNCHANGED callState

Next ==
  \/ Start \/ Execute \/ Stop \/ Join \/ Reset \/ Down
  \/ \E c \in Caller : Call(c) \/ Answer(c) \/ Return(c)

Spec == Init /\ [][Next]_vars
=============================================================================
