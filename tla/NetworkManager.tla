---------------------------- MODULE NetworkManager ----------------------------
(***************************************************************************)
(* The http::NetworkManager singleton: its thread, the clients whose calls *)
(* it executes for them (executeFunktion), the listening threads that      *)
(* report a served connection (ConnectionServed), and the controller that  *)
(* initializes and kills it.                                               *)
(*                                                                         *)
(* What a call does to the core is abstracted to whether sockets are left  *)
(* in m_SocketClientsMap; module NetworkManagerCore has the rest.  A core  *)
(* is named by the number of the init that brought it.                     *)
(***************************************************************************)
EXTENDS Naturals, Sequences

CONSTANTS
  Client,        \* threads calling the blocking API
  Poster,        \* listening threads calling ConnectionServed
  MaxFunctions,  \* MAX_FUNCTIONS_PER_SESSION
  MaxInits,      \* bound: how often init is called
  MaxCalls       \* bound: how many calls clients and posters make

ASSUME ManagerAssumption ==
  /\ Client \cap Poster = {}
  /\ MaxFunctions \in Nat \ {0} /\ MaxInits \in Nat /\ MaxCalls \in Nat

VARIABLES
  m_running, m_Busy, m_initialized, m_Core, m_FunctionCalls,
  m_SocketClientsMap,  \* whether it has entries
  pc, counter,         \* the network thread, and its local in pollFunctionCalls
  cpc, ready,          \* clients and posters; the clients whose future has its value
  kpc,                 \* the controller
  inits, calls         \* how many inits and calls there were

flags  == <<m_running, m_Busy, m_initialized>>
core   == <<m_Core, m_SocketClientsMap>>
thread == <<pc, counter>>
caller == <<cpc, ready, calls>>
control == <<kpc, inits>>
vars == <<flags, core, m_FunctionCalls, thread, caller, control>>

Null == 0

(* The network thread holds m_ManagerMutex between its steps. *)
Locked == pc \in {"test", "wait", "block"}
notify == pc' = IF pc = "asleep" THEN "wakeup" ELSE pc

Init ==
  /\ m_running = FALSE /\ m_Busy = TRUE /\ m_initialized = FALSE
  /\ m_Core = Null /\ m_SocketClientsMap = FALSE /\ m_FunctionCalls = <<>>
  /\ pc = "none" /\ counter = 0
  /\ cpc = [c \in Client \cup Poster |-> "idle"] /\ ready = {} /\ calls = 0
  /\ kpc = "idle" /\ inits = 0

-----------------------------------------------------------------------------
(* The controller: init and kill.                                          *)

MayInit == ~m_initialized

initBegin ==
  /\ kpc = "idle" /\ inits < MaxInits /\ MayInit
  /\ inits' = inits + 1
  /\ m_Core' = inits + 1 /\ m_SocketClientsMap' = FALSE
  /\ kpc' \in {"idle", "init"}  \* whether the callback could be set
  /\ UNCHANGED <<flags, m_FunctionCalls, thread, caller>>

initRunning ==
  /\ kpc = "init" /\ kpc' = "init2" /\ m_running' = TRUE
  /\ UNCHANGED <<m_Busy, m_initialized, core, m_FunctionCalls, thread, caller, inits>>

initInitialized ==
  /\ kpc = "init2" /\ kpc' = "init3" /\ m_initialized' = TRUE
  /\ UNCHANGED <<m_running, m_Busy, core, m_FunctionCalls, thread, caller, inits>>

initThread ==
  /\ kpc = "init3" /\ kpc' = "idle" /\ pc' = "lock"
  /\ UNCHANGED <<flags, core, m_FunctionCalls, counter, caller, inits>>

killBegin ==
  /\ kpc = "idle" /\ ~Locked /\ kpc' = "notify" /\ m_running' = FALSE
  /\ UNCHANGED <<m_Busy, m_initialized, core, m_FunctionCalls, thread, caller, inits>>

MutKillNotify ==
  /\ kpc = "notify" /\ kpc' = "join"
  /\ UNCHANGED <<flags, core, m_FunctionCalls, thread, caller, inits>>
killNotify ==
  /\ kpc = "notify" /\ notify /\ kpc' = "join"
  /\ UNCHANGED <<flags, core, m_FunctionCalls, counter, caller, inits>>

MutJoined == TRUE
(* join returns: there is no thread, or it has returned from run. *)
Joined == pc \in {"none", "done"}

killJoin ==
  /\ kpc = "join" /\ Joined /\ kpc' = "reset"
  /\ pc' = IF pc = "done" THEN "none" ELSE pc
  /\ UNCHANGED <<flags, core, m_FunctionCalls, counter, caller, inits>>

(* m_Core.reset: the listeners' destructors join the listening threads,    *)
(* which do not use m_Core in ConnectionServed.  It returns when they have *)
(* ended, and never does if one has slept through its notification:        *)
(* DestructorReturns in module Listener says when it has not.              *)
killReset ==
  /\ kpc = "reset" /\ m_Core' = Null /\ m_SocketClientsMap' = FALSE
  /\ \/ kpc' = "uninit" /\ \A p \in Poster : cpc[p] = "idle"
     \/ kpc' = "stuck"
  /\ UNCHANGED <<flags, m_FunctionCalls, thread, caller, inits>>

killUninit ==
  /\ kpc = "uninit" /\ m_initialized' = FALSE /\ kpc' = "clear"
  /\ UNCHANGED <<m_running, m_Busy, core, m_FunctionCalls, thread, caller, inits>>

(* The functions are destroyed, not their promises: the caller's own       *)
(* prommisedVal keeps the promise alive, without a value.                  *)
killClear ==
  /\ kpc = "clear" /\ m_FunctionCalls' = <<>> /\ kpc' = "idle"
  /\ UNCHANGED <<flags, core, thread, caller, inits>>

-----------------------------------------------------------------------------
(* Clients: a wrapper such as createListener, and executeFunktion.         *)

Move(c, from, to) == cpc[c] = from /\ cpc' = [cpc EXCEPT ![c] = to]

(* The call that finds m_initialized false returns an error: a stuttering  *)
(* step.                                                                   *)
call(c) ==
  /\ m_initialized /\ calls < MaxCalls /\ calls' = calls + 1
  /\ Move(c, "idle", "push")
  /\ UNCHANGED <<flags, core, m_FunctionCalls, thread, ready, control>>

push(c) ==
  /\ Move(c, "push", "notify") /\ m_FunctionCalls' = Append(m_FunctionCalls, c)
  /\ UNCHANGED <<flags, core, thread, ready, calls, control>>

MutNotifyCall == ~Locked /\ UNCHANGED m_Busy /\ notify
MutNotifyUnlocked == m_Busy' = TRUE /\ notify
(* notifyFunktionCall, under m_ManagerMutex. *)
notifyFunktionCall == ~Locked /\ m_Busy' = TRUE /\ notify

executeNotify(c) ==
  /\ Move(c, "notify", "get") /\ notifyFunktionCall
  /\ UNCHANGED <<m_running, m_initialized, core, m_FunctionCalls, counter, ready, calls,
                 control>>

get(c) ==
  /\ c \in ready /\ Move(c, "get", "idle") /\ ready' = ready \ {c}
  /\ UNCHANGED <<flags, core, m_FunctionCalls, thread, calls, control>>

(* Listening threads: having polled an outgoing message while their socket *)
(* was registered, they call ConnectionServed.                             *)
polled(p) ==
  /\ m_Core # Null /\ m_SocketClientsMap /\ calls < MaxCalls /\ calls' = calls + 1
  /\ Move(p, "idle", "check")
  /\ UNCHANGED <<flags, core, m_FunctionCalls, thread, ready, control>>

(* Unlike executeFunktion, ConnectionServed notifies before it pushes. *)
servedNotify(p) ==
  /\ \/ ~m_initialized /\ Move(p, "check", "idle") /\ UNCHANGED <<m_Busy, pc>>
     \/ m_initialized /\ Move(p, "check", "served") /\ notifyFunktionCall
  /\ UNCHANGED <<m_running, m_initialized, core, m_FunctionCalls, counter, ready, calls,
                 control>>

servedPush(p) ==
  /\ Move(p, "served", "idle") /\ m_FunctionCalls' = Append(m_FunctionCalls, p)
  /\ UNCHANGED <<flags, core, thread, ready, calls, control>>

-----------------------------------------------------------------------------
(* The network thread: run and tick.                                       *)

Goto(from, to) == pc = from /\ pc' = to

LockAndTest ==
  /\ \/ Goto("lock", "test")
     \/ Goto("test", IF m_running THEN "wait" ELSE "done")
  /\ UNCHANGED <<flags, core, m_FunctionCalls, counter, caller, control>>

(* m_callbackCV.wait; woken, it has the mutex again and tests once more.   *)
WaitForWork ==
  /\ \/ Goto("wait", IF m_Busy \/ ~m_running THEN "decide" ELSE "block")
     \/ Goto("block", "asleep") \/ Goto("wakeup", "wait")
  /\ UNCHANGED <<flags, core, m_FunctionCalls, counter, caller, control>>

SpuriousWakeup ==
  /\ Goto("asleep", "wakeup")
  /\ UNCHANGED <<flags, core, m_FunctionCalls, counter, caller, control>>

MutInnerLoop ==
  \/ Goto("decide", IF m_running THEN "inner" ELSE "done")
  \/ Goto("inner", IF m_Busy THEN "calls" ELSE "lock")
InnerLoop ==
  \/ Goto("decide", IF m_running THEN "inner" ELSE "done")
  \/ Goto("inner", IF m_Busy \/ m_running THEN "calls" ELSE "lock")

Loop ==
  /\ InnerLoop
  /\ counter' = 0
  /\ UNCHANGED <<flags, core, m_FunctionCalls, caller, control>>

MutSessionFull == FALSE
SessionFull == counter = MaxFunctions

(* pollFunctionCalls: one function is popped and run per step.  A client's *)
(* may open and close sockets, and sets its promise; a DestroyListener     *)
(* whose ~Listener does not get its thread back never returns.             *)
pollFunctionCalls ==
  /\ pc = "calls"
  /\ \/ /\ m_FunctionCalls = <<>> \/ SessionFull
        /\ pc' = "callbacks"
        /\ UNCHANGED <<core, m_FunctionCalls, counter, ready>>
     \/ /\ m_FunctionCalls # <<>> /\ ~SessionFull
        /\ counter' = counter + 1 /\ m_FunctionCalls' = Tail(m_FunctionCalls)
        /\ \/ /\ Head(m_FunctionCalls) \in Client /\ m_SocketClientsMap' \in BOOLEAN
              /\ \/ ready' = ready \cup {Head(m_FunctionCalls)} /\ UNCHANGED pc
                 \/ pc' = "stuck" /\ UNCHANGED ready
           \/ Head(m_FunctionCalls) \in Poster /\ UNCHANGED <<m_SocketClientsMap, ready, pc>>
        /\ UNCHANGED m_Core
  /\ UNCHANGED <<flags, cpc, calls, control>>

(* pollConnectionChanges and the pause of tick; then whether to go idle is *)
(* decided, and m_Busy cleared, without the mutex.                         *)
CheckIdle ==
  /\ \/ Goto("callbacks", "empty") /\ UNCHANGED m_Busy
     \/ /\ Goto("empty", IF ~m_SocketClientsMap /\ m_FunctionCalls = <<>>
                         THEN "idle" ELSE "inner")
        /\ UNCHANGED m_Busy
     \/ Goto("idle", "inner") /\ m_Busy' = FALSE
  /\ UNCHANGED <<m_running, m_initialized, core, m_FunctionCalls, counter, caller, control>>

-----------------------------------------------------------------------------
init == initBegin \/ initRunning \/ initInitialized \/ initThread
kill == killNotify \/ killJoin \/ killReset \/ killUninit \/ killClear
run  == LockAndTest \/ WaitForWork \/ Loop \/ pollFunctionCalls \/ CheckIdle
executeFunktion(c)  == push(c) \/ executeNotify(c) \/ get(c)
ConnectionServed(p) == servedNotify(p) \/ servedPush(p)

Next ==
  \/ init \/ killBegin \/ kill \/ run \/ SpuriousWakeup
  \/ \E c \in Client : call(c) \/ executeFunktion(c)
  \/ \E p \in Poster : polled(p) \/ ConnectionServed(p)

(* Every thread that can run is scheduled, and carries a call it has begun *)
(* through; nothing makes anyone begin one.  SF: a mutex that is free      *)
(* again and again is granted, even between endless spurious wakeups.      *)
Fairness ==
  /\ WF_vars(run) /\ WF_vars(kill) /\ WF_vars(kpc # "idle" /\ init)
  /\ \A c \in Client : WF_vars(executeFunktion(c)) /\ SF_vars(executeNotify(c))
  /\ \A p \in Poster : WF_vars(ConnectionServed(p)) /\ SF_vars(servedNotify(p))

Spec == Init /\ [][Next]_vars /\ Fairness

-----------------------------------------------------------------------------
(* Every variable has its type. *)
TypeOK ==
  /\ m_running \in BOOLEAN /\ m_Busy \in BOOLEAN /\ m_initialized \in BOOLEAN
  /\ m_Core \in 0..inits /\ m_SocketClientsMap \in BOOLEAN
  /\ m_FunctionCalls \in Seq(Client \cup Poster)
  /\ pc \in {"none", "lock", "test", "wait", "block", "asleep", "wakeup", "decide",
             "inner", "calls", "callbacks", "empty", "idle", "stuck", "done"}
  /\ counter \in 0..MaxFunctions
  /\ cpc \in [Client \cup Poster -> {"idle", "push", "notify", "get", "check", "served"}]
  /\ ready \subseteq Client
  /\ kpc \in {"idle", "init", "init2", "init3", "notify", "join", "reset", "stuck", "uninit",
              "clear"}
  /\ inits \in 0..MaxInits /\ calls \in 0..MaxCalls

(* The core outlives its use: whatever kill and init have got to, while    *)
(* the network thread calls the core m_Core is there; and init never       *)
(* assigns to m_NetworkThread while it is joinable, which would terminate  *)
(* the program.                                                            *)
CoreOutlivesUse ==
  /\ pc \in {"calls", "stuck", "callbacks", "empty"} => m_Core # Null
  /\ kpc \in {"init", "init2", "init3"} => pc = "none"

(* The thread sleeps only while there is nothing to wake it for: no socket *)
(* is open, no call was notified since m_Busy was cleared, and a kill is   *)
(* still to send its notification.                                         *)
SleepsOnlyIdle ==
  pc = "asleep" => ~m_SocketClientsMap /\ ~m_Busy /\ (m_running \/ kpc = "notify")

Queued(x) == \E i \in DOMAIN m_FunctionCalls : m_FunctionCalls[i] = x

(* ~Listener waits for its thread for ever, in a DestroyListener that the  *)
(* network thread executes or in the m_Core.reset of kill.                 *)
Stuck == "stuck" \in {pc, kpc}

(* A queued call returns, unless the manager is killed or stuck. *)
CallReturns ==
  \A c \in Client : (Queued(c) /\ m_running) ~> (cpc[c] = "idle" \/ ~m_running \/ Stuck)

(* A served connection that was reported reaches the core, unless the      *)
(* manager is killed or stuck, though the thread is notified too early.    *)
ServedIsExecuted ==
  \A p \in Poster : (Queued(p) /\ m_running) ~> (~Queued(p) \/ ~m_running \/ Stuck)

(* kill returns when the sockets are closed and every ~Listener returns.   *)
KillReturnsWhenClosed == (kpc = "join") ~> (kpc = "idle" \/ m_SocketClientsMap \/ Stuck)

(* The manager as its callers see it.                                      *)
Promise == INSTANCE AbstractManager WITH
  Caller    <- Client,
  phase     <- IF ~m_initialized THEN "down"
               ELSE IF m_running THEN "up"
               ELSE IF kpc \in {"notify", "join"} THEN "stopping" ELSE "stopped",
  sockets   <- m_SocketClientsMap,
  callState <- [c \in Client |-> IF cpc[c] = "idle" THEN "idle"
                                 ELSE IF c \in ready THEN "answered" ELSE "waiting"]

(* Every call is executed at most once and answered to the one who made    *)
(* it, and neither a call nor a socket is touched once kill has joined the *)
(* thread, however calls, kill and the next init interleave.               *)
PromiseKept == Promise!Spec

-----------------------------------------------------------------------------
(* What the tests of kill are named for, and the code does not do, even    *)
(* when every ~Listener returns.                                           *)

(* kill does not block while connections are active. *)
KillReturns == (kpc = "join") ~> (kpc = "idle" \/ Stuck)

(* A call that is active when kill is called does not deadlock. *)
CallAlwaysReturns == \A c \in Client : (cpc[c] = "get") ~> (cpc[c] = "idle" \/ Stuck)
=============================================================================
