-------------------------------- MODULE Server --------------------------------
(***************************************************************************)
(* http::Server and the life of the program around it: main, which starts  *)
(* the server, kills the library (HTTP_Kill) and destroys the server, the  *)
(* server thread (run), which polls for requests and hands them to the     *)
(* ThreadPool m_CPUWorkers, whose steps are those of module ThreadPool.    *)
(* main.cpp calls HTTP_Kill first and destroys the server when main        *)
(* returns; a program that scopes its server does it the other way round.  *)
(*                                                                         *)
(* The NetworkManager is seen from outside (module AbstractManager): kill  *)
(* returns when no socket is registered and may wait, for ever, while one  *)
(* is, and a call that comes after its thread has ended never returns.     *)
(* A join that may block for ever, of the log thread or of a listening     *)
(* thread, is a step to where main hangs.                                  *)
(* m_APIWorkers is never given a task: a ThreadPool without clients, left  *)
(* out.                                                                    *)
(***************************************************************************)
EXTENDS ThreadPool

CONSTANTS
  ServerThread,  \* m_ServerThread, the only client of the pool
  RequestLimit,  \* REQUEST_LIMIT_PER_SESSION
  MaxRequests,   \* bound: how many requests are received
  KillFirst      \* whether HTTP_Kill comes before ~Server: TRUE in main.cpp

ASSUME ServerAssumption ==
  /\ Client = {ServerThread} /\ KillFirst \subseteq BOOLEAN
  /\ RequestLimit \in Nat \ {0} /\ MaxRequests \in Nat
  /\ RequestLimit * MaxRequests <= MaxTasks

VARIABLES
  m_bQuit,
  spc, limitCounter,  \* the server thread, and its local in pollIncMessages
  mpc, killFirst,     \* main, and the order of its last two calls
  logger, library,    \* whether Log::pInstance and the sockets library are there
  crashed,            \* which of them was used when not, or "none"
  manager,            \* the NetworkManager
  sockets,            \* whether m_SocketClientsMap of its core has entries
  opened,             \* whether there was a socket, so that callbacks may be queued
  listener,           \* whether its core has m_Listener
  requests            \* how many requests were received

server  == <<m_bQuit, spc, limitCounter>>
life    == <<killFirst, logger, library, crashed>>
program == <<mpc, life>>
network == <<manager, sockets, opened, listener, requests>>
vars == <<poolVars, server, program, network>>

(* initHTTP has succeeded and the constructor has its listener. *)
Init ==
  /\ PoolInit
  /\ m_bQuit = FALSE /\ spc = "loop" /\ limitCounter = 0
  /\ mpc = "start" /\ killFirst \in KillFirst
  /\ logger = TRUE /\ library = TRUE /\ crashed = "none"
  /\ manager = "up" /\ sockets = FALSE /\ opened = FALSE
  /\ listener = TRUE /\ requests = 0

-----------------------------------------------------------------------------
(* The server thread.                                                      *)

Alive == Running /\ crashed = "none"
GotoS(from, to) == Alive /\ spc = from /\ spc' = to
MutServing == manager # "down"
(* The call came in while the network thread still executes calls. *)
Serving == manager \in {"up", "stopping"}

(* run, and the call of try_PoPReceivedMessageQueue up to its promise: it  *)
(* returns an error, and value() throws, when m_initialized is false.      *)
run ==
  /\ \/ GotoS("loop", IF m_bQuit THEN "done" ELSE "poll") /\ limitCounter' = 0
     \/ GotoS("poll", IF manager = "down" THEN "threw" ELSE "call") /\ UNCHANGED limitCounter
  /\ UNCHANGED <<poolVars, m_bQuit, program, network>>

(* The call returns with a request, when the server listens, or without. *)
pollIncMessages ==
  /\ Serving
  /\ \/ GotoS("call", "loop") /\ UNCHANGED requests
     \/ /\ GotoS("call", "assign")
        /\ sockets /\ requests < MaxRequests /\ requests' = requests + 1
  /\ UNCHANGED <<poolVars, m_bQuit, limitCounter, program, manager, sockets, opened, listener>>

MutLimitReached == FALSE
MutLimitPassed == limitCounter > RequestLimit
LimitReached == limitCounter >= RequestLimit

(* The loop: the one request is handed over until the limit is reached. *)
assign ==
  /\ Alive /\ spc = "assign" /\ ~LimitReached
  /\ \/ assignTask(ServerThread) /\ UNCHANGED limitCounter
     \/ push(ServerThread) /\ UNCHANGED limitCounter
     \/ assignNotify(ServerThread) /\ limitCounter' = limitCounter + 1
  /\ UNCHANGED <<m_bQuit, spc, program, network>>

endSession ==
  /\ LimitReached /\ GotoS("assign", "loop")
  /\ UNCHANGED <<poolVars, m_bQuit, limitCounter, program, network>>

serverThread == run \/ pollIncMessages \/ assign \/ endSession

-----------------------------------------------------------------------------
(* main.                                                                   *)

Goto_(from, to) == Alive /\ mpc = from /\ mpc' = to

(* The call opens and registers a socket, or fails, possibly after it has  *)
(* opened one.                                                             *)
startListening ==
  /\ Goto_("start", IF killFirst THEN "logger" ELSE "quit")
  /\ sockets' \in BOOLEAN /\ opened' \in BOOLEAN /\ (sockets' => opened')
  /\ UNCHANGED <<poolVars, server, life, manager, listener, requests>>

Crash(of) ==
  /\ crashed' = of
  /\ UNCHANGED <<poolVars, server, mpc, killFirst, logger, library, network>>

(* HTTP_Kill: DESTROY_LOGGER, GameNetworkingSockets_Kill, which deletes    *)
(* the object m_Real of the adapter points to, then NetworkManager::kill.  *)
(* delete pInstance joins the log thread, which may have slept through its *)
(* notification (StopReturns in Logger says when it has not): then main    *)
(* hangs, before pInstance is null.                                        *)
destroyLogger ==
  /\ \/ Goto_("logger", "library") /\ logger' = FALSE
     \/ Goto_("logger", "hung") /\ UNCHANGED logger
  /\ UNCHANGED <<poolVars, server, killFirst, library, crashed, network>>

GameNetworkingSockets_Kill ==
  /\ Goto_("library", "kill") /\ library' = FALSE
  /\ UNCHANGED <<poolVars, server, killFirst, logger, crashed, network>>

killBegin ==
  /\ Goto_("kill", "joinNetwork") /\ manager' = "stopping"
  /\ UNCHANGED <<poolVars, server, life, sockets, opened, listener, requests>>

NetworkThreadEnds ==
  /\ Goto_("joinNetwork", "reset") /\ manager' = "stopped"
  /\ UNCHANGED <<poolVars, server, life, sockets, opened, listener, requests>>

(* The network thread ends once no socket is registered.  It ends with one *)
(* if it cleared m_Busy just before the call that opened it was executed.  *)
killJoin == ~sockets /\ NetworkThreadEnds
killJoinEarly == sockets /\ NetworkThreadEnds

(* m_Core.reset destroys the listener that is left: ~Listener joins its    *)
(* thread, for ever if that has slept through its notification (see        *)
(* DestructorReturns in Listener), and logs when it has.                   *)
killReset ==
  \/ listener /\ Goto_("reset", "hung") /\ UNCHANGED <<poolVars, server, life, network>>
  \/ listener /\ ~logger /\ Goto_("reset", "reset") /\ Crash("logger")
  \/ /\ ~listener \/ logger
     /\ Goto_("reset", IF killFirst THEN "quit" ELSE "ended")
     /\ manager' = "down" /\ sockets' = FALSE /\ listener' = FALSE
     /\ UNCHANGED <<poolVars, server, life, opened, requests>>

HTTP_Kill ==
  destroyLogger \/ GameNetworkingSockets_Kill \/ killBegin \/ killJoin \/ killReset

(* ~Server: the thread is joined, the pool destroyed, then the listener. *)
quit ==
  /\ Goto_("quit", "join") /\ m_bQuit' = TRUE
  /\ UNCHANGED <<poolVars, spc, limitCounter, life, network>>

MutJoin ==
  /\ Goto_("join", "pool")
  /\ UNCHANGED <<poolVars, server, life, network>>
join ==
  /\ Goto_("join", "pool") /\ spc = "done"
  /\ UNCHANGED <<poolVars, server, life, network>>

destroyPool ==
  /\ Alive /\ mpc = "pool" /\ (DtorClearRunning \/ PoolDtor)
  /\ UNCHANGED <<server, program, network>>

MutDestroyListener ==
  /\ Goto_("pool", "logger") /\ dpc = "dead"
  /\ UNCHANGED <<poolVars, server, life, network>>
(* DestroyListener unregisters the socket and joins the listening thread,  *)
(* which may take for ever; it returns an error that is ignored when the   *)
(* manager is not initialized.                                             *)
DestroyListener ==
  /\ dpc = "dead" /\ manager # "stopped"
  /\ \/ Goto_("pool", IF killFirst THEN "ended" ELSE "logger")
     \/ listener /\ Serving /\ Goto_("pool", "hung")
  /\ sockets' = (sockets /\ ~Serving) /\ listener' = (listener /\ ~Serving)
  /\ UNCHANGED <<poolVars, server, life, manager, opened, requests>>

destroyServer == quit \/ join \/ destroyPool \/ DestroyListener
main == startListening \/ HTTP_Kill \/ destroyServer

(* A log through the null pointer pInstance is not survived.  Whatever the *)
(* core still has registered, the network thread logs in each callback it  *)
(* runs: one that was queued before DestroyListener, or by the closing of  *)
(* connections in it, or on a socket that ~Listener has left open.  The    *)
(* listening thread logs when it enters and when it leaves its loop.       *)
logConnection ==
  Alive /\ opened /\ ~logger /\ (Serving \/ listener) /\ Crash("logger")

(* Every tick runs the callbacks of the library.  Of one that was deleted  *)
(* this may crash or do nothing that anyone sees.                          *)
tick ==
  Alive /\ Serving /\ ~library /\ Crash("library")

-----------------------------------------------------------------------------
work(w) == Alive /\ workerLoop(w) /\ UNCHANGED <<server, program, network>>
wakeup(w) == Alive /\ SpuriousWakeup(w) /\ UNCHANGED <<server, program, network>>
lock(w) == Alive /\ Lock(w) /\ UNCHANGED <<server, program, network>>

Next ==
  \/ serverThread \/ main \/ killJoinEarly \/ logConnection \/ tick
  \/ \E w \in Worker : work(w) \/ wakeup(w)

(* As for the pool.  main carries on; a call of the NetworkManager that    *)
(* can return does (CallReturns there).                                    *)
Fairness ==
  /\ \A w \in Worker : WF_vars(work(w)) /\ SF_vars(lock(w))
  /\ WF_vars(serverThread) /\ SF_vars(assign) /\ WF_vars(main)

Spec == Init /\ [][Next]_vars /\ Fairness

-----------------------------------------------------------------------------
(* Every variable has its type. *)
ServerTypeOK ==
  /\ m_bQuit \in BOOLEAN /\ spc \in {"loop", "poll", "call", "assign", "threw", "done"}
  /\ limitCounter \in 0..RequestLimit
  /\ mpc \in {"start", "logger", "library", "kill", "joinNetwork", "reset", "quit", "join", "pool", "hung", "ended"}
  /\ killFirst \in BOOLEAN /\ logger \in BOOLEAN /\ library \in BOOLEAN
  /\ crashed \in {"none", "logger", "library"}
  /\ manager \in {"up", "stopping", "stopped", "down"}
  /\ sockets \in BOOLEAN /\ opened \in BOOLEAN /\ listener \in BOOLEAN
  /\ requests \in 0..MaxRequests

(* The server uses its pool as a pool may be used: it is not destroyed     *)
(* while the server thread assigns a task, and gets no task afterwards.    *)
PoolContract == PoolSafety

(* The NetworkManager as AbstractManager has it, with the one caller.      *)
Promise == INSTANCE AbstractManager WITH
  Caller    <- {ServerThread},
  phase     <- manager,
  callState <- [c \in {ServerThread} |-> IF spc = "call" THEN "waiting" ELSE "idle"]

(* The manager as it is modelled here takes only steps the NetworkManager  *)
(* promises to take: whatever kill has got to when the server thread calls *)
(* it answers nothing after the join, and no call is executed after it.    *)
ManagerAsPromised == Promise!Spec

(* value() in pollIncMessages never throws: the server thread is gone      *)
(* before the NetworkManager stops answering.  With HTTP_Kill first it is  *)
(* not gone; there kill gets no further than the destruction of the        *)
(* listener, which needs the logger, and never clears m_initialized.       *)
NeverThrows == spc # "threw"

(* Destroyed before HTTP_Kill, the server leaves nothing behind that logs  *)
(* when the logger is gone: its thread and workers have ended, and there   *)
(* is neither a listening thread nor a registered socket.  Only a callback *)
(* that was still queued can reach for the logger.                         *)
LoggerOutlivesUse ==
  ~killFirst /\ ~logger =>
    /\ spc = "done" /\ \A w \in Worker : wpc[w] = "done"
    /\ ~listener /\ ~sockets /\ (crashed = "logger" => opened)

(* ~Server gets its thread back: a session of polling comes to an end.     *)
ServerThreadJoins == (mpc = "join") ~> (mpc = "pool" \/ failed # "none")

(* Destroyed first, the server does not keep HTTP_Kill from returning once *)
(* the logger is destroyed, unless the program dies of what HTTP_Kill has  *)
(* deleted before it stops the network thread.                             *)
KillReturnsLast ==
  (~killFirst /\ mpc = "library") ~> (mpc = "ended" \/ crashed # "none")

-----------------------------------------------------------------------------
(* What a comment of the repository says, and the code does not.           *)

(* HTTPinitialization.h:26: what is created is destroyed: HTTP_Kill        *)
(* returns, and the program after it ends, instead of using what is gone.  *)
(* A join that misses its notification is not what is meant here.          *)
EverythingIsDestroyed == (mpc = "logger") ~> (mpc \in {"hung", "ended"})
=============================================================================
