----------------------------- MODULE Server_proof -----------------------------
(***************************************************************************)
(* Proofs about module Server, for any workers, limits and requests, and   *)
(* either order of HTTP_Kill and ~Server: the server uses its pool as the  *)
(* pool asks for, so that what ThreadPool_proof shows holds of it here.    *)
(***************************************************************************)
EXTENDS Server, ThreadPool_proof

(* The groups of variables of the server, in every proof below. *)
USE DEF server, life, program, network

-----------------------------------------------------------------------------
(* Types.                                                                  *)

(* Every step keeps the types of the server's own variables. *)
LEMMA ServerTypeNext == ServerTypeOK /\ [Next]_vars => ServerTypeOK'
<1> SUFFICES ASSUME ServerTypeOK, [Next]_vars PROVE ServerTypeOK'
  OBVIOUS
<1>0. RequestLimit \in Nat \ {0} /\ MaxRequests \in Nat
  BY ServerAssumption
<1> USE <1>0 DEF ServerTypeOK, GotoS, Goto_, Crash, LimitReached
<1>1. CASE run \/ pollIncMessages
  BY <1>1 DEF run, pollIncMessages
<1>2. CASE assign \/ endSession
  BY <1>2 DEF assign, endSession
<1>3. CASE startListening
  BY <1>3 DEF startListening
<1>4. CASE HTTP_Kill
  <2>1. CASE destroyLogger
    <3>1. mpc' \in {"library", "hung"} /\ logger' \in BOOLEAN
      BY <2>1 DEF destroyLogger
    <3>2. UNCHANGED <<server, killFirst, library, crashed, network>>
      BY <2>1 DEF destroyLogger
    <3> QED
      BY <3>1, <3>2
  <2>2. CASE GameNetworkingSockets_Kill
    BY <2>2 DEF GameNetworkingSockets_Kill
  <2>3. CASE killBegin
    BY <2>3 DEF killBegin
  <2>4. CASE killJoin
    BY <2>4 DEF killJoin, NetworkThreadEnds
  <2>5. CASE killReset
    <3>1. /\ mpc' \in {"hung", "reset", "quit", "ended"} /\ crashed' \in {crashed, "logger"}
          /\ UNCHANGED <<server, killFirst, logger, library, opened, requests>>
      BY <2>5 DEF killReset
    <3>2. manager' \in {manager, "down"} /\ sockets' \in BOOLEAN /\ listener' \in BOOLEAN
      BY <2>5 DEF killReset
    <3> QED
      BY <3>1, <3>2
  <2> QED
    BY <1>4, <2>1, <2>2, <2>3, <2>4, <2>5 DEF HTTP_Kill
<1>5. CASE destroyServer
  <2>1. CASE quit
    BY <2>1 DEF quit
  <2>2. CASE join
    BY <2>2 DEF join
  <2>3. CASE destroyPool
    BY <2>3 DEF destroyPool
  <2>4. CASE DestroyListener
    <3>1. sockets' \in BOOLEAN /\ listener' \in BOOLEAN
      BY <2>4 DEF DestroyListener
    <3>2. mpc' \in {"ended", "logger", "hung"}
      BY <2>4 DEF DestroyListener
    <3> QED
      BY <2>4, <3>1, <3>2 DEF DestroyListener
  <2> QED
    BY <1>5, <2>1, <2>2, <2>3, <2>4 DEF destroyServer
<1>6. CASE logConnection \/ tick
  <2>1. crashed' \in {"logger", "library"} /\ UNCHANGED <<server, mpc, killFirst, logger, library, network>>
    BY <1>6 DEF logConnection, tick
  <2> QED
    BY <2>1
<1>7. ASSUME NEW w \in Worker, work(w) \/ wakeup(w) PROVE ServerTypeOK'
  BY <1>7 DEF work, wakeup
<1>8. CASE UNCHANGED vars
  BY <1>8 DEF vars
<1>9. CASE killJoinEarly
  BY <1>9 DEF killJoinEarly, NetworkThreadEnds
<1> QED
  BY <1>1, <1>2, <1>3, <1>4, <1>5, <1>6, <1>7, <1>8, <1>9 DEF Next, serverThread, main

(* The server keeps its types, the counter of its sessions included. *)
THEOREM ServerTypeCorrect == Spec => []ServerTypeOK
<1>1. Init => ServerTypeOK
  <2>1. 0 \in 0..RequestLimit /\ 0 \in 0..MaxRequests
    BY ServerAssumption
  <2> QED
    BY <2>1, ServerAssumption DEF Init, ServerTypeOK
<1> QED
  BY <1>1, ServerTypeNext, PTL DEF Spec

-----------------------------------------------------------------------------
(* The invariant.                                                          *)

(* ~Server has its thread back. *)
Past ==
  \/ mpc = "pool"
  \/ ~killFirst /\ mpc \in {"logger", "library", "kill", "joinNetwork", "reset", "hung", "ended"}

(* The pool is destroyed with the server thread gone, which is in the      *)
(* middle of assignTask only in a session with requests left.              *)
ThreadInv ==
  /\ Past => spc = "done"
  /\ dpc # "alive" => Past
  /\ Past /\ mpc # "pool" => dpc = "dead"
  /\ cpc[ServerThread] # "idle" => spc = "assign" /\ ~LimitReached

(* HTTP_Kill first: it does not get past the listener that is left, whose  *)
(* destructor needs the logger.                                            *)
KilledFirst ==
  killFirst =>
    /\ mpc \in {"start", "logger", "library", "kill", "joinNetwork", "reset", "hung"}
    /\ listener /\ manager # "down" /\ (mpc \notin {"start", "logger", "hung"} => ~logger)

(* HTTP_Kill last: it finds neither sockets nor listeners, and while the   *)
(* logger is there nobody misses it.                                       *)
KilledLast ==
  ~killFirst =>
    /\ mpc \in {"start", "quit", "join", "pool"} => manager = "up"
    /\ mpc \in {"start", "quit", "join", "pool", "logger", "hung"} => logger
    /\ mpc \in {"logger", "library", "kill", "joinNetwork", "reset", "ended"} =>
         ~sockets /\ ~listener
    /\ crashed = "logger" => opened /\ ~logger

(* Where main is tells how far the NetworkManager is.                      *)
PhaseInv ==
  /\ mpc \notin {"joinNetwork", "reset", "hung", "ended"} => manager = "up"
  /\ mpc = "hung" => manager \in {"up", "stopped"}
  /\ mpc = "joinNetwork" => manager = "stopping"
  /\ mpc = "reset" => manager = "stopped"

ServerInv == ThreadInv /\ KilledFirst /\ KilledLast /\ PhaseInv /\ NeverThrows

(* The server thread's steps. *)
LEMMA ThreadNext ==
  ASSUME PoolTypeOK, ServerTypeOK, ServerInv, serverThread
  PROVE  ServerInv'
<1> USE ServerAssumption
    DEF PoolTypeOK, ServerTypeOK, ServerInv, ThreadInv, Past, KilledFirst, KilledLast, PhaseInv, NeverThrows,
        GotoS, LimitReached, poolVars, clients
<1>1. CASE run
  BY <1>1 DEF run
<1>2. CASE pollIncMessages
  BY <1>2 DEF pollIncMessages
<1>3. CASE assign
  BY <1>3 DEF assign, assignTask, push, assignNotify, MoveClient
<1>4. CASE endSession
  BY <1>4 DEF endSession
<1> QED
  BY <1>1, <1>2, <1>3, <1>4 DEF serverThread

(* The steps of main, and the end of the network thread it waits for. *)
LEMMA MainNext ==
  ASSUME PoolTypeOK, ServerTypeOK, ServerInv, main \/ killJoinEarly
  PROVE  ServerInv'
<1> USE ServerAssumption
    DEF PoolTypeOK, ServerTypeOK, ServerInv, ThreadInv, Past, KilledFirst, KilledLast, PhaseInv, NeverThrows,
        Goto_, LimitReached, Crash, poolVars, clients
<1>1. CASE startListening
  BY <1>1 DEF startListening
<1>2. CASE destroyLogger \/ GameNetworkingSockets_Kill
  BY <1>2 DEF destroyLogger, GameNetworkingSockets_Kill
<1>3. CASE killBegin \/ killJoin \/ killJoinEarly \/ killReset
  BY <1>3 DEF killBegin, killJoin, killJoinEarly, NetworkThreadEnds, killReset
<1>4. CASE quit \/ join
  BY <1>4 DEF quit, join
<1>5. CASE destroyPool
  BY <1>5 DEF destroyPool, DtorClearRunning, PoolDtor, DtorNotify, DtorJoin
<1>6. CASE DestroyListener
  BY <1>6 DEF DestroyListener, Serving
<1> QED
  BY <1>1, <1>2, <1>3, <1>4, <1>5, <1>6 DEF main, HTTP_Kill, destroyServer

(* The steps of the network thread and of the workers, which leave the     *)
(* server thread and main where they are.                                  *)
LEMMA OthersNext ==
  ASSUME PoolTypeOK, ServerTypeOK, ServerInv,
         logConnection \/ tick \/ \E w \in Worker : work(w) \/ wakeup(w)
  PROVE  ServerInv'
<1> USE DEF ServerTypeOK, ServerInv, ThreadInv, Past, KilledFirst, KilledLast, PhaseInv, NeverThrows,
            LimitReached
<1>1. CASE logConnection \/ tick
  BY <1>1 DEF logConnection, tick, Crash, Serving, poolVars, clients
<1>2. ASSUME NEW w \in Worker, work(w) \/ wakeup(w) PROVE ServerInv'
  <2>1. UNCHANGED <<dpc, cpc>>
    BY <1>2 DEF work, wakeup, workerLoop, SpuriousWakeup, Lock, Test, Sleep, Take, Undefined, Torn,
                Front, Pop, Unlock, RunTask, Exit, Die, clients
  <2> QED
    BY <1>2, <2>1 DEF work, wakeup
<1> QED
  BY <1>1, <1>2

(* The server is a client the pool allows: its steps are steps of a pool   *)
(* that is not destroyed while it is used, nor used after.                 *)
LEMMA StepIsPoolStep ==
  ASSUME PoolTypeOK, ServerInv, [Next]_vars
  PROVE  [PoolNext]_poolVars
<1> USE ServerAssumption DEF ServerInv, ThreadInv
<1>1. CASE assign
  <2>1. dpc = "alive" /\ ServerThread \in Client
    BY <1>1 DEF assign
  <2> QED
    BY <1>1, <2>1 DEF assign, PoolNext, PoolClient
<1>2. CASE destroyPool
  <2>1. ~InUse
    BY <1>2 DEF destroyPool, Past, InUse
  <2> QED
    BY <1>2, <2>1 DEF destroyPool, PoolNext
<1>3. ASSUME NEW w \in Worker, work(w) \/ wakeup(w) PROVE PoolNext
  BY <1>3 DEF work, wakeup, PoolNext
<1>4. CASE run \/ pollIncMessages \/ endSession \/ startListening \/ logConnection \/ tick
  BY <1>4 DEF run, pollIncMessages, endSession, startListening, logConnection, tick, Crash
<1>5. CASE HTTP_Kill \/ killJoinEarly
  BY <1>5 DEF HTTP_Kill, destroyLogger, GameNetworkingSockets_Kill, killBegin, killJoin,
              killJoinEarly, NetworkThreadEnds, killReset, Crash
<1>6. CASE quit \/ join \/ DestroyListener
  BY <1>6 DEF quit, join, DestroyListener
<1>7. CASE UNCHANGED vars
  BY <1>7 DEF vars
<1> QED
  BY <1>1, <1>2, <1>3, <1>4, <1>5, <1>6, <1>7 DEF Next, serverThread, main, destroyServer

(* The invariant holds of every run, of server and pool together. *)
LEMMA ServerCorrect == Spec => [](PoolTypeOK /\ PoolInv /\ ServerInv)
<1>1. Init => PoolTypeOK /\ PoolInv /\ ServerInv
  <2> SUFFICES ASSUME Init PROVE PoolTypeOK /\ PoolInv /\ ServerInv
    OBVIOUS
  <2>1. PoolInit
    BY DEF Init
  <2>2. cpc[ServerThread] = "idle" /\ dpc = "alive"
    BY <2>1, ServerAssumption DEF PoolInit
  <2> QED
    BY <2>1, <2>2, TypeInit, PoolInvInit
       DEF Init, ServerInv, ThreadInv, Past, KilledFirst, KilledLast, PhaseInv, NeverThrows
<1>2. PoolTypeOK /\ ServerTypeOK /\ ServerInv /\ [Next]_vars => ServerInv'
  <2>1. ServerInv /\ UNCHANGED vars => ServerInv'
    BY DEF vars, poolVars, clients, ServerInv, ThreadInv, Past, KilledFirst, KilledLast,
           NeverThrows, LimitReached, PhaseInv
  <2> QED
    BY <2>1, ThreadNext, MainNext, OthersNext DEF Next
<1>3. PoolTypeOK /\ PoolInv /\ ServerInv /\ [Next]_vars => PoolTypeOK' /\ PoolInv'
  BY StepIsPoolStep, TypeNext, PoolInvNext
<1> QED
  BY <1>1, <1>2, <1>3, ServerTypeCorrect, PTL DEF Spec

-----------------------------------------------------------------------------
(* The server keeps the contract of its pool: no task comes after the      *)
(* destructor has begun, nor is the pool destroyed during assignTask.      *)
THEOREM ContractKept == Spec => PoolContract
<1>1. Init => PoolInit
  BY DEF Init
<1>2. PoolTypeOK /\ ServerInv /\ [Next]_vars => [PoolNext]_poolVars
  BY StepIsPoolStep
<1> QED
  BY <1>1, <1>2, ServerCorrect, PTL DEF Spec, PoolContract, PoolSafety

(* So all that is shown of the pool by itself holds of it under the        *)
(* server: until a worker comes back from a task the mutex does its work   *)
(* and nothing is lost, and no task is doubled until two threads are on    *)
(* the queue at a time.                                                    *)
THEOREM ServerPoolCorrect == Spec => [](Exclusion /\ NeverTwice /\ NoneLost)
BY ContractKept, ExclusionAlways, NeverTwiceAlways, NoneLostAlways, PTL DEF PoolContract

(* value() in pollIncMessages never throws, whichever of HTTP_Kill and     *)
(* ~Server comes first.                                                    *)
THEOREM ThreadNeverThrows == Spec => []NeverThrows
<1>1. ServerInv => NeverThrows
  BY DEF ServerInv
<1> QED
  BY <1>1, ServerCorrect, PTL

(* A server destroyed before HTTP_Kill leaves neither a thread of its own  *)
(* nor a listener or a registered socket to log when the logger is gone.   *)
THEOREM LoggerOutlives == Spec => []LoggerOutlivesUse
<1>1. Spec => [](dpc = "dead" => \A w \in Worker : wpc[w] = "done")
  BY ContractKept, JoinedAlways, PTL DEF PoolContract
<1>2. /\ ServerTypeOK /\ ServerInv /\ (dpc = "dead" => \A w \in Worker : wpc[w] = "done")
      => LoggerOutlivesUse
  <2> SUFFICES ASSUME ServerTypeOK, ServerInv, ~killFirst, ~logger,
                      dpc = "dead" => \A w \in Worker : wpc[w] = "done"
               PROVE  /\ spc = "done" /\ \A w \in Worker : wpc[w] = "done"
                      /\ ~listener /\ ~sockets /\ (crashed = "logger" => opened)
    BY DEF LoggerOutlivesUse
  <2>1. mpc \in {"library", "kill", "joinNetwork", "reset", "ended"}
    BY DEF ServerTypeOK, ServerInv, KilledLast
  <2>2. spc = "done" /\ dpc = "dead"
    BY <2>1 DEF ServerInv, ThreadInv, Past
  <2> QED
    BY <2>1, <2>2 DEF ServerInv, KilledLast
<1> QED
  BY <1>1, <1>2, ServerTypeCorrect, ServerCorrect, PTL
-----------------------------------------------------------------------------
(* The server's view of the NetworkManager is AbstractManager's.           *)

LEMMA PromiseStep ==
  ASSUME ServerTypeOK, ServerInv, [Next]_vars PROVE [Promise!Next]_(Promise!vars)
<1> USE DEF ServerTypeOK, ServerInv, PhaseInv
<1>1. CASE UNCHANGED <<manager, sockets, spc>>
  BY <1>1 DEF Promise!vars
<1>2. CASE run
  <2>1. CASE GotoS("poll", "call") /\ manager # "down"
    <3>1. Promise!Call(ServerThread)
      BY <1>2, <2>1 DEF run, GotoS, Promise!Call, Promise!Move
    <3> QED
      BY <3>1 DEF Promise!Next
  <2>2. CASE spc # "call" /\ spc' # "call"
    BY <1>2, <2>2 DEF run, Promise!vars
  <2> QED
    BY <1>2, <2>1, <2>2 DEF run, GotoS
<1>3. CASE pollIncMessages
  <2>1. Promise!Answer(ServerThread)
    BY <1>3 DEF pollIncMessages, Serving, GotoS, Promise!Answer, Promise!Serving, Promise!Move
  <2> QED
    BY <2>1 DEF Promise!Next
<1>4. CASE endSession
  BY <1>4 DEF endSession, GotoS, Promise!vars
<1>5. CASE assign \/ (destroyServer /\ ~DestroyListener) \/ logConnection \/ tick \/ UNCHANGED vars
           \/ \E w \in Worker : work(w) \/ wakeup(w)
  BY <1>1, <1>5 DEF assign, destroyServer, quit, join, destroyPool, logConnection, tick, Crash, vars,
     work, wakeup
<1>6. CASE startListening
  BY <1>6 DEF startListening, Goto_, Promise!Next, Promise!Execute, Promise!Serving
<1>7. CASE DestroyListener
  BY <1>7 DEF DestroyListener, Goto_, Serving, Promise!Next, Promise!Execute, Promise!Serving
<1>8. CASE HTTP_Kill \/ killJoinEarly
  <2>1. CASE destroyLogger \/ GameNetworkingSockets_Kill
    BY <1>1, <2>1 DEF destroyLogger, GameNetworkingSockets_Kill
  <2>2. CASE killBegin
    BY <2>2 DEF killBegin, Goto_, Promise!Next, Promise!Stop, Promise!Goto
  <2>3. CASE killJoin \/ killJoinEarly
    BY <2>3 DEF killJoin, killJoinEarly, NetworkThreadEnds, Goto_, Promise!Next, Promise!Join,
       Promise!Goto
  <2>4. CASE killReset
    BY <1>1, <2>4 DEF killReset, Goto_, Crash, Promise!Next, Promise!Down, Promise!Goto
  <2> QED
    BY <1>8, <2>1, <2>2, <2>3, <2>4 DEF HTTP_Kill
<1> QED
  BY <1>2, <1>3, <1>4, <1>5, <1>6, <1>7, <1>8 DEF Next, serverThread, main, destroyServer

(* The manager in this model takes no step that AbstractManager does not   *)
(* have: whatever main and the server thread do, no call is answered after *)
(* kill has joined the network thread, as NetworkManager_proof shows of    *)
(* the NetworkManager itself.                                              *)
THEOREM StubWithinPromise == Spec => ManagerAsPromised
<1>1. Init => Promise!Init
  BY DEF Init, Promise!Init
<1>2. ServerTypeOK /\ ServerInv /\ [Next]_vars => [Promise!Next]_(Promise!vars)
  BY PromiseStep
<1> QED
  BY <1>1, <1>2, ServerTypeCorrect, ServerCorrect, PTL DEF Spec, ManagerAsPromised, Promise!Spec
=============================================================================
