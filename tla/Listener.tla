------------------------------- MODULE Listener -------------------------------
(***************************************************************************)
(* One http::Listener with its ListenerCore: the listening thread          *)
(* (Listener::run) and the owner, the thread of the NetworkManager that    *)
(* calls initSocket, startListening, stopListening, the queues and the     *)
(* destructor in the order NetworkManagerCore does.                        *)
(*                                                                         *)
(* Every section the owner runs under m_ListenMutex is one step, so the    *)
(* mutex is held across steps only by the listening thread, and exactly    *)
(* between the test of the wait predicate and the sleep (Locked).  A       *)
(* request's m_Connection is abstracted to the handle of the listen socket *)
(* the connection was accepted on: its session.                            *)
(***************************************************************************)
EXTENDS Naturals, Sequences

CONSTANTS
  MaxSockets,    \* bound: how many listen sockets the library hands out
  MaxQueue,      \* bound: length of the outgoing and the received queue
  UninitHandles  \* what the uninitialized m_Socket and m_pollGroup may hold

ASSUME ListenerAssumption ==
  MaxSockets \in Nat /\ MaxQueue \in Nat /\ UninitHandles \subseteq Nat

VARIABLES
  m_running, m_listening,                              \* Listener
  m_Socket, m_pollGroup,                               \* ListenerCore
  m_OutgoingMessages, m_RecivedMessegas, m_ErrorQueue, \* ListenerCore
  pc, polledOutMsg,    \* the listening thread, and its local in pollOnce
  served,              \* the last call of m_ConnectionServedCallback
  opc, ret,            \* the owner, and the result of its last call
  info_m_Socket,       \* ListenerInfo::m_Socket, the owner's copy
  openSockets, openGroups, nextHandle, \* the library
  pollFailed           \* history: whether it has ever refused to poll

flags   == <<m_running, m_listening>>
handles == <<m_Socket, m_pollGroup>>
queues  == <<m_OutgoingMessages, m_RecivedMessegas, m_ErrorQueue>>
owner   == <<opc, ret, info_m_Socket>>
library == <<openSockets, openGroups, nextHandle, pollFailed>>
vars    == <<flags, handles, queues, pc, polledOutMsg, served, owner, library>>

Invalid == 0  \* k_HSteamListenSocket_Invalid, k_HSteamNetPollGroup_Invalid
Bodies  == {"", "text"}
Request == [m_Connection : Nat, m_Message : Bodies]

Locked == pc \in {"wait", "block"}
(* m_ListenCV.notify_one: the listening thread is the only waiter. *)
notify_one == pc' = IF pc = "asleep" THEN "wakeup" ELSE pc

(* The constructors; ListenerCore leaves both handles uninitialized. *)
Init ==
  /\ m_running = TRUE /\ m_listening = FALSE
  /\ m_Socket \in UninitHandles /\ m_pollGroup \in UninitHandles
  /\ m_OutgoingMessages = <<>> /\ m_RecivedMessegas = <<>> /\ m_ErrorQueue = <<>>
  /\ pc = "lock" /\ polledOutMsg = FALSE /\ served = <<Invalid, Invalid>>
  /\ opc = "idle" /\ ret = "ok" /\ info_m_Socket = Invalid
  /\ openSockets = {} /\ openGroups = {} /\ nextHandle = 1 /\ pollFailed = FALSE

-----------------------------------------------------------------------------
(* The owner.                                                              *)

MutFree == ~m_listening /\ m_Socket = Invalid
MutReopen == ~m_listening
(* initSocket may create a socket: not listening, and none in the core. *)
SocketFree ==
  /\ ~m_listening
  /\ m_Socket = Invalid /\ m_pollGroup = Invalid

MutRefused ==
  /\ ~SocketFree
  /\ ret' = "eInvalidListener"
  /\ UNCHANGED <<opc, info_m_Socket, handles, library>>
(* NetworkManagerCore::startListening up to the call of startListening:    *)
(* Listener::initSocket and ListenerCore::initSocket.                      *)
initSocketRefused ==
  /\ ~SocketFree
  /\ ret' = "eInvalidCall"
  /\ UNCHANGED <<opc, info_m_Socket, handles, library>>

(* CreateListenSocketIP fails, or CreatePollGroup fails and the socket is  *)
(* closed again.                                                           *)
initSocketFailed ==
  /\ SocketFree
  /\ ret' \in {"eSocketInitializationFailed", "ePollingGroupInitializationFailed"}
  /\ UNCHANGED <<opc, info_m_Socket, handles, library>>

initSocketCreated ==
  /\ SocketFree /\ nextHandle <= MaxSockets
  /\ m_Socket' = nextHandle /\ m_pollGroup' = nextHandle
  /\ openSockets' = openSockets \cup {nextHandle}
  /\ openGroups' = openGroups \cup {nextHandle}
  /\ nextHandle' = nextHandle + 1 /\ UNCHANGED pollFailed
  /\ info_m_Socket' = nextHandle
  /\ ret' = "ok" /\ opc' = "start"

initSocket ==
  /\ opc = "idle" /\ info_m_Socket = Invalid
  /\ initSocketRefused \/ initSocketFailed \/ initSocketCreated
  /\ UNCHANGED <<flags, queues, pc, polledOutMsg, served>>

MutStart == m_listening' = TRUE /\ UNCHANGED pc
Start == m_listening' = TRUE /\ notify_one

startListening ==
  /\ opc = "start" /\ ~Locked
  /\ IF m_Socket = Invalid \/ m_pollGroup = Invalid
     THEN ret' = "eInvalidCall" /\ UNCHANGED <<m_listening, pc>>
     ELSE ret' = "ok" /\ Start
  /\ opc' = "idle"
  /\ UNCHANGED <<m_running, handles, queues, polledOutMsg, served, info_m_Socket, library>>

(* NetworkManagerCore::stopListening on a listening handle. *)
Stop ==
  /\ info_m_Socket # Invalid /\ ~Locked
  /\ info_m_Socket' = Invalid /\ m_listening' = FALSE /\ notify_one

stopListening ==
  /\ opc = "idle" /\ Stop /\ ret' = "ok"
  /\ UNCHANGED <<m_running, handles, queues, polledOutMsg, served, opc, library>>

push_OutgoingMessageQueue ==
  /\ opc = "idle" /\ info_m_Socket # Invalid
  /\ Len(m_OutgoingMessages) < MaxQueue
  /\ \E body \in Bodies :
       m_OutgoingMessages' = Append(m_OutgoingMessages,
         [m_Connection |-> info_m_Socket, m_Message |-> body])
  /\ UNCHANGED <<flags, handles, m_RecivedMessegas, m_ErrorQueue, pc,
                 polledOutMsg, served, owner, library>>

try_PoPReceivedMessageQueue ==
  /\ opc = "idle" /\ m_RecivedMessegas # <<>>
  /\ m_RecivedMessegas' = Tail(m_RecivedMessegas)
  /\ UNCHANGED <<flags, handles, m_OutgoingMessages, m_ErrorQueue, pc,
                 polledOutMsg, served, owner, library>>

try_PoPErrorQueue ==
  /\ opc = "idle" /\ m_ErrorQueue # <<>>
  /\ m_ErrorQueue' = Tail(m_ErrorQueue)
  /\ UNCHANGED <<flags, handles, m_OutgoingMessages, m_RecivedMessegas, pc,
                 polledOutMsg, served, owner, library>>

(* NetworkManagerCore::DestroyListener: stopListening, then the destructor *)
(* on the same thread.                                                     *)
DestroyListener ==
  /\ opc = "idle" /\ opc' = "dtor"
  /\ \/ Stop
     \/ info_m_Socket = Invalid /\ UNCHANGED <<info_m_Socket, m_listening, pc>>
  /\ UNCHANGED <<m_running, handles, queues, polledOutMsg, served, ret, library>>

(* ~Listener: m_running is cleared and the thread notified without the     *)
(* mutex, so the listening thread may step in between.                     *)
DtorClearRunning ==
  /\ opc = "dtor" /\ m_running' = FALSE /\ opc' = "notify"
  /\ UNCHANGED <<m_listening, handles, queues, pc, polledOutMsg, served, ret,
                 info_m_Socket, library>>

MutDtorNotify ==
  /\ opc = "notify" /\ opc' = "join"
  /\ UNCHANGED <<flags, handles, queues, pc, polledOutMsg, served, ret,
                 info_m_Socket, library>>
DtorNotify ==
  /\ opc = "notify" /\ notify_one /\ opc' = "join"
  /\ UNCHANGED <<flags, handles, queues, polledOutMsg, served, ret,
                 info_m_Socket, library>>

DtorJoin ==
  /\ opc = "join" /\ pc = "done" /\ opc' = "dead"
  /\ UNCHANGED <<flags, handles, queues, pc, polledOutMsg, served, ret,
                 info_m_Socket, library>>

-----------------------------------------------------------------------------
(* The listening thread: Listener::run.                                    *)

Goto(from, to) == pc = from /\ pc' = to

(* Takes the mutex, at the start of run and after DestroySocket, and tests *)
(* the outer loop.                                                         *)
LockAndTest ==
  /\ Goto("lock", IF m_running THEN "wait" ELSE "done")
  /\ UNCHANGED <<flags, handles, queues, polledOutMsg, served, owner, library>>

(* The predicate of m_ListenCV.wait, under the mutex. *)
WaitPredicate ==
  /\ Goto("wait", IF ~m_running \/ m_listening THEN "check" ELSE "block")
  /\ UNCHANGED <<flags, handles, queues, polledOutMsg, served, owner, library>>

(* m_ListenCV.wait releases the mutex and sleeps; it returns, holding the  *)
(* mutex again, when notified.                                             *)
Sleep ==
  /\ Goto("block", "asleep") \/ Goto("wakeup", "wait")
  /\ UNCHANGED <<flags, handles, queues, polledOutMsg, served, owner, library>>

(* A condition variable may also wake for no reason. *)
SpuriousWakeup ==
  /\ Goto("asleep", "wakeup")
  /\ UNCHANGED <<flags, handles, queues, polledOutMsg, served, owner, library>>

(* Not holding the mutex: the break, and the loop around pollMessages. *)
RunLoop ==
  /\ \/ Goto("check", IF m_running THEN "loop" ELSE "done")
     \/ Goto("loop", IF m_listening /\ m_running THEN "poll" ELSE "close")
     \/ Goto("poll", IF m_listening /\ m_running THEN "out" ELSE "loop")
  /\ UNCHANGED <<flags, handles, queues, polledOutMsg, served, owner, library>>

(* An empty message is dropped; another is sent and its connection         *)
(* reported with the socket of the core.                                   *)
pollOutMessages ==
  /\ Goto("out", "inc")
  /\ polledOutMsg' = (m_OutgoingMessages # <<>>)
  /\ IF m_OutgoingMessages = <<>>
     THEN UNCHANGED <<m_OutgoingMessages, served>>
     ELSE /\ m_OutgoingMessages' = Tail(m_OutgoingMessages)
          /\ served' = IF Head(m_OutgoingMessages).m_Message = "" THEN served
                       ELSE <<m_Socket, Head(m_OutgoingMessages).m_Connection>>
  /\ UNCHANGED <<flags, handles, m_RecivedMessegas, m_ErrorQueue, owner, library>>

(* pollIncMessages, and what pollOnce and pollMessages make of its result: *)
(* go on polling when a message came in or went out, else sleep and test   *)
(* the loop of run; stop listening on an error.                            *)
pollIncMessages ==
  /\ pc = "inc"
  /\ \/ /\ pc' = IF polledOutMsg THEN "poll" ELSE "loop"
        /\ UNCHANGED <<m_RecivedMessegas, m_ErrorQueue, pollFailed>>
     \/ /\ Len(m_RecivedMessegas) < MaxQueue
        /\ \E body \in Bodies :
             m_RecivedMessegas' = Append(m_RecivedMessegas,
               [m_Connection |-> m_Socket, m_Message |-> body])
        /\ pc' = "poll" /\ UNCHANGED <<m_ErrorQueue, pollFailed>>
     \/ /\ m_ErrorQueue' = Append(m_ErrorQueue, "ePollGroupHandlerInvalid")
        /\ pc' = "error" /\ pollFailed' = TRUE /\ UNCHANGED m_RecivedMessegas
  /\ UNCHANGED <<flags, handles, m_OutgoingMessages, polledOutMsg, served, owner,
                 openSockets, openGroups, nextHandle>>

(* The thread stops itself; the only waiter it could notify is itself. *)
SelfStop ==
  /\ Goto("error", "loop") /\ m_listening' = FALSE
  /\ UNCHANGED <<m_running, handles, queues, polledOutMsg, served, owner, library>>

MutCloseSocket ==
  /\ Goto("close", "ungroup") /\ m_Socket' = Invalid
  /\ UNCHANGED <<flags, m_pollGroup, queues, polledOutMsg, served, owner, library>>
(* ListenerCore::DestroySocket, in steps: the owner may call initSocket    *)
(* between any two of them.                                                *)
CloseSocket ==
  /\ Goto("close", "ungroup")
  /\ openSockets' = openSockets \ {m_Socket} /\ m_Socket' = Invalid
  /\ UNCHANGED <<flags, m_pollGroup, queues, polledOutMsg, served, owner,
                 openGroups, nextHandle, pollFailed>>

DestroyPollGroup ==
  /\ Goto("ungroup", "clear_out")
  /\ openGroups' = openGroups \ {m_pollGroup} /\ m_pollGroup' = Invalid
  /\ UNCHANGED <<flags, m_Socket, queues, polledOutMsg, served, owner,
                 openSockets, nextHandle, pollFailed>>

MutClearOutgoing ==
  /\ Goto("clear_out", "clear_in")
  /\ UNCHANGED <<flags, handles, queues, polledOutMsg, served, owner, library>>
ClearOutgoing ==
  /\ Goto("clear_out", "clear_in") /\ m_OutgoingMessages' = <<>>
  /\ UNCHANGED <<flags, handles, m_RecivedMessegas, m_ErrorQueue, polledOutMsg,
                 served, owner, library>>

ClearReceived ==
  /\ Goto("clear_in", "clear_err") /\ m_RecivedMessegas' = <<>>
  /\ UNCHANGED <<flags, handles, m_OutgoingMessages, m_ErrorQueue, polledOutMsg,
                 served, owner, library>>

ClearErrors ==
  /\ Goto("clear_err", "lock") /\ m_ErrorQueue' = <<>>
  /\ UNCHANGED <<flags, handles, m_OutgoingMessages, m_RecivedMessegas,
                 polledOutMsg, served, owner, library>>

-----------------------------------------------------------------------------
Owner ==
  \/ initSocket \/ startListening \/ stopListening
  \/ push_OutgoingMessageQueue \/ try_PoPReceivedMessageQueue \/ try_PoPErrorQueue
  \/ DestroyListener

Dtor == DtorClearRunning \/ DtorNotify \/ DtorJoin

run ==
  \/ LockAndTest \/ WaitPredicate \/ Sleep \/ RunLoop
  \/ pollOutMessages \/ pollIncMessages \/ SelfStop
  \/ CloseSocket \/ DestroyPollGroup
  \/ ClearOutgoing \/ ClearReceived \/ ClearErrors

Next == Owner \/ Dtor \/ run \/ SpuriousWakeup

(* The scheduler runs a thread that can run; a call once begun is carried  *)
(* through.  No fairness makes a caller call, or a sleeper wake unnotified. *)
Fairness == WF_vars(run) /\ WF_vars(Dtor)

Spec == Init /\ [][Next]_vars /\ Fairness

-----------------------------------------------------------------------------
Polling == {"poll", "out", "inc"}
Teardown == {"ungroup", "clear_out", "clear_in", "clear_err"}

(* Every variable holds a value of the type its declaration in listener.h  *)
(* gives it.                                                               *)
TypeOK ==
  /\ m_running \in BOOLEAN /\ m_listening \in BOOLEAN
  /\ m_Socket \in Nat /\ m_pollGroup \in Nat
  /\ m_OutgoingMessages \in Seq(Request) /\ m_RecivedMessegas \in Seq(Request)
  /\ m_ErrorQueue \in Seq({"ePollGroupHandlerInvalid"})
  /\ pc \in {"lock", "wait", "block", "asleep", "wakeup", "check", "loop", "error",
             "close", "done"} \cup Polling \cup Teardown
  /\ polledOutMsg \in BOOLEAN /\ served \in Nat \X Nat
  /\ opc \in {"idle", "start", "dtor", "notify", "join", "dead"}
  /\ ret \in {"ok", "eInvalidCall", "eSocketInitializationFailed",
              "ePollingGroupInitializationFailed"}
  /\ info_m_Socket \in Nat
  /\ openSockets \subseteq Nat /\ openGroups \subseteq Nat /\ nextHandle \in Nat \ {0}
  /\ pollFailed \in BOOLEAN

(* While the thread is in pollMessages the socket and the poll group of    *)
(* the core are open in the library: neither a restart by the owner nor a  *)
(* teardown still in progress takes them away under pollOnce.              *)
PollsLiveHandles ==
  pc \in Polling => m_Socket \in openSockets /\ m_pollGroup \in openGroups

(* The library never holds a socket or a poll group that the core has lost *)
(* the handle of: no order of initSocket and DestroySocket orphans one.    *)
NoOrphan == openSockets \subseteq {m_Socket} /\ openGroups \subseteq {m_pollGroup}

(* Once the thread polls, every request in the received queue came in on   *)
(* the socket now open: DestroySocket has emptied the queue of the         *)
(* session before, whatever the owner did in the meantime.                 *)
ReceivedSession ==
  pc \in Polling =>
    \A i \in 1..Len(m_RecivedMessegas) : m_RecivedMessegas[i].m_Connection = m_Socket

(* pollOutMessages reports a connection as served with the socket it was   *)
(* accepted on, what ConnectionServed asserts of its arguments, as long as *)
(* no poll has failed.                                                     *)
ServedSession == pollFailed \/ served[1] = served[2]

(* The handover of the socket between the owner and the thread, inductive: *)
(* the three invariants above follow from it, and so does that             *)
(* NetworkManagerCore never sees Listener::startListening refuse a socket  *)
(* that initSocket has just made.                                          *)
Live  == m_Socket \in openSockets /\ m_pollGroup \in openGroups
Awake == Polling \cup {"loop", "error", "close"}

(* Handles are live from initSocket to DestroySocket, which the thread     *)
(* only begins when not listening.                                         *)
HandlesInv ==
  /\ NoOrphan /\ Invalid \notin openSockets \cup openGroups
  /\ m_listening \/ pc \in Awake \/ (pc = "check" /\ m_running) => Live
  /\ pc = "ungroup" => m_pollGroup \in openGroups
  /\ pc \in {"close", "ungroup"} => ~m_listening

(* The owner listens only between startListening and stopListening, and    *)
(* between its initSocket and its startListening the thread is away from   *)
(* the socket.                                                             *)
OwnerInv ==
  /\ m_listening => info_m_Socket # Invalid /\ opc = "idle"
  /\ ~m_running => opc \in {"notify", "join", "dead"}
  /\ pc = "done" => ~m_running
  /\ opc = "dead" => pc = "done"
  /\ opc \in {"dtor", "notify", "join", "dead"} => info_m_Socket = Invalid
  /\ opc = "start" =>
       Live /\ info_m_Socket = m_Socket /\ pc \notin Awake \cup {"check", "ungroup"}

(* The received queue is empty whenever the thread is between two sockets. *)
SessionInv ==
  /\ pc \in {"lock", "wait", "block", "asleep", "wakeup", "check", "clear_err"}
       => m_RecivedMessegas = <<>>
  /\ pc \in Awake =>
       \A i \in 1..Len(m_RecivedMessegas) : m_RecivedMessegas[i].m_Connection = m_Socket

(* No start is missed: the thread is neither asleep nor about to be while  *)
(* it is to listen, although it tests and sleeps in two steps.             *)
SleepInv == m_listening => pc \notin {"block", "asleep"}

HandoverInv == HandlesInv /\ OwnerInv /\ SessionInv /\ SleepInv

(* Until a poll fails the owner's copy of the handle is the core's, and    *)
(* outgoing messages of an older session survive only until DestroySocket  *)
(* clears the queue, so they are never sent with the handle of a newer.    *)
OwnSession ==
  /\ pc # "error"
  /\ info_m_Socket # Invalid => m_Socket = info_m_Socket
  /\ info_m_Socket # Invalid => (m_listening \/ opc = "start")
  /\ pc \notin {"ungroup", "clear_out"} =>
       \A i \in 1..Len(m_OutgoingMessages) : m_OutgoingMessages[i].m_Connection = m_Socket
  /\ \A i \in 1..Len(m_OutgoingMessages) : m_OutgoingMessages[i].m_Connection # Invalid
OutgoingInv == pollFailed \/ OwnSession

(* A start is never missed: after startListening the thread gets to        *)
(* polling, unless listening is switched off first.                        *)
StartIsNoticed == m_listening ~> (pc \in Polling \/ ~m_listening)

(* A stop that finds the thread in its polling loop closes the socket.     *)
StopClosesPolledSocket ==
  (pc \in Polling \cup {"loop", "error"} /\ ~m_listening) ~> (openSockets = {})

(* ~Listener returns whenever its notify does not fall between the test of *)
(* the wait predicate and the sleep.                                       *)
DestructorReturns == (opc = "notify" /\ pc # "block") ~> (opc = "dead")

(* What the listener promises the NetworkManagerCore.  Until the owner     *)
(* calls startListening the socket initSocket made is not yet the port's.  *)
Opening == opc = "start"
Dead    == opc = "dead"
Port == INSTANCE ListenerPort WITH
  registered <- IF Opening THEN Invalid ELSE info_m_Socket,
  socket     <- IF Opening \/ Dead \/ m_Socket \notin openSockets THEN Invalid ELSE m_Socket,
  listening  <- m_listening,
  pending    <- IF Dead THEN 0 ELSE Len(m_OutgoingMessages),
  teardown   <- pc \in {"ungroup", "clear_out"},
  alive      <- ~Dead

(* The listener keeps what NetworkManagerCore counts on: a socket is only  *)
(* opened when the last is closed, only closed when the listener has       *)
(* stopped, and between the two only the thread takes messages.            *)
PortKept == Port!Spec

-----------------------------------------------------------------------------
(* What a test or a comment of the repository says, and the code does not. *)

=============================================================================
