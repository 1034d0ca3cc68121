-------------------------- MODULE NetworkManagerCore --------------------------
(***************************************************************************)
(* http::NetworkManagerCore: the registry of listeners and of the          *)
(* connections accepted on their sockets.  Everything here but the library *)
(* and the listening threads runs on the one thread of the NetworkManager, *)
(* which executes the queued function calls and then dispatches, in order, *)
(* the batch of connection callbacks the library had queued.  Callbacks    *)
(* are snapshots: what they tell may be out of date when they are run.     *)
(*                                                                         *)
(* Which call a client queues is unknown, so a call is chosen when it is   *)
(* executed; only the ConnectionServed calls, made by listening threads,   *)
(* are kept in m_FunctionCalls.  A call that returns an error changes      *)
(* nothing and is a stuttering step.  The listening thread is the one of   *)
(* module Listener seen from outside (module ListenerPort): it serves      *)
(* outgoing messages and, not listening any more, closes its socket and    *)
(* then empties its queue, at some time or never.                          *)
(***************************************************************************)
EXTENDS Naturals, Sequences, Functions

CONSTANTS
  Connection,    \* what the network ever opens: HSteamNetConnection
  MaxListeners,  \* bound: how many listeners are created
  MaxSockets,    \* bound: how many listen sockets the library hands out
  MaxOutgoing    \* bound: outgoing messages waiting, and calls of ConnectionServed

ASSUME CoreAssumption ==
  /\ Connection \subseteq Nat
  /\ MaxListeners \in Nat /\ MaxSockets \in Nat /\ MaxOutgoing \in Nat

VARIABLES
  m_Listeners,            \* HListener -> ListenerInfo::m_Socket
  m_SocketClientsMap,     \* HSteamListenSocket -> its m_AllConnections
  isServed,               \* the connections of the map whose flag is set
  m_ListenerHandlerIndex,
  m_FunctionCalls,        \* the queued calls of ConnectionServed
  aborted,                \* the function whose assert failed, or "none"
  m_Socket, m_listening, m_OutgoingMessages,  \* of the listener of each handle
  teardown,               \* whether its DestroySocket has not emptied the queue yet
  openSockets, nextSocket,                    \* the library
  state, listenSocket,    \* of each connection, in the library
  callbacks, batch,       \* queued callbacks, and the ones RunCallbacks took
  accepted                \* whether AcceptConnection succeeded for the first of batch

registry  == <<m_Listeners, m_SocketClientsMap, isServed, m_ListenerHandlerIndex>>
listeners == <<m_Socket, m_listening, m_OutgoingMessages, teardown>>
sockets   == <<openSockets, nextSocket>>
conns     == <<state, listenSocket>>
dispatch  == <<callbacks, batch, accepted>>
vars == <<registry, m_FunctionCalls, aborted, listeners, sockets, conns, dispatch>>

Invalid == 0   \* k_HSteamListenSocket_Invalid
Handles == 1..MaxListeners
Sockets == 1..MaxSockets

(* std::unordered_map and std::vector, as far as the code uses them. *)
Emplace(f, x, v) ==
  [y \in DOMAIN f \cup {x} |-> IF y \in DOMAIN f THEN f[y] ELSE v]
Erase(f, x) == Restrict(f, DOMAIN f \ {x})

(* A callback is a snapshot of the connection's change of state. *)
Callback(c, new) == [m_hConn |-> c, m_hListenSocket |-> listenSocket[c], m_eState |-> new]
InLibrary(c) == state[c] \in {"Connecting", "Connected", "Ended"}

Init ==
  /\ m_Listeners = <<>> /\ m_SocketClientsMap = <<>> /\ isServed = {}
  /\ m_ListenerHandlerIndex = 1 /\ m_FunctionCalls = <<>> /\ aborted = "none"
  /\ m_Socket = [h \in Handles |-> Invalid]
  /\ m_listening = [h \in Handles |-> FALSE]
  /\ m_OutgoingMessages = [h \in Handles |-> <<>>]
  /\ teardown = [h \in Handles |-> FALSE]
  /\ openSockets = {} /\ nextSocket = 1
  /\ state = [c \in Connection |-> "Unused"]
  /\ listenSocket = [c \in Connection |-> Invalid]
  /\ callbacks = <<>> /\ batch = <<>> /\ accepted = FALSE

Abort(function) ==
  /\ aborted' = function
  /\ UNCHANGED <<registry, m_FunctionCalls, listeners, sockets, conns, dispatch>>

-----------------------------------------------------------------------------
(* Function calls, executed by pollFunctionCalls between two batches.      *)

(* The thread of the NetworkManager is not in RunCallbacks. *)
Running == aborted = "none"
AtCalls == Running /\ batch = <<>>

isValidListenerHandler(h) == h \in DOMAIN m_Listeners
Known(s) == s \in DOMAIN m_SocketClientsMap

MutCreate ==
  /\ m_Listeners' = Emplace(m_Listeners, m_ListenerHandlerIndex, Invalid)
  /\ UNCHANGED m_ListenerHandlerIndex
Create ==
  /\ m_Listeners' = Emplace(m_Listeners, m_ListenerHandlerIndex, Invalid)
  /\ m_ListenerHandlerIndex' = m_ListenerHandlerIndex + 1

(* The asserts of createListener, stopListening and                        *)
(* push_OutgoingMessageQueue are part of RegistryConsistent.               *)
createListener ==
  /\ AtCalls
  /\ m_ListenerHandlerIndex \in Handles /\ Create
  /\ UNCHANGED <<m_SocketClientsMap, isServed, m_FunctionCalls, aborted,
                 listeners, sockets, conns, dispatch>>

(* initSocket is refused while the listener still has its last socket.  A  *)
(* refusal or a failure is the stuttering step.                            *)
startListening(h) ==
  /\ AtCalls
  /\ isValidListenerHandler(h) /\ m_Listeners[h] = Invalid
  /\ m_Socket[h] = Invalid /\ ~m_listening[h] /\ nextSocket \in Sockets
  /\ nextSocket' = nextSocket + 1 /\ openSockets' = openSockets \cup {nextSocket}
  /\ m_Socket' = [m_Socket EXCEPT ![h] = nextSocket]
  /\ m_Listeners' = [m_Listeners EXCEPT ![h] = nextSocket]
  /\ m_SocketClientsMap' = Emplace(m_SocketClientsMap, nextSocket, {})
  /\ m_listening' = [m_listening EXCEPT ![h] = TRUE]
  /\ UNCHANGED <<isServed, m_ListenerHandlerIndex, m_FunctionCalls, aborted,
                 m_OutgoingMessages, teardown, conns, dispatch>>

MutCloseConnections(s) == UNCHANGED state
(* CloseConnection for every connection listed on s. *)
CloseConnections(s) ==
  state' = [c \in Connection |-> IF c \in m_SocketClientsMap[s] THEN "Gone" ELSE state[c]]

MutForget(s) == UNCHANGED m_SocketClientsMap /\ isServed' = isServed \ m_SocketClientsMap[s]
Forget(s) ==
  /\ m_SocketClientsMap' = Erase(m_SocketClientsMap, s)
  /\ isServed' = isServed \ m_SocketClientsMap[s]

stopListening(h) ==
  /\ AtCalls
  /\ isValidListenerHandler(h) /\ m_Listeners[h] # Invalid
  /\ CloseConnections(m_Listeners[h]) /\ Forget(m_Listeners[h])
  /\ m_Listeners' = [m_Listeners EXCEPT ![h] = Invalid]
  /\ m_listening' = [m_listening EXCEPT ![h] = FALSE]
  /\ UNCHANGED <<m_ListenerHandlerIndex, m_FunctionCalls, aborted, m_Socket,
                 m_OutgoingMessages, teardown, sockets, listenSocket, dispatch>>

(* CloseListenSocket takes the socket's connections with it. *)
CloseListenSocket(s) ==
  /\ openSockets' = openSockets \ {s}
  /\ state' = [c \in Connection |->
                 IF InLibrary(c) /\ listenSocket[c] = s THEN "Gone" ELSE state[c]]

(* stopListening and ~Listener; the thread that is joined may or may not   *)
(* destroy the socket first (module Listener), but not while it is polled  *)
(* on.                                                                     *)
DestroyListener(h) ==
  /\ AtCalls
  /\ isValidListenerHandler(h)
  /\ \/ m_Listeners[h] = Invalid /\ UNCHANGED <<m_SocketClientsMap, isServed>>
     \/ m_Listeners[h] # Invalid /\ Forget(m_Listeners[h])
  /\ m_Listeners' = Erase(m_Listeners, h)
  /\ \E left \in BOOLEAN :
       /\ openSockets' = IF left THEN openSockets ELSE openSockets \ {m_Socket[h]}
       /\ state' = [c \in Connection |->
            IF \/ m_Listeners[h] # Invalid /\ c \in m_SocketClientsMap[m_Listeners[h]]
               \/ ~left /\ InLibrary(c) /\ listenSocket[c] = m_Socket[h]
            THEN "Gone" ELSE state[c]]
  /\ m_Socket' = [m_Socket EXCEPT ![h] = Invalid]
  /\ m_listening' = [m_listening EXCEPT ![h] = FALSE]
  /\ m_OutgoingMessages' = [m_OutgoingMessages EXCEPT ![h] = <<>>]
  /\ teardown' = [teardown EXCEPT ![h] = FALSE]
  /\ UNCHANGED <<m_ListenerHandlerIndex, m_FunctionCalls, aborted, nextSocket,
                 listenSocket, dispatch>>

push_OutgoingMessageQueue(h, c) ==
  /\ AtCalls
  /\ isValidListenerHandler(h) /\ m_Listeners[h] # Invalid
  /\ c \in m_SocketClientsMap[m_Listeners[h]]
  /\ Len(m_OutgoingMessages[h]) < MaxOutgoing
  /\ m_OutgoingMessages' = [m_OutgoingMessages EXCEPT ![h] = Append(@, c)]
  /\ UNCHANGED <<registry, m_FunctionCalls, aborted, m_Socket, m_listening, teardown,
                 sockets, conns, dispatch>>

(* The first queued call of ConnectionServed, with its two asserts. *)
ConnectionServed ==
  /\ AtCalls
  /\ m_FunctionCalls # <<>>
  /\ LET s == Head(m_FunctionCalls)[1]
         c == Head(m_FunctionCalls)[2]
     IN \/ ~Known(s) /\ Abort("ConnectionServed: socket")
        \/ Known(s) /\ c \notin m_SocketClientsMap[s] /\ Abort("ConnectionServed: connection")
        \/ /\ Known(s) /\ c \in m_SocketClientsMap[s]
           /\ isServed' = isServed \cup {c}
           /\ m_FunctionCalls' = Tail(m_FunctionCalls)
           /\ UNCHANGED <<m_Listeners, m_SocketClientsMap, m_ListenerHandlerIndex, aborted,
                          listeners, sockets, conns, dispatch>>

pollFunctionCalls ==
  \/ createListener \/ ConnectionServed
  \/ \E h \in Handles :
       \/ startListening(h) \/ stopListening(h) \/ DestroyListener(h)
       \/ \E c \in Connection : push_OutgoingMessageQueue(h, c)

-----------------------------------------------------------------------------
(* Callbacks: pollConnectionChanges, then callbackManager for each.        *)

(* RunCallbacks takes what is queued; later callbacks are for the next one. *)
pollConnectionChanges ==
  /\ AtCalls /\ callbacks # <<>>
  /\ batch' = callbacks /\ callbacks' = <<>>
  /\ UNCHANGED <<registry, m_FunctionCalls, aborted, listeners, sockets, conns, accepted>>

(* AcceptConnection fails, the connection having ended in the meantime or  *)
(* ending in the handshake, and is closed.                                 *)
Refused(c) ==
  /\ \/ state[c] = "Connecting" /\ callbacks' = Append(callbacks, Callback(c, "Ended"))
     \/ state[c] # "Connecting" /\ UNCHANGED callbacks
  /\ state' = [state EXCEPT ![c] = "Gone"] /\ batch' = Tail(batch)
  /\ UNCHANGED <<m_SocketClientsMap, accepted>>

AcceptedBy(c) ==
  /\ state[c] = "Connecting" /\ state' = [state EXCEPT ![c] = "Connected"]
  /\ callbacks' = Append(callbacks, Callback(c, "Connected"))
  /\ accepted' = TRUE /\ UNCHANGED <<m_SocketClientsMap, batch>>

(* SetConnectionPollGroup fails when the listening thread has closed the   *)
(* socket since: then the connection is closed, else it is listed.         *)
AssignPollGroup(c, s) ==
  /\ IF InLibrary(c) /\ s \in openSockets
     THEN /\ m_SocketClientsMap' =
               [m_SocketClientsMap EXCEPT ![s] = m_SocketClientsMap[s] \cup {c}]
          /\ UNCHANGED state
     ELSE state' = [state EXCEPT ![c] = "Gone"] /\ UNCHANGED m_SocketClientsMap
  /\ batch' = Tail(batch) /\ accepted' = FALSE /\ UNCHANGED callbacks

Connecting(c, s) ==
  \/ accepted /\ ~Known(s) /\ Abort("Connecting")
  \/ /\ \/ ~accepted /\ (Refused(c) \/ AcceptedBy(c))
        \/ accepted /\ Known(s) /\ AssignPollGroup(c, s)
     /\ UNCHANGED <<m_Listeners, isServed, m_ListenerHandlerIndex, m_FunctionCalls, aborted,
                    listeners, sockets, listenSocket>>

MutDrop(c, s) == batch' = Tail(batch) /\ UNCHANGED <<m_SocketClientsMap, isServed, state>>
Drop(c, s) ==
  /\ m_SocketClientsMap' = [m_SocketClientsMap EXCEPT ![s] = m_SocketClientsMap[s] \ {c}]
  /\ isServed' = isServed \ {c} /\ state' = [state EXCEPT ![c] = "Gone"]
  /\ batch' = Tail(batch)

(* ClosedByPeer and ProblemDetectedLocally, with the asserts on the map. *)
Disconnected(c, s) ==
  \/ ~Known(s) /\ Abort("Disconnected: socket")
  \/ Known(s) /\ c \notin m_SocketClientsMap[s] /\ Abort("Disconnected: connection")
  \/ /\ Known(s) /\ c \in m_SocketClientsMap[s] /\ Drop(c, s)
     /\ UNCHANGED <<m_Listeners, m_ListenerHandlerIndex, m_FunctionCalls, aborted,
                    listeners, sockets, listenSocket, callbacks, accepted>>

(* Connected.  The callbacks of connections the server closes itself (state *)
(* None) only log and are left out.                                        *)
Ignored ==
  /\ batch' = Tail(batch)
  /\ UNCHANGED <<registry, m_FunctionCalls, aborted, listeners, sockets, conns,
                 callbacks, accepted>>

callbackManager ==
  /\ Running /\ batch # <<>>
  /\ LET cb == Head(batch)
     IN \/ cb.m_eState = "Connecting" /\ Connecting(cb.m_hConn, cb.m_hListenSocket)
        \/ cb.m_eState = "Ended" /\ Disconnected(cb.m_hConn, cb.m_hListenSocket)
        \/ cb.m_eState = "Connected" /\ Ignored

-----------------------------------------------------------------------------
(* The listening thread of handle h, and the library.                      *)

(* The thread is on its socket, and not still in the last DestroySocket. *)
HasSocket(h) == m_Socket[h] # Invalid /\ ~teardown[h]

(* pollOutMessages: drops an empty message; sends another, and queues the  *)
(* call of ConnectionServed.                                               *)
Serve(h) ==
  /\ Running
  /\ HasSocket(h) /\ m_OutgoingMessages[h] # <<>>
  /\ m_OutgoingMessages' = [m_OutgoingMessages EXCEPT ![h] = Tail(m_OutgoingMessages[h])]
  /\ \/ UNCHANGED m_FunctionCalls
     \/ /\ Len(m_FunctionCalls) < MaxOutgoing
        /\ m_FunctionCalls' =
             Append(m_FunctionCalls, <<m_Socket[h], Head(m_OutgoingMessages[h])>>)
  /\ UNCHANGED <<registry, aborted, m_Socket, m_listening, teardown, sockets, conns,
                 dispatch>>

(* pollMessages stops the listener when polling has failed. *)
SelfStop(h) ==
  /\ Running
  /\ HasSocket(h) /\ m_listening[h]
  /\ m_listening' = [m_listening EXCEPT ![h] = FALSE]
  /\ UNCHANGED <<registry, m_FunctionCalls, aborted, m_Socket, m_OutgoingMessages, teardown,
                 sockets, conns, dispatch>>

MutLeftLoop(h) == HasSocket(h)
LeftLoop(h) == HasSocket(h) /\ ~m_listening[h]

(* DestroySocket, in two steps: meanwhile the owner may start the listener *)
(* again and queue messages for the new session.                           *)
DestroySocket(h) ==
  /\ Running
  /\ LeftLoop(h) /\ CloseListenSocket(m_Socket[h])
  /\ m_Socket' = [m_Socket EXCEPT ![h] = Invalid]
  /\ teardown' = [teardown EXCEPT ![h] = TRUE]
  /\ UNCHANGED <<registry, m_FunctionCalls, aborted, m_listening, m_OutgoingMessages,
                 nextSocket, listenSocket, dispatch>>

ClearOutgoing(h) ==
  /\ Running
  /\ teardown[h] /\ teardown' = [teardown EXCEPT ![h] = FALSE]
  /\ m_OutgoingMessages' = [m_OutgoingMessages EXCEPT ![h] = <<>>]
  /\ UNCHANGED <<registry, m_FunctionCalls, aborted, m_Socket, m_listening, sockets, conns,
                 dispatch>>

(* A client connects to an open socket.  Connections differ in nothing but *)
(* their handle, so they are taken in order.                               *)
Arrive(c) ==
  /\ Running
  /\ \A d \in Connection : d < c => state[d] # "Unused"
  /\ state[c] = "Unused" /\ state' = [state EXCEPT ![c] = "Connecting"]
  /\ \E s \in openSockets :
       /\ listenSocket' = [listenSocket EXCEPT ![c] = s]
       /\ callbacks' = Append(callbacks,
            [m_hConn |-> c, m_hListenSocket |-> s, m_eState |-> "Connecting"])
  /\ UNCHANGED <<registry, m_FunctionCalls, aborted, listeners, sockets, batch, accepted>>

(* The peer closes the connection, or it times out. *)
End(c) ==
  /\ Running
  /\ state[c] \in {"Connecting", "Connected"}
  /\ state' = [state EXCEPT ![c] = "Ended"]
  /\ callbacks' = Append(callbacks, Callback(c, "Ended"))
  /\ UNCHANGED <<registry, m_FunctionCalls, aborted, listeners, sockets, listenSocket,
                 batch, accepted>>

-----------------------------------------------------------------------------
callbackSteps == pollConnectionChanges \/ callbackManager

Next ==
  \/ pollFunctionCalls \/ callbackSteps
  \/ \E h \in Handles : Serve(h) \/ SelfStop(h) \/ DestroySocket(h) \/ ClearOutgoing(h)
  \/ \E c \in Connection : Arrive(c) \/ End(c)

(* tick runs the callbacks after at most MAX_FUNCTIONS_PER_SESSION calls. *)
Spec == Init /\ [][Next]_vars /\ WF_vars(callbackSteps)

-----------------------------------------------------------------------------
Pending(c) == \E q \in {callbacks, batch} : \E i \in 1..Len(q) :
                q[i].m_hConn = c /\ q[i].m_eState = "Ended"
Listed(c) == \E s \in DOMAIN m_SocketClientsMap : c \in m_SocketClientsMap[s]

CallbackType ==
  [m_hConn : Connection, m_hListenSocket : Nat, m_eState : {"Connecting", "Connected", "Ended"}]

RegistryType ==
  /\ m_ListenerHandlerIndex \in 1..(MaxListeners + 1) /\ nextSocket \in 1..(MaxSockets + 1)
  /\ DOMAIN m_Listeners \subseteq 1..(m_ListenerHandlerIndex - 1)
  /\ m_Listeners \in [DOMAIN m_Listeners -> 0..(nextSocket - 1)]
  /\ DOMAIN m_SocketClientsMap \subseteq 1..(nextSocket - 1)
  /\ m_SocketClientsMap \in [DOMAIN m_SocketClientsMap -> SUBSET Connection]
  /\ isServed \subseteq Connection
ListenersType ==
  /\ m_Socket \in [Handles -> 0..(nextSocket - 1)] /\ m_listening \in [Handles -> BOOLEAN]
  /\ m_OutgoingMessages \in [Handles -> Seq(Connection)]
  /\ teardown \in [Handles -> BOOLEAN]
  /\ m_FunctionCalls \in Seq(Nat \X Connection)
LibraryType ==
  /\ openSockets \subseteq 1..(nextSocket - 1) /\ listenSocket \in [Connection -> Nat]
  /\ state \in [Connection -> {"Unused", "Connecting", "Connected", "Ended", "Gone"}]
CallbacksType ==
  callbacks \in Seq(CallbackType) /\ batch \in Seq(CallbackType) /\ accepted \in BOOLEAN

(* The type of every variable; handles and sockets are ones given out. *)
TypeOK == RegistryType /\ ListenersType /\ LibraryType /\ CallbacksType

(* m_SocketClientsMap has an entry exactly for the sockets m_Listeners     *)
(* names, no two listeners name one socket, and the next handle is free:   *)
(* the asserts of createListener, stopListening and                        *)
(* push_OutgoingMessageQueue, and what their sharing one map relies on.    *)
RegistryConsistent ==
  /\ DOMAIN m_SocketClientsMap = {m_Listeners[h] : h \in DOMAIN m_Listeners} \ {Invalid}
  /\ \A h, k \in DOMAIN m_Listeners :
       m_Listeners[h] = m_Listeners[k] /\ m_Listeners[h] # Invalid => h = k
  /\ m_ListenerHandlerIndex \notin DOMAIN m_Listeners

(* A connection listed on a socket still open is alive in the library, or  *)
(* the callback that will take it off the list is on its way.              *)
NoStaleConnections ==
  \A s \in DOMAIN m_SocketClientsMap \cap openSockets : \A c \in m_SocketClientsMap[s] :
    /\ listenSocket[c] = s
    /\ \/ state[c] = "Connected"
       \/ state[c] = "Ended" /\ Pending(c)

(* No accepted connection is forgotten: it is listed, or its Connecting    *)
(* callback is still running.                                              *)
NoForgottenConnections ==
  \A c \in Connection :
    state[c] = "Connected" => \/ Listed(c)
                              \/ accepted /\ Head(batch).m_hConn = c

(* The socket a listener is registered with is open, and the one its       *)
(* ListenerCore has, unless the listener has stopped itself: the listening *)
(* thread closes a socket whenever it gets to, but never one the registry  *)
(* counts on, and DestroySocket and startListening do not overtake each    *)
(* other.  No two listeners have one socket in the library.                *)
SocketsInv ==
  /\ \A h, k \in Handles : m_Socket[h] = m_Socket[k] /\ m_Socket[h] # Invalid => h = k
  /\ \A h \in DOMAIN m_Listeners : m_Listeners[h] # Invalid /\ m_listening[h] =>
       m_Listeners[h] \in openSockets /\ m_Socket[h] = m_Listeners[h]

(* A listed connection that ends is taken off the list: none stays, as each *)
(* connection ends once.                                                   *)
EndedIsRemoved ==
  []<>(aborted # "none" \/ \A c \in Connection : ~(Listed(c) /\ state[c] = "Ended"))

(* The listener of handle h as module ListenerPort has it.                 *)
Port(h) == INSTANCE ListenerPort WITH
  registered <- IF isValidListenerHandler(h) THEN m_Listeners[h] ELSE Invalid,
  socket     <- m_Socket[h],
  listening  <- m_listening[h],
  pending    <- Len(m_OutgoingMessages[h]),
  teardown   <- teardown[h],
  alive      <- isValidListenerHandler(h) \/ h >= m_ListenerHandlerIndex

(* Every listener of the registry keeps what module Listener is shown to   *)
(* keep: neither the calls, in whatever order, nor the callbacks make the  *)
(* registry and a listener disagree on which sockets follow each other,    *)
(* and a destroyed handle never comes back.                                *)
PortsKept ==
  /\ \A h \in Handles : Port(h)!Init
  /\ [][\A h \in Handles : [Port(h)!Next]_(Port(h)!vars)]_vars

-----------------------------------------------------------------------------
(* What the asserts of the callbacks and of ConnectionServed say, and the  *)
(* code does not keep.                                                     *)

(* A connection reported as served is listed under its socket when the     *)
(* report is executed (NetworkManagerCore.cpp:175, 183), and the callback  *)
(* of an accepted or ended connection finds its socket registered and an   *)
(* ended one listed (NetworkManagerCore.cpp:233, 264, 270).                *)
AssertsHold == aborted = "none"
=============================================================================
