----------------------- MODULE NetworkManagerCore_proof -----------------------
(***************************************************************************)
(* Proofs about module NetworkManagerCore, for every number of listeners,  *)
(* sockets and connections.                                                *)
(***************************************************************************)
EXTENDS NetworkManagerCore, TLAPS

(* What emplace does to an unordered_map of values in S. *)
LEMMA EmplaceMap ==
  ASSUME NEW f, NEW S, NEW x, NEW v \in S, f \in [DOMAIN f -> S]
  PROVE  /\ DOMAIN Emplace(f, x, v) = DOMAIN f \cup {x}
         /\ Emplace(f, x, v) \in [DOMAIN f \cup {x} -> S]
         /\ \A y \in DOMAIN f : Emplace(f, x, v)[y] = f[y]
         /\ x \notin DOMAIN f => Emplace(f, x, v)[x] = v
  BY DEF Emplace

(* What erase does to one. *)
LEMMA EraseMap ==
  ASSUME NEW f, NEW S, NEW x, f \in [DOMAIN f -> S]
  PROVE  /\ DOMAIN Erase(f, x) = DOMAIN f \ {x}
         /\ Erase(f, x) \in [DOMAIN f \ {x} -> S]
         /\ \A y \in DOMAIN f \ {x} : Erase(f, x)[y] = f[y]
  BY DEF Erase, Restrict

(* The registry's invariant: its type, and what RegistryConsistent says. *)
RegistryInv == RegistryType /\ RegistryConsistent

(* A new listener gets a handle that is not in use. *)
LEMMA CreateKeeps == RegistryInv /\ createListener => RegistryInv'
<1> SUFFICES ASSUME RegistryInv, createListener PROVE RegistryInv'
  OBVIOUS
<1> USE CoreAssumption DEF RegistryInv, RegistryType, RegistryConsistent, Invalid, Handles
<1> DEFINE i == m_ListenerHandlerIndex
<1>1. /\ i \in 1..MaxListeners /\ i \notin DOMAIN m_Listeners
      /\ m_Listeners' = Emplace(m_Listeners, i, Invalid) /\ m_ListenerHandlerIndex' = i + 1
      /\ UNCHANGED <<m_SocketClientsMap, isServed, nextSocket>>
  BY DEF createListener, Create, sockets
<1>2. Invalid \in 0..(nextSocket - 1) /\ m_Listeners \in [DOMAIN m_Listeners -> 0..(nextSocket - 1)]
  OBVIOUS
<1> HIDE DEF RegistryInv, RegistryType, RegistryConsistent, Invalid, Handles
<1>3. /\ DOMAIN m_Listeners' = DOMAIN m_Listeners \cup {i}
      /\ m_Listeners' \in [DOMAIN m_Listeners \cup {i} -> 0..(nextSocket - 1)]
      /\ \A y \in DOMAIN m_Listeners : m_Listeners'[y] = m_Listeners[y]
      /\ m_Listeners'[i] = Invalid
  BY <1>1, <1>2 DEF Emplace
<1> USE DEF RegistryInv, RegistryType, RegistryConsistent, Invalid, Handles
<1>4. RegistryType'
  BY <1>1, <1>3
<1>5. RegistryConsistent'
  BY <1>1, <1>3
<1> QED
  BY <1>4, <1>5

(* A new socket has no entry yet, and gets one. *)
LEMMA StartKeeps ==
  ASSUME NEW h, RegistryInv, startListening(h) PROVE RegistryInv'
<1> USE CoreAssumption DEF RegistryInv, RegistryType, RegistryConsistent, Invalid, Sockets
<1> DEFINE s == nextSocket
<1>1. /\ h \in DOMAIN m_Listeners /\ m_Listeners[h] = Invalid /\ s \in 1..MaxSockets
      /\ nextSocket' = s + 1 /\ m_Listeners' = [m_Listeners EXCEPT ![h] = s]
      /\ m_SocketClientsMap' = Emplace(m_SocketClientsMap, s, {})
      /\ UNCHANGED <<isServed, m_ListenerHandlerIndex>>
  BY DEF startListening, isValidListenerHandler
<1>2. /\ s \notin DOMAIN m_SocketClientsMap /\ \A k \in DOMAIN m_Listeners : m_Listeners[k] # s
      /\ m_SocketClientsMap \in [DOMAIN m_SocketClientsMap -> SUBSET Connection]
  OBVIOUS
<1> HIDE DEF RegistryInv, RegistryType, RegistryConsistent, Invalid, Sockets
<1>3. /\ DOMAIN m_SocketClientsMap' = DOMAIN m_SocketClientsMap \cup {s}
      /\ m_SocketClientsMap' \in [DOMAIN m_SocketClientsMap \cup {s} -> SUBSET Connection]
  <2>1. {} \in SUBSET Connection
    OBVIOUS
  <2> QED
    BY <1>1, <1>2, <2>1, EmplaceMap
<1> USE DEF RegistryInv, RegistryType, RegistryConsistent, Invalid, Sockets
<1>4. /\ DOMAIN m_Listeners' = DOMAIN m_Listeners /\ m_Listeners'[h] = s
      /\ \A k \in DOMAIN m_Listeners \ {h} : m_Listeners'[k] = m_Listeners[k]
  BY <1>1
<1>5. RegistryType'
  BY <1>1, <1>3, <1>4
<1>6. RegistryConsistent'
  <2>1. DOMAIN m_SocketClientsMap' = {m_Listeners'[k] : k \in DOMAIN m_Listeners'} \ {Invalid}
    <3>1. ASSUME NEW t PROVE t \in DOMAIN m_SocketClientsMap'
                             <=> t \in {m_Listeners'[k] : k \in DOMAIN m_Listeners'} \ {Invalid}
      <4>1. CASE t = s
        BY <1>1, <1>3, <1>4, <4>1
      <4>2. CASE t # s
        BY <1>1, <1>3, <1>4, <4>2
      <4> QED
        BY <4>1, <4>2
    <3> QED
      BY <3>1
  <2>2. /\ \A k, l \in DOMAIN m_Listeners' :
             m_Listeners'[k] = m_Listeners'[l] /\ m_Listeners'[k] # Invalid => k = l
        /\ m_ListenerHandlerIndex' \notin DOMAIN m_Listeners'
    BY <1>1, <1>2, <1>4
  <2> QED
    BY <2>1, <2>2
<1> QED
  BY <1>5, <1>6

(* Stopping erases the entry of the socket and the listener's copy of it   *)
(* together.                                                               *)
LEMMA StopKeeps ==
  ASSUME NEW h, RegistryInv, stopListening(h) PROVE RegistryInv'
<1> USE CoreAssumption DEF RegistryInv, RegistryType, RegistryConsistent, Invalid
<1> DEFINE s == m_Listeners[h]
<1>1. /\ h \in DOMAIN m_Listeners /\ s # Invalid
      /\ m_Listeners' = [m_Listeners EXCEPT ![h] = Invalid]
      /\ m_SocketClientsMap' = Erase(m_SocketClientsMap, s)
      /\ isServed' \subseteq isServed /\ UNCHANGED <<m_ListenerHandlerIndex, nextSocket>>
  BY DEF stopListening, isValidListenerHandler, Forget, sockets
<1>2. /\ DOMAIN m_SocketClientsMap' = DOMAIN m_SocketClientsMap \ {s}
      /\ m_SocketClientsMap' \in [DOMAIN m_SocketClientsMap \ {s} -> SUBSET Connection]
  BY <1>1, EraseMap
<1>3. /\ DOMAIN m_Listeners' = DOMAIN m_Listeners /\ m_Listeners'[h] = Invalid
      /\ \A k \in DOMAIN m_Listeners \ {h} : m_Listeners'[k] = m_Listeners[k]
  BY <1>1
<1>4. RegistryType'
  BY <1>1, <1>2, <1>3
<1>5. RegistryConsistent'
  BY <1>1, <1>2, <1>3
<1> QED
  BY <1>4, <1>5

(* So does destroying a listener, whose handle goes as well. *)
LEMMA DestroyKeeps ==
  ASSUME NEW h, RegistryInv, DestroyListener(h) PROVE RegistryInv'
<1> USE CoreAssumption DEF RegistryInv, RegistryType, RegistryConsistent, Invalid
<1> DEFINE s == m_Listeners[h]
<1>1. /\ h \in DOMAIN m_Listeners /\ m_Listeners' = Erase(m_Listeners, h)
      /\ UNCHANGED <<m_ListenerHandlerIndex, nextSocket>>
  BY DEF DestroyListener, isValidListenerHandler
<1>2. /\ DOMAIN m_Listeners' = DOMAIN m_Listeners \ {h}
      /\ m_Listeners' \in [DOMAIN m_Listeners \ {h} -> 0..(nextSocket - 1)]
      /\ \A k \in DOMAIN m_Listeners \ {h} : m_Listeners'[k] = m_Listeners[k]
  BY <1>1, EraseMap
<1>3. CASE s = Invalid
  <2>1. UNCHANGED <<m_SocketClientsMap, isServed>>
    BY <1>3 DEF DestroyListener
  <2>2. RegistryType'
    BY <1>1, <1>2, <2>1
  <2>3. RegistryConsistent'
    BY <1>1, <1>2, <1>3, <2>1
  <2> QED
    BY <2>2, <2>3
<1>4. CASE s # Invalid
  <2>1. m_SocketClientsMap' = Erase(m_SocketClientsMap, s) /\ isServed' \subseteq isServed
    BY <1>4 DEF DestroyListener, Forget
  <2>2. /\ DOMAIN m_SocketClientsMap' = DOMAIN m_SocketClientsMap \ {s}
        /\ m_SocketClientsMap' \in [DOMAIN m_SocketClientsMap \ {s} -> SUBSET Connection]
    <3>1. m_SocketClientsMap \in [DOMAIN m_SocketClientsMap -> SUBSET Connection]
      OBVIOUS
    <3> HIDE DEF RegistryInv, RegistryType, RegistryConsistent, Invalid
    <3> QED
      BY <2>1, <3>1 DEF Erase, Restrict
  <2>3. RegistryType'
    BY <1>1, <1>2, <2>1, <2>2
  <2>4. RegistryConsistent'
    BY <1>1, <1>2, <1>4, <2>2
  <2> QED
    BY <2>3, <2>4
<1> QED
  BY <1>3, <1>4

(* The steps that do not queue, take or run a callback. *)
CallSteps ==
  \/ createListener \/ ConnectionServed
  \/ \E h \in Handles :
       \/ startListening(h) \/ stopListening(h) \/ DestroyListener(h)
       \/ \E c \in Connection : push_OutgoingMessageQueue(h, c)
       \/ Serve(h) \/ SelfStop(h) \/ DestroySocket(h) \/ ClearOutgoing(h)

(* The first callback of the batch, and what is left of it. *)
LEMMA BatchTyped ==
  ASSUME CallbacksType, batch # <<>>
  PROVE  Head(batch) \in CallbackType /\ Tail(batch) \in Seq(CallbackType)
  BY DEF CallbacksType

(* A queue of callbacks grows by snapshots of connections of the library. *)
LEMMA AppendTyped ==
  ASSUME CallbacksType, LibraryType, NEW c \in Connection,
         NEW new \in {"Connecting", "Connected", "Ended"}
  PROVE  Append(callbacks, Callback(c, new)) \in Seq(CallbackType)
<1>1. Callback(c, new) \in CallbackType
  BY DEF Callback, CallbackType, LibraryType
<1> QED
  BY <1>1 DEF CallbacksType

(* The queues of callbacks hold snapshots of connections. *)
LEMMA CallbacksStep == CallbacksType /\ LibraryType /\ [Next]_vars => CallbacksType'
<1> SUFFICES ASSUME CallbacksType, LibraryType, [Next]_vars PROVE CallbacksType'
  OBVIOUS
<1>1. CASE CallSteps \/ UNCHANGED vars
  <2>1. UNCHANGED dispatch
    BY <1>1 DEF CallSteps, createListener, ConnectionServed, startListening, stopListening,
       DestroyListener, push_OutgoingMessageQueue, Serve, SelfStop, DestroySocket, ClearOutgoing,
       Abort, vars
  <2> QED
    BY <2>1 DEF dispatch, CallbacksType
<1>2. CASE pollConnectionChanges
  BY <1>2 DEF pollConnectionChanges, CallbacksType
<1>3. CASE callbackManager
  <2> DEFINE c == Head(batch).m_hConn
             s == Head(batch).m_hListenSocket
  <2>1. c \in Connection /\ Tail(batch) \in Seq(CallbackType)
    BY <1>3, BatchTyped DEF callbackManager, CallbackType
  <2>2. CASE Connecting(c, s)
    <3>1. CASE Abort("Connecting")
      BY <3>1 DEF Abort, dispatch, CallbacksType
    <3>2. CASE Refused(c)
      BY <3>2, <2>1, AppendTyped DEF Refused, CallbacksType
    <3>3. CASE AcceptedBy(c)
      BY <3>3, <2>1, AppendTyped DEF AcceptedBy, CallbacksType
    <3>4. CASE AssignPollGroup(c, s)
      BY <3>4, <2>1 DEF AssignPollGroup, CallbacksType
    <3> QED
      BY <2>2, <3>1, <3>2, <3>3, <3>4 DEF Connecting
  <2>3. CASE Disconnected(c, s)
    BY <2>1, <2>3 DEF Disconnected, Abort, Drop, dispatch, CallbacksType
  <2>4. CASE Ignored
    BY <2>1, <2>4 DEF Ignored, CallbacksType
  <2> QED
    BY <1>3, <2>2, <2>3, <2>4 DEF callbackManager
<1>4. ASSUME NEW c \in Connection, Arrive(c) PROVE CallbacksType'
  <2>1. PICK s \in openSockets : callbacks' = Append(callbacks,
            [m_hConn |-> c, m_hListenSocket |-> s, m_eState |-> "Connecting"])
    BY <1>4 DEF Arrive
  <2>2. [m_hConn |-> c, m_hListenSocket |-> s, m_eState |-> "Connecting"] \in CallbackType
    BY DEF CallbackType, LibraryType
  <2> QED
    BY <1>4, <2>1, <2>2 DEF Arrive, CallbacksType
<1>5. ASSUME NEW c \in Connection, End(c) PROVE CallbacksType'
  BY <1>5, AppendTyped DEF End, CallbacksType
<1> QED
  BY <1>1, <1>2, <1>3, <1>4, <1>5 DEF Next, CallSteps, pollFunctionCalls, callbackSteps

(* The library knows its sockets and the state of every connection. *)
LEMMA LibraryStep == RegistryType /\ LibraryType /\ [Next]_vars => LibraryType'
<1> SUFFICES ASSUME RegistryType, LibraryType, [Next]_vars PROVE LibraryType'
  OBVIOUS
<1> USE DEF LibraryType
<1>1. CASE UNCHANGED <<sockets, conns>>
  BY <1>1 DEF sockets, conns
<1>2. ASSUME NEW h \in Handles, startListening(h) PROVE LibraryType'
  BY <1>2 DEF startListening, conns, RegistryType
<1>3. ASSUME NEW h \in Handles, stopListening(h) PROVE LibraryType'
  BY <1>3 DEF stopListening, CloseConnections, sockets
<1>4. ASSUME NEW h \in Handles, DestroyListener(h) PROVE LibraryType'
  <2>1. PICK left \in BOOLEAN :
          /\ openSockets' = IF left THEN openSockets ELSE openSockets \ {m_Socket[h]}
          /\ state' = [c \in Connection |->
               IF \/ m_Listeners[h] # Invalid /\ c \in m_SocketClientsMap[m_Listeners[h]]
                  \/ ~left /\ InLibrary(c) /\ listenSocket[c] = m_Socket[h]
               THEN "Gone" ELSE state[c]]
    BY <1>4 DEF DestroyListener
  <2> QED
    BY <1>4, <2>1 DEF DestroyListener
<1>5. ASSUME NEW h \in Handles, DestroySocket(h) PROVE LibraryType'
  BY <1>5 DEF DestroySocket, CloseListenSocket
<1>6. CASE callbackManager
  <2> DEFINE c == Head(batch).m_hConn
             s == Head(batch).m_hListenSocket
  <2>1. CASE Connecting(c, s)
    <3>1. CASE Abort("Connecting")
      BY <3>1, <1>1 DEF Abort
    <3>2. CASE UNCHANGED <<sockets, listenSocket>> /\ Refused(c)
      BY <3>2 DEF Refused, sockets
    <3>3. CASE UNCHANGED <<sockets, listenSocket>> /\ AcceptedBy(c)
      BY <3>3 DEF AcceptedBy, sockets
    <3>4. CASE UNCHANGED <<sockets, listenSocket>> /\ AssignPollGroup(c, s)
      BY <3>4 DEF AssignPollGroup, sockets
    <3> QED
      BY <2>1, <3>1, <3>2, <3>3, <3>4 DEF Connecting
  <2>2. CASE Disconnected(c, s)
    BY <2>2 DEF Disconnected, Abort, Drop, sockets, conns
  <2>3. CASE Ignored
    BY <2>3, <1>1 DEF Ignored
  <2> QED
    BY <1>6, <2>1, <2>2, <2>3 DEF callbackManager
<1>7. ASSUME NEW c \in Connection, Arrive(c) PROVE LibraryType'
  <2>1. PICK s \in openSockets : listenSocket' = [listenSocket EXCEPT ![c] = s]
    BY <1>7 DEF Arrive
  <2> QED
    BY <1>7, <2>1 DEF Arrive, sockets
<1>8. ASSUME NEW c \in Connection, End(c) PROVE LibraryType'
  BY <1>8 DEF End, sockets
<1>9. CASE \/ createListener \/ ConnectionServed \/ pollConnectionChanges \/ UNCHANGED vars
           \/ \E h \in Handles : \/ Serve(h) \/ SelfStop(h) \/ ClearOutgoing(h)
                                  \/ \E c \in Connection : push_OutgoingMessageQueue(h, c)
  BY <1>9, <1>1 DEF createListener, ConnectionServed, Abort, pollConnectionChanges, vars,
     Serve, SelfStop, ClearOutgoing, push_OutgoingMessageQueue
<1> QED
  BY <1>2, <1>3, <1>4, <1>5, <1>6, <1>7, <1>8, <1>9 DEF Next, pollFunctionCalls, callbackSteps

(* What the listeners have of their sockets and of the queues. *)
LEMMA ListenersStep == TypeOK /\ [Next]_vars => ListenersType'
<1> SUFFICES ASSUME TypeOK, [Next]_vars PROVE ListenersType'
  OBVIOUS
<1> USE DEF ListenersType
<1>1. nextSocket \in Nat \ {0} /\ DOMAIN m_SocketClientsMap \subseteq Nat /\ ListenersType
  BY CoreAssumption DEF TypeOK, RegistryType
<1>2. CASE UNCHANGED <<listeners, m_FunctionCalls, nextSocket>>
  BY <1>1, <1>2 DEF listeners
<1>3. ASSUME NEW h \in Handles, startListening(h) PROVE ListenersType'
  BY <1>1, <1>3 DEF startListening
<1>4. ASSUME NEW h \in Handles, stopListening(h) PROVE ListenersType'
  BY <1>1, <1>4 DEF stopListening, sockets
<1>5. ASSUME NEW h \in Handles, DestroyListener(h) PROVE ListenersType'
  BY <1>1, <1>5 DEF DestroyListener, Invalid
<1>6. ASSUME NEW h \in Handles, NEW c \in Connection, push_OutgoingMessageQueue(h, c)
      PROVE ListenersType'
  <2>1. Append(m_OutgoingMessages[h], c) \in Seq(Connection)
    BY <1>1
  <2> QED
    BY <1>1, <1>6, <2>1 DEF push_OutgoingMessageQueue, sockets
<1>7. CASE ConnectionServed
  <2>1. m_FunctionCalls # <<>> => Tail(m_FunctionCalls) \in Seq(Nat \X Connection)
    BY <1>1
  <2> QED
    BY <1>1, <1>7, <2>1 DEF ConnectionServed, Abort, listeners, sockets
<1>8. ASSUME NEW h \in Handles, Serve(h) PROVE ListenersType'
  <2>1. Head(m_OutgoingMessages[h]) \in Connection /\ Tail(m_OutgoingMessages[h]) \in Seq(Connection)
    BY <1>1, <1>8 DEF Serve
  <2>2. m_Socket[h] \in Nat
    BY <1>1
  <2>3. Append(m_FunctionCalls, <<m_Socket[h], Head(m_OutgoingMessages[h])>>)
          \in Seq(Nat \X Connection)
    BY <1>1, <2>1, <2>2
  <2>4. /\ m_OutgoingMessages' = [m_OutgoingMessages EXCEPT ![h] = Tail(m_OutgoingMessages[h])]
        /\ m_FunctionCalls' \in Seq(Nat \X Connection)
        /\ UNCHANGED <<m_Socket, m_listening, teardown, nextSocket>>
    BY <1>1, <1>8, <2>3 DEF Serve, sockets
  <2>5. m_OutgoingMessages' \in [Handles -> Seq(Connection)]
    BY <1>1, <2>1, <2>4
  <2> QED
    BY <1>1, <2>4, <2>5
<1>9. ASSUME NEW h \in Handles, SelfStop(h) PROVE ListenersType'
  BY <1>1, <1>9 DEF SelfStop, sockets
<1>10. ASSUME NEW h \in Handles, DestroySocket(h) PROVE ListenersType'
  <2>1. /\ m_Socket' = [m_Socket EXCEPT ![h] = Invalid]
        /\ teardown' = [teardown EXCEPT ![h] = TRUE]
        /\ UNCHANGED <<m_FunctionCalls, m_listening, m_OutgoingMessages, nextSocket>>
    BY <1>10 DEF DestroySocket
  <2> QED
    BY <1>1, <2>1 DEF Invalid
<1>11. CASE callbackManager
  BY <1>2, <1>11 DEF callbackManager, Connecting, Disconnected, Ignored, Abort, sockets
<1>12. CASE createListener \/ pollConnectionChanges \/ UNCHANGED vars
  BY <1>2, <1>12 DEF createListener, pollConnectionChanges, vars, sockets
<1>13. ASSUME NEW c \in Connection, Arrive(c) \/ End(c) PROVE ListenersType'
  BY <1>2, <1>13 DEF Arrive, End, sockets
<1>14. ASSUME NEW h \in Handles, ClearOutgoing(h) PROVE ListenersType'
  <2>1. /\ m_OutgoingMessages' = [m_OutgoingMessages EXCEPT ![h] = <<>>]
        /\ teardown' = [teardown EXCEPT ![h] = FALSE]
        /\ UNCHANGED <<m_FunctionCalls, m_listening, m_Socket, nextSocket>>
    BY <1>14 DEF ClearOutgoing, sockets
  <2> QED
    BY <1>1, <2>1
<1> QED
  BY <1>3, <1>4, <1>5, <1>6, <1>7, <1>8, <1>9, <1>10, <1>11, <1>12, <1>13, <1>14
  DEF Next, pollFunctionCalls, callbackSteps

(* Callbacks add connections to entries and take them out, and make none. *)
LEMMA CallbackKeeps ==
  ASSUME RegistryInv, CallbacksType, callbackManager PROVE RegistryInv'
<1> USE DEF RegistryInv, RegistryType, RegistryConsistent
<1> DEFINE c == Head(batch).m_hConn
           s == Head(batch).m_hListenSocket
<1>1. c \in Connection
  BY BatchTyped DEF callbackManager, CallbackType
<1>2. CASE UNCHANGED <<registry, nextSocket>>
  BY <1>2 DEF registry
<1>3. CASE Connecting(c, s)
  <2>1. CASE UNCHANGED <<m_Listeners, isServed, m_ListenerHandlerIndex, nextSocket>>
             /\ Known(s) /\ AssignPollGroup(c, s)
    <3>1. m_SocketClientsMap[s] \cup {c} \in SUBSET Connection
      BY <1>1, <2>1 DEF Known
    <3>2. \/ UNCHANGED m_SocketClientsMap
          \/ m_SocketClientsMap' =
               [m_SocketClientsMap EXCEPT ![s] = m_SocketClientsMap[s] \cup {c}]
      BY <2>1 DEF AssignPollGroup
    <3>3. /\ DOMAIN m_SocketClientsMap' = DOMAIN m_SocketClientsMap
          /\ m_SocketClientsMap' \in [DOMAIN m_SocketClientsMap -> SUBSET Connection]
      BY <3>1, <3>2
    <3> QED
      BY <2>1, <3>3
  <2>2. CASE UNCHANGED <<m_Listeners, isServed, m_ListenerHandlerIndex, nextSocket>>
             /\ (Refused(c) \/ AcceptedBy(c))
    <3>1. UNCHANGED m_SocketClientsMap
      BY <2>2 DEF Refused, AcceptedBy
    <3> QED
      BY <1>2, <2>2, <3>1 DEF registry
  <2> QED
    BY <1>2, <1>3, <2>1, <2>2 DEF Connecting, Abort, sockets
<1>4. CASE Disconnected(c, s)
  <2>1. CASE /\ UNCHANGED <<m_Listeners, m_ListenerHandlerIndex, nextSocket>>
             /\ Known(s) /\ Drop(c, s)
    <3>1. /\ DOMAIN m_SocketClientsMap' = DOMAIN m_SocketClientsMap
          /\ m_SocketClientsMap' \in [DOMAIN m_SocketClientsMap -> SUBSET Connection]
      BY <2>1 DEF Drop, Known
    <3> QED
      BY <2>1, <3>1 DEF Drop
  <2> QED
    BY <1>2, <1>4, <2>1 DEF Disconnected, Abort, sockets
<1>5. CASE Ignored
  BY <1>2, <1>5 DEF Ignored, sockets
<1> QED
  BY <1>3, <1>4, <1>5 DEF callbackManager

(* Every step keeps the registry consistent. *)
LEMMA RegistryStep == RegistryInv /\ CallbacksType /\ [Next]_vars => RegistryInv'
<1> SUFFICES ASSUME RegistryInv, CallbacksType, [Next]_vars PROVE RegistryInv'
  OBVIOUS
<1>1. CASE UNCHANGED <<registry, nextSocket>>
  BY <1>1 DEF registry, RegistryInv, RegistryType, RegistryConsistent
<1>2. CASE ConnectionServed
  <2>1. CASE isServed' \subseteq Connection
             /\ UNCHANGED <<m_Listeners, m_SocketClientsMap, m_ListenerHandlerIndex, nextSocket>>
    BY <2>1 DEF RegistryInv, RegistryType, RegistryConsistent
  <2>2. CASE Abort("ConnectionServed: socket") \/ Abort("ConnectionServed: connection")
    BY <1>1, <2>2 DEF Abort, sockets
  <2>3. CASE ~(Abort("ConnectionServed: socket") \/ Abort("ConnectionServed: connection"))
    <3> DEFINE s == Head(m_FunctionCalls)[1]
               c == Head(m_FunctionCalls)[2]
    <3>1. /\ s \in DOMAIN m_SocketClientsMap /\ c \in m_SocketClientsMap[s]
          /\ isServed' = isServed \cup {c}
          /\ UNCHANGED <<m_Listeners, m_SocketClientsMap, m_ListenerHandlerIndex, nextSocket>>
      BY <1>2, <2>3 DEF ConnectionServed, Known, sockets
    <3>2. isServed' \subseteq Connection
      BY <3>1 DEF RegistryInv, RegistryType
    <3> QED
      BY <2>1, <3>1, <3>2
  <2> QED
    BY <2>2, <2>3
<1>3. ASSUME NEW h \in Handles, startListening(h) \/ stopListening(h) \/ DestroyListener(h)
      PROVE RegistryInv'
  BY <1>3, StartKeeps, StopKeeps, DestroyKeeps
<1>4. CASE \/ pollConnectionChanges \/ UNCHANGED vars
           \/ \E h \in Handles : \/ Serve(h) \/ SelfStop(h) \/ DestroySocket(h)
                                  \/ ClearOutgoing(h)
                                  \/ \E c \in Connection : push_OutgoingMessageQueue(h, c)
           \/ \E c \in Connection : Arrive(c) \/ End(c)
  BY <1>1, <1>4 DEF pollConnectionChanges, vars, Serve, SelfStop, DestroySocket, ClearOutgoing,
     push_OutgoingMessageQueue, Arrive, End, sockets, registry
<1> QED
  BY <1>2, <1>3, <1>4, CreateKeeps, CallbackKeeps
  DEF Next, pollFunctionCalls, callbackSteps

(* TypeOK, with what makes it inductive. *)
TypeInv == TypeOK /\ RegistryConsistent

(* The two hold together: a type of the registry bounds the sockets and    *)
(* handles that are free, which is what keeps it consistent.               *)
THEOREM TypeInvCorrect == Spec => []TypeInv
<1>1. Init => TypeInv
  <2> SUFFICES ASSUME Init PROVE TypeInv
    OBVIOUS
  <2> USE CoreAssumption DEF Init, Invalid
  <2>1. m_Listeners = <<>> /\ m_SocketClientsMap = <<>> /\ DOMAIN <<>> = {}
    OBVIOUS
  <2>2. RegistryType
    BY <2>1 DEF RegistryType
  <2>3. ListenersType
    BY DEF ListenersType
  <2>4. LibraryType
    BY DEF LibraryType
  <2>5. CallbacksType
    <3>1. callbacks \in Seq(CallbackType) /\ batch \in Seq(CallbackType)
      OBVIOUS
    <3>2. accepted \in BOOLEAN
      BY Zenon
    <3> QED
      BY <3>1, <3>2 DEF CallbacksType
  <2>6. RegistryConsistent
    BY <2>1 DEF RegistryConsistent
  <2> QED
    BY <2>2, <2>3, <2>4, <2>5, <2>6 DEF TypeInv, TypeOK
<1>2. TypeInv /\ [Next]_vars => TypeInv'
  BY RegistryStep, ListenersStep, LibraryStep, CallbacksStep DEF TypeInv, TypeOK, RegistryInv
<1> QED
  BY <1>1, <1>2, PTL DEF Spec

(* Every variable of the core holds a value of its type, and handles and   *)
(* sockets are always ones that were given out.                            *)
COROLLARY TypeCorrect == Spec => []TypeOK
<1>1. TypeInv => TypeOK
  BY DEF TypeInv
<1> QED
  BY <1>1, TypeInvCorrect, PTL

(* The registry agrees with itself at every step, whatever the clients     *)
(* ask, the network does, and in whichever order callbacks, calls and      *)
(* listening threads interleave.                                           *)
COROLLARY RegistryCorrect == Spec => []RegistryConsistent
<1>1. TypeInv => RegistryConsistent
  BY DEF TypeInv
<1> QED
  BY <1>1, TypeInvCorrect, PTL

-----------------------------------------------------------------------------
(* Handles in use are handles. *)
LEMMA HandlesInUse == RegistryType => DOMAIN m_Listeners \subseteq Handles
  BY CoreAssumption DEF RegistryType, Handles

(* The calls keep registered sockets open: a started listener gets a new   *)
(* socket, and a destroyed one takes only its own.                         *)
LEMMA CallsKeepSockets ==
  ASSUME TypeInv, SocketsInv, NEW h \in Handles,
         createListener \/ startListening(h) \/ stopListening(h) \/ DestroyListener(h)
  PROVE  SocketsInv'
<1>1. /\ m_Socket \in [Handles -> 0..(nextSocket - 1)] /\ m_listening \in [Handles -> BOOLEAN]
      /\ DOMAIN m_Listeners \subseteq Handles /\ nextSocket \in Nat \ {0}
      /\ m_Listeners \in [DOMAIN m_Listeners -> 0..(nextSocket - 1)]
      /\ m_ListenerHandlerIndex \notin DOMAIN m_Listeners
  <2>1. RegistryType /\ ListenersType /\ RegistryConsistent
    BY DEF TypeInv, TypeOK
  <2>2. nextSocket \in Nat \ {0}
    BY <2>1, CoreAssumption DEF RegistryType
  <2> QED
    BY <2>1, <2>2, HandlesInUse DEF RegistryType, ListenersType, RegistryConsistent
<1> USE DEF SocketsInv, Invalid
<1>2. CASE createListener
  <2> DEFINE i == m_ListenerHandlerIndex
  <2>1. /\ DOMAIN m_Listeners' = DOMAIN m_Listeners \cup {i} /\ m_Listeners'[i] = Invalid
        /\ \A k \in DOMAIN m_Listeners : m_Listeners'[k] = m_Listeners[k]
    BY <1>1, <1>2 DEF createListener, Create, Emplace
  <2> QED
    BY <1>1, <1>2, <2>1 DEF createListener, listeners, sockets
<1>3. CASE startListening(h)
  <2>1. /\ m_Socket' = [m_Socket EXCEPT ![h] = nextSocket]
        /\ m_Listeners' = [m_Listeners EXCEPT ![h] = nextSocket]
        /\ m_listening' = [m_listening EXCEPT ![h] = TRUE]
        /\ openSockets' = openSockets \cup {nextSocket}
    BY <1>3 DEF startListening
  <2>2. \A k \in Handles : m_Socket[k] # nextSocket
    BY <1>1
  <2> QED
    BY <1>1, <2>1, <2>2
<1>4. CASE stopListening(h)
  BY <1>1, <1>4 DEF stopListening, sockets
<1>5. CASE DestroyListener(h)
  <2>1. /\ m_Listeners' = Erase(m_Listeners, h)
        /\ openSockets \ {m_Socket[h]} \subseteq openSockets'
        /\ m_Socket' = [m_Socket EXCEPT ![h] = Invalid]
        /\ m_listening' = [m_listening EXCEPT ![h] = FALSE]
    BY <1>5 DEF DestroyListener
  <2>2. /\ DOMAIN m_Listeners' = DOMAIN m_Listeners \ {h}
        /\ \A k \in DOMAIN m_Listeners \ {h} : m_Listeners'[k] = m_Listeners[k]
    BY <1>1, <2>1 DEF Erase, Restrict
  <2> QED
    BY <1>1, <2>1, <2>2
<1> QED
  BY <1>2, <1>3, <1>4, <1>5

(* A listening thread only closes the socket of a stopped listener. *)
LEMMA DestroyKeepsSockets ==
  ASSUME TypeInv, SocketsInv, NEW h \in Handles, DestroySocket(h) PROVE SocketsInv'
<1>1. m_Socket \in [Handles -> 0..(nextSocket - 1)] /\ DOMAIN m_Listeners \subseteq Handles
  BY HandlesInUse DEF TypeInv, TypeOK, ListenersType
<1> USE DEF SocketsInv, Invalid
<1>2. /\ m_Socket[h] # Invalid /\ ~m_listening[h] /\ UNCHANGED <<m_Listeners, m_listening>>
      /\ openSockets' = openSockets \ {m_Socket[h]}
      /\ m_Socket' = [m_Socket EXCEPT ![h] = Invalid]
  BY DEF DestroySocket, LeftLoop, HasSocket, CloseListenSocket, registry
<1> QED
  BY <1>1, <1>2

(* Every step keeps registered sockets open. *)
LEMMA SocketsStep ==
  ASSUME TypeInv, SocketsInv, [Next]_vars PROVE SocketsInv'
<1>1. CASE UNCHANGED <<m_Listeners, m_Socket, m_listening, openSockets>>
  BY <1>1 DEF SocketsInv, Invalid
<1>6. ASSUME NEW h \in Handles, SelfStop(h) PROVE SocketsInv'
  <2>1. m_listening \in [Handles -> BOOLEAN] /\ DOMAIN m_Listeners \subseteq Handles
    BY HandlesInUse DEF TypeInv, TypeOK, ListenersType
  <2> QED
    BY <1>6, <2>1 DEF SelfStop, SocketsInv, Invalid, registry, sockets
<1>2. CASE callbackManager
  BY <1>1, <1>2 DEF callbackManager, Connecting, Disconnected, Ignored, Abort,
     registry, listeners, sockets
<1>3. CASE \/ ConnectionServed \/ pollConnectionChanges \/ UNCHANGED vars
           \/ \E h \in Handles : \/ Serve(h) \/ ClearOutgoing(h)
                                  \/ \E c \in Connection : push_OutgoingMessageQueue(h, c)
           \/ \E c \in Connection : Arrive(c) \/ End(c)
  BY <1>1, <1>3 DEF ConnectionServed, Abort, pollConnectionChanges, vars, Serve, ClearOutgoing,
     push_OutgoingMessageQueue, Arrive, End, registry, listeners, sockets
<1>4. CASE createListener
  <2>1. CASE \E h : h \in Handles
    BY <1>4, <2>1, CallsKeepSockets
  <2>2. CASE ~ \E h : h \in Handles
    BY <1>4, <2>2 DEF createListener
  <2> QED
    BY <2>1, <2>2
<1>5. ASSUME NEW h \in Handles,
             startListening(h) \/ stopListening(h) \/ DestroyListener(h) \/ DestroySocket(h)
      PROVE SocketsInv'
  BY <1>5, CallsKeepSockets, DestroyKeepsSockets
<1> QED
  BY <1>2, <1>3, <1>4, <1>5, <1>6 DEF Next, pollFunctionCalls, callbackSteps

(* As long as a listener does not stop itself, the socket it is registered *)
(* with is open and is the one its ListenerCore listens on, although the   *)
(* listening thread closes it whenever it gets to.                         *)
THEOREM SocketsCorrect == Spec => []SocketsInv
<1>1. Init => SocketsInv
  BY DEF Init, SocketsInv, Invalid, Handles
<1>2. TypeInv /\ SocketsInv /\ [Next]_vars => SocketsInv'
  BY SocketsStep
<1> QED
  BY <1>1, <1>2, TypeInvCorrect, PTL DEF Spec
-----------------------------------------------------------------------------
(* Each step of the core is a step of every listener's port, or none.      *)

(* A call that leaves the registry entry, the listener and the index on    *)
(* one side of h shows nothing on the port of h.                           *)
SamePort(h) ==
  /\ isValidListenerHandler(h)' = isValidListenerHandler(h)
  /\ isValidListenerHandler(h) => m_Listeners'[h] = m_Listeners[h]
  /\ m_Socket'[h] = m_Socket[h] /\ m_listening'[h] = m_listening[h]
  /\ m_OutgoingMessages'[h] = m_OutgoingMessages[h] /\ teardown'[h] = teardown[h]
  /\ UNCHANGED m_ListenerHandlerIndex

LEMMA SamePortStutters ==
  ASSUME NEW h, SamePort(h) PROVE UNCHANGED Port(h)!vars
  BY DEF SamePort, Port!vars, isValidListenerHandler

(* createListener makes the entry of a handle that had none, still Invalid. *)
LEMMA CreatePorts ==
  ASSUME TypeInv, NEW h \in Handles, createListener PROVE UNCHANGED Port(h)!vars
<1> DEFINE i == m_ListenerHandlerIndex
<1>1. /\ i \in Nat /\ h \in Nat /\ i \notin DOMAIN m_Listeners
      /\ m_Listeners \in [DOMAIN m_Listeners -> 0..(nextSocket - 1)]
      /\ m_ListenerHandlerIndex' = i + 1 /\ UNCHANGED listeners
  BY CoreAssumption DEF TypeInv, TypeOK, RegistryType, RegistryConsistent, createListener, Create,
     Handles
<1>2. /\ DOMAIN m_Listeners' = DOMAIN m_Listeners \cup {i} /\ m_Listeners'[i] = Invalid
      /\ \A k \in DOMAIN m_Listeners : m_Listeners'[k] = m_Listeners[k]
  BY <1>1 DEF createListener, Create, Emplace
<1>3. CASE h = i
  BY <1>1, <1>2, <1>3 DEF Port!vars, isValidListenerHandler, listeners
<1>4. CASE h # i
  <2>1. (h \in DOMAIN m_Listeners') = (h \in DOMAIN m_Listeners)
    BY <1>2, <1>4
  <2>2. (h >= i + 1) = (h >= i)
    BY <1>1, <1>4
  <2> QED
    BY <1>1, <1>2, <2>1, <2>2 DEF Port!vars, isValidListenerHandler, listeners
<1> QED
  BY <1>3, <1>4
(* What the types say of the listeners, for the steps below.               *)
LEMMA PortTypes ==
  ASSUME TypeInv
  PROVE  /\ m_Socket \in [Handles -> Nat] /\ m_listening \in [Handles -> BOOLEAN]
         /\ m_OutgoingMessages \in [Handles -> Seq(Connection)]
         /\ teardown \in [Handles -> BOOLEAN] /\ nextSocket \in Nat \ {0}
         /\ m_Listeners \in [DOMAIN m_Listeners -> Nat] /\ m_ListenerHandlerIndex \in Nat
         /\ \A h \in DOMAIN m_Listeners : h \in Nat /\ h < m_ListenerHandlerIndex
<1>1. RegistryType /\ ListenersType /\ nextSocket \in Nat \ {0}
  BY CoreAssumption DEF TypeInv, TypeOK, RegistryType
<1>2. m_ListenerHandlerIndex \in Nat
  BY <1>1, CoreAssumption DEF RegistryType
<1> QED
  BY <1>1, <1>2 DEF RegistryType, ListenersType

(* A step of the owner on the listener of h is one of its port, and none   *)
(* of another's.                                                           *)
LEMMA OwnerPorts ==
  ASSUME TypeInv, NEW h \in Handles, NEW k \in Handles,
         \/ startListening(h) \/ stopListening(h) \/ DestroyListener(h)
         \/ \E c \in Connection : push_OutgoingMessageQueue(h, c)
  PROVE  [Port(k)!Next]_(Port(k)!vars)
<1> USE PortTypes
<1>1. CASE startListening(h)
  <2>1. /\ isValidListenerHandler(h) /\ m_Listeners[h] = Invalid /\ m_Socket[h] = Invalid
        /\ ~m_listening[h] /\ nextSocket # Invalid
        /\ m_Socket' = [m_Socket EXCEPT ![h] = nextSocket]
        /\ m_Listeners' = [m_Listeners EXCEPT ![h] = nextSocket]
        /\ m_listening' = [m_listening EXCEPT ![h] = TRUE]
        /\ UNCHANGED <<m_OutgoingMessages, teardown, m_ListenerHandlerIndex>>
    BY <1>1 DEF startListening, Invalid
  <2>2. CASE k = h
    <3>1. Port(h)!Open
      BY <2>1 DEF Port!Open, isValidListenerHandler
    <3> QED
      BY <2>2, <3>1 DEF Port!Next
  <2>3. CASE k # h
    BY <2>1, <2>3, SamePortStutters DEF SamePort, isValidListenerHandler
  <2> QED
    BY <2>2, <2>3
<1>2. CASE stopListening(h)
  <2>1. /\ isValidListenerHandler(h) /\ m_Listeners[h] # Invalid
        /\ m_Listeners' = [m_Listeners EXCEPT ![h] = Invalid]
        /\ m_listening' = [m_listening EXCEPT ![h] = FALSE]
        /\ UNCHANGED <<m_Socket, m_OutgoingMessages, teardown, m_ListenerHandlerIndex>>
    BY <1>2 DEF stopListening
  <2>2. CASE k = h
    <3>1. Port(h)!Stop
      BY <2>1 DEF Port!Stop, isValidListenerHandler
    <3> QED
      BY <2>2, <3>1 DEF Port!Next
  <2>3. CASE k # h
    BY <2>1, <2>3, SamePortStutters DEF SamePort, isValidListenerHandler
  <2> QED
    BY <2>2, <2>3
<1>3. CASE DestroyListener(h)
  <2>1. /\ isValidListenerHandler(h) /\ m_Listeners' = Erase(m_Listeners, h)
        /\ m_Socket' = [m_Socket EXCEPT ![h] = Invalid]
        /\ m_listening' = [m_listening EXCEPT ![h] = FALSE]
        /\ m_OutgoingMessages' = [m_OutgoingMessages EXCEPT ![h] = <<>>]
        /\ teardown' = [teardown EXCEPT ![h] = FALSE]
        /\ UNCHANGED m_ListenerHandlerIndex
    BY <1>3 DEF DestroyListener
  <2>2. /\ DOMAIN m_Listeners' = DOMAIN m_Listeners \ {h}
        /\ \A l \in DOMAIN m_Listeners \ {h} : m_Listeners'[l] = m_Listeners[l]
    BY <2>1 DEF Erase, Restrict
  <2>3. CASE k = h
    <3>1. h \in Nat /\ h < m_ListenerHandlerIndex
      BY <2>1 DEF isValidListenerHandler
    <3>2. Port(h)!Destroy
      BY <2>1, <2>2, <3>1 DEF Port!Destroy, isValidListenerHandler
    <3> QED
      BY <2>3, <3>2 DEF Port!Next
  <2>4. CASE k # h
    <3>1. (k \in DOMAIN m_Listeners') = (k \in DOMAIN m_Listeners)
      BY <2>2, <2>4
    <3>2. k \in DOMAIN m_Listeners => m_Listeners'[k] = m_Listeners[k]
      BY <2>2, <2>4
    <3>3. /\ m_Socket'[k] = m_Socket[k] /\ m_listening'[k] = m_listening[k]
          /\ m_OutgoingMessages'[k] = m_OutgoingMessages[k] /\ teardown'[k] = teardown[k]
          /\ UNCHANGED m_ListenerHandlerIndex
      BY <2>1, <2>4
    <3> QED
      BY <3>1, <3>2, <3>3, SamePortStutters DEF SamePort, isValidListenerHandler
  <2> QED
    BY <2>3, <2>4
<1>4. ASSUME NEW c \in Connection, push_OutgoingMessageQueue(h, c)
      PROVE  [Port(k)!Next]_(Port(k)!vars)
  <2>1. /\ isValidListenerHandler(h) /\ m_Listeners[h] # Invalid
        /\ m_OutgoingMessages' =
             [m_OutgoingMessages EXCEPT ![h] = Append(m_OutgoingMessages[h], c)]
        /\ UNCHANGED <<m_Listeners, m_Socket, m_listening, teardown, m_ListenerHandlerIndex>>
    BY <1>4 DEF push_OutgoingMessageQueue, registry
  <2>2. CASE k = h
    <3>1. Len(m_OutgoingMessages'[h]) = Len(m_OutgoingMessages[h]) + 1
      BY <2>1
    <3>2. Port(h)!Push
      BY <2>1, <3>1 DEF Port!Push, isValidListenerHandler
    <3> QED
      BY <2>2, <3>2 DEF Port!Next
  <2>3. CASE k # h
    BY <2>1, <2>3, SamePortStutters DEF SamePort, isValidListenerHandler
  <2> QED
    BY <2>2, <2>3
<1> QED
  BY <1>1, <1>2, <1>3, <1>4

(* So is a step of the listening thread of h. *)
LEMMA ThreadPorts ==
  ASSUME TypeInv, NEW h \in Handles, NEW k \in Handles,
         Serve(h) \/ SelfStop(h) \/ DestroySocket(h) \/ ClearOutgoing(h)
  PROVE  [Port(k)!Next]_(Port(k)!vars)
<1> USE PortTypes
<1>1. CASE Serve(h)
  <2>1. /\ m_Socket[h] # Invalid /\ ~teardown[h] /\ m_OutgoingMessages[h] # <<>>
        /\ m_OutgoingMessages' =
             [m_OutgoingMessages EXCEPT ![h] = Tail(m_OutgoingMessages[h])]
        /\ UNCHANGED <<m_Listeners, m_Socket, m_listening, teardown, m_ListenerHandlerIndex>>
    BY <1>1 DEF Serve, HasSocket, registry
  <2>2. CASE k = h
    <3>1. Len(m_OutgoingMessages[h]) > 0 /\ Len(m_OutgoingMessages'[h]) = Len(m_OutgoingMessages[h]) - 1
      BY <2>1
    <3>2. Port(h)!Take
      BY <2>1, <3>1 DEF Port!Take, isValidListenerHandler
    <3> QED
      BY <2>2, <3>2 DEF Port!Next
  <2>3. CASE k # h
    BY <2>1, <2>3, SamePortStutters DEF SamePort, isValidListenerHandler
  <2> QED
    BY <2>2, <2>3
<1>2. CASE SelfStop(h)
  <2>1. /\ m_Socket[h] # Invalid /\ ~teardown[h]
        /\ m_listening' = [m_listening EXCEPT ![h] = FALSE]
        /\ UNCHANGED <<m_Listeners, m_Socket, m_OutgoingMessages, teardown, m_ListenerHandlerIndex>>
    BY <1>2 DEF SelfStop, HasSocket, registry
  <2>2. CASE k = h
    <3>1. Port(h)!SelfStop
      BY <2>1 DEF Port!SelfStop, isValidListenerHandler
    <3> QED
      BY <2>2, <3>1 DEF Port!Next
  <2>3. CASE k # h
    BY <2>1, <2>3, SamePortStutters DEF SamePort, isValidListenerHandler
  <2> QED
    BY <2>2, <2>3
<1>3. CASE DestroySocket(h)
  <2>1. /\ m_Socket[h] # Invalid /\ ~teardown[h] /\ ~m_listening[h]
        /\ m_Socket' = [m_Socket EXCEPT ![h] = Invalid]
        /\ teardown' = [teardown EXCEPT ![h] = TRUE]
        /\ UNCHANGED <<m_Listeners, m_listening, m_OutgoingMessages, m_ListenerHandlerIndex>>
    BY <1>3 DEF DestroySocket, LeftLoop, HasSocket, registry
  <2>2. CASE k = h
    <3>1. Port(h)!Close
      BY <2>1 DEF Port!Close, isValidListenerHandler
    <3> QED
      BY <2>2, <3>1 DEF Port!Next
  <2>3. CASE k # h
    BY <2>1, <2>3, SamePortStutters DEF SamePort, isValidListenerHandler
  <2> QED
    BY <2>2, <2>3
<1>4. CASE ClearOutgoing(h)
  <2>1. /\ teardown[h] /\ teardown' = [teardown EXCEPT ![h] = FALSE]
        /\ m_OutgoingMessages' = [m_OutgoingMessages EXCEPT ![h] = <<>>]
        /\ UNCHANGED <<m_Listeners, m_Socket, m_listening, m_ListenerHandlerIndex>>
    BY <1>4 DEF ClearOutgoing, registry
  <2>2. CASE k = h
    <3>1. Port(h)!Clear
      BY <2>1 DEF Port!Clear, isValidListenerHandler
    <3> QED
      BY <2>2, <3>1 DEF Port!Next
  <2>3. CASE k # h
    BY <2>1, <2>3, SamePortStutters DEF SamePort, isValidListenerHandler
  <2> QED
    BY <2>2, <2>3
<1> QED
  BY <1>1, <1>2, <1>3, <1>4

(* Every step of the core is a step of, or shows nothing on, every port.   *)
LEMMA PortsStep ==
  ASSUME TypeInv, NEW k \in Handles, [Next]_vars PROVE [Port(k)!Next]_(Port(k)!vars)
<1>1. CASE UNCHANGED <<m_Listeners, m_ListenerHandlerIndex, listeners>>
  BY <1>1, SamePortStutters DEF SamePort, listeners, isValidListenerHandler
<1>2. CASE callbackManager
  BY <1>1, <1>2 DEF callbackManager, Connecting, Disconnected, Ignored, Abort, registry
<1>3. CASE \/ ConnectionServed \/ pollConnectionChanges \/ UNCHANGED vars
           \/ \E c \in Connection : Arrive(c) \/ End(c)
  BY <1>1, <1>3 DEF ConnectionServed, Abort, pollConnectionChanges, vars, Arrive, End, registry
<1>4. CASE createListener
  BY <1>4, CreatePorts
<1>5. ASSUME NEW h \in Handles,
             \/ startListening(h) \/ stopListening(h) \/ DestroyListener(h)
             \/ \E c \in Connection : push_OutgoingMessageQueue(h, c)
      PROVE  [Port(k)!Next]_(Port(k)!vars)
  BY <1>5, OwnerPorts
<1>6. ASSUME NEW h \in Handles,
             Serve(h) \/ SelfStop(h) \/ DestroySocket(h) \/ ClearOutgoing(h)
      PROVE  [Port(k)!Next]_(Port(k)!vars)
  BY <1>6, ThreadPorts
<1> QED
  BY <1>2, <1>3, <1>4, <1>5, <1>6 DEF Next, pollFunctionCalls, callbackSteps

(* The core keeps, for every listener it has, the promise of that          *)
(* listener, the one module Listener is proved to keep: its view of a      *)
(* listening thread allows all that the thread does, and what it does to   *)
(* the registry never contradicts it.                                      *)
THEOREM PortsCorrect == Spec => PortsKept
<1>1. Init => \A h \in Handles : Port(h)!Init
  BY CoreAssumption DEF Init, Port!Init, isValidListenerHandler, Handles, Invalid
<1>2. TypeInv /\ [Next]_vars => [\A h \in Handles : [Port(h)!Next]_(Port(h)!vars)]_vars
  BY PortsStep
<1> QED
  BY <1>1, <1>2, TypeInvCorrect, PTL DEF Spec, PortsKept
=============================================================================
