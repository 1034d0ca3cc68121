--------------------------- MODULE Connections_proof ---------------------------
(***************************************************************************)
(* Proofs about module NetworkManagerCore: the connections it lists are    *)
(* those the library has, for every number of listeners, sockets and       *)
(* connections.                                                            *)
(***************************************************************************)
EXTENDS NetworkManagerCore_proof, SequenceTheorems

-----------------------------------------------------------------------------
(* NoForgottenConnections, with what makes it inductive: between accepting *)
(* a connection and listing it, the first of the batch is its callback.    *)
AcceptedInv ==
  /\ NoForgottenConnections
  /\ accepted => batch # <<>> /\ Head(batch).m_eState = "Connecting"

(* A step that takes no callback forgets nobody if it closes whom it takes *)
(* off the list.                                                           *)
LEMMA ListKept ==
  ASSUME AcceptedInv, UNCHANGED <<accepted, batch>>,
         \A c \in Connection :
           state'[c] = "Connected" => state[c] = "Connected" /\ (Listed(c) => Listed(c)')
  PROVE  AcceptedInv'
BY DEF AcceptedInv, NoForgottenConnections

(* The calls: the entry that is erased has its connections closed.         *)
LEMMA CallsForgetNobody ==
  ASSUME TypeInv, AcceptedInv, NEW h \in Handles,
         startListening(h) \/ stopListening(h) \/ DestroyListener(h) \/ DestroySocket(h)
  PROVE  AcceptedInv'
<1> DEFINE m == m_SocketClientsMap
<1>1. /\ m \in [DOMAIN m -> SUBSET Connection] /\ {} \in SUBSET Connection
      /\ state \in [Connection -> {"Unused", "Connecting", "Connected", "Ended", "Gone"}]
  BY DEF TypeInv, TypeOK, RegistryType, LibraryType
<1>2. ASSUME NEW s, m' = Erase(m, s), NEW c \in Connection, Listed(c), c \notin m[s]
      PROVE  Listed(c)'
  <2>1. DOMAIN m' = DOMAIN m \ {s} /\ \A y \in DOMAIN m \ {s} : m'[y] = m[y]
    BY <1>1, <1>2, EraseMap
  <2> QED
    BY <1>2, <2>1 DEF Listed
<1>3. CASE startListening(h)
  <2>1. \A y \in DOMAIN m : y \in DOMAIN m' /\ m'[y] = m[y]
    <3>1. m' = Emplace(m, nextSocket, {})
      BY <1>3 DEF startListening
    <3>2. DOMAIN m' = DOMAIN m \cup {nextSocket} /\ \A y \in DOMAIN m : m'[y] = m[y]
      BY <3>1 DEF Emplace
    <3> QED
      BY <3>2
  <2>2. UNCHANGED <<accepted, batch, state>>
    BY <1>3 DEF startListening, dispatch, conns
  <2> QED
    BY <2>1, <2>2, ListKept DEF Listed
<1>4. CASE stopListening(h)
  <2> DEFINE s == m_Listeners[h]
  <2>1. /\ m' = Erase(m, s) /\ UNCHANGED <<accepted, batch>>
        /\ state' = [c \in Connection |-> IF c \in m[s] THEN "Gone" ELSE state[c]]
    BY <1>4 DEF stopListening, Forget, CloseConnections, dispatch
  <2>2. \A c \in Connection : state'[c] = "Connected" => state[c] = "Connected" /\ c \notin m[s]
    BY <2>1
  <2> QED
    BY <1>2, <2>1, <2>2, ListKept
<1>5. CASE DestroyListener(h)
  <2> DEFINE s == m_Listeners[h]
  <2>1. UNCHANGED <<accepted, batch>>
    BY <1>5 DEF DestroyListener, dispatch
  <2>2. \/ s = Invalid /\ m' = m
        \/ s # Invalid /\ m' = Erase(m, s)
    BY <1>5 DEF DestroyListener, Forget
  <2>3. \A c \in Connection : state'[c] = "Connected" =>
           state[c] = "Connected" /\ (s # Invalid => c \notin m[s])
    <3>1. PICK left \in BOOLEAN :
            state' = [c \in Connection |->
              IF \/ s # Invalid /\ c \in m[s]
                 \/ ~left /\ InLibrary(c) /\ listenSocket[c] = m_Socket[h]
              THEN "Gone" ELSE state[c]]
      BY <1>5 DEF DestroyListener
    <3> QED
      BY <3>1
  <2>4. CASE s = Invalid
    BY <2>1, <2>2, <2>3, <2>4, ListKept DEF Listed
  <2>5. CASE s # Invalid
    BY <1>2, <2>1, <2>2, <2>3, <2>5, ListKept
  <2> QED
    BY <2>4, <2>5
<1>6. CASE DestroySocket(h)
  <2>1. UNCHANGED <<accepted, batch, m_SocketClientsMap>>
    BY <1>6 DEF DestroySocket, dispatch, registry
  <2>2. \A c \in Connection : state'[c] = "Connected" => state[c] = "Connected"
    BY <1>6 DEF DestroySocket, CloseListenSocket
  <2> QED
    BY <2>1, <2>2, ListKept DEF Listed
<1> QED
  BY <1>3, <1>4, <1>5, <1>6

(* The callbacks: what is accepted is listed next, or closed.              *)
LEMMA CallbacksForgetNobody ==
  ASSUME TypeInv, AcceptedInv, callbackManager PROVE AcceptedInv'
<1> DEFINE c == Head(batch).m_hConn
           s == Head(batch).m_hListenSocket
           m == m_SocketClientsMap
<1>1. c \in Connection
  BY BatchTyped DEF callbackManager, CallbackType, TypeInv, TypeOK
<1>2. /\ state \in [Connection -> {"Unused", "Connecting", "Connected", "Ended", "Gone"}]
      /\ m \in [DOMAIN m -> SUBSET Connection] /\ accepted \in BOOLEAN
  BY DEF TypeInv, TypeOK, RegistryType, LibraryType, CallbacksType
<1> HIDE DEF c, s
<1>3. CASE UNCHANGED <<accepted, batch, state, m_SocketClientsMap>>
  BY <1>3, ListKept DEF Listed
<1>4. CASE Connecting(c, s) /\ Head(batch).m_eState = "Connecting"
  <2>1. CASE ~accepted /\ Refused(c)
    <3>1. state'[c] = "Gone" /\ ~accepted' /\ UNCHANGED m
          /\ \A d \in Connection \ {c} : state'[d] = state[d]
      BY <1>1, <1>2, <2>1 DEF Refused
    <3> QED
      BY <2>1, <3>1 DEF AcceptedInv, NoForgottenConnections, Listed
  <2>2. CASE ~accepted /\ AcceptedBy(c)
    <3>1. UNCHANGED <<m, batch>> /\ \A d \in Connection \ {c} : state'[d] = state[d]
      BY <1>1, <1>2, <2>2 DEF AcceptedBy
    <3>2. Head(batch').m_hConn = c /\ Head(batch').m_eState = "Connecting" /\ accepted'
      BY <1>4, <2>2, <3>1 DEF AcceptedBy, c
    <3>3. batch' # <<>>
      BY <3>1 DEF callbackManager
    <3> QED
      BY <2>2, <3>1, <3>2, <3>3 DEF AcceptedInv, NoForgottenConnections, Listed
  <2>3. CASE accepted /\ Known(s) /\ AssignPollGroup(c, s)
    <3>1. ~accepted'
      BY <2>3 DEF AssignPollGroup
    <3>2. \A d \in Connection : Listed(d) => Listed(d)'
      BY <1>2, <2>3 DEF AssignPollGroup, Listed
    <3>3. \A d \in Connection : state'[d] = "Connected" => state[d] = "Connected"
      BY <1>1, <1>2, <2>3 DEF AssignPollGroup
    <3>4. ASSUME NEW d \in Connection, d = c, state'[d] = "Connected" PROVE Listed(d)'
      <4>1. m' = [m EXCEPT ![s] = m[s] \cup {c}]
        BY <1>2, <2>3, <3>4 DEF AssignPollGroup
      <4>2. s \in DOMAIN m' /\ d \in m'[s]
        BY <2>3, <3>4, <4>1 DEF Known
      <4> QED
        BY <4>2 DEF Listed
    <3>5. \A d \in Connection : state[d] = "Connected" => Listed(d) \/ d = c
      BY <2>3 DEF AcceptedInv, NoForgottenConnections, c
    <3>6. NoForgottenConnections'
      BY <3>2, <3>3, <3>4, <3>5 DEF NoForgottenConnections
    <3> QED
      BY <3>1, <3>6 DEF AcceptedInv
  <2> QED
    BY <1>3, <1>4, <2>1, <2>2, <2>3 DEF Connecting, Abort, registry, conns, dispatch
<1>5. CASE Disconnected(c, s) /\ Head(batch).m_eState = "Ended"
  <2>1. CASE Known(s) /\ Drop(c, s) /\ UNCHANGED accepted
    <3>1. ~accepted
      BY <1>5 DEF AcceptedInv
    <3>2. state'[c] = "Gone" /\ \A d \in Connection \ {c} : state'[d] = state[d]
      BY <1>1, <1>2, <2>1 DEF Drop
    <3>3. \A d \in Connection \ {c} : Listed(d) => Listed(d)'
      BY <1>2, <2>1 DEF Drop, Listed, Known
    <3> QED
      BY <2>1, <3>1, <3>2, <3>3 DEF AcceptedInv, NoForgottenConnections
  <2> QED
    BY <1>3, <1>5, <2>1 DEF Disconnected, Abort, registry, conns, dispatch
<1>6. CASE Ignored /\ Head(batch).m_eState = "Connected"
  <2>1. ~accepted
    BY <1>6 DEF AcceptedInv
  <2> QED
    BY <1>6, <2>1 DEF Ignored, AcceptedInv, NoForgottenConnections, Listed, registry, conns
<1> QED
  BY <1>4, <1>5, <1>6 DEF callbackManager, c, s

(* Every step forgets nobody. *)
LEMMA ForgottenStep == TypeInv /\ AcceptedInv /\ [Next]_vars => AcceptedInv'
<1> SUFFICES ASSUME TypeInv, AcceptedInv, [Next]_vars PROVE AcceptedInv'
  OBVIOUS
<1>1. state \in [Connection -> {"Unused", "Connecting", "Connected", "Ended", "Gone"}]
  BY DEF TypeInv, TypeOK, LibraryType
<1>2. CASE UNCHANGED <<accepted, batch, state, m_SocketClientsMap>>
  BY <1>2, ListKept DEF Listed
<1>3. CASE pollConnectionChanges
  BY <1>3 DEF pollConnectionChanges, AtCalls, AcceptedInv, NoForgottenConnections, Listed,
     registry, conns
<1>4. ASSUME NEW c \in Connection, Arrive(c) \/ End(c) PROVE AcceptedInv'
  <2>1. UNCHANGED <<accepted, batch, m_SocketClientsMap>>
    BY <1>4 DEF Arrive, End, registry
  <2>2. \A d \in Connection : state'[d] = "Connected" => state[d] = "Connected"
    BY <1>1, <1>4 DEF Arrive, End
  <2> QED
    BY <2>1, <2>2, ListKept DEF Listed
<1>5. CASE \/ createListener \/ ConnectionServed \/ UNCHANGED vars
           \/ \E h \in Handles : \/ Serve(h) \/ SelfStop(h) \/ ClearOutgoing(h)
                                  \/ \E c \in Connection : push_OutgoingMessageQueue(h, c)
  BY <1>2, <1>5 DEF createListener, ConnectionServed, Abort, vars, Serve, SelfStop, ClearOutgoing,
     push_OutgoingMessageQueue, registry, conns, dispatch
<1> QED
  BY <1>3, <1>4, <1>5, CallsForgetNobody, CallbacksForgetNobody
     DEF Next, pollFunctionCalls, callbackSteps

(* No connection is accepted and then forgotten: not by a stop, a destroyed *)
(* listener or a closing socket that comes between accepting and listing.  *)
THEOREM NobodyForgotten == Spec => []NoForgottenConnections
<1>1. Init => AcceptedInv
  BY DEF Init, AcceptedInv, NoForgottenConnections
<1>2. AcceptedInv => NoForgottenConnections
  BY DEF AcceptedInv
<1>3. Spec => []TypeInv
  BY TypeInvCorrect
<1> QED
  BY <1>1, <1>2, <1>3, ForgottenStep, PTL DEF Spec

-----------------------------------------------------------------------------
(* NoStaleConnections: what the queued callbacks say of the connections.   *)

(* batch is run before what was queued since. *)
Queue == batch \o callbacks
Entries == 1..Len(Queue)

(* A callback as it is queued: about a connection the library knows, on    *)
(* the socket it was accepted on; the first about it says "Connecting".    *)
Snapshot(cb) ==
  /\ cb.m_hConn \in Connection /\ state'[cb.m_hConn] # "Unused"
  /\ cb.m_hListenSocket = listenSocket'[cb.m_hConn]
  /\ cb.m_eState = "Connecting" => state[cb.m_hConn] = "Unused"
Push(cb) == callbacks' = Append(callbacks, cb)
Pop == batch # <<>> /\ batch' = Tail(batch)

(* The queue loses its first k entries and may get a new last one. *)
Shift(k) ==
  /\ \A i \in Entries' : \/ i + k \in Entries /\ Queue'[i] = Queue[i + k]
                         \/ i = Len(Queue') /\ Snapshot(Queue'[i])
  /\ \A i \in Entries : i > k => i - k \in Entries' /\ Queue'[i - k] = Queue[i]

(* An entry of Queue is one of batch or of callbacks. *)
LEMMA QueueEntries ==
  ASSUME CallbacksType
  PROVE  /\ Len(batch) \in Nat /\ Len(callbacks) \in Nat /\ Queue \in Seq(CallbackType)
         /\ Len(Queue) = Len(batch) + Len(callbacks)
         /\ \A i \in 1..Len(batch) : Queue[i] = batch[i]
         /\ \A i \in 1..Len(callbacks) : Queue[Len(batch) + i] = callbacks[i]
<1>1. batch \in Seq(CallbackType) /\ callbacks \in Seq(CallbackType)
  BY DEF CallbacksType
<1>2. /\ Len(Queue) = Len(batch) + Len(callbacks) /\ Queue \in Seq(CallbackType)
      /\ \A i \in 1..(Len(batch) + Len(callbacks)) :
           Queue[i] = IF i <= Len(batch) THEN batch[i] ELSE callbacks[i - Len(batch)]
  BY <1>1, ConcatProperties DEF Queue
<1>3. Len(batch) \in Nat /\ Len(callbacks) \in Nat
  BY <1>1, LenProperties
<1> HIDE DEF Queue
<1> QED
  BY <1>2, <1>3

(* One callback is pushed, or none; the first is popped, or none. *)
LEMMA QueueShift ==
  ASSUME CallbacksType, NEW k \in {0, 1},
         (k = 0 /\ UNCHANGED batch) \/ (k = 1 /\ Pop),
         \/ UNCHANGED callbacks
         \/ \E cb \in CallbackType : Snapshot(cb) /\ Push(cb)
  PROVE  Shift(k)
<1> DEFINE b == Len(batch)
           n == Len(callbacks)
<1>1. /\ batch \in Seq(CallbackType) /\ callbacks \in Seq(CallbackType)
      /\ b \in Nat /\ n \in Nat /\ Len(Queue) = b + n
      /\ \A i \in 1..b : Queue[i] = batch[i]
      /\ \A i \in 1..n : Queue[b + i] = callbacks[i]
  BY QueueEntries DEF CallbacksType
<1>2. /\ batch' \in Seq(CallbackType) /\ Len(batch') = b - k /\ b >= k
      /\ \A i \in 1..(b - k) : batch'[i] = batch[i + k]
  <2>1. CASE k = 0 /\ UNCHANGED batch
    BY <1>1, <2>1
  <2>2. CASE k = 1 /\ Pop
    BY <1>1, <2>2, HeadTailProperties, EmptySeq DEF Pop
  <2> QED
    BY <2>1, <2>2
<1>3. /\ callbacks' \in Seq(CallbackType) /\ Len(callbacks') \in {n, n + 1}
      /\ \A i \in 1..n : callbacks'[i] = callbacks[i]
      /\ Len(callbacks') = n + 1 => Snapshot(callbacks'[n + 1])
  <2>1. CASE UNCHANGED callbacks
    BY <1>1, <2>1
  <2>2. CASE \E cb \in CallbackType : Snapshot(cb) /\ Push(cb)
    <3>1. PICK cb \in CallbackType : Snapshot(cb) /\ callbacks' = Append(callbacks, cb)
      BY <2>2 DEF Push
    <3>2. /\ callbacks' \in Seq(CallbackType) /\ Len(callbacks') = n + 1
          /\ \A i \in 1..n : callbacks'[i] = callbacks[i]
          /\ callbacks'[n + 1] = cb
      BY <1>1, <3>1, AppendProperties
    <3> QED
      BY <3>1, <3>2
  <2> QED
    BY <2>1, <2>2
<1>4. /\ Len(Queue') = b - k + Len(callbacks')
      /\ \A i \in 1..(b - k) : Queue'[i] = batch'[i]
      /\ \A i \in 1..Len(callbacks') : Queue'[b - k + i] = callbacks'[i]
  <2>1. /\ Len(batch' \o callbacks') = Len(batch') + Len(callbacks')
        /\ \A i \in 1..(Len(batch') + Len(callbacks')) : (batch' \o callbacks')[i] =
             IF i <= Len(batch') THEN batch'[i] ELSE callbacks'[i - Len(batch')]
    BY <1>2, <1>3, ConcatProperties
  <2>2. Queue' = batch' \o callbacks'
    BY DEF Queue
  <2>3. /\ Len(batch') = b - k /\ b - k \in Nat /\ Len(callbacks') \in Nat
    BY <1>1, <1>2, <1>3
  <2> HIDE DEF b, n, Queue
  <2>4. ASSUME NEW i \in 1..(b - k) PROVE Queue'[i] = batch'[i]
    <3>1. i \in 1..(Len(batch') + Len(callbacks')) /\ i <= Len(batch')
      BY <2>3, <2>4
    <3> QED
      BY <2>1, <2>2, <3>1
  <2>5. ASSUME NEW i \in 1..Len(callbacks') PROVE Queue'[b - k + i] = callbacks'[i]
    <3> DEFINE x == b - k + i
    <3>1. /\ x \in 1..(Len(batch') + Len(callbacks'))
          /\ ~(x <= Len(batch')) /\ x - Len(batch') = i
      BY <2>3, <2>5
    <3> HIDE DEF x
    <3>2. Queue'[x] = callbacks'[i]
      BY <2>1, <2>2, <3>1
    <3> QED
      BY <3>2 DEF x
  <2> QED
    BY <2>1, <2>2, <2>3, <2>4, <2>5
<1> DEFINE m == Len(callbacks')
           q == Len(Queue)
           r == Len(Queue')
<1>n. b \in Nat /\ n \in Nat /\ m \in {n, n + 1} /\ b >= k /\ q = b + n /\ r = b - k + m
  BY <1>1, <1>2, <1>3, <1>4
<1>e. Entries = 1..q /\ Entries' = 1..r
  BY DEF Entries
<1> HIDE DEF b, n, m, q, r, Queue
<1>5. ASSUME NEW i \in Entries'
      PROVE  \/ i + k \in Entries /\ Queue'[i] = Queue[i + k]
             \/ i = Len(Queue') /\ Snapshot(Queue'[i])
  <2>1. i \in 1..(b - k + m)
    BY <1>5, <1>n, <1>e
  <2>2. CASE i <= b - k
    <3>1. i \in 1..(b - k) /\ i + k \in 1..b /\ i + k \in 1..q
      BY <1>n, <2>1, <2>2
    <3> QED
      BY <1>1, <1>2, <1>4, <1>e, <3>1
  <2>3. CASE b - k < i /\ i <= b - k + n
    <3>1. PICK j \in 1..n : i = b - k + j /\ i + k = b + j /\ j \in 1..m /\ i + k \in 1..q
      <4>1. /\ i - (b - k) \in 1..n /\ i = b - k + (i - (b - k)) /\ i + k = b + (i - (b - k))
            /\ i - (b - k) \in 1..m /\ i + k \in 1..q
        BY <1>n, <2>1, <2>3
      <4> QED
        BY <4>1
    <3>2. Queue'[i] = callbacks'[j] /\ Queue[i + k] = callbacks[j]
      BY <1>1, <1>4, <3>1 DEF m
    <3> QED
      BY <1>3, <1>e, <3>1, <3>2
  <2>4. CASE i > b - k + n
    <3>1. i = b - k + (n + 1) /\ m = n + 1 /\ i = r /\ n + 1 \in 1..m
      BY <1>n, <2>1, <2>4
    <3>2. Queue'[i] = callbacks'[n + 1]
      BY <1>4, <3>1 DEF m
    <3> QED
      BY <1>3, <3>1, <3>2 DEF m, r
  <2> QED
    BY <1>n, <2>1, <2>2, <2>3, <2>4
<1>6. ASSUME NEW i \in Entries, i > k PROVE i - k \in Entries' /\ Queue'[i - k] = Queue[i]
  <2>1. i \in 1..(b + n)
    BY <1>6, <1>n, <1>e
  <2>2. CASE i <= b
    <3>1. i - k \in 1..(b - k) /\ i \in 1..b /\ i - k \in 1..r /\ (i - k) + k = i
      BY <1>n, <1>6, <2>1, <2>2
    <3> QED
      BY <1>1, <1>2, <1>4, <1>e, <3>1
  <2>3. CASE i > b
    <3>1. PICK j \in 1..n : i = b + j /\ i - k = b - k + j /\ j \in 1..m /\ i - k \in 1..r
      <4>1. /\ i - b \in 1..n /\ i = b + (i - b) /\ i - k = b - k + (i - b)
            /\ i - b \in 1..m /\ i - k \in 1..r
        BY <1>n, <2>1, <2>3
      <4> QED
        BY <4>1
    <3>2. Queue'[i - k] = callbacks'[j] /\ Queue[i] = callbacks[j]
      BY <1>1, <1>4, <3>1 DEF m
    <3> QED
      BY <1>3, <1>e, <3>1, <3>2
  <2> QED
    BY <1>n, <2>1, <2>2, <2>3
<1> QED
  BY <1>5, <1>6 DEF Shift

(* RunCallbacks takes the queue as it is. *)
LEMMA QueueTaken ==
  ASSUME CallbacksType, pollConnectionChanges PROVE Shift(0)
<1>1. batch = <<>> /\ batch' = callbacks /\ callbacks' = <<>>
  BY DEF pollConnectionChanges, AtCalls
<1>2. callbacks \in Seq(CallbackType)
  BY DEF CallbacksType
<1>3. Queue' = Queue
  BY <1>1, <1>2, ConcatEmptySeq DEF Queue
<1>4. Len(Queue) \in Nat
  BY QueueEntries
<1> HIDE DEF Queue
<1> QED
  BY <1>3, <1>4 DEF Shift, Entries

(* What callbackManager does to the queues, by the callback. *)
LEMMA CallbackQueues ==
  ASSUME TypeInv, AcceptedInv, callbackManager
  PROVE  \/ /\ Shift(0) /\ UNCHANGED batch
            /\ \/ UNCHANGED <<state, accepted>>
               \/ accepted' /\ state'[Head(batch).m_hConn] = "Connected"
         \/ /\ Shift(1) /\ ~accepted' /\ Queue # <<>> /\ Queue[1] = Head(batch)
            /\ Queue[1].m_eState = "Ended" => state'[Queue[1].m_hConn] = "Gone"
<1> DEFINE c == Head(batch).m_hConn
           s == Head(batch).m_hListenSocket
<1>1. /\ c \in Connection /\ CallbacksType /\ LibraryType /\ batch # <<>>
      /\ state \in [Connection -> {"Unused", "Connecting", "Connected", "Ended", "Gone"}]
  BY BatchTyped DEF callbackManager, CallbackType, TypeInv, TypeOK, LibraryType
<1>2. Queue # <<>> /\ Queue[1] = Head(batch)
  <2>1. /\ Len(batch) \in Nat \ {0} /\ Len(callbacks) \in Nat /\ batch \in Seq(CallbackType)
        /\ Len(Queue) = Len(batch) + Len(callbacks) /\ Queue[1] = batch[1]
    BY <1>1, QueueEntries, EmptySeq DEF CallbacksType
  <2> HIDE DEF Queue
  <2>2. Len(Queue) # 0 /\ Len(<<>>) = 0
    BY <2>1
  <2> QED
    BY <2>1, <2>2
<1>3. ASSUME NEW new \in {"Connected", "Ended"}, UNCHANGED listenSocket, state'[c] # "Unused",
             callbacks' = Append(callbacks, Callback(c, new))
      PROVE  \E cb \in CallbackType : Snapshot(cb) /\ Push(cb)
  <2> DEFINE cb == Callback(c, new)
  <2>1. cb \in CallbackType
    BY <1>1 DEF Callback, CallbackType, LibraryType
  <2>2. Snapshot(cb) /\ Push(cb)
    BY <1>1, <1>3 DEF Snapshot, Push, Callback
  <2> QED
    BY <2>1, <2>2
<1> HIDE DEF Queue, c, s
<1>4. CASE UNCHANGED <<batch, callbacks, state, accepted>>
  BY <1>1, <1>4, QueueShift
<1>5. CASE Connecting(c, s) /\ Head(batch).m_eState = "Connecting"
  <2>1. CASE ~accepted /\ Refused(c) /\ UNCHANGED listenSocket
    <3>1. Pop /\ ~accepted' /\ state'[c] = "Gone"
      BY <1>1, <2>1 DEF Refused, Pop
    <3>2. \/ UNCHANGED callbacks
          \/ \E cb \in CallbackType : Snapshot(cb) /\ Push(cb)
      BY <1>3, <2>1, <3>1 DEF Refused
    <3>3. Shift(1)
      BY <1>1, <3>1, <3>2, QueueShift
    <3> QED
      BY <1>2, <1>5, <3>1, <3>3
  <2>2. CASE ~accepted /\ AcceptedBy(c) /\ UNCHANGED listenSocket
    <3>1. UNCHANGED batch /\ state'[c] = "Connected" /\ accepted'
      BY <1>1, <2>2 DEF AcceptedBy
    <3>2. \E cb \in CallbackType : Snapshot(cb) /\ Push(cb)
      BY <1>3, <2>2, <3>1 DEF AcceptedBy
    <3>3. Shift(0)
      BY <1>1, <3>1, <3>2, QueueShift
    <3> QED
      BY <3>1, <3>3 DEF c
  <2>3. CASE AssignPollGroup(c, s)
    <3>1. Pop /\ ~accepted' /\ UNCHANGED callbacks
      BY <1>1, <2>3 DEF AssignPollGroup, Pop
    <3>2. Shift(1)
      BY <1>1, <3>1, QueueShift
    <3> QED
      BY <1>2, <1>5, <3>1, <3>2
  <2> QED
    BY <1>4, <1>5, <2>1, <2>2, <2>3 DEF Connecting, Abort, conns, dispatch
<1>6. CASE Disconnected(c, s) /\ Head(batch).m_eState = "Ended"
  <2>1. CASE Drop(c, s) /\ UNCHANGED <<callbacks, accepted>>
    <3>1. Pop /\ state'[c] = "Gone" /\ ~accepted'
      BY <1>1, <1>6, <2>1 DEF Drop, Pop, AcceptedInv
    <3>2. Shift(1)
      BY <1>1, <2>1, <3>1, QueueShift
    <3> QED
      BY <1>2, <3>1, <3>2 DEF c
  <2> QED
    BY <1>4, <1>6, <2>1 DEF Disconnected, Abort, conns, dispatch
<1>7. CASE Ignored /\ Head(batch).m_eState = "Connected"
  <2>1. Pop /\ ~accepted' /\ UNCHANGED callbacks
    BY <1>1, <1>7 DEF Ignored, Pop, AcceptedInv
  <2>2. Shift(1)
    BY <1>1, <2>1, QueueShift
  <2> QED
    BY <1>2, <1>7, <2>1, <2>2
<1> QED
  BY <1>5, <1>6, <1>7 DEF callbackManager, c, s

(* An end is queued. *)
LEMMA EndShift ==
  ASSUME TypeInv, NEW c \in Connection, End(c) PROVE Shift(0) /\ UNCHANGED <<batch, accepted>>
<1> DEFINE cb == Callback(c, "Ended")
<1>1. CallbacksType /\ LibraryType
  BY DEF TypeInv, TypeOK
<1>2. cb \in CallbackType
  BY <1>1 DEF Callback, CallbackType, LibraryType
<1>3. Snapshot(cb) /\ Push(cb)
  BY <1>1 DEF End, Snapshot, Push, Callback, LibraryType
<1>4. UNCHANGED <<batch, accepted>>
  BY DEF End
<1> QED
  BY <1>1, <1>2, <1>3, <1>4, QueueShift

(* Every other step only adds to the queue, if anything.                   *)
LEMMA OtherQueues ==
  ASSUME TypeInv, AcceptedInv, [Next]_vars, ~callbackManager
  PROVE  Shift(0) /\ UNCHANGED accepted /\ (accepted => UNCHANGED batch)
<1>1. CallbacksType /\ LibraryType
  BY DEF TypeInv, TypeOK
<1>2. CASE UNCHANGED dispatch
  BY <1>1, <1>2, QueueShift DEF dispatch
<1>3. CASE pollConnectionChanges
  BY <1>1, <1>3, QueueTaken DEF pollConnectionChanges, AtCalls, AcceptedInv
<1>4. ASSUME NEW c \in Connection, Arrive(c)
      PROVE  Shift(0) /\ UNCHANGED accepted /\ UNCHANGED batch
  <2>1. PICK s \in openSockets :
          /\ listenSocket' = [listenSocket EXCEPT ![c] = s]
          /\ callbacks' = Append(callbacks,
               [m_hConn |-> c, m_hListenSocket |-> s, m_eState |-> "Connecting"])
    BY <1>4 DEF Arrive
  <2> DEFINE cb == [m_hConn |-> c, m_hListenSocket |-> s, m_eState |-> "Connecting"]
  <2>2. cb \in CallbackType
    BY <1>1 DEF CallbackType, LibraryType
  <2>3. Snapshot(cb) /\ Push(cb)
    BY <1>1, <1>4, <2>1 DEF Arrive, Snapshot, Push, LibraryType
  <2>4. UNCHANGED <<batch, accepted>>
    BY <1>4 DEF Arrive
  <2> QED
    BY <1>1, <2>2, <2>3, <2>4, QueueShift
<1>5. ASSUME NEW c \in Connection, End(c)
      PROVE  Shift(0) /\ UNCHANGED accepted /\ UNCHANGED batch
  BY <1>5, EndShift
<1>6. CASE \/ createListener \/ ConnectionServed \/ UNCHANGED vars
           \/ \E h \in Handles :
                \/ startListening(h) \/ stopListening(h) \/ DestroyListener(h)
                \/ Serve(h) \/ SelfStop(h) \/ ClearOutgoing(h) \/ DestroySocket(h)
                \/ \E c \in Connection : push_OutgoingMessageQueue(h, c)
  BY <1>2, <1>6 DEF createListener, ConnectionServed, Abort, vars, startListening,
     stopListening, DestroyListener, Serve, SelfStop, ClearOutgoing, DestroySocket, push_OutgoingMessageQueue
<1> QED
  BY <1>3, <1>4, <1>5, <1>6 DEF Next, pollFunctionCalls, callbackSteps

(* A connection once known stays so, and on its socket; one that is no     *)
(* longer connecting never is again; and only End ends one.                *)
Monotone ==
  \A d \in Connection :
    /\ state[d] # "Unused" => state'[d] # "Unused" /\ listenSocket'[d] = listenSocket[d]
    /\ state[d] \notin {"Unused", "Connecting"} => state'[d] \notin {"Unused", "Connecting"}
    /\ state'[d] = "Ended" => state[d] = "Ended" \/ End(d)

(* Every step only moves connections on.                                   *)
LEMMA StepMonotone == TypeInv /\ [Next]_vars => Monotone
<1> SUFFICES ASSUME TypeInv, [Next]_vars PROVE Monotone
  OBVIOUS
<1>1. /\ state \in [Connection -> {"Unused", "Connecting", "Connected", "Ended", "Gone"}]
      /\ listenSocket \in [Connection -> Nat]
  BY DEF TypeInv, TypeOK, LibraryType
<1> USE DEF Monotone
<1>2. CASE UNCHANGED conns
  BY <1>2 DEF conns
<1>3. ASSUME NEW h \in Handles, startListening(h) \/ stopListening(h) \/ DestroySocket(h)
      PROVE  Monotone
  BY <1>1, <1>3 DEF startListening, stopListening, CloseConnections, DestroySocket,
                    CloseListenSocket, conns
<1>4. ASSUME NEW h \in Handles, DestroyListener(h) PROVE Monotone
  <2>1. /\ listenSocket' = listenSocket
        /\ \A d \in Connection : state'[d] \in {state[d], "Gone"}
    BY <1>1, <1>4 DEF DestroyListener
  <2> QED
    BY <2>1
<1>5. CASE callbackManager
  <2> DEFINE c == Head(batch).m_hConn
             s == Head(batch).m_hListenSocket
  <2>1. listenSocket' = listenSocket
    BY <1>5 DEF callbackManager, Connecting, Disconnected, Ignored, Abort, conns
  <2>2. state' = state \/ \E e \in {"Gone", "Connected"} : state' = [state EXCEPT ![c] = e]
    BY <1>5 DEF callbackManager, Connecting, Refused, AcceptedBy, AssignPollGroup, Disconnected,
                Drop, Ignored, Abort, conns
  <2> HIDE DEF c
  <2> QED
    BY <1>1, <2>1, <2>2
<1>6. ASSUME NEW c \in Connection, Arrive(c) PROVE Monotone
  <2>1. PICK s \in openSockets : listenSocket' = [listenSocket EXCEPT ![c] = s]
    BY <1>6 DEF Arrive
  <2>2. state[c] = "Unused" /\ state' = [state EXCEPT ![c] = "Connecting"]
    BY <1>6 DEF Arrive
  <2> QED
    BY <1>1, <2>1, <2>2
<1>7. ASSUME NEW c \in Connection, End(c) PROVE Monotone
  BY <1>1, <1>7 DEF End
<1>8. CASE \/ createListener \/ ConnectionServed \/ pollConnectionChanges \/ UNCHANGED vars
           \/ \E h \in Handles : \/ Serve(h) \/ SelfStop(h) \/ ClearOutgoing(h)
                                  \/ \E c \in Connection : push_OutgoingMessageQueue(h, c)
  BY <1>2, <1>8 DEF createListener, ConnectionServed, Abort, pollConnectionChanges, vars,
     Serve, SelfStop, ClearOutgoing, push_OutgoingMessageQueue
<1> QED
  BY <1>3, <1>4, <1>5, <1>6, <1>7, <1>8 DEF Next, pollFunctionCalls, callbackSteps

(* Every queued callback is about a known connection and names its socket. *)
SnapshotsInv ==
  \A i \in Entries :
    /\ state[Queue[i].m_hConn] # "Unused"
    /\ Queue[i].m_hListenSocket = listenSocket[Queue[i].m_hConn]

(* A connection connects once. *)
OnceInv ==
  \A i, j \in Entries :
    /\ Queue[i].m_eState = "Connecting" /\ Queue[j].m_eState = "Connecting"
    /\ Queue[i].m_hConn = Queue[j].m_hConn
    => i = j

(* What ended is reported. *)
EndedInv ==
  \A c \in Connection : state[c] = "Ended" =>
    \E i \in Entries : Queue[i].m_hConn = c /\ Queue[i].m_eState = "Ended"

(* A connection is not listed before its first callback was run; when that *)
(* has accepted it, it does not connect any more.                          *)
FreshInv ==
  \A i \in Entries : Queue[i].m_eState = "Connecting" => ~Listed(Queue[i].m_hConn)
AcceptedState ==
  accepted => state[Head(batch).m_hConn] \notin {"Unused", "Connecting"}

(* A listed connection is on its socket and has not gone before it.        *)
ListedInv ==
  \A s \in DOMAIN m_SocketClientsMap : \A c \in m_SocketClientsMap[s] :
    /\ listenSocket[c] = s /\ state[c] \in {"Connected", "Ended", "Gone"}
    /\ s \in openSockets => state[c] # "Gone"

(* An entry is about a connection. *)
LEMMA EntryTyped ==
  ASSUME CallbacksType, NEW i \in Entries PROVE Queue[i] \in CallbackType
<1>1. Queue \in Seq(CallbackType)
  BY QueueEntries
<1> QED
  BY <1>1, ElementOfSeq DEF Entries

(* The queues say what is true of the connections, however late they are   *)
(* run.                                                                    *)
LEMMA ShiftKeeps ==
  ASSUME SnapshotsInv, OnceInv, CallbacksType, Monotone, NEW k \in {0, 1}, Shift(k)
  PROVE  SnapshotsInv' /\ OnceInv'
<1>1. ASSUME NEW i \in Entries', i + k \in Entries, Queue'[i] = Queue[i + k]
      PROVE  /\ state[Queue'[i].m_hConn] # "Unused" /\ state'[Queue'[i].m_hConn] # "Unused"
             /\ Queue'[i].m_hListenSocket = listenSocket'[Queue'[i].m_hConn]
  <2>1. Queue[i + k].m_hConn \in Connection
    BY <1>1, EntryTyped DEF CallbackType
  <2> HIDE DEF Queue, Entries
  <2> QED
    BY <1>1, <2>1 DEF SnapshotsInv, Monotone
<1>2. \A i \in Entries' : i \in Int
  BY DEF Entries
<1> HIDE DEF Queue, Entries
<1>3. SnapshotsInv'
  BY <1>1 DEF SnapshotsInv, Shift, Snapshot
<1>4. ASSUME NEW i \in Entries', NEW j \in Entries',
             Queue'[i].m_eState = "Connecting", Queue'[j].m_eState = "Connecting",
             Queue'[i].m_hConn = Queue'[j].m_hConn
      PROVE  i = j
  <2>1. CASE /\ i + k \in Entries /\ Queue'[i] = Queue[i + k]
             /\ j + k \in Entries /\ Queue'[j] = Queue[j + k]
    <3>1. i + k = j + k
      BY <1>4, <2>1 DEF OnceInv
    <3>2. i \in Int /\ j \in Int /\ k \in Int
      BY <1>2
    <3> QED
      BY <3>1, <3>2
  <2>2. CASE i = Len(Queue') /\ Snapshot(Queue'[i])
    BY <1>1, <1>4, <2>2 DEF Shift, Snapshot
  <2>3. CASE j = Len(Queue') /\ Snapshot(Queue'[j])
    BY <1>1, <1>4, <2>3 DEF Shift, Snapshot
  <2> QED
    BY <2>1, <2>2, <2>3 DEF Shift
<1> QED
  BY <1>3, <1>4 DEF OnceInv

(* An ended connection stays reported until its callback closes it. *)
LEMMA EndedKept ==
  ASSUME EndedInv, CallbacksType, Monotone, NEW k \in {0, 1}, Shift(k),
         k = 1 /\ Queue[1].m_eState = "Ended" => state'[Queue[1].m_hConn] = "Gone",
         \A c \in Connection : ~End(c)
  PROVE  EndedInv'
<1> SUFFICES ASSUME NEW c \in Connection, state'[c] = "Ended"
             PROVE  \E i \in Entries' : Queue'[i].m_hConn = c /\ Queue'[i].m_eState = "Ended"
  BY DEF EndedInv
<1>1. state[c] = "Ended"
  BY DEF Monotone
<1>2. PICK i \in Entries : Queue[i].m_hConn = c /\ Queue[i].m_eState = "Ended"
  BY <1>1 DEF EndedInv
<1>3. i \in Nat \ {0}
  BY DEF Entries
<1>4. i > k
  BY <1>2, <1>3
<1> HIDE DEF Queue, Entries
<1> QED
  BY <1>2, <1>4 DEF Shift

(* So is one that ends now. *)
LEMMA EndReported ==
  ASSUME EndedInv, TypeInv, Monotone, Shift(0), NEW c \in Connection, End(c) PROVE EndedInv'
<1>1. callbacks' = Append(callbacks, Callback(c, "Ended")) /\ batch' = batch
      /\ state' = [state EXCEPT ![c] = "Ended"]
  BY DEF End
<1>2. /\ CallbacksType /\ LibraryType
      /\ state \in [Connection -> {"Unused", "Connecting", "Connected", "Ended", "Gone"}]
  BY DEF TypeInv, TypeOK, LibraryType
<1>3. Callback(c, "Ended") \in CallbackType /\ Callback(c, "Ended").m_hConn = c
      /\ Callback(c, "Ended").m_eState = "Ended"
  BY <1>2 DEF Callback, CallbackType, LibraryType
<1>4. \E i \in Entries' : Queue'[i] = Callback(c, "Ended")
  <2>1. Queue' = batch \o Append(callbacks, Callback(c, "Ended"))
    BY <1>1 DEF Queue
  <2>2. /\ batch \in Seq(CallbackType) /\ callbacks \in Seq(CallbackType)
    BY <1>2 DEF CallbacksType
  <2> DEFINE a == Append(callbacks, Callback(c, "Ended"))
             n == Len(callbacks) + 1
  <2>3. a \in Seq(CallbackType) /\ Len(a) = n /\ a[n] = Callback(c, "Ended")
        /\ n \in Nat \ {0} /\ Len(batch) \in Nat
    BY <1>3, <2>2, AppendProperties, LenProperties
  <2> HIDE DEF a, n
  <2>4. /\ Len(batch \o a) = Len(batch) + n
        /\ (batch \o a)[Len(batch) + n] = a[n]
    <3> DEFINE x == Len(batch) + n
    <3>1. /\ x \in 1..(Len(batch) + Len(a)) /\ ~(x <= Len(batch)) /\ x - Len(batch) = n
      BY <2>3
    <3> HIDE DEF x
    <3>2. (batch \o a)[x] = a[n] /\ Len(batch \o a) = Len(batch) + Len(a)
      BY <2>2, <2>3, <3>1, ConcatProperties
    <3> QED
      BY <2>3, <3>2 DEF x
  <2>5. Len(batch) + n \in 1..(Len(batch) + n)
    BY <2>3
  <2>6. Len(batch) + n \in Entries' /\ Queue'[Len(batch) + n] = Callback(c, "Ended")
    BY <2>1, <2>3, <2>4, <2>5 DEF Entries, a
  <2> QED
    BY <2>6
<1> HIDE DEF Queue, Entries
<1>5. ASSUME NEW d \in Connection, d # c, state'[d] = "Ended"
      PROVE  \E i \in Entries' : Queue'[i].m_hConn = d /\ Queue'[i].m_eState = "Ended"
  <2>1. PICK i \in Entries : Queue[i].m_hConn = d /\ Queue[i].m_eState = "Ended"
    BY <1>1, <1>2, <1>5 DEF EndedInv
  <2>2. i > 0 /\ i - 0 = i
    BY DEF Entries
  <2> QED
    BY <2>1, <2>2 DEF Shift
<1> QED
  BY <1>3, <1>4, <1>5 DEF EndedInv

(* A connection gets on a list only when the callback that has accepted it *)
(* is done.                                                                *)
LEMMA NewlyListed ==
  ASSUME TypeInv, [Next]_vars, NEW d, Listed(d)', ~Listed(d)
  PROVE  callbackManager /\ accepted /\ ~accepted' /\ d = Head(batch).m_hConn
<1> DEFINE m == m_SocketClientsMap
<1>1. /\ m \in [DOMAIN m -> SUBSET Connection] /\ {} \in SUBSET Connection
      /\ accepted \in BOOLEAN
  BY DEF TypeInv, TypeOK, RegistryType, CallbacksType
<1>2. PICK s \in DOMAIN m' : d \in m'[s]
  BY DEF Listed
<1>3. m' # m
  BY <1>2 DEF Listed
<1>4. \A x : m' # Erase(m, x)
  <2> SUFFICES ASSUME NEW x, m' = Erase(m, x) PROVE FALSE
    OBVIOUS
  <2>1. DOMAIN m' = DOMAIN m \ {x} /\ \A y \in DOMAIN m \ {x} : m'[y] = m[y]
    BY <1>1, EraseMap
  <2> QED
    BY <1>2, <2>1 DEF Listed
<1>5. ASSUME NEW h \in Handles, startListening(h) PROVE FALSE
  <2>1. m' = Emplace(m, nextSocket, {})
    BY <1>5 DEF startListening
  <2>2. m'[s] = {} \/ (s \in DOMAIN m /\ m'[s] = m[s])
    BY <1>2, <2>1 DEF Emplace
  <2> QED
    BY <1>2, <2>2 DEF Listed
<1>6. ASSUME NEW h \in Handles, stopListening(h) \/ DestroyListener(h) PROVE FALSE
  BY <1>3, <1>4, <1>6 DEF stopListening, DestroyListener, Forget
<1>7. ASSUME NEW c, NEW t, m' = [m EXCEPT ![t] = m[t] \ {c}] PROVE FALSE
  BY <1>1, <1>2, <1>7 DEF Listed
<1>8. CASE callbackManager
  <2> DEFINE c == Head(batch).m_hConn
             t == Head(batch).m_hListenSocket
  <2>1. accepted /\ AssignPollGroup(c, t)
    BY <1>3, <1>7, <1>8 DEF callbackManager, Connecting, Refused, AcceptedBy, Disconnected, Drop,
                            Ignored, Abort, registry
  <2>2. ~accepted' /\ m' = [m EXCEPT ![t] = m[t] \cup {c}]
    BY <1>3, <2>1 DEF AssignPollGroup
  <2> HIDE DEF c
  <2>3. s \in DOMAIN m /\ (d \in m[s] \/ d = c)
    BY <1>1, <1>2, <2>2
  <2>4. d = c
    BY <2>3 DEF Listed
  <2> QED
    BY <1>8, <2>1, <2>2, <2>4 DEF c
<1>9. CASE \/ createListener \/ ConnectionServed \/ pollConnectionChanges \/ UNCHANGED vars
           \/ \E h \in Handles : \/ Serve(h) \/ SelfStop(h) \/ ClearOutgoing(h) \/ DestroySocket(h)
                                  \/ \E c \in Connection : push_OutgoingMessageQueue(h, c)
           \/ \E c \in Connection : Arrive(c) \/ End(c)
  BY <1>3, <1>9 DEF createListener, ConnectionServed, Abort, pollConnectionChanges, vars, Serve,
     SelfStop, ClearOutgoing, DestroySocket, push_OutgoingMessageQueue, Arrive, End, registry
<1> QED
  BY <1>5, <1>6, <1>8, <1>9 DEF Next, pollFunctionCalls, callbackSteps

(* A connection is not listed while its first callback is queued. *)
LEMMA FreshKept ==
  ASSUME TypeInv, [Next]_vars, AcceptedInv, SnapshotsInv, OnceInv, FreshInv, ListedInv
  PROVE  FreshInv'
<1>1. ASSUME NEW d, Listed(d) PROVE state[d] # "Unused"
  BY <1>1 DEF ListedInv, Listed
<1>2. CallbacksType /\ \A i \in Entries : i \in Nat \ {0}
  BY DEF TypeInv, TypeOK, Entries
<1>3. CASE Shift(0) /\ \A d : Listed(d)' => Listed(d)
  <2> SUFFICES ASSUME NEW i \in Entries', Queue'[i].m_eState = "Connecting",
                      NEW d, d = Queue'[i].m_hConn, Listed(d)'
               PROVE  FALSE
    BY DEF FreshInv
  <2> HIDE DEF Queue, Entries
  <2>1. CASE i + 0 \in Entries /\ Queue'[i] = Queue[i + 0]
    BY <1>3, <2>1 DEF FreshInv
  <2>2. CASE Snapshot(Queue'[i])
    BY <1>1, <1>3, <2>2 DEF Snapshot
  <2> QED
    BY <1>3, <2>1, <2>2 DEF Shift
<1>4. CASE callbackManager /\ Shift(1) /\ Queue # <<>> /\ Queue[1] = Head(batch)
  <2> DEFINE c == Head(batch).m_hConn
  <2>1. 1 \in Entries
    BY <1>2, <1>4, QueueEntries, EmptySeq DEF Entries
  <2>2. \A d : Listed(d)' => Listed(d) \/ (accepted /\ d = c)
    BY NewlyListed
  <2> SUFFICES ASSUME NEW i \in Entries', Queue'[i].m_eState = "Connecting",
                      NEW d, d = Queue'[i].m_hConn, Listed(d)'
               PROVE  FALSE
    BY DEF FreshInv
  <2> HIDE DEF Queue, Entries, c
  <2>3. CASE i + 1 \in Entries /\ Queue'[i] = Queue[i + 1]
    <3>1. accepted /\ d = c
      BY <2>2, <2>3 DEF FreshInv
    <3>2. Queue[1].m_eState = "Connecting" /\ Queue[1].m_hConn = c
      BY <1>4, <3>1 DEF AcceptedInv, c
    <3>3. i + 1 = 1
      BY <2>1, <2>3, <3>1, <3>2 DEF OnceInv
    <3>4. i \in Nat \ {0}
      BY DEF Entries
    <3> QED
      BY <3>3, <3>4
  <2>4. CASE Snapshot(Queue'[i])
    <3>1. state[d] = "Unused"
      BY <2>4 DEF Snapshot
    <3>2. d = Queue[1].m_hConn
      BY <1>1, <1>4, <2>2, <3>1 DEF c
    <3> QED
      BY <2>1, <3>1, <3>2 DEF SnapshotsInv
  <2> QED
    BY <1>4, <2>3, <2>4 DEF Shift
<1>5. CASE callbackManager
  BY <1>3, <1>4, <1>5, CallbackQueues, NewlyListed
<1>6. CASE ~callbackManager
  BY <1>3, <1>6, OtherQueues, NewlyListed
<1> QED
  BY <1>5, <1>6

(* An accepted connection does not connect any more. *)
LEMMA AcceptedStateKept ==
  ASSUME TypeInv, [Next]_vars, AcceptedInv, AcceptedState, Monotone
  PROVE  AcceptedState'
<1>1. batch # <<>> => Head(batch).m_hConn \in Connection
  BY BatchTyped DEF TypeInv, TypeOK, CallbackType
<1>2. CASE accepted /\ accepted' /\ UNCHANGED batch
  BY <1>1, <1>2 DEF AcceptedInv, AcceptedState, Monotone
<1>3. CASE callbackManager
  BY <1>2, <1>3, CallbackQueues DEF AcceptedState
<1>4. CASE ~callbackManager
  BY <1>2, <1>4, OtherQueues DEF AcceptedState
<1> QED
  BY <1>3, <1>4

(* A step that lists nobody and opens no listed socket keeps ListedInv if  *)
(* it closes nobody who stays listed on an open socket.                    *)
LEMMA ListedSame ==
  ASSUME ListedInv, LibraryType', Monotone,
         m_SocketClientsMap \in [DOMAIN m_SocketClientsMap -> SUBSET Connection],
         \A s \in DOMAIN m_SocketClientsMap' : \A c \in m_SocketClientsMap'[s] :
           /\ s \in DOMAIN m_SocketClientsMap /\ c \in m_SocketClientsMap[s]
           /\ s \in openSockets' => s \in openSockets
           /\ s \in openSockets' /\ state'[c] = "Gone" => state[c] = "Gone"
  PROVE  ListedInv'
<1> SUFFICES ASSUME NEW s \in DOMAIN m_SocketClientsMap', NEW c \in m_SocketClientsMap'[s]
             PROVE  /\ listenSocket'[c] = s /\ state'[c] \in {"Connected", "Ended", "Gone"}
                    /\ s \in openSockets' => state'[c] # "Gone"
  BY DEF ListedInv
<1>1. s \in DOMAIN m_SocketClientsMap /\ c \in m_SocketClientsMap[s] /\ c \in Connection
  OBVIOUS
<1>2. /\ listenSocket[c] = s /\ state[c] \notin {"Unused", "Connecting"}
      /\ s \in openSockets => state[c] # "Gone"
  BY <1>1 DEF ListedInv
<1>3. listenSocket'[c] = s /\ state'[c] \in {"Connected", "Ended", "Gone"}
  BY <1>1, <1>2 DEF Monotone, LibraryType
<1> QED
  BY <1>1, <1>2, <1>3

(* The calls and the listening thread close with a socket only connections *)
(* of that socket.                                                         *)
LEMMA CallsKeepListed ==
  ASSUME TypeInv, LibraryType', ListedInv, Monotone, NEW h \in Handles,
         startListening(h) \/ stopListening(h) \/ DestroyListener(h) \/ DestroySocket(h)
  PROVE  ListedInv'
<1> DEFINE m == m_SocketClientsMap
           t == m_Listeners[h]
<1>1. /\ m \in [DOMAIN m -> SUBSET Connection] /\ nextSocket \notin DOMAIN m
      /\ state \in [Connection -> {"Unused", "Connecting", "Connected", "Ended", "Gone"}]
      /\ \A s \in DOMAIN m : \A c \in m[s] : listenSocket[c] = s
      /\ h \in DOMAIN m_Listeners /\ t # Invalid => t \in DOMAIN m
  <2>1. nextSocket \notin DOMAIN m
    BY CoreAssumption DEF TypeInv, TypeOK, RegistryType
  <2>2. h \in DOMAIN m_Listeners /\ t # Invalid => t \in DOMAIN m
    BY DEF TypeInv, RegistryConsistent
  <2> QED
    BY <2>1, <2>2 DEF TypeInv, TypeOK, RegistryType, LibraryType, ListedInv
<1>2. ASSUME NEW x, m' = Erase(m, x)
      PROVE  \A s \in DOMAIN m' : s \in DOMAIN m /\ s # x /\ m'[s] = m[s]
  <2>1. DOMAIN m' = DOMAIN m \ {x} /\ \A y \in DOMAIN m \ {x} : m'[y] = m[y]
    BY <1>1, <1>2, EraseMap
  <2> QED
    BY <2>1
<1>3. CASE startListening(h)
  <2>1. m' = Emplace(m, nextSocket, {}) /\ UNCHANGED state
        /\ openSockets' = openSockets \cup {nextSocket}
    BY <1>3 DEF startListening, conns
  <2>2. \A s \in DOMAIN m' : (s \in DOMAIN m /\ m'[s] = m[s]) \/ m'[s] = {}
    BY <2>1 DEF Emplace
  <2> QED
    BY <1>1, <2>1, <2>2, ListedSame
<1>4. CASE stopListening(h)
  <2>1. /\ m' = Erase(m, t) /\ UNCHANGED openSockets /\ t \in DOMAIN m
        /\ state' = [c \in Connection |-> IF c \in m[t] THEN "Gone" ELSE state[c]]
    BY <1>1, <1>4 DEF stopListening, Forget, CloseConnections, sockets, isValidListenerHandler
  <2>2. \A s \in DOMAIN m' : \A c \in m'[s] : c \in m[s] /\ c \notin m[t]
    BY <1>1, <1>2, <2>1
  <2> QED
    BY <1>1, <1>2, <2>1, <2>2, ListedSame
<1>5. CASE DestroyListener(h)
  <2>1. PICK left \in BOOLEAN :
          /\ openSockets' = IF left THEN openSockets ELSE openSockets \ {m_Socket[h]}
          /\ state' = [c \in Connection |->
               IF \/ t # Invalid /\ c \in m[t]
                  \/ ~left /\ InLibrary(c) /\ listenSocket[c] = m_Socket[h]
               THEN "Gone" ELSE state[c]]
    BY <1>5 DEF DestroyListener
  <2>2. \/ t = Invalid /\ m' = m
        \/ t # Invalid /\ m' = Erase(m, t) /\ t \in DOMAIN m
    BY <1>1, <1>5 DEF DestroyListener, Forget, isValidListenerHandler
  <2>3. \A s \in DOMAIN m' : s \in DOMAIN m /\ m'[s] = m[s]
    BY <1>2, <2>2
  <2>4. \A s \in DOMAIN m' : \A c \in m'[s] :
          (t # Invalid => c \notin m[t]) /\ listenSocket[c] = s /\ c \in Connection
    BY <1>1, <1>2, <2>2
  <2>5. ASSUME NEW s \in DOMAIN m', NEW c \in m'[s], s \in openSockets', state'[c] = "Gone"
        PROVE  s \in openSockets /\ state[c] = "Gone"
    <3>1. s \in openSockets /\ (left \/ s # m_Socket[h])
      BY <2>1, <2>5
    <3> QED
      BY <2>1, <2>4, <2>5, <3>1
  <2>6. openSockets' \subseteq openSockets
    BY <2>1
  <2> QED
    BY <1>1, <2>3, <2>5, <2>6, ListedSame
<1>6. CASE DestroySocket(h)
  <2>1. /\ UNCHANGED m /\ openSockets' = openSockets \ {m_Socket[h]}
        /\ state' = [c \in Connection |->
             IF InLibrary(c) /\ listenSocket[c] = m_Socket[h] THEN "Gone" ELSE state[c]]
    BY <1>6 DEF DestroySocket, CloseListenSocket, registry
  <2>2. \A s \in DOMAIN m' : \A c \in m'[s] :
          s \in DOMAIN m /\ c \in m[s] /\ c \in Connection /\ listenSocket[c] = s
    BY <1>1, <2>1
  <2> QED
    BY <1>1, <2>1, <2>2, ListedSame
<1> QED
  BY <1>3, <1>4, <1>5, <1>6

(* The callbacks list and close only the connection they are about. *)
LEMMA CallbacksKeepListed ==
  ASSUME TypeInv, LibraryType', AcceptedInv, ListedInv, SnapshotsInv, FreshInv, AcceptedState,
         Monotone, callbackManager
  PROVE  ListedInv'
<1> DEFINE m == m_SocketClientsMap
           c == Head(batch).m_hConn
           t == Head(batch).m_hListenSocket
<1>1. /\ m \in [DOMAIN m -> SUBSET Connection]
      /\ state \in [Connection -> {"Unused", "Connecting", "Connected", "Ended", "Gone"}]
      /\ c \in Connection
  BY BatchTyped DEF callbackManager, CallbackType, TypeInv, TypeOK, RegistryType, LibraryType
<1>2. /\ Head(batch).m_eState = "Connecting" => ~Listed(c)
      /\ listenSocket[c] = t
  <2>1. CallbacksType /\ batch \in Seq(CallbackType) /\ batch # <<>>
    BY DEF callbackManager, TypeInv, TypeOK, CallbacksType
  <2>2. 1 \in Entries /\ Queue[1] = Head(batch)
    <3>1. /\ Len(batch) \in Nat \ {0} /\ Len(callbacks) \in Nat
          /\ Len(Queue) = Len(batch) + Len(callbacks) /\ Queue[1] = batch[1]
      BY <2>1, QueueEntries, EmptySeq
    <3> HIDE DEF Queue
    <3> QED
      BY <2>1, <3>1 DEF Entries
  <2> HIDE DEF Queue, Entries
  <2> QED
    BY <2>2 DEF FreshInv, SnapshotsInv
<1> HIDE DEF c, t
<1>3. CASE UNCHANGED <<state, m, openSockets>>
  BY <1>1, <1>3, ListedSame
<1>4. CASE Connecting(c, t) /\ Head(batch).m_eState = "Connecting"
  <2>1. UNCHANGED openSockets
    BY <1>4 DEF Connecting, Abort, sockets
  <2>2. CASE UNCHANGED m /\ \A d \in Connection : d # c => state'[d] = state[d]
    <3>1. \A s \in DOMAIN m : \A d \in m[s] : d # c /\ d \in Connection
      BY <1>1, <1>2, <1>4 DEF Listed
    <3> QED
      BY <1>1, <2>1, <2>2, <3>1, ListedSame
  <2>3. CASE accepted /\ Known(t) /\ AssignPollGroup(c, t) /\ ~UNCHANGED m
    <3>1. /\ m' = [m EXCEPT ![t] = m[t] \cup {c}]
          /\ UNCHANGED state /\ state[c] \in {"Connected", "Ended"}
      BY <1>1, <2>3 DEF AssignPollGroup, InLibrary, AcceptedState, c
    <3> SUFFICES ASSUME NEW s \in DOMAIN m', NEW d \in m'[s]
                 PROVE  /\ listenSocket'[d] = s /\ state'[d] \in {"Connected", "Ended", "Gone"}
                        /\ s \in openSockets' => state'[d] # "Gone"
      BY DEF ListedInv
    <3>2. s \in DOMAIN m /\ (d \in m[s] \/ (d = c /\ s = t))
      BY <1>1, <3>1
    <3>3. UNCHANGED listenSocket
      BY <1>4, <2>3 DEF Connecting, Abort, conns
    <3>4. CASE d \in m[s]
      BY <2>1, <3>1, <3>2, <3>3, <3>4 DEF ListedInv
    <3>5. CASE d = c /\ s = t
      BY <1>2, <3>1, <3>3, <3>5
    <3> QED
      BY <3>2, <3>4, <3>5
  <2> QED
    BY <1>1, <1>4, <2>2, <2>3
       DEF Connecting, Refused, AcceptedBy, AssignPollGroup, Abort, registry, conns
<1>5. CASE Disconnected(c, t)
  <2>1. CASE UNCHANGED openSockets /\ Known(t) /\ c \in m[t] /\ Drop(c, t)
    <3>1. m' = [m EXCEPT ![t] = m[t] \ {c}] /\ state' = [state EXCEPT ![c] = "Gone"]
      BY <2>1 DEF Drop
    <3>2. \A s \in DOMAIN m' : s \in DOMAIN m /\ \A d \in m'[s] :
            d \in Connection /\ d \in m[s] /\ (s = t => d # c)
      BY <1>1, <3>1
    <3>3. \A s \in DOMAIN m : c \in m[s] => s = t
      BY <1>2 DEF ListedInv
    <3>4. \A s \in DOMAIN m' : \A d \in m'[s] : state'[d] = state[d]
      BY <1>1, <3>1, <3>2, <3>3
    <3> QED
      BY <1>1, <2>1, <3>2, <3>4, ListedSame
  <2> QED
    BY <1>3, <1>5, <2>1 DEF Disconnected, Abort, registry, sockets, conns
<1>6. CASE Ignored
  BY <1>3, <1>6 DEF Ignored, registry, sockets, conns
<1> QED
  BY <1>4, <1>5, <1>6 DEF callbackManager, c, t

(* The invariant behind NoStaleConnections. *)
StaleInv ==
  /\ AcceptedInv /\ SnapshotsInv /\ OnceInv /\ EndedInv
  /\ FreshInv /\ AcceptedState /\ ListedInv

(* Every step keeps it. *)
LEMMA StaleStep == TypeInv /\ StaleInv /\ [Next]_vars => StaleInv'
<1> SUFFICES ASSUME TypeInv, StaleInv, [Next]_vars PROVE StaleInv'
  OBVIOUS
<1>1. /\ Monotone /\ AcceptedInv' /\ LibraryType' /\ CallbacksType
      /\ AcceptedInv /\ SnapshotsInv /\ OnceInv /\ EndedInv
      /\ FreshInv /\ AcceptedState /\ ListedInv
  BY StepMonotone, ForgottenStep, LibraryStep DEF StaleInv, TypeInv, TypeOK
<1>2. FreshInv' /\ AcceptedState'
  BY <1>1, FreshKept, AcceptedStateKept
<1>3. SnapshotsInv' /\ OnceInv'
  <2>1. Shift(0) \/ Shift(1)
    BY <1>1, CallbackQueues, OtherQueues
  <2> QED
    BY <1>1, <2>1, ShiftKeeps
<1>4. EndedInv'
  <2>1. ASSUME NEW c \in Connection, End(c) PROVE EndedInv'
    BY <1>1, <2>1, EndShift, EndReported
  <2>2. CASE (\A c \in Connection : ~End(c)) /\ callbackManager
    BY <1>1, <2>2, CallbackQueues, EndedKept
  <2>3. CASE (\A c \in Connection : ~End(c)) /\ ~callbackManager
    <3>1. Shift(0)
      BY <1>1, <2>3, OtherQueues
    <3> QED
      BY <1>1, <2>3, <3>1, EndedKept
  <2> QED
    BY <2>1, <2>2, <2>3
<1>5. ListedInv'
  <2>1. m_SocketClientsMap \in [DOMAIN m_SocketClientsMap -> SUBSET Connection]
    BY DEF TypeInv, TypeOK, RegistryType
  <2>2. CASE UNCHANGED <<state, m_SocketClientsMap, openSockets>>
    BY <1>1, <2>1, <2>2, ListedSame
  <2>3. ASSUME NEW c \in Connection, Arrive(c) \/ End(c) PROVE ListedInv'
    <3>1. UNCHANGED <<m_SocketClientsMap, openSockets>>
      BY <2>3 DEF Arrive, End, registry, sockets
    <3>2. \A d \in Connection : state'[d] = "Gone" => state[d] = "Gone"
      BY <2>3 DEF Arrive, End, TypeInv, TypeOK, LibraryType
    <3> QED
      BY <1>1, <2>1, <3>1, <3>2, ListedSame
  <2>4. CASE \/ createListener \/ ConnectionServed \/ pollConnectionChanges \/ UNCHANGED vars
             \/ \E h \in Handles : \/ Serve(h) \/ SelfStop(h) \/ ClearOutgoing(h)
                                    \/ \E c \in Connection : push_OutgoingMessageQueue(h, c)
    BY <2>2, <2>4 DEF createListener, ConnectionServed, Abort, pollConnectionChanges, vars, Serve,
       SelfStop, ClearOutgoing, push_OutgoingMessageQueue, registry, conns, sockets
  <2> QED
    BY <1>1, <2>3, <2>4, CallsKeepListed, CallbacksKeepListed
       DEF Next, pollFunctionCalls, callbackSteps
<1> QED
  BY <1>1, <1>2, <1>3, <1>4, <1>5 DEF StaleInv

(* An entry of Queue that says "Ended" is one of a queue. *)
LEMMA EndedIsPending ==
  ASSUME CallbacksType, EndedInv, NEW c \in Connection, state[c] = "Ended" PROVE Pending(c)
<1>1. PICK i \in Entries : Queue[i].m_hConn = c /\ Queue[i].m_eState = "Ended"
  BY DEF EndedInv
<1>2. /\ batch \in Seq(CallbackType) /\ callbacks \in Seq(CallbackType)
      /\ Len(batch) \in Nat /\ Len(callbacks) \in Nat
  BY QueueEntries DEF CallbacksType
<1>3. i \in 1..(Len(batch) + Len(callbacks))
      /\ Queue[i] = IF i <= Len(batch) THEN batch[i] ELSE callbacks[i - Len(batch)]
  BY <1>2, ConcatProperties DEF Entries, Queue
<1> HIDE DEF Queue, Entries
<1>4. CASE i <= Len(batch)
  <2>1. i \in 1..Len(batch)
    BY <1>2, <1>3, <1>4
  <2> QED
    BY <1>1, <1>3, <1>4, <2>1 DEF Pending
<1>5. CASE i > Len(batch)
  <2>1. i - Len(batch) \in 1..Len(callbacks) /\ ~(i <= Len(batch))
    BY <1>2, <1>3, <1>5
  <2> QED
    BY <1>1, <1>3, <2>1 DEF Pending
<1> QED
  BY <1>2, <1>3, <1>4, <1>5

(* A connection listed on a socket still open is alive, or the callback    *)
(* that takes it off the list is queued: whatever callbacks, calls and     *)
(* closing sockets come in between.                                        *)
THEOREM NobodyStale == Spec => []NoStaleConnections
<1>1. Init => StaleInv
  <2> SUFFICES ASSUME Init PROVE StaleInv
    OBVIOUS
  <2>1. Entries = {}
    BY DEF Init, Entries, Queue
  <2>2. DOMAIN m_SocketClientsMap = {} /\ ~accepted /\ \A c \in Connection : state[c] = "Unused"
    BY DEF Init
  <2> QED
    BY <2>1, <2>2 DEF StaleInv, AcceptedInv, NoForgottenConnections, SnapshotsInv, OnceInv,
       EndedInv, FreshInv, AcceptedState, ListedInv
<1>2. TypeInv /\ StaleInv => NoStaleConnections
  <2> SUFFICES ASSUME TypeInv, StaleInv,
                      NEW s \in DOMAIN m_SocketClientsMap \cap openSockets,
                      NEW c \in m_SocketClientsMap[s]
               PROVE  /\ listenSocket[c] = s
                      /\ state[c] = "Connected" \/ (state[c] = "Ended" /\ Pending(c))
    BY DEF NoStaleConnections
  <2>1. c \in Connection /\ CallbacksType
    BY DEF TypeInv, TypeOK, RegistryType
  <2> QED
    BY <2>1, EndedIsPending DEF StaleInv, ListedInv
<1>3. Spec => []TypeInv
  BY TypeInvCorrect
<1> QED
  BY <1>1, <1>2, <1>3, StaleStep, PTL DEF Spec
=============================================================================
