---------------------------- MODULE Listener_proof ----------------------------
(***************************************************************************)
(* Proofs about module Listener, for every number of sockets and length of *)
(* queues and whatever the uninitialized handles hold.                     *)
(***************************************************************************)
EXTENDS Listener, TLAPS

(* Taking the first request of the outgoing queue keeps its type. *)
LEMMA OutgoingTyped ==
  TypeOK /\ pollOutMessages => m_OutgoingMessages' \in Seq(Request) /\ served' \in Nat \X Nat
<1> SUFFICES ASSUME TypeOK, pollOutMessages
             PROVE  m_OutgoingMessages' \in Seq(Request) /\ served' \in Nat \X Nat
  OBVIOUS
<1>1. CASE m_OutgoingMessages = <<>>
  BY <1>1 DEF TypeOK, pollOutMessages
<1>2. CASE m_OutgoingMessages # <<>>
  <2>1. Head(m_OutgoingMessages) \in Request /\ Tail(m_OutgoingMessages) \in Seq(Request)
    BY <1>2 DEF TypeOK
  <2>2. Head(m_OutgoingMessages).m_Connection \in Nat
    BY <2>1 DEF Request
  <2>3. served' = served \/ served' = <<m_Socket, Head(m_OutgoingMessages).m_Connection>>
    BY <1>2 DEF pollOutMessages
  <2>4. served' \in Nat \X Nat
    BY <2>2, <2>3 DEF TypeOK
  <2> QED
    BY <1>2, <2>1, <2>4 DEF pollOutMessages
<1> QED
  BY <1>1, <1>2

(* Receiving appends at most one request, of the socket polled. *)
LEMMA ReceivedStep ==
  pollIncMessages =>
    \/ m_RecivedMessegas' = m_RecivedMessegas
    \/ \E body \in Bodies : m_RecivedMessegas' =
         Append(m_RecivedMessegas, [m_Connection |-> m_Socket, m_Message |-> body])
  BY DEF pollIncMessages

(* Every step keeps the types. *)
LEMMA TypeStep == TypeOK /\ [Next]_vars => TypeOK'
<1> SUFFICES ASSUME TypeOK, [Next]_vars PROVE TypeOK'
  OBVIOUS
<1> USE DEF TypeOK, Polling, Teardown, Invalid
<1>1. CASE initSocket
  <2>1. CASE initSocketRefused
    BY <1>1, <2>1 DEF initSocket, initSocketRefused, flags, queues, library, handles
  <2>2. CASE initSocketFailed
    BY <1>1, <2>2 DEF initSocket, initSocketFailed, flags, queues, library, handles
  <2>3. CASE initSocketCreated
    BY <1>1, <2>3 DEF initSocket, initSocketCreated, flags, queues
  <2> QED
    BY <1>1, <2>1, <2>2, <2>3 DEF initSocket
<1>2. CASE startListening
  BY <1>2 DEF startListening, Start, notify_one, handles, queues, library
<1>3. CASE stopListening
  BY <1>3 DEF stopListening, Stop, notify_one, handles, queues, library
<1>4. CASE push_OutgoingMessageQueue
  <2>1. m_OutgoingMessages' \in Seq(Request)
    BY <1>4 DEF push_OutgoingMessageQueue, Request
  <2> QED
    BY <1>4, <2>1 DEF push_OutgoingMessageQueue, flags, handles, owner, library
<1>5. CASE try_PoPReceivedMessageQueue
  BY <1>5 DEF try_PoPReceivedMessageQueue, flags, handles, owner, library
<1>6. CASE try_PoPErrorQueue
  BY <1>6 DEF try_PoPErrorQueue, flags, handles, owner, library
<1>7. CASE DestroyListener
  <2>1. CASE Stop
    BY <1>7, <2>1 DEF DestroyListener, Stop, notify_one, handles, queues, library
  <2>2. CASE UNCHANGED <<info_m_Socket, m_listening, pc>>
    BY <1>7, <2>2 DEF DestroyListener, handles, queues, library
  <2> QED
    BY <1>7, <2>1, <2>2 DEF DestroyListener
<1>8. CASE Dtor
  <2>1. CASE DtorClearRunning
    BY <2>1 DEF DtorClearRunning, handles, queues, library
  <2>2. CASE DtorNotify
    BY <2>2 DEF DtorNotify, notify_one, flags, handles, queues, library
  <2>3. CASE DtorJoin
    BY <2>3 DEF DtorJoin, flags, handles, queues, library
  <2> QED
    BY <1>8, <2>1, <2>2, <2>3 DEF Dtor
<1>9. CASE LockAndTest \/ WaitPredicate \/ Sleep \/ SpuriousWakeup \/ RunLoop
  <2>1. UNCHANGED <<flags, handles, queues, polledOutMsg, served, owner, library>>
    BY <1>9 DEF LockAndTest, WaitPredicate, Sleep, SpuriousWakeup, RunLoop
  <2>2. pc' \in {"wait", "done", "check", "block", "asleep", "wakeup", "loop", "poll", "close", "out"}
    BY <1>9 DEF LockAndTest, WaitPredicate, Sleep, SpuriousWakeup, RunLoop, Goto
  <2> QED
    BY <2>1, <2>2 DEF flags, handles, queues, owner, library
<1>10. CASE pollOutMessages
  <2>1. polledOutMsg' \in BOOLEAN
    BY <1>10 DEF pollOutMessages
  <2> QED
    BY <1>10, <2>1, OutgoingTyped DEF pollOutMessages, Goto, flags, handles, owner, library
<1>11. CASE pollIncMessages
  <2>1. m_RecivedMessegas' \in Seq(Request)
    <3>1. CASE m_RecivedMessegas' = m_RecivedMessegas
      BY <3>1
    <3>2. CASE m_RecivedMessegas' # m_RecivedMessegas
      <4>1. PICK body \in Bodies : m_RecivedMessegas' =
              Append(m_RecivedMessegas, [m_Connection |-> m_Socket, m_Message |-> body])
        BY <1>11, <3>2, ReceivedStep
      <4> QED
        BY <4>1 DEF Request
    <3> QED
      BY <3>1, <3>2
  <2>2. m_ErrorQueue' \in Seq({"ePollGroupHandlerInvalid"})
    <3>1. \/ m_ErrorQueue' = m_ErrorQueue
          \/ m_ErrorQueue' = Append(m_ErrorQueue, "ePollGroupHandlerInvalid")
      BY <1>11 DEF pollIncMessages
    <3>2. m_ErrorQueue \in Seq({"ePollGroupHandlerInvalid"})
      OBVIOUS
    <3> HIDE DEF TypeOK
    <3>3. Append(m_ErrorQueue, "ePollGroupHandlerInvalid") \in Seq({"ePollGroupHandlerInvalid"})
      BY <3>2
    <3> QED
      BY <3>1, <3>2, <3>3
  <2>3. pc' \in {"poll", "loop", "error"}
    BY <1>11 DEF pollIncMessages
  <2> QED
    BY <1>11, <2>1, <2>2, <2>3 DEF pollIncMessages, flags, handles, owner, library
<1>12. CASE SelfStop
  BY <1>12 DEF SelfStop, Goto, handles, queues, owner, library
<1>13. CASE CloseSocket
  BY <1>13 DEF CloseSocket, Goto, flags, queues, owner
<1>14. CASE DestroyPollGroup
  BY <1>14 DEF DestroyPollGroup, Goto, flags, queues, owner
<1>15. CASE ClearOutgoing
  BY <1>15 DEF ClearOutgoing, Goto, flags, handles, owner, library
<1>16. CASE ClearReceived
  BY <1>16 DEF ClearReceived, Goto, flags, handles, owner, library
<1>17. CASE ClearErrors
  BY <1>17 DEF ClearErrors, Goto, flags, handles, owner, library
<1>18. CASE UNCHANGED vars
  BY <1>18 DEF vars, flags, handles, queues, owner, library
<1> QED
  BY <1>1, <1>2, <1>3, <1>4, <1>5, <1>6, <1>7, <1>8, <1>9, <1>10, <1>11, <1>12,
     <1>13, <1>14, <1>15, <1>16, <1>17, <1>18 DEF Next, Owner, run

(* Every variable of the listener holds a value of its type, always. *)
THEOREM TypeCorrect == Spec => []TypeOK
<1>1. Init => TypeOK
  <2> SUFFICES ASSUME Init PROVE TypeOK
    OBVIOUS
  <2>1. m_Socket \in Nat /\ m_pollGroup \in Nat
    BY ListenerAssumption DEF Init
  <2>2. served \in Nat \X Nat /\ info_m_Socket \in Nat
    BY DEF Init, Invalid
  <2>3. pc = "lock" /\ opc = "idle" /\ ret = "ok"
    BY DEF Init
  <2>4. m_running \in BOOLEAN /\ m_listening \in BOOLEAN /\ polledOutMsg \in BOOLEAN
    BY DEF Init
  <2> QED
    <3>1. openSockets \subseteq Nat /\ openGroups \subseteq Nat /\ nextHandle \in Nat \ {0}
      BY DEF Init
    <3>2. pollFailed \in BOOLEAN
      BY DEF Init
    <3>3. /\ m_OutgoingMessages \in Seq(Request) /\ m_RecivedMessegas \in Seq(Request)
          /\ m_ErrorQueue \in Seq({"ePollGroupHandlerInvalid"})
      BY DEF Init
    <3> QED
      BY <2>1, <2>2, <2>3, <2>4, <3>1, <3>2, <3>3 DEF TypeOK
<1> QED
  BY <1>1, TypeStep, PTL DEF Spec

-----------------------------------------------------------------------------
(* The handover of the socket: every step keeps the handles live as long   *)
(* as anyone may use them, and loses none.                                 *)
LEMMA HandoverStep ==
  TypeOK /\ HandlesInv /\ OwnerInv /\ [Next]_vars => HandlesInv' /\ OwnerInv'
<1> SUFFICES ASSUME TypeOK, HandlesInv, OwnerInv, [Next]_vars
             PROVE  HandlesInv' /\ OwnerInv'
  OBVIOUS
<1> USE DEF TypeOK, HandlesInv, OwnerInv, NoOrphan, Live, Awake, Polling, Teardown, Invalid
<1>1. CASE initSocket
  <2>1. CASE initSocketRefused
    BY <1>1, <2>1 DEF initSocket, initSocketRefused, flags, handles, library
  <2>2. CASE initSocketFailed
    BY <1>1, <2>2 DEF initSocket, initSocketFailed, flags, handles, library
  <2>3. CASE initSocketCreated
    <3>1. openSockets = {} /\ openGroups = {} /\ ~m_listening
      BY <2>3 DEF initSocketCreated, SocketFree
    <3>2. /\ openSockets' = {nextHandle} /\ openGroups' = {nextHandle}
          /\ m_Socket' = nextHandle /\ m_pollGroup' = nextHandle /\ info_m_Socket' = nextHandle
          /\ opc' = "start" /\ UNCHANGED <<m_running, m_listening, pc>>
      BY <1>1, <2>3, <3>1 DEF initSocket, initSocketCreated, flags
    <3>3. m_running /\ pc \notin Awake \cup {"check", "ungroup"}
      BY <1>1, <3>1 DEF initSocket
    <3> QED
      BY <3>1, <3>2, <3>3
  <2> QED
    BY <1>1, <2>1, <2>2, <2>3 DEF initSocket
<1>2. CASE startListening
  BY <1>2 DEF startListening, Start, notify_one, handles, library
<1>3. CASE stopListening
  BY <1>3 DEF stopListening, Stop, notify_one, handles, library
<1>4. CASE push_OutgoingMessageQueue
  BY <1>4 DEF push_OutgoingMessageQueue, flags, handles, owner, library
<1>5. CASE try_PoPReceivedMessageQueue
  BY <1>5 DEF try_PoPReceivedMessageQueue, flags, handles, owner, library
<1>6. CASE try_PoPErrorQueue
  BY <1>6 DEF try_PoPErrorQueue, flags, handles, owner, library
<1>7. CASE DestroyListener
  BY <1>7 DEF DestroyListener, Stop, notify_one, handles, library
<1>8. CASE DtorClearRunning
  BY <1>8 DEF DtorClearRunning, handles, library
<1>9. CASE DtorNotify
  BY <1>9 DEF DtorNotify, notify_one, flags, handles, library
<1>10. CASE DtorJoin
  BY <1>10 DEF DtorJoin, flags, handles, library
<1>11. CASE LockAndTest
  BY <1>11 DEF LockAndTest, Goto, flags, handles, owner, library
<1>12. CASE WaitPredicate
  BY <1>12 DEF WaitPredicate, Goto, flags, handles, owner, library
<1>13. CASE Sleep
  BY <1>13 DEF Sleep, Goto, flags, handles, owner, library
<1>14. CASE SpuriousWakeup
  BY <1>14 DEF SpuriousWakeup, Goto, flags, handles, owner, library
<1>15. CASE RunLoop
  BY <1>15 DEF RunLoop, Goto, flags, handles, owner, library
<1>16. CASE pollOutMessages
  BY <1>16 DEF pollOutMessages, Goto, flags, handles, owner, library
<1>17. CASE pollIncMessages
  BY <1>17 DEF pollIncMessages, flags, handles, owner, library
<1>18. CASE SelfStop
  BY <1>18 DEF SelfStop, Goto, handles, owner, library
<1>19. CASE CloseSocket
  BY <1>19 DEF CloseSocket, Goto, flags, owner
<1>20. CASE DestroyPollGroup
  BY <1>20 DEF DestroyPollGroup, Goto, flags, owner
<1>21. CASE ClearOutgoing
  BY <1>21 DEF ClearOutgoing, Goto, flags, handles, owner, library
<1>22. CASE ClearReceived
  BY <1>22 DEF ClearReceived, Goto, flags, handles, owner, library
<1>23. CASE ClearErrors
  BY <1>23 DEF ClearErrors, Goto, flags, handles, owner, library
<1>24. CASE UNCHANGED vars
  BY <1>24 DEF vars, flags, handles, owner, library
<1> QED
  BY <1>1, <1>2, <1>3, <1>4, <1>5, <1>6, <1>7, <1>8, <1>9, <1>10, <1>11, <1>12, <1>13, <1>14, <1>15, <1>16, <1>17, <1>18, <1>19, <1>20, <1>21, <1>22, <1>23, <1>24 DEF Next, Owner, Dtor, run

(* The received queue never carries a request from one socket to the next. *)
LEMMA SessionStep ==
  TypeOK /\ HandlesInv /\ OwnerInv /\ SessionInv /\ [Next]_vars => SessionInv'
<1> SUFFICES ASSUME TypeOK, HandlesInv, OwnerInv, SessionInv, [Next]_vars PROVE SessionInv'
  OBVIOUS
<1> USE DEF TypeOK, HandlesInv, OwnerInv, SessionInv, Live, Awake, Polling, Invalid
<1>1. CASE initSocket
  BY <1>1 DEF initSocket, initSocketRefused, initSocketFailed, initSocketCreated, SocketFree, flags, queues, handles
<1>2. CASE startListening
  BY <1>2 DEF startListening, Start, notify_one, handles, queues
<1>3. CASE stopListening
  BY <1>3 DEF stopListening, Stop, notify_one, handles, queues
<1>4. CASE push_OutgoingMessageQueue
  BY <1>4 DEF push_OutgoingMessageQueue, handles
<1>5. CASE try_PoPReceivedMessageQueue
  BY <1>5 DEF try_PoPReceivedMessageQueue, handles
<1>6. CASE try_PoPErrorQueue
  BY <1>6 DEF try_PoPErrorQueue, handles
<1>7. CASE DestroyListener
  BY <1>7 DEF DestroyListener, Stop, notify_one, handles, queues
<1>8. CASE DtorClearRunning
  BY <1>8 DEF DtorClearRunning, handles, queues
<1>9. CASE DtorNotify
  BY <1>9 DEF DtorNotify, notify_one, handles, queues
<1>10. CASE DtorJoin
  BY <1>10 DEF DtorJoin, handles, queues
<1>11. CASE LockAndTest
  BY <1>11 DEF LockAndTest, Goto, handles, queues
<1>12. CASE WaitPredicate
  BY <1>12 DEF WaitPredicate, Goto, handles, queues
<1>13. CASE Sleep
  BY <1>13 DEF Sleep, Goto, handles, queues
<1>14. CASE SpuriousWakeup
  BY <1>14 DEF SpuriousWakeup, Goto, handles, queues
<1>15. CASE RunLoop
  BY <1>15 DEF RunLoop, Goto, handles, queues
<1>16. CASE pollOutMessages
  BY <1>16 DEF pollOutMessages, Goto, handles
<1>17. CASE pollIncMessages
  <2>1. CASE m_RecivedMessegas' = m_RecivedMessegas
    BY <1>17, <2>1 DEF pollIncMessages, handles
  <2>2. CASE m_RecivedMessegas' # m_RecivedMessegas
    <3>1. PICK body \in Bodies : m_RecivedMessegas' =
            Append(m_RecivedMessegas, [m_Connection |-> m_Socket, m_Message |-> body])
      BY <1>17, <2>2, ReceivedStep
    <3>2. pc' \in Awake /\ m_Socket' = m_Socket
      BY <1>17 DEF pollIncMessages, handles
    <3>3. ASSUME NEW i \in 1..Len(m_RecivedMessegas')
          PROVE  m_RecivedMessegas'[i].m_Connection = m_Socket
      <4>1. CASE i = Len(m_RecivedMessegas) + 1
        BY <3>1, <4>1
      <4>2. CASE i \in 1..Len(m_RecivedMessegas)
        BY <1>17, <3>1, <4>2 DEF pollIncMessages
      <4> QED
        BY <3>1, <3>3, <4>1, <4>2
    <3> QED
      BY <3>2, <3>3
  <2> QED
    BY <2>1, <2>2
<1>18. CASE SelfStop
  BY <1>18 DEF SelfStop, Goto, handles, queues
<1>19. CASE CloseSocket
  BY <1>19 DEF CloseSocket, Goto, queues
<1>20. CASE DestroyPollGroup
  BY <1>20 DEF DestroyPollGroup, Goto, queues
<1>21. CASE ClearOutgoing
  BY <1>21 DEF ClearOutgoing, Goto, handles
<1>22. CASE ClearReceived
  BY <1>22 DEF ClearReceived, Goto, handles
<1>23. CASE ClearErrors
  BY <1>23 DEF ClearErrors, Goto, handles
<1>24. CASE UNCHANGED vars
  BY <1>24 DEF vars, handles, queues
<1> QED
  BY <1>1, <1>2, <1>3, <1>4, <1>5, <1>6, <1>7, <1>8, <1>9, <1>10, <1>11, <1>12, <1>13, <1>14, <1>15, <1>16, <1>17, <1>18, <1>19, <1>20, <1>21, <1>22, <1>23, <1>24 DEF Next, Owner, Dtor, run

(* A poll that has failed is remembered. *)
LEMMA FailedStep == pollFailed /\ [Next]_vars => pollFailed'
  BY DEF Next, Owner, Dtor, run, vars, initSocket, initSocketRefused, initSocketFailed,
    initSocketCreated, startListening, stopListening,
    push_OutgoingMessageQueue, try_PoPReceivedMessageQueue, try_PoPErrorQueue,
    DestroyListener, DtorClearRunning, DtorNotify, DtorJoin, LockAndTest, WaitPredicate,
    Sleep, SpuriousWakeup, RunLoop, pollOutMessages, pollIncMessages, SelfStop, CloseSocket,
    DestroyPollGroup, ClearOutgoing, ClearReceived, ClearErrors, library

(* Neither does the outgoing queue, unless polling fails. *)
LEMMA OutgoingStep ==
  TypeOK /\ HandlesInv /\ OwnerInv /\ OutgoingInv /\ [Next]_vars => OutgoingInv'
<1> SUFFICES ASSUME TypeOK, HandlesInv, OwnerInv, OwnSession, ~pollFailed', [Next]_vars
             PROVE  OwnSession'
  BY FailedStep DEF OutgoingInv
<1> USE DEF TypeOK, HandlesInv, OwnerInv, OwnSession, Live, Awake, Polling, Invalid
<1>1. CASE initSocket
  BY <1>1 DEF initSocket, initSocketRefused, initSocketFailed, initSocketCreated, SocketFree, flags, queues, handles, flags, owner
<1>2. CASE startListening
  BY <1>2 DEF startListening, Start, notify_one, handles, queues, flags, owner
<1>3. CASE stopListening
  BY <1>3 DEF stopListening, Stop, notify_one, handles, queues, flags, owner
<1>4. CASE push_OutgoingMessageQueue
  BY <1>4 DEF push_OutgoingMessageQueue, handles, flags, owner
<1>5. CASE try_PoPReceivedMessageQueue
  BY <1>5 DEF try_PoPReceivedMessageQueue, handles, flags, owner
<1>6. CASE try_PoPErrorQueue
  BY <1>6 DEF try_PoPErrorQueue, handles, flags, owner
<1>7. CASE DestroyListener
  BY <1>7 DEF DestroyListener, Stop, notify_one, handles, queues, flags, owner
<1>8. CASE DtorClearRunning
  BY <1>8 DEF DtorClearRunning, handles, queues, flags, owner
<1>9. CASE DtorNotify
  BY <1>9 DEF DtorNotify, notify_one, handles, queues, flags, owner
<1>10. CASE DtorJoin
  BY <1>10 DEF DtorJoin, handles, queues, flags, owner
<1>11. CASE LockAndTest
  BY <1>11 DEF LockAndTest, Goto, handles, queues, flags, owner
<1>12. CASE WaitPredicate
  BY <1>12 DEF WaitPredicate, Goto, handles, queues, flags, owner
<1>13. CASE Sleep
  BY <1>13 DEF Sleep, Goto, handles, queues, flags, owner
<1>14. CASE SpuriousWakeup
  BY <1>14 DEF SpuriousWakeup, Goto, handles, queues, flags, owner
<1>15. CASE RunLoop
  BY <1>15 DEF RunLoop, Goto, handles, queues, flags, owner
<1>16. CASE pollOutMessages
  <2>1. CASE m_OutgoingMessages = <<>>
    BY <1>16, <2>1 DEF pollOutMessages, Goto, handles, flags, owner
  <2>2. CASE m_OutgoingMessages # <<>>
    <3>1. /\ m_OutgoingMessages' = Tail(m_OutgoingMessages) /\ pc' = "inc"
          /\ m_Socket' = m_Socket /\ UNCHANGED <<m_listening, opc, info_m_Socket>>
      BY <1>16, <2>2 DEF pollOutMessages, Goto, handles, flags, owner
    <3>2. \A i \in 1..Len(m_OutgoingMessages') : \E j \in 1..Len(m_OutgoingMessages) :
            m_OutgoingMessages'[i] = m_OutgoingMessages[j]
      BY <2>2, <3>1
    <3> QED
      BY <1>16, <3>1, <3>2 DEF pollOutMessages, Goto
  <2> QED
    BY <2>1, <2>2
<1>17. CASE pollIncMessages
  BY <1>17 DEF pollIncMessages, handles, flags, owner
<1>18. CASE SelfStop
  BY <1>18 DEF SelfStop, Goto, handles, queues, flags, owner
<1>19. CASE CloseSocket
  BY <1>19 DEF CloseSocket, Goto, queues, flags, owner
<1>20. CASE DestroyPollGroup
  BY <1>20 DEF DestroyPollGroup, Goto, queues, flags, owner
<1>21. CASE ClearOutgoing
  BY <1>21 DEF ClearOutgoing, Goto, handles, flags, owner
<1>22. CASE ClearReceived
  BY <1>22 DEF ClearReceived, Goto, handles, flags, owner
<1>23. CASE ClearErrors
  BY <1>23 DEF ClearErrors, Goto, handles, flags, owner
<1>24. CASE UNCHANGED vars
  BY <1>24 DEF vars, handles, queues, flags, owner
<1> QED
  BY <1>1, <1>2, <1>3, <1>4, <1>5, <1>6, <1>7, <1>8, <1>9, <1>10, <1>11, <1>12, <1>13, <1>14, <1>15, <1>16, <1>17, <1>18, <1>19, <1>20, <1>21, <1>22, <1>23, <1>24 DEF Next, Owner, Dtor, run

(* The switch is only set without the mutex held between test and sleep,    *)
(* and with a notification; and only a thread that finds it off sleeps.     *)
LEMMA SleepStep == TypeOK /\ SleepInv /\ [Next]_vars => SleepInv'
<1> SUFFICES ASSUME TypeOK, SleepInv, [Next]_vars PROVE SleepInv'
  OBVIOUS
<1> USE DEF SleepInv
<1>1. CASE startListening \/ stopListening \/ DestroyListener \/ DtorNotify
  BY <1>1 DEF startListening, Start, stopListening, DestroyListener, Stop, Locked, notify_one,
     DtorNotify, flags, TypeOK
<1>2. CASE \/ initSocket \/ push_OutgoingMessageQueue \/ try_PoPReceivedMessageQueue
           \/ try_PoPErrorQueue \/ DtorClearRunning \/ DtorJoin \/ UNCHANGED vars
  BY <1>2 DEF initSocket, push_OutgoingMessageQueue, try_PoPReceivedMessageQueue,
     try_PoPErrorQueue, DtorClearRunning, DtorJoin, flags, vars
<1>3. CASE LockAndTest \/ WaitPredicate \/ Sleep \/ SpuriousWakeup \/ RunLoop
  BY <1>3 DEF LockAndTest, WaitPredicate, Sleep, SpuriousWakeup, RunLoop, Goto, flags
<1>4. CASE pollIncMessages
  BY <1>4 DEF pollIncMessages, flags
<1>5. CASE \/ pollOutMessages \/ SelfStop \/ CloseSocket \/ DestroyPollGroup
           \/ ClearOutgoing \/ ClearReceived \/ ClearErrors
  BY <1>5 DEF pollOutMessages, SelfStop, CloseSocket, DestroyPollGroup, ClearOutgoing,
     ClearReceived, ClearErrors, Goto, flags
<1> QED
  BY <1>1, <1>2, <1>3, <1>4, <1>5 DEF Next, Owner, Dtor, run

(* For every number of sockets and length of queues: pollMessages only     *)
(* ever touches live handles, no socket is orphaned, and no start is       *)
(* missed by a thread going to sleep.                                      *)
THEOREM HandoverCorrect == Spec => [](HandoverInv /\ PollsLiveHandles /\ NoOrphan)
<1>1. Init => HandoverInv
  BY DEF Init, HandoverInv, HandlesInv, OwnerInv, SessionInv, SleepInv, NoOrphan, Awake,
     Polling, Invalid
<1>2. TypeOK /\ HandoverInv /\ [Next]_vars => HandoverInv'
  BY HandoverStep, SessionStep, SleepStep DEF HandoverInv
<1>3. HandoverInv => PollsLiveHandles /\ NoOrphan
  BY DEF HandoverInv, HandlesInv, PollsLiveHandles, Live, Awake, Polling
<1> QED
  BY <1>1, <1>2, <1>3, TypeCorrect, PTL DEF Spec

(* Requests in the received queue of a polling thread came in on the       *)
(* socket it polls, whatever the owner does between two sessions.          *)
THEOREM ReceivedCorrect == Spec => []ReceivedSession
<1>1. HandoverInv => ReceivedSession
  BY DEF HandoverInv, SessionInv, ReceivedSession, Awake
<1> QED
  BY <1>1, HandoverCorrect, PTL

(* NetworkManagerCore never sees startListening refuse a socket it has     *)
(* just initialized, so its registry entry is never left behind by that.   *)
COROLLARY StartNeverRefused ==
  Spec => [](opc = "start" => m_Socket # Invalid /\ m_pollGroup # Invalid)
<1>1. HandoverInv => (opc = "start" => m_Socket # Invalid /\ m_pollGroup # Invalid)
  BY DEF HandoverInv, HandlesInv, OwnerInv, Live
<1> QED
  BY <1>1, HandoverCorrect, PTL

(* What ServedSession says holds before a step carries over it. *)
LEMMA ServedStep ==
  TypeOK /\ OutgoingInv /\ ServedSession /\ [Next]_vars => ServedSession'
<1> SUFFICES ASSUME TypeOK, OwnSession, served[1] = served[2], [Next]_vars
             PROVE  ServedSession'
  BY FailedStep DEF OutgoingInv, ServedSession
<1>1. CASE pollOutMessages
  <2>1. CASE m_OutgoingMessages = <<>>
    BY <1>1, <2>1 DEF pollOutMessages, ServedSession
  <2>2. CASE m_OutgoingMessages # <<>>
    <3>1. 1 \in 1..Len(m_OutgoingMessages) /\ Head(m_OutgoingMessages) = m_OutgoingMessages[1]
      BY <2>2 DEF TypeOK
    <3>2. Head(m_OutgoingMessages).m_Connection = m_Socket
      BY <1>1, <3>1 DEF OwnSession, pollOutMessages, Goto
    <3>3. served' = served \/ served' = <<m_Socket, Head(m_OutgoingMessages).m_Connection>>
      BY <1>1, <2>2 DEF pollOutMessages
    <3> QED
      BY <3>2, <3>3 DEF ServedSession
  <2> QED
    BY <2>1, <2>2
<1>2. CASE UNCHANGED served
  BY <1>2 DEF ServedSession
<1>3. pollOutMessages \/ UNCHANGED served
  BY DEF Next, Owner, Dtor, run, vars, initSocket, startListening, stopListening,
    push_OutgoingMessageQueue, try_PoPReceivedMessageQueue, try_PoPErrorQueue,
    DestroyListener, DtorClearRunning, DtorNotify, DtorJoin, LockAndTest, WaitPredicate,
    Sleep, SpuriousWakeup, RunLoop, pollIncMessages, SelfStop, CloseSocket,
    DestroyPollGroup, ClearOutgoing, ClearReceived, ClearErrors
<1> QED
  BY <1>1, <1>2, <1>3

(* Until the library has refused to poll, an outgoing message belongs to   *)
(* the session whose thread may send it.                                   *)
THEOREM OutgoingCorrect == Spec => []OutgoingInv
<1>1. Init => OutgoingInv
  BY DEF Init, OutgoingInv, OwnSession, Invalid
<1>2. TypeOK /\ HandoverInv /\ OutgoingInv /\ [Next]_vars => OutgoingInv'
  BY OutgoingStep DEF HandoverInv
<1> QED
  BY <1>1, <1>2, TypeCorrect, HandoverCorrect, PTL DEF Spec

(* Until the library has refused to poll, a served connection is reported  *)
(* with the socket it was accepted on.                                     *)
THEOREM ServedCorrect == Spec => []ServedSession
<1>1. Init => ServedSession
  BY DEF Init, ServedSession, Invalid
<1>2. TypeOK /\ OutgoingInv /\ ServedSession /\ [Next]_vars => ServedSession'
  BY ServedStep
<1> QED
  BY <1>1, <1>2, TypeCorrect, OutgoingCorrect, PTL DEF Spec

-----------------------------------------------------------------------------
(* Each step of the listener is a step of its port, or none.               *)

(* The owner's calls: a socket that is opened follows a closed one.        *)
LEMMA OwnerPort ==
  ASSUME TypeOK, HandoverInv, Owner \/ Dtor PROVE [Port!Next]_(Port!vars)
<1> USE DEF TypeOK, HandoverInv, HandlesInv, OwnerInv, NoOrphan, Live, Invalid, Opening, Dead,
            Port!vars
<1>1. CASE initSocket
  <2>1. CASE initSocketCreated
    <3>1. /\ opc = "idle" /\ opc' = "start" /\ info_m_Socket = Invalid
          /\ m_Socket \notin openSockets
          /\ UNCHANGED <<m_listening, pc, m_OutgoingMessages>>
      BY <1>1, <2>1 DEF initSocket, initSocketCreated, SocketFree, flags, queues
    <3> QED
      BY <3>1
  <2>2. CASE UNCHANGED <<opc, info_m_Socket, handles, library>>
    BY <1>1, <2>2 DEF initSocket, flags, queues, handles, library
  <2> QED
    BY <1>1, <2>1, <2>2 DEF initSocket, initSocketRefused, initSocketFailed
<1>2. CASE startListening
  <2>1. /\ opc = "start" /\ opc' = "idle" /\ m_listening' = TRUE /\ ~m_listening
        /\ m_Socket = info_m_Socket /\ m_Socket # Invalid /\ m_Socket \in openSockets
        /\ UNCHANGED <<m_Socket, info_m_Socket, openSockets, m_OutgoingMessages>>
    BY <1>2 DEF startListening, Start, handles, library, queues
  <2>2. (pc' \in {"ungroup", "clear_out"}) = (pc \in {"ungroup", "clear_out"})
    BY <1>2 DEF startListening, Start, notify_one
  <2> HIDE DEF TypeOK, HandoverInv
  <2>3. Port!Open
    BY <2>1, <2>2 DEF Port!Open
  <2> QED
    BY <2>3 DEF Port!Next
<1>3. ASSUME stopListening \/ (DestroyListener /\ Stop) PROVE Port!Stop
  <2>1. /\ opc = "idle" /\ opc' \in {"idle", "dtor"} /\ info_m_Socket # Invalid
        /\ info_m_Socket' = Invalid /\ m_listening' = FALSE
        /\ UNCHANGED <<m_Socket, openSockets, m_OutgoingMessages>>
    BY <1>3 DEF stopListening, DestroyListener, Stop, handles, library, queues
  <2>2. (pc' \in {"ungroup", "clear_out"}) = (pc \in {"ungroup", "clear_out"})
    BY <1>3 DEF stopListening, DestroyListener, Stop, notify_one
  <2> HIDE DEF TypeOK, HandoverInv
  <2> QED
    BY <2>1, <2>2 DEF Port!Stop
<1>4. CASE push_OutgoingMessageQueue
  <2>1. PICK body \in Bodies : m_OutgoingMessages' = Append(m_OutgoingMessages,
          [m_Connection |-> info_m_Socket, m_Message |-> body])
    BY <1>4 DEF push_OutgoingMessageQueue
  <2>2. Len(m_OutgoingMessages') = Len(m_OutgoingMessages) + 1
    BY <2>1
  <2>3. /\ opc = "idle" /\ info_m_Socket # Invalid
        /\ UNCHANGED <<opc, m_Socket, info_m_Socket, openSockets, m_listening, pc>>
    BY <1>4 DEF push_OutgoingMessageQueue, handles, library, owner, flags
  <2> HIDE DEF TypeOK, HandoverInv
  <2>4. Port!Push
    BY <2>2, <2>3 DEF Port!Push
  <2> QED
    BY <2>4 DEF Port!Next
<1>5. CASE try_PoPReceivedMessageQueue
  BY <1>5 DEF try_PoPReceivedMessageQueue, handles, library, owner, flags
<1>6. CASE try_PoPErrorQueue
  BY <1>6 DEF try_PoPErrorQueue, handles, library, owner, flags
<1>7. CASE DestroyListener /\ UNCHANGED <<info_m_Socket, m_listening, pc>>
  BY <1>7 DEF DestroyListener, handles, library, queues
<1>8. CASE DtorClearRunning
  BY <1>8 DEF DtorClearRunning, handles, library, queues
<1>9. CASE DtorNotify
  <2>1. (pc' \in {"ungroup", "clear_out"}) = (pc \in {"ungroup", "clear_out"})
    BY <1>9 DEF DtorNotify, notify_one
  <2> QED
    BY <1>9, <2>1 DEF DtorNotify, flags, handles, library, queues
<1>10. CASE DtorJoin
  <2>1. /\ opc = "join" /\ opc' = "dead" /\ pc = "done" /\ UNCHANGED <<pc, info_m_Socket, m_listening>>
        /\ info_m_Socket = Invalid /\ ~m_listening
    BY <1>10 DEF DtorJoin, flags
  <2> HIDE DEF TypeOK, HandoverInv
  <2>2. Port!Destroy
    BY <2>1 DEF Port!Destroy
  <2> QED
    BY <2>2 DEF Port!Next
<1> QED
  BY <1>1, <1>2, <1>3, <1>4, <1>5, <1>6, <1>7, <1>8, <1>9, <1>10
  DEF Owner, Dtor, DestroyListener, Port!Next

(* The listening thread: it only touches the socket while it is open, and  *)
(* only closes it when the listener has stopped.                           *)
LEMMA ThreadPort ==
  ASSUME TypeOK, HandoverInv, run \/ SpuriousWakeup PROVE [Port!Next]_(Port!vars)
<1> USE DEF TypeOK, HandoverInv, HandlesInv, OwnerInv, NoOrphan, Live, Invalid, Opening, Dead,
            Awake, Polling, Teardown, Port!vars
<1>1. CASE LockAndTest \/ WaitPredicate \/ Sleep \/ SpuriousWakeup \/ RunLoop
  <2>1. UNCHANGED <<opc, m_Socket, info_m_Socket, openSockets, m_listening, m_OutgoingMessages>>
    BY <1>1 DEF LockAndTest, WaitPredicate, Sleep, SpuriousWakeup, RunLoop, handles, library,
       owner, flags, queues
  <2>2. pc \notin {"ungroup", "clear_out"} /\ pc' \notin {"ungroup", "clear_out"}
    BY <1>1 DEF LockAndTest, WaitPredicate, Sleep, SpuriousWakeup, RunLoop, Goto
  <2> QED
    BY <2>1, <2>2
<1>2. CASE pollOutMessages
  <2>1. /\ pc = "out" /\ pc' = "inc" /\ opc \notin {"start", "dead"} /\ m_Socket \in openSockets
        /\ UNCHANGED <<opc, m_Socket, info_m_Socket, openSockets, m_listening>>
    BY <1>2 DEF pollOutMessages, Goto, handles, library, owner, flags
  <2>2. CASE m_OutgoingMessages = <<>>
    BY <1>2, <2>1, <2>2 DEF pollOutMessages
  <2>3. CASE m_OutgoingMessages # <<>>
    <3>1. m_OutgoingMessages' = Tail(m_OutgoingMessages)
      BY <1>2, <2>3 DEF pollOutMessages
    <3>2. Len(m_OutgoingMessages) > 0 /\ Len(m_OutgoingMessages') = Len(m_OutgoingMessages) - 1
      BY <2>3, <3>1
    <3>3. m_Socket # Invalid
      BY <2>1
    <3> HIDE DEF TypeOK, HandoverInv
    <3>4. Port!Take
      BY <2>1, <3>2, <3>3 DEF Port!Take
    <3> QED
      BY <3>4 DEF Port!Next
  <2> QED
    BY <2>2, <2>3
<1>3. CASE pollIncMessages
  <2>1. /\ pc \notin {"ungroup", "clear_out"} /\ pc' \notin {"ungroup", "clear_out"}
        /\ UNCHANGED <<opc, m_Socket, info_m_Socket, openSockets, m_listening, m_OutgoingMessages>>
    BY <1>3 DEF pollIncMessages, handles, library, owner, flags
  <2> QED
    BY <2>1
<1>4. CASE SelfStop
  <2>1. /\ pc = "error" /\ pc' = "loop" /\ opc \notin {"start", "dead"} /\ m_listening' = FALSE
        /\ m_Socket \in openSockets /\ m_Socket # Invalid
        /\ UNCHANGED <<opc, m_Socket, info_m_Socket, openSockets, m_OutgoingMessages>>
    BY <1>4 DEF SelfStop, Goto, handles, library, owner, queues
  <2> HIDE DEF TypeOK, HandoverInv
  <2>2. Port!SelfStop
    BY <2>1 DEF Port!SelfStop
  <2> QED
    BY <2>2 DEF Port!Next
<1>5. CASE CloseSocket
  <2>1. /\ pc = "close" /\ pc' = "ungroup" /\ opc \notin {"start", "dead"} /\ ~m_listening
        /\ m_Socket \in openSockets /\ m_Socket # Invalid
        /\ m_Socket' = Invalid
        /\ UNCHANGED <<opc, m_listening, info_m_Socket, m_OutgoingMessages>>
    BY <1>5 DEF CloseSocket, Goto, owner, flags, queues
  <2> HIDE DEF TypeOK, HandoverInv
  <2>2. Port!Close
    BY <2>1 DEF Port!Close
  <2> QED
    BY <2>2 DEF Port!Next
<1>6. CASE DestroyPollGroup
  BY <1>6 DEF DestroyPollGroup, Goto, flags, queues, owner
<1>7. CASE ClearOutgoing
  <2>1. /\ pc = "clear_out" /\ pc' = "clear_in" /\ opc # "dead" /\ m_OutgoingMessages' = <<>>
        /\ UNCHANGED <<opc, m_Socket, info_m_Socket, openSockets, m_listening>>
    BY <1>7 DEF ClearOutgoing, Goto, handles, library, owner, flags
  <2> HIDE DEF TypeOK, HandoverInv
  <2>2. Port!Clear
    BY <2>1 DEF Port!Clear
  <2> QED
    BY <2>2 DEF Port!Next
<1>8. CASE ClearReceived
  BY <1>8 DEF ClearReceived, Goto, handles, library, owner, flags
<1>9. CASE ClearErrors
  BY <1>9 DEF ClearErrors, Goto, handles, library, owner, flags
<1> QED
  BY <1>1, <1>2, <1>3, <1>4, <1>5, <1>6, <1>7, <1>8, <1>9 DEF run

(* The listener implements its port: whatever its thread and its owner do, *)
(* the owner sees a socket opened only when the last is closed, closed     *)
(* only when the listener has stopped, and messages that wait until the    *)
(* thread takes them or a teardown drops them.                             *)
THEOREM PortCorrect == Spec => PortKept
<1>1. Init => Port!Init
  BY DEF Init, Port!Init, Opening, Dead, Invalid
<1>2. TypeOK /\ HandoverInv /\ [Next]_vars => [Port!Next]_(Port!vars)
  <2>1. UNCHANGED vars => UNCHANGED Port!vars
    BY DEF vars, flags, handles, queues, owner, library, Port!vars, Opening, Dead
  <2> QED
    BY <2>1, OwnerPort, ThreadPort DEF Next
<1> QED
  BY <1>1, <1>2, TypeCorrect, HandoverCorrect, PTL DEF Spec, PortKept, Port!Spec
=============================================================================
