------------------------- MODULE NetworkManager_proof -------------------------
(***************************************************************************)
(* Proofs about module NetworkManager, for any clients, listening threads  *)
(* and bounds: types, that init and kill never take the core or the thread *)
(* from under each other, and that the manager implements AbstractManager. *)
(***************************************************************************)
EXTENDS NetworkManager, SequenceTheorems, TLAPS

(* The groups of variables, in every proof below. *)
USE DEF flags, core, thread, caller, control

(* A first element is one of the callers. *)
LEMMA Popped ==
  ASSUME TypeOK, m_FunctionCalls # <<>>
  PROVE  Head(m_FunctionCalls) \in Client \cup Poster
         /\ Tail(m_FunctionCalls) \in Seq(Client \cup Poster)
BY HeadTailProperties DEF TypeOK

(* Where a caller can be. *)
CallerState == {"idle", "push", "notify", "get", "check", "served"}

(* Every step keeps the types. *)
LEMMA TypeNext == TypeOK /\ [Next]_vars => TypeOK'
<1> SUFFICES ASSUME TypeOK, [Next]_vars PROVE TypeOK'
  OBVIOUS
<1> USE ManagerAssumption DEF TypeOK, Goto, Move, notify, notifyFunktionCall
<1>1. CASE init
  <2>1. CASE initBegin
    <3>1. inits + 1 \in 0..MaxInits /\ m_Core' \in 0..inits'
      BY <2>1 DEF initBegin
    <3> QED
      BY <2>1, <3>1 DEF initBegin
  <2>2. CASE initRunning
    BY <2>2 DEF initRunning
  <2>3. CASE initInitialized
    BY <2>3 DEF initInitialized
  <2>4. CASE initThread
    BY <2>4 DEF initThread
  <2> QED
    BY <1>1, <2>1, <2>2, <2>3, <2>4 DEF init
<1>2. CASE killBegin
  BY <1>2 DEF killBegin
<1>3. CASE kill
  <2>1. CASE killNotify
    BY <2>1 DEF killNotify
  <2>2. CASE killJoin
    BY <2>2 DEF killJoin
  <2>3. CASE killReset
    <3>1. 0 \in 0..inits
      OBVIOUS
    <3> QED
      BY <2>3, <3>1 DEF killReset, Null
  <2>4. CASE killUninit
    BY <2>4 DEF killUninit
  <2>5. CASE killClear
    <3>1. <<>> \in Seq(Client \cup Poster)
      BY EmptySeq
    <3> QED
      BY <2>5, <3>1 DEF killClear
  <2> QED
    BY <1>3, <2>1, <2>2, <2>3, <2>4, <2>5 DEF kill
<1>4. CASE run
  <2>1. CASE LockAndTest
    BY <2>1 DEF LockAndTest
  <2>2. CASE WaitForWork
    BY <2>2 DEF WaitForWork
  <2>3. CASE Loop
    BY <2>3 DEF Loop, InnerLoop
  <2>4. CASE pollFunctionCalls
    <3>1. /\ m_FunctionCalls' \in Seq(Client \cup Poster) /\ counter' \in 0..MaxFunctions
          /\ m_SocketClientsMap' \in BOOLEAN /\ ready' \subseteq Client
      <4>1. CASE m_FunctionCalls = <<>> \/ SessionFull
        BY <2>4, <4>1 DEF pollFunctionCalls
      <4>2. CASE m_FunctionCalls # <<>> /\ ~SessionFull
        <5>1. counter + 1 \in 0..MaxFunctions
          BY <4>2 DEF SessionFull
        <5>2. m_FunctionCalls' = Tail(m_FunctionCalls) /\ counter' = counter + 1
          BY <2>4, <4>2 DEF pollFunctionCalls
        <5>3. \/ Head(m_FunctionCalls) \in Client /\ m_SocketClientsMap' \in BOOLEAN
                 /\ ready' \in {ready, ready \cup {Head(m_FunctionCalls)}}
              \/ UNCHANGED <<m_SocketClientsMap, ready>>
          BY <2>4, <4>2 DEF pollFunctionCalls
        <5> QED
          BY <4>2, <5>1, <5>2, <5>3, Popped
      <4> QED
        BY <4>1, <4>2
    <3>2. pc' \in {"calls", "callbacks", "stuck"} /\ UNCHANGED <<m_Core, flags, cpc, calls, control>>
      BY <2>4 DEF pollFunctionCalls
    <3> QED
      BY <3>1, <3>2
  <2>5. CASE CheckIdle
    BY <2>5 DEF CheckIdle
  <2> QED
    BY <1>4, <2>1, <2>2, <2>3, <2>4, <2>5 DEF run
<1>5. CASE SpuriousWakeup
  BY <1>5 DEF SpuriousWakeup
<1>6. ASSUME NEW c \in Client \cup Poster, NEW from, NEW to \in CallerState, Move(c, from, to)
      PROVE  cpc' \in [Client \cup Poster -> CallerState]
  BY <1>6 DEF CallerState
<1>7. ASSUME NEW c \in Client \cup Poster
      PROVE  Append(m_FunctionCalls, c) \in Seq(Client \cup Poster)
  BY AppendProperties
<1> HIDE DEF Move
<1>8. ASSUME NEW c \in Client, call(c) \/ executeFunktion(c) PROVE TypeOK'
  <2>1. CASE call(c)
    BY <1>6, <2>1 DEF call, CallerState
  <2>2. CASE push(c)
    BY <1>6, <1>7, <2>2 DEF push, CallerState
  <2>3. CASE executeNotify(c)
    BY <1>6, <2>3 DEF executeNotify, CallerState
  <2>4. CASE get(c)
    BY <1>6, <2>4 DEF get, CallerState
  <2> QED
    BY <1>8, <2>1, <2>2, <2>3, <2>4 DEF executeFunktion
<1>9. ASSUME NEW p \in Poster, polled(p) \/ ConnectionServed(p) PROVE TypeOK'
  <2>1. CASE polled(p)
    BY <1>6, <2>1 DEF polled, CallerState
  <2>2. CASE servedNotify(p)
    BY <1>6, <2>2 DEF servedNotify, CallerState
  <2>3. CASE servedPush(p)
    BY <1>6, <1>7, <2>3 DEF servedPush, CallerState
  <2> QED
    BY <1>9, <2>1, <2>2, <2>3 DEF ConnectionServed
<1>10. CASE UNCHANGED vars
  BY <1>10 DEF vars
<1> QED
  BY <1>1, <1>2, <1>3, <1>4, <1>5, <1>8, <1>9, <1>10 DEF Next

(* The manager keeps its types, whatever clients and listening threads. *)
THEOREM TypeCorrect == Spec => []TypeOK
<1>1. Init => TypeOK
  <2>1. /\ <<>> \in Seq(Client \cup Poster) /\ 0 \in 0..0
        /\ 0 \in 0..MaxFunctions /\ 0 \in 0..MaxInits /\ 0 \in 0..MaxCalls
    BY EmptySeq, ManagerAssumption
  <2>2. ASSUME Init PROVE m_Core \in 0..inits
    BY <2>1, <2>2 DEF Init, Null
  <2>3. ASSUME Init
        PROVE  cpc \in [Client \cup Poster -> {"idle", "push", "notify", "get", "check", "served"}]
    BY <2>3 DEF Init
  <2> QED
    BY <2>1, <2>2, <2>3 DEF Init, TypeOK
<1> QED
  BY <1>1, TypeNext, PTL DEF Spec

-----------------------------------------------------------------------------
(* The invariant.                                                          *)

(* While there is a thread the manager counts as initialized, which keeps  *)
(* init out, and kill has not got past its join, which keeps the core.     *)
ThreadInv ==
  pc # "none" => m_initialized /\ m_Core # Null /\ kpc \in {"idle", "notify", "join"}

(* init has a core without sockets to give to the thread it starts. *)
InitInv ==
  /\ kpc \in {"init", "init2", "init3"} => m_Core # Null /\ ~m_SocketClientsMap
  /\ kpc = "init3" => m_initialized

(* On its way to sleep the thread leaves no socket behind, unless it is    *)
(* told to end; and it does not get into the sleep then.                   *)
SleepInv ==
  /\ pc \in {"lock", "test", "wait", "wakeup"} => ~m_SocketClientsMap \/ ~m_running
  /\ pc = "idle" => ~m_SocketClientsMap
  /\ pc = "block" => ~m_SocketClientsMap /\ ~m_Busy /\ m_running
  /\ SleepsOnlyIdle

ManagerInv == ThreadInv /\ InitInv /\ SleepInv

(* The controller's steps, which only begin an init without a thread. *)
LEMMA ControlNext ==
  ASSUME TypeOK, ManagerInv, init \/ killBegin \/ kill
  PROVE  ManagerInv'
<1> USE DEF TypeOK, ManagerInv, ThreadInv, InitInv, SleepInv, SleepsOnlyIdle, Null, Locked
<1>1. CASE initBegin
  BY <1>1 DEF initBegin, MayInit
<1>2. CASE initRunning \/ initInitialized \/ initThread
  BY <1>2 DEF initRunning, initInitialized, initThread
<1>3. CASE killBegin
  BY <1>3 DEF killBegin
<1>4. CASE killNotify
  BY <1>4 DEF killNotify, notify
<1>5. CASE killJoin
  BY <1>5 DEF killJoin, Joined
<1>6. CASE killReset \/ killUninit \/ killClear
  BY <1>6 DEF killReset, killUninit, killClear
<1> QED
  BY <1>1, <1>2, <1>3, <1>4, <1>5, <1>6 DEF init, kill

(* The network thread's steps: it clears m_Busy with no socket registered, *)
(* and sleeps with m_Busy cleared.                                         *)
LEMMA RunNext ==
  ASSUME TypeOK, ManagerInv, run \/ SpuriousWakeup
  PROVE  ManagerInv'
<1> USE DEF TypeOK, ManagerInv, ThreadInv, InitInv, SleepInv, SleepsOnlyIdle, Goto
<1>1. CASE LockAndTest
  BY <1>1 DEF LockAndTest
<1>2. CASE WaitForWork
  BY <1>2 DEF WaitForWork
<1>3. CASE Loop
  BY <1>3 DEF Loop, InnerLoop
<1>4. CASE pollFunctionCalls
  BY <1>4 DEF pollFunctionCalls
<1>5. CASE CheckIdle
  BY <1>5 DEF CheckIdle
<1>6. CASE SpuriousWakeup
  BY <1>6 DEF SpuriousWakeup
<1> QED
  BY <1>1, <1>2, <1>3, <1>4, <1>5, <1>6 DEF run

(* The callers' steps: one that sets m_Busy wakes the thread. *)
LEMMA CallerNext ==
  ASSUME TypeOK, ManagerInv,
         \/ \E c \in Client : call(c) \/ executeFunktion(c)
         \/ \E p \in Poster : polled(p) \/ ConnectionServed(p)
  PROVE  ManagerInv'
<1> USE DEF TypeOK, ManagerInv, ThreadInv, InitInv, SleepInv, SleepsOnlyIdle, Locked, notify,
            notifyFunktionCall
<1>1. ASSUME NEW c \in Client, call(c) \/ executeFunktion(c) PROVE ManagerInv'
  BY <1>1 DEF call, executeFunktion, push, executeNotify, get
<1>2. ASSUME NEW p \in Poster, polled(p) \/ ConnectionServed(p) PROVE ManagerInv'
  BY <1>2 DEF polled, ConnectionServed, servedNotify, servedPush
<1> QED
  BY <1>1, <1>2

(* The invariant holds of every run. *)
LEMMA ManagerCorrect == Spec => []ManagerInv
<1>1. Init => ManagerInv
  BY DEF Init, ManagerInv, ThreadInv, InitInv, SleepInv, SleepsOnlyIdle
<1>2. TypeOK /\ ManagerInv /\ [Next]_vars => ManagerInv'
  <2>1. ManagerInv /\ UNCHANGED vars => ManagerInv'
    BY DEF vars, ManagerInv, ThreadInv, InitInv, SleepInv, SleepsOnlyIdle
  <2> QED
    BY <2>1, ControlNext, RunNext, CallerNext DEF Next
<1> QED
  BY <1>1, <1>2, TypeCorrect, PTL DEF Spec

(* Wherever kill and init have got to, m_Core is there while the network   *)
(* thread calls it, and init assigns its thread only when the one before   *)
(* has been joined, however many threads call the manager.                 *)
THEOREM CoreOutlives == Spec => []CoreOutlivesUse
<1>1. ManagerInv => CoreOutlivesUse
  BY DEF ManagerInv, ThreadInv, CoreOutlivesUse
<1> QED
  BY <1>1, ManagerCorrect, PTL

(* The thread never sleeps over a call that was notified, an open socket   *)
(* or a kill that has sent its notification.                               *)
THEOREM SleepsIdle == Spec => []SleepsOnlyIdle
<1>1. ManagerInv => SleepsOnlyIdle
  BY DEF ManagerInv, SleepInv
<1> QED
  BY <1>1, ManagerCorrect, PTL
-----------------------------------------------------------------------------
(* What the callers see: the invariants the refinement needs.              *)

(* How far kill has got shows in the two flags, and an uninitialized       *)
(* manager has no sockets.                                                 *)
PhaseInv ==
  /\ kpc \in {"init", "init2", "clear"} => ~m_initialized
  /\ kpc \in {"init2", "init3"} => m_running
  /\ kpc = "idle" /\ m_initialized => m_running
  /\ kpc \in {"notify", "join", "reset", "stuck", "uninit", "clear"} => ~m_running
  /\ ~m_initialized \/ kpc \in {"stuck", "uninit"} => ~m_SocketClientsMap

(* A client has at most one call queued, and then no answer; an answer     *)
(* waits only for the client that made the call.                           *)
CallInv ==
  /\ \A c \in ready : cpc[c] \in {"notify", "get"}
  /\ \A i \in 1..Len(m_FunctionCalls) : m_FunctionCalls[i] \in Client =>
       cpc[m_FunctionCalls[i]] \in {"notify", "get"} /\ m_FunctionCalls[i] \notin ready
  /\ \A i, j \in 1..Len(m_FunctionCalls) :
       m_FunctionCalls[i] = m_FunctionCalls[j] /\ m_FunctionCalls[i] \in Client => i = j

(* The steps that do not make, execute or answer a call.                   *)
Others == init \/ killBegin \/ kill \/ LockAndTest \/ WaitForWork \/ Loop \/ CheckIdle \/ SpuriousWakeup

(* Every step keeps the phase apart: only the thread registers sockets,    *)
(* and there is none while the manager is not initialized.                 *)
LEMMA PhaseNext ==
  ASSUME TypeOK, ManagerInv, PhaseInv, [Next]_vars PROVE PhaseInv'
<1> USE DEF TypeOK, ManagerInv, ThreadInv, PhaseInv
<1>1. CASE init
  BY <1>1 DEF init, initBegin, initRunning, initInitialized, initThread, MayInit
<1>2. CASE killBegin \/ kill
  BY <1>2 DEF killBegin, kill, killNotify, killJoin, Joined, killReset, killUninit, killClear
<1>3. CASE run
  BY <1>3 DEF run, LockAndTest, WaitForWork, Loop, pollFunctionCalls, CheckIdle
<1>4. CASE SpuriousWakeup \/ UNCHANGED vars
  BY <1>4 DEF SpuriousWakeup, vars
<1>5. ASSUME NEW c \in Client, call(c) \/ executeFunktion(c) PROVE PhaseInv'
  BY <1>5 DEF call, executeFunktion, push, executeNotify, get
<1>6. ASSUME NEW p \in Poster, polled(p) \/ ConnectionServed(p) PROVE PhaseInv'
  BY <1>6 DEF polled, ConnectionServed, servedNotify, servedPush
<1> QED
  BY <1>1, <1>2, <1>3, <1>4, <1>5, <1>6 DEF Next

(* What a client does.                                                     *)
LEMMA ClientCalls ==
  ASSUME TypeOK, CallInv, NEW c \in Client, call(c) \/ executeFunktion(c) PROVE CallInv'
<1> USE DEF CallInv, Move
<1>1. cpc \in [Client \cup Poster -> CallerState]
  BY DEF TypeOK, CallerState
<1>2. CASE call(c)
  BY <1>1, <1>2 DEF call
<1>3. CASE push(c)
  <2>1. /\ cpc[c] = "push" /\ cpc' = [cpc EXCEPT ![c] = "notify"]
        /\ m_FunctionCalls' = Append(m_FunctionCalls, c) /\ UNCHANGED ready
    BY <1>3 DEF push
  <2>2. /\ c \notin ready /\ \A i \in 1..Len(m_FunctionCalls) : m_FunctionCalls[i] # c
    BY <2>1
  <2>3. /\ Len(m_FunctionCalls') = Len(m_FunctionCalls) + 1 /\ Len(m_FunctionCalls) \in Nat
        /\ \A i \in 1..Len(m_FunctionCalls) : m_FunctionCalls'[i] = m_FunctionCalls[i]
        /\ m_FunctionCalls'[Len(m_FunctionCalls) + 1] = c
    BY <2>1, AppendProperties DEF TypeOK
  <2>4. \A d \in Client : cpc'[d] = IF d = c THEN "notify" ELSE cpc[d]
    BY <1>1, <2>1
  <2>5. \A d \in ready' : cpc'[d] \in {"notify", "get"}
    BY <2>1, <2>4 DEF TypeOK
  <2>6. ASSUME NEW i \in 1..Len(m_FunctionCalls'), m_FunctionCalls'[i] \in Client
        PROVE  cpc'[m_FunctionCalls'[i]] \in {"notify", "get"} /\ m_FunctionCalls'[i] \notin ready'
    BY <2>1, <2>2, <2>3, <2>4, <2>6
  <2>7. ASSUME NEW i \in 1..Len(m_FunctionCalls'), NEW j \in 1..Len(m_FunctionCalls'),
               m_FunctionCalls'[i] = m_FunctionCalls'[j], m_FunctionCalls'[i] \in Client
        PROVE  i = j
    BY <2>2, <2>3, <2>7
  <2> QED
    BY <2>5, <2>6, <2>7
<1>4. CASE executeNotify(c)
  BY <1>1, <1>4 DEF executeNotify
<1>5. CASE get(c)
  <2>1. /\ c \in ready /\ cpc[c] = "get" /\ cpc' = [cpc EXCEPT ![c] = "idle"]
        /\ ready' = ready \ {c} /\ UNCHANGED m_FunctionCalls
    BY <1>5 DEF get
  <2>2. \A i \in 1..Len(m_FunctionCalls) : m_FunctionCalls[i] # c
    BY <2>1
  <2> QED
    BY <1>1, <2>1, <2>2 DEF TypeOK
<1> QED
  BY <1>2, <1>3, <1>4, <1>5 DEF executeFunktion

(* What a listening thread does: it is not a client.                       *)
LEMMA PosterCalls ==
  ASSUME TypeOK, CallInv, NEW p \in Poster, polled(p) \/ ConnectionServed(p) PROVE CallInv'
<1> USE DEF CallInv
<1>1. p \notin Client /\ ready \subseteq Client
  BY ManagerAssumption DEF TypeOK
<1>2. \A d \in Client : cpc'[d] = cpc[d]
  BY <1>1 DEF TypeOK, polled, ConnectionServed, servedNotify, servedPush, Move
<1>3. UNCHANGED ready
  BY DEF polled, ConnectionServed, servedNotify, servedPush
<1>4. CASE UNCHANGED m_FunctionCalls
  BY <1>1, <1>2, <1>3, <1>4
<1>5. CASE m_FunctionCalls' = Append(m_FunctionCalls, p)
  <2>1. /\ Len(m_FunctionCalls') = Len(m_FunctionCalls) + 1 /\ Len(m_FunctionCalls) \in Nat
        /\ \A i \in 1..Len(m_FunctionCalls) : m_FunctionCalls'[i] = m_FunctionCalls[i]
        /\ m_FunctionCalls'[Len(m_FunctionCalls) + 1] = p
    BY <1>1, <1>5, AppendProperties DEF TypeOK
  <2>2. \A d \in ready' : cpc'[d] \in {"notify", "get"}
    BY <1>1, <1>2, <1>3
  <2>3. ASSUME NEW i \in 1..Len(m_FunctionCalls'), m_FunctionCalls'[i] \in Client
        PROVE  i \in 1..Len(m_FunctionCalls) /\ m_FunctionCalls'[i] = m_FunctionCalls[i]
    BY <1>1, <2>1, <2>3
  <2>4. ASSUME NEW i \in 1..Len(m_FunctionCalls'), m_FunctionCalls'[i] \in Client
        PROVE  cpc'[m_FunctionCalls'[i]] \in {"notify", "get"} /\ m_FunctionCalls'[i] \notin ready'
    BY <1>2, <1>3, <2>3, <2>4
  <2>5. ASSUME NEW i \in 1..Len(m_FunctionCalls'), NEW j \in 1..Len(m_FunctionCalls'),
               m_FunctionCalls'[i] = m_FunctionCalls'[j], m_FunctionCalls'[i] \in Client
        PROVE  i = j
    BY <2>3, <2>5
  <2> QED
    BY <2>2, <2>4, <2>5
<1> QED
  BY <1>4, <1>5 DEF polled, ConnectionServed, servedNotify, servedPush

(* The popped call is answered, and was the only one of its client.        *)
LEMMA PollCalls ==
  ASSUME TypeOK, CallInv, pollFunctionCalls PROVE CallInv'
<1> USE DEF CallInv
<1> DEFINE q == m_FunctionCalls
<1>1. CASE q = <<>> \/ SessionFull
  BY <1>1 DEF pollFunctionCalls
<1>2. CASE q # <<>> /\ ~SessionFull
  <2>1. /\ Len(q) \in Nat /\ 1 \in 1..Len(q) /\ Head(q) = q[1]
        /\ q' = Tail(q) /\ Len(q') = Len(q) - 1 /\ UNCHANGED cpc
        /\ \A i \in 1..Len(q') : i + 1 \in 1..Len(q) /\ q'[i] = q[i + 1]
    <3>1. q \in Seq(Client \cup Poster) /\ q # <<>>
      BY <1>2 DEF TypeOK
    <3>2. q' = Tail(q) /\ UNCHANGED cpc
      BY <1>2 DEF pollFunctionCalls
    <3> HIDE DEF q, CallInv
    <3>3. /\ Len(q) \in Nat /\ Len(q) # 0 /\ Head(q) = q[1] /\ Len(Tail(q)) = Len(q) - 1
          /\ \A i \in 1..Len(Tail(q)) : Tail(q)[i] = q[i + 1]
      BY <3>1
    <3> QED
      BY <3>2, <3>3
  <2>2. ready' = ready \/ (Head(q) \in Client /\ ready' = ready \cup {Head(q)})
    BY <1>2 DEF pollFunctionCalls
  <2>3. \A c \in ready' : cpc'[c] \in {"notify", "get"}
    BY <2>1, <2>2
  <2>4. ASSUME NEW i \in 1..Len(q'), q'[i] \in Client
        PROVE  cpc'[q'[i]] \in {"notify", "get"} /\ q'[i] \notin ready'
    <3>1. i \in Nat /\ i + 1 \in 1..Len(q) /\ q'[i] = q[i + 1] /\ i + 1 # 1
      BY <2>1
    <3>2. q'[i] # q[1]
      BY <2>1, <2>4, <3>1
    <3> QED
      BY <2>1, <2>2, <2>4, <3>1, <3>2
  <2>5. ASSUME NEW i \in 1..Len(q'), NEW j \in 1..Len(q'), q'[i] = q'[j], q'[i] \in Client
        PROVE  i = j
    BY <2>1, <2>5
  <2> QED
    BY <2>3, <2>4, <2>5
<1> QED
  BY <1>1, <1>2

(* No step queues a call of a client twice, or answers one not queued.     *)
LEMMA CallNext ==
  ASSUME TypeOK, CallInv, [Next]_vars PROVE CallInv'
<1>1. CASE Others \/ UNCHANGED vars
  <2>1. CASE killClear
    BY <2>1 DEF killClear, CallInv
  <2>2. CASE UNCHANGED <<cpc, ready, m_FunctionCalls>>
    BY <2>2 DEF CallInv
  <2> QED
    BY <1>1, <2>1, <2>2 DEF Others, init, initBegin, initRunning, initInitialized, initThread,
       killBegin, kill, killNotify, killJoin, killReset, killUninit, LockAndTest, WaitForWork,
       Loop, CheckIdle, SpuriousWakeup, vars
<1> QED
  BY <1>1, ClientCalls, PosterCalls, PollCalls DEF Next, Others, run

-----------------------------------------------------------------------------
(* The refinement of AbstractManager, step by step.                        *)

(* The phase and the state of a call as the instance defines them.         *)
Phase ==
  IF ~m_initialized THEN "down"
  ELSE IF m_running THEN "up"
  ELSE IF kpc \in {"notify", "join"} THEN "stopping" ELSE "stopped"
CallState ==
  [c \in Client |-> IF cpc[c] = "idle" THEN "idle"
                    ELSE IF c \in ready THEN "answered" ELSE "waiting"]

LEMMA SameCalls ==
  ASSUME UNCHANGED ready, \A c \in Client : (cpc'[c] = "idle") = (cpc[c] = "idle")
  PROVE  UNCHANGED CallState
  BY DEF CallState

(* The controller moves the phase on, and nothing else does.               *)
LEMMA ControlPromise ==
  ASSUME TypeOK, ManagerInv, PhaseInv, init \/ killBegin \/ kill
  PROVE  [Promise!Next]_(Promise!vars)
<1>1. UNCHANGED CallState
  BY DEF init, initBegin, initRunning, initInitialized, initThread, killBegin, kill, killNotify,
     killJoin, killReset, killUninit, killClear, CallState
<1> USE <1>1 DEF CallState, PhaseInv, ManagerInv, ThreadInv, InitInv, TypeOK,
                 Promise!vars, Promise!Next, Promise!Goto
<1>2. CASE initBegin \/ initRunning \/ initThread
  <2>1. UNCHANGED m_SocketClientsMap
    BY <1>2 DEF initBegin, initRunning, initThread, MayInit
  <2>2. CASE initBegin
    BY <2>1, <2>2 DEF initBegin, MayInit
  <2>3. CASE initRunning
    BY <2>1, <2>3 DEF initRunning
  <2>4. CASE initThread
    BY <2>1, <2>4 DEF initThread
  <2> QED
    BY <1>2, <2>2, <2>3, <2>4
<1>3. CASE initInitialized
  <2>1. Promise!Start
    BY <1>3 DEF initInitialized, Promise!Start
  <2> QED
    BY <2>1
<1>4. CASE killBegin
  BY <1>4 DEF killBegin, Promise!Stop
<1>5. CASE killNotify \/ killClear
  BY <1>5 DEF killNotify, killClear
<1>6. CASE killJoin
  BY <1>6 DEF killJoin, Promise!Join
<1>7. CASE killReset
  BY <1>7 DEF killReset, Promise!Reset
<1>8. CASE killUninit
  BY <1>8 DEF killUninit, Promise!Down
<1> QED
  BY <1>2, <1>3, <1>4, <1>5, <1>6, <1>7, <1>8 DEF init, kill
(* The network thread executes calls only in a phase that serves.          *)
LEMMA RunPromise ==
  ASSUME TypeOK, ManagerInv, PhaseInv, CallInv, run \/ SpuriousWakeup
  PROVE  [Promise!Next]_(Promise!vars)
<1>1. UNCHANGED <<m_running, m_initialized, kpc, cpc>>
  BY DEF run, SpuriousWakeup, LockAndTest, WaitForWork, Loop, pollFunctionCalls, CheckIdle
<1>2. CASE UNCHANGED <<m_SocketClientsMap, ready>>
  BY <1>1, <1>2 DEF Promise!vars
<1>3. CASE pollFunctionCalls /\ UNCHANGED ready
  <2>1. CASE UNCHANGED m_SocketClientsMap
    BY <1>2, <1>3, <2>1
  <2>2. CASE pc = "calls" /\ m_SocketClientsMap' \in BOOLEAN
    <3>1. Phase \in {"up", "stopping"} /\ UNCHANGED Phase
      BY <1>1, <2>2 DEF ManagerInv, ThreadInv, PhaseInv, Phase, TypeOK
    <3>2. UNCHANGED CallState
      BY <1>1, <1>3 DEF CallState
    <3>3. Promise!Execute
      BY <2>2, <3>1, <3>2 DEF Promise!Execute, Promise!Serving, Phase, CallState
    <3> QED
      BY <3>3 DEF Promise!Next
  <2> QED
    BY <1>3, <2>1, <2>2 DEF pollFunctionCalls
<1>4. CASE pollFunctionCalls /\ ~ UNCHANGED ready
  <2>1. /\ pc = "calls" /\ m_FunctionCalls # <<>> /\ Head(m_FunctionCalls) \in Client
        /\ m_SocketClientsMap' \in BOOLEAN /\ ready' = ready \cup {Head(m_FunctionCalls)}
    BY <1>4 DEF pollFunctionCalls
  <2>2. PICK c \in Client : c = Head(m_FunctionCalls)
    BY <2>1
  <2>3. Phase \in {"up", "stopping"} /\ UNCHANGED Phase
    BY <1>1, <2>1 DEF ManagerInv, ThreadInv, PhaseInv, Phase, TypeOK
  <2>4. cpc[c] \in {"notify", "get"} /\ c \notin ready
    <3>1. 1 \in 1..Len(m_FunctionCalls) /\ c = m_FunctionCalls[1]
      BY <2>1, <2>2 DEF TypeOK
    <3> QED
      BY <3>1 DEF CallInv
  <2>5. CallState[c] = "waiting" /\ CallState' = [CallState EXCEPT ![c] = "answered"]
    BY <1>1, <2>1, <2>2, <2>4 DEF CallState
  <2>6. Promise!Answer(c)
    BY <2>1, <2>3, <2>5 DEF Promise!Answer, Promise!Serving, Promise!Move, Phase, CallState
  <2> QED
    BY <2>6 DEF Promise!Next
<1> QED
  BY <1>2, <1>3, <1>4 DEF run, SpuriousWakeup, LockAndTest, WaitForWork, Loop, CheckIdle

(* A client's steps show as a call made and an answer taken.               *)
LEMMA ClientPromise ==
  ASSUME TypeOK, CallInv, NEW c \in Client, call(c) \/ executeFunktion(c)
  PROVE  [Promise!Next]_(Promise!vars)
<1>1. UNCHANGED <<m_running, m_initialized, kpc, m_SocketClientsMap>>
  BY DEF call, executeFunktion, push, executeNotify, get
<1>2. UNCHANGED Phase
  BY <1>1 DEF Phase
<1>3. cpc \in [Client \cup Poster -> CallerState]
  BY DEF TypeOK, CallerState
<1>4. CASE call(c)
  <2>1. c \notin ready /\ cpc[c] = "idle" /\ cpc' = [cpc EXCEPT ![c] = "push"]
        /\ UNCHANGED ready
    BY <1>4 DEF call, Move, CallInv
  <2>2. CallState[c] = "idle" /\ CallState' = [CallState EXCEPT ![c] = "waiting"]
    BY <1>3, <2>1 DEF CallState
  <2>3. Phase # "down"
    BY <1>4 DEF call, Phase
  <2>4. Promise!Call(c)
    BY <1>1, <1>2, <2>2, <2>3 DEF Promise!Call, Promise!Move, Phase, CallState
  <2> QED
    BY <2>4 DEF Promise!Next
<1>5. CASE push(c) \/ executeNotify(c)
  <2>1. UNCHANGED ready /\ \A d \in Client : (cpc'[d] = "idle") = (cpc[d] = "idle")
    BY <1>3, <1>5 DEF push, executeNotify, Move
  <2>2. UNCHANGED CallState
    BY <2>1, SameCalls
  <2> QED
    BY <1>1, <1>2, <2>2 DEF Promise!vars, Phase, CallState
<1>6. CASE get(c)
  <2>1. c \in ready /\ cpc[c] = "get" /\ cpc' = [cpc EXCEPT ![c] = "idle"]
        /\ ready' = ready \ {c}
    BY <1>6 DEF get, Move
  <2>2. CallState[c] = "answered" /\ CallState' = [CallState EXCEPT ![c] = "idle"]
    BY <1>3, <2>1 DEF CallState
  <2>3. Promise!Return(c)
    BY <1>1, <1>2, <2>2 DEF Promise!Return, Promise!Move, Phase, CallState
  <2> QED
    BY <2>3 DEF Promise!Next
<1> QED
  BY <1>4, <1>5, <1>6 DEF executeFunktion

(* A listening thread's report shows nothing to the callers.               *)
LEMMA PosterPromise ==
  ASSUME TypeOK, NEW p \in Poster, polled(p) \/ ConnectionServed(p)
  PROVE  UNCHANGED Promise!vars
<1>1. UNCHANGED <<m_running, m_initialized, kpc, m_SocketClientsMap, ready>>
  BY DEF polled, ConnectionServed, servedNotify, servedPush
<1>2. \A d \in Client : cpc'[d] = cpc[d]
  BY ManagerAssumption DEF TypeOK, polled, ConnectionServed, servedNotify, servedPush, Move
<1>3. UNCHANGED CallState
  BY <1>1, <1>2 DEF CallState
<1> QED
  BY <1>1, <1>3 DEF Promise!vars, CallState

(* The manager keeps its promise: each call is executed at most once, by a *)
(* thread that has not been joined, and answered to the client that made   *)
(* it, however clients, kill and the next init interleave.                 *)
THEOREM PromiseCorrect == Spec => PromiseKept
<1>1. Init => Promise!Init /\ PhaseInv /\ CallInv
  <2> SUFFICES ASSUME Init PROVE Promise!Init /\ PhaseInv /\ CallInv
    OBVIOUS
  <2>1. Promise!Init
    BY DEF Init, Promise!Init
  <2>2. PhaseInv
    BY DEF Init, PhaseInv
  <2>3. CallInv
    BY DEF Init, CallInv
  <2> QED
    BY <2>1, <2>2, <2>3
<1>2. TypeOK /\ ManagerInv /\ PhaseInv /\ CallInv /\ [Next]_vars => PhaseInv' /\ CallInv'
  BY PhaseNext, CallNext
<1>3. TypeOK /\ ManagerInv /\ PhaseInv /\ CallInv /\ [Next]_vars => [Promise!Next]_(Promise!vars)
  <2>1. UNCHANGED vars => UNCHANGED Promise!vars
    BY DEF vars, Promise!vars
  <2> QED
    BY <2>1, ControlPromise, RunPromise, ClientPromise, PosterPromise DEF Next
<1> QED
  BY <1>1, <1>2, <1>3, TypeCorrect, ManagerCorrect, PTL DEF Spec, PromiseKept, Promise!Spec
=============================================================================
