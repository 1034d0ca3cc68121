--------------------------- MODULE ThreadPool_proof ---------------------------
(***************************************************************************)
(* Proofs about module ThreadPool, for any workers and clients and any     *)
(* number of tasks.  The lemmas named ...Always are about PoolSafety, so   *)
(* they hold of a pool under any scheduling, and in any program that takes *)
(* only the pool's steps.                                                  *)
(***************************************************************************)
EXTENDS ThreadPool, FiniteSetTheorems, SequenceTheorems, TLAPS

(* An assignment to the front of a queue of tasks, front being moved from. *)
LEMMA FrontMoved ==
  ASSUME NEW S, NEW q \in Seq(S), q # <<>>, NEW e \in S
  PROVE  /\ [q EXCEPT ![1] = e] \in Seq(S) /\ Len([q EXCEPT ![1] = e]) = Len(q)
         /\ \A i \in 1..Len(q) : [q EXCEPT ![1] = e][i] = IF i = 1 THEN e ELSE q[i]
<1> DEFINE r == [q EXCEPT ![1] = e]
<1>1. Len(q) \in Nat /\ q \in [1..Len(q) -> S]
  OBVIOUS
<1>2. r \in [1..Len(q) -> S]
  BY <1>1
<1>3. r \in Seq(S) /\ Len(r) = Len(q)
  BY <1>1, <1>2
<1> QED
  BY <1>1, <1>3

(* The types at the start. *)
LEMMA TypeInit == PoolInit => PoolTypeOK
<1> SUFFICES ASSUME PoolInit PROVE PoolTypeOK
  OBVIOUS
<1>1. m_Tasks \in Seq(Task \cup {NoTask}) /\ nextTask \in 1..(MaxTasks + 1)
  BY PoolAssumption DEF PoolInit
<1> QED
  BY <1>1 DEF PoolInit, PoolTypeOK

(* Every step keeps the types. *)
LEMMA TypeNext == PoolTypeOK /\ [PoolNext]_poolVars => PoolTypeOK'
<1> SUFFICES ASSUME PoolTypeOK, [PoolNext]_poolVars PROVE PoolTypeOK'
  OBVIOUS
<1> USE PoolAssumption DEF PoolTypeOK, Task, NoTask, Goto, MoveClient, Die, workers, clients, locks, outcome
<1>1. ASSUME NEW w \in Worker, Lock(w) PROVE PoolTypeOK'
  BY <1>1 DEF Lock
<1>2. ASSUME NEW w \in Worker, Test(w) PROVE PoolTypeOK'
  BY <1>2 DEF Test
<1>3. ASSUME NEW w \in Worker, Sleep(w) \/ SpuriousWakeup(w) PROVE PoolTypeOK'
  BY <1>3 DEF Sleep, SpuriousWakeup
<1>4. ASSUME NEW w \in Worker, Take(w) PROVE PoolTypeOK'
  <2>1. CASE Undefined(w)
    <3>1. m_Tasks # <<>> => Head(m_Tasks) \in Task \cup {NoTask}
      OBVIOUS
    <3>2. CASE Torn(w)
      BY <3>1, <3>2 DEF Torn
    <3> QED
      BY <2>1, <3>2 DEF Undefined
  <2>2. CASE Front(w)
    <3>1. Head(m_Tasks) \in Task \cup {NoTask} /\ m_Tasks' \in Seq(Task \cup {NoTask})
      BY <2>2, FrontMoved DEF Front
    <3> QED
      BY <2>2, <3>1 DEF Front, TouchQueue
  <2>3. CASE Pop(w)
    BY <2>3 DEF Pop, TouchQueue
  <2> QED
    BY <1>4, <2>1, <2>2, <2>3 DEF Take
<1>5. ASSUME NEW w \in Worker, Unlock(w) PROVE PoolTypeOK'
  BY <1>5 DEF Unlock
<1>6. ASSUME NEW w \in Worker, RunTask(w) PROVE PoolTypeOK'
  BY <1>6 DEF RunTask
<1>7. ASSUME NEW w \in Worker, Exit(w) PROVE PoolTypeOK'
  BY <1>7 DEF Exit
<1>8. ASSUME NEW c \in Client, assignTask(c) PROVE PoolTypeOK'
  BY <1>8 DEF assignTask
<1>9. ASSUME NEW c \in Client, push(c) PROVE PoolTypeOK'
  <2>1. m_Tasks' \in Seq(Task \cup {NoTask})
    BY <1>9 DEF push
  <2> QED
    BY <1>9, <2>1 DEF push, TouchQueue
<1>10. ASSUME NEW c \in Client, assignNotify(c) PROVE PoolTypeOK'
  BY <1>10 DEF assignNotify, notify_one, Asleep
<1>11. ASSUME DtorClearRunning PROVE PoolTypeOK'
  BY <1>11 DEF DtorClearRunning
<1>12. ASSUME PoolDtor PROVE PoolTypeOK'
  BY <1>12 DEF PoolDtor, DtorNotify, DtorJoin, notify_all, Asleep
<1>13. CASE UNCHANGED poolVars
  BY <1>13 DEF poolVars
<1> QED
  BY <1>1, <1>2, <1>3, <1>4, <1>5, <1>6, <1>7, <1>8, <1>9, <1>10, <1>11, <1>12, <1>13
     DEF PoolNext, workerLoop, PoolClient

LEMMA TypeAlways == PoolSafety => []PoolTypeOK
BY TypeInit, TypeNext, PTL DEF PoolSafety

(* Types are right in every state: no task is invented. *)
THEOREM PoolTypeCorrect == PoolSpec => []PoolTypeOK
BY TypeAlways, PTL DEF PoolSpec

(* ~ThreadPool has joined its workers when it returns. *)
LEMMA JoinedAlways == PoolSafety => [](dpc = "dead" => \A w \in Worker : wpc[w] = "done")
<1> DEFINE Joined == dpc = "dead" => \A w \in Worker : wpc[w] = "done"
<1>1. PoolInit => Joined
  BY DEF PoolInit
<1>2. PoolTypeOK /\ Joined /\ [PoolNext]_poolVars => Joined'
  <2> SUFFICES ASSUME PoolTypeOK, Joined, [PoolNext]_poolVars PROVE Joined'
    OBVIOUS
  <2> USE DEF Goto, Die, workers
  <2>1. ASSUME NEW w \in Worker, workerLoop(w) \/ SpuriousWakeup(w) PROVE Joined'
    <3>1. wpc[w] # "done" /\ UNCHANGED dpc
      BY <2>1 DEF workerLoop, SpuriousWakeup, Lock, Test, Sleep, Take, Undefined, Torn, Front, Pop,
                  Unlock, RunTask, Exit
    <3> QED
      BY <3>1
  <2>2. ASSUME NEW c \in Client, assignTask(c) \/ PoolClient(c) PROVE Joined'
    BY <2>2 DEF assignTask, PoolClient, push, assignNotify, notify_one, Asleep
  <2>3. CASE DtorClearRunning \/ PoolDtor \/ UNCHANGED poolVars
    BY <2>3 DEF DtorClearRunning, PoolDtor, DtorNotify, DtorJoin, poolVars
  <2> QED
    BY <2>1, <2>2, <2>3 DEF PoolNext
<1> QED
  BY <1>1, <1>2, TypeAlways, PTL DEF PoolSafety

-----------------------------------------------------------------------------
(* A worker that has come back stays so, or dies: if none has after a step *)
(* none had before it.                                                     *)
LEMMA BackStays == PoolTypeOK /\ PoolNext /\ NoneBack' => NoneBack
<1> SUFFICES ASSUME PoolTypeOK, PoolNext, NEW v \in Worker, Back(v) PROVE Back(v)'
  BY DEF NoneBack
<1> USE DEF Back, PoolTypeOK, Goto, Die, workers, locks, outcome
<1>1. ASSUME NEW w \in Worker, workerLoop(w) \/ SpuriousWakeup(w) PROVE Back(v)'
  BY <1>1 DEF workerLoop, SpuriousWakeup, Lock, Test, Sleep, Take, Undefined, Torn, Front, Pop,
              Unlock, RunTask, Exit
<1>2. ASSUME NEW c \in Client, assignTask(c) \/ PoolClient(c) PROVE Back(v)'
  BY <1>2 DEF assignTask, PoolClient, push, assignNotify, notify_one, Asleep
<1>3. ASSUME DtorClearRunning \/ PoolDtor PROVE Back(v)'
  BY <1>3 DEF DtorClearRunning, PoolDtor, DtorNotify, DtorJoin, notify_all, Asleep
<1> QED
  BY <1>1, <1>2, <1>3 DEF PoolNext

Sound == Holding /\ Filled /\ failed = "none" /\ ~raced /\ NoneBack

(* Whoever is on the queue is there alone. *)
LEMMA Alone ==
  ASSUME PoolTypeOK, Sound, NEW x \in Touching
  PROVE  mutex = x /\ Touching = {x}
<1>1. \A y \in Touching : mutex = y
  BY DEF Sound, NoneBack, Back, Holding, Inside, Touching
<1> QED
  BY <1>1

LEMMA NotUndefined == ASSUME PoolTypeOK, Sound, NEW w \in Worker PROVE ~Undefined(w)
<1> SUFFICES ASSUME Undefined(w) PROVE FALSE
  OBVIOUS
<1>1. m_Tasks # <<>> /\ w \in Touching
  BY DEF Undefined, Touching, Sound, Filled
<1>2. Touching = {w}
  BY <1>1, Alone
<1> QED
  BY <1>1, <1>2 DEF Undefined

(* What the steps of a worker keep, as long as no worker has come back. *)
LEMMA WorkerKeeps ==
  ASSUME PoolTypeOK, Sound, NEW w \in Worker, workerLoop(w) \/ SpuriousWakeup(w), NoneBack'
  PROVE  (Holding /\ Filled /\ failed = "none" /\ ~raced)'
<1> USE PoolAssumption DEF PoolTypeOK, Sound, NoneBack, Back, Holding, Filled, Inside, Task,
        NoTask, Goto, Die, workers, clients, locks, outcome
<1>1. CASE Lock(w)
  BY <1>1 DEF Lock
<1>2. CASE Test(w)
  <2>1. /\ wpc[w] \in {"while", "wait", "check"}
        /\ wpc' = [wpc EXCEPT ![w] = wpc'[w]]
        /\ wpc'[w] \in {"wait", "exit", "check", "block", "front"}
        /\ wpc'[w] = "front" \/ (wpc'[w] = "check" /\ m_running) => m_Tasks # <<>>
    BY <1>2 DEF Test
  <2>2. UNCHANGED <<m_running, m_Tasks, mutex, owns, task, cpc, failed, raced>>
    BY <1>2 DEF Test
  <2>3. Holding'
    BY <2>1, <2>2
  <2>4. Filled'
    BY <2>1, <2>2
  <2> QED
    BY <2>2, <2>3, <2>4
<1>3. CASE Sleep(w)
  <2>1. Holding'
    BY <1>3 DEF Sleep
  <2>2. Filled'
    BY <1>3 DEF Sleep
  <2> QED
    BY <1>3, <2>1, <2>2 DEF Sleep
<1>10. CASE SpuriousWakeup(w)
  <2>1. Holding'
    BY <1>10 DEF SpuriousWakeup
  <2>2. Filled'
    BY <1>10 DEF SpuriousWakeup
  <2> QED
    BY <1>10, <2>1, <2>2 DEF SpuriousWakeup
<1>4. CASE Undefined(w)
  BY <1>4, NotUndefined
<1>5. CASE Front(w)
  <2>1. mutex = w /\ \A v \in Worker : wpc[v] = "pop" => FALSE
    BY <1>5 DEF Front
  <2>2. /\ Len(m_Tasks') = Len(m_Tasks) /\ Len(m_Tasks) \in Nat \ {0}
        /\ \A i \in 1..Len(m_Tasks) : m_Tasks'[i] = IF i = 1 THEN NoTask ELSE m_Tasks[i]
    BY <1>5, FrontMoved DEF Front
  <2>3. task'[w] = m_Tasks[1] /\ m_Tasks[1] \in Task
    BY <1>5, <2>1, <2>2 DEF Front
  <2>4. Holding'
    BY <1>5 DEF Front
  <2>5. Filled'
    BY <1>5, <2>1, <2>2, <2>3 DEF Front
  <2>6. Touching = {w}
    BY <1>5, Alone DEF Front, Touching
  <2> QED
    BY <1>5, <2>4, <2>5, <2>6 DEF Front, TouchQueue
<1>6. CASE Pop(w)
  <2>1. mutex = w /\ m_Tasks # <<>> /\ \A v \in Worker \ {w} : wpc[v] \notin {"front", "pop", "check"}
    BY <1>6 DEF Pop
  <2>2. /\ Len(m_Tasks') = Len(m_Tasks) - 1
        /\ \A i \in 1..Len(m_Tasks') : m_Tasks'[i] = m_Tasks[i + 1]
    BY <1>6 DEF Pop
  <2>3. \A i \in 1..Len(m_Tasks') : m_Tasks'[i] # NoTask
    BY <2>2
  <2>4. Holding'
    BY <1>6 DEF Pop
  <2>5. Filled'
    BY <1>6, <2>1, <2>3 DEF Pop
  <2>6. Touching = {w}
    BY <1>6, Alone DEF Pop, Touching
  <2> QED
    BY <1>6, <2>4, <2>5, <2>6 DEF Pop, TouchQueue
<1>7. CASE Unlock(w)
  BY <1>7 DEF Unlock
<1>8. CASE RunTask(w)
  BY <1>8 DEF RunTask
<1>9. CASE Exit(w)
  BY <1>9 DEF Exit
<1> QED
  BY <1>1, <1>2, <1>3, <1>4, <1>5, <1>6, <1>7, <1>8, <1>9, <1>10 DEF workerLoop, Take

(* ... and the steps of clients and of the destructor. *)
LEMMA OthersKeep ==
  ASSUME PoolTypeOK, Sound,
         \/ \E c \in Client : assignTask(c) \/ PoolClient(c)
         \/ DtorClearRunning \/ PoolDtor
  PROVE  (Holding /\ Filled /\ failed = "none" /\ ~raced)'
<1> USE PoolAssumption DEF PoolTypeOK, Sound, NoneBack, Back, Holding, Filled, Inside, Task,
        NoTask, MoveClient, Asleep, workers, clients, locks, outcome
<1>1. ASSUME NEW c \in Client, assignTask(c) PROVE (Holding /\ Filled /\ failed = "none" /\ ~raced)'
  BY <1>1 DEF assignTask
<1>2. ASSUME NEW c \in Client, push(c) PROVE (Holding /\ Filled /\ failed = "none" /\ ~raced)'
  <2>1. mutex = c /\ \A w \in Worker : wpc[w] \notin {"front", "pop", "check"}
    BY <1>2 DEF push
  <2>2. c \in Touching
    BY <1>2 DEF push, Touching
  <2>3. Touching = {c}
    BY <2>2, Alone
  <2>4. m_Tasks' = Append(m_Tasks, ctask[c]) /\ Touching = {c}
    BY <1>2, <2>3 DEF push
  <2>5. /\ Len(m_Tasks') = Len(m_Tasks) + 1 /\ m_Tasks'[Len(m_Tasks) + 1] # NoTask
        /\ \A i \in 1..Len(m_Tasks) : m_Tasks'[i] = m_Tasks[i]
    BY <1>2, <2>4 DEF push
  <2>6. Holding'
    BY <1>2 DEF push
  <2>7. UNCHANGED <<m_running, wpc, task>> /\ Len(m_Tasks) \in Nat
    BY <1>2 DEF push
  <2>8. \A i \in 1..Len(m_Tasks') : i \in 1..Len(m_Tasks) \/ i = Len(m_Tasks) + 1
    BY <2>5, <2>7
  <2>9. \A i \in 1..Len(m_Tasks') : m_Tasks'[i] = NoTask => i = 1 /\ \E w \in Worker : wpc[w] = "pop"
    BY <2>5, <2>8
  <2>10. m_Tasks' # <<>>
    BY <2>4
  <2>11. Filled'
    BY <2>7, <2>9, <2>10
  <2> QED
    BY <1>2, <2>6, <2>11, <2>4 DEF push, TouchQueue
<1>3. ASSUME NEW c \in Client, assignNotify(c) PROVE (Holding /\ Filled /\ failed = "none" /\ ~raced)'
  BY <1>3 DEF assignNotify, notify_one
<1>4. CASE DtorClearRunning
  BY <1>4 DEF DtorClearRunning
<1>5. CASE PoolDtor
  BY <1>5 DEF PoolDtor, DtorNotify, DtorJoin, notify_all
<1> QED
  BY <1>1, <1>2, <1>3, <1>4, <1>5 DEF PoolClient

(* Every step keeps the invariant. *)
LEMMA PoolInvNext == PoolTypeOK /\ PoolInv /\ [PoolNext]_poolVars => PoolInv'
<1> SUFFICES ASSUME PoolTypeOK, PoolInv, [PoolNext]_poolVars, NoneBack'
             PROVE  (Holding /\ Filled /\ failed = "none" /\ ~raced)'
  BY DEF PoolInv
<1>1. CASE UNCHANGED poolVars
  BY <1>1 DEF poolVars, workers, clients, locks, outcome, PoolInv, NoneBack, Back, Holding, Filled
<1>2. CASE PoolNext
  <2>1. Sound
    BY <1>2, BackStays DEF PoolInv, Sound
  <2> QED
    BY <1>2, <2>1, WorkerKeeps, OthersKeep DEF PoolNext
<1> QED
  BY <1>1, <1>2

(* The invariant at the start. *)
LEMMA PoolInvInit == PoolInit => PoolInv
BY PoolAssumption DEF PoolInit, PoolInv, Holding, Filled, Inside, NoTask

(* Until a worker comes back, who is in a critical section has the mutex,  *)
(* a worker about to take a task finds one, and nobody has died.           *)
LEMMA InvAlways == PoolSafety => []PoolInv
BY PoolInvInit, PoolInvNext, TypeAlways, PTL DEF PoolSafety

(* Who touches the queue has the mutex, so there is one. *)
LEMMA InvExcludes == PoolTypeOK /\ PoolInv => Exclusion
<1> SUFFICES ASSUME PoolTypeOK, PoolInv, NoneBack
             PROVE  (\A x, y \in Touching : x = y) /\ failed = "none" /\ ~raced
  BY DEF Exclusion
<1>1. \A x \in Touching : mutex = x
  BY DEF PoolInv, Holding, Inside, Touching, NoneBack, Back
<1> QED
  BY <1>1 DEF PoolInv

LEMMA ExclusionAlways == PoolSafety => []Exclusion
BY InvAlways, TypeAlways, InvExcludes, PTL

(* Until a worker comes back from a task without its lock, the mutex does  *)
(* its work: one thread at a time touches the queue, no front or pop of an *)
(* empty queue and no empty task ends the program.                         *)
THEOREM ExclusionCorrect == PoolSpec => []Exclusion
BY ExclusionAlways, PTL DEF PoolSpec

-----------------------------------------------------------------------------
(* Where tasks are, with or without the mutex, as long as no two threads   *)
(* have been on the queue at a time.                                       *)

(* No task is in two places, in one twice, or not yet given out. *)
QueuedOnce ==
  \A i \in 1..Len(m_Tasks) : m_Tasks[i] # NoTask =>
    /\ m_Tasks[i] < nextTask /\ m_Tasks[i] \notin ran
    /\ \A w \in Worker : task[w] # m_Tasks[i]
    /\ \A j \in 1..Len(m_Tasks) : m_Tasks[i] = m_Tasks[j] => i = j
HeldOnce ==
  \A w \in Worker : task[w] # NoTask =>
    /\ task[w] < nextTask /\ task[w] \notin ran
    /\ \A v \in Worker : task[v] = task[w] => v = w
ComingOnce ==
  \A c \in Client : cpc[c] = "push" =>
    /\ ctask[c] < nextTask /\ ctask[c] \notin ran
    /\ \A w \in Worker : task[w] # ctask[c]
    /\ \A i \in 1..Len(m_Tasks) : m_Tasks[i] # ctask[c]
    /\ \A d \in Client : cpc[d] = "push" /\ ctask[d] = ctask[c] => d = c
RanBefore == \A t \in ran : t < nextTask
PlacesInv == QueuedOnce /\ HeldOnce /\ ComingOnce /\ RanBefore

(* Every step moves a task from one place to another, or drops it. *)
LEMMA PlacesNext ==
  ASSUME PoolTypeOK, PlacesInv, [PoolNext]_poolVars, ~raced'
  PROVE  PlacesInv'
<1> USE DEF PoolTypeOK, PlacesInv, QueuedOnce, HeldOnce, ComingOnce, RanBefore, Task, NoTask,
        Goto, MoveClient, Die, workers, clients, locks, outcome
<1>1. ASSUME UNCHANGED <<m_Tasks, task, ran, cpc, ctask, nextTask>> PROVE PlacesInv'
  BY <1>1
<1>2. ASSUME NEW w \in Worker, Lock(w) \/ Test(w) \/ Sleep(w) \/ SpuriousWakeup(w) \/ Undefined(w)
                               \/ Unlock(w) \/ Exit(w)
      PROVE  PlacesInv'
  BY <1>1, <1>2 DEF Lock, Test, Sleep, SpuriousWakeup, Undefined, Torn, Unlock, Exit
<1>3. ASSUME NEW w \in Worker, Front(w) PROVE PlacesInv'
  <2>1. /\ Len(m_Tasks') = Len(m_Tasks) /\ Len(m_Tasks) \in Nat \ {0}
        /\ \A i \in 1..Len(m_Tasks) : m_Tasks'[i] = IF i = 1 THEN NoTask ELSE m_Tasks[i]
    BY <1>3, FrontMoved DEF Front
  <2>2. task' = [task EXCEPT ![w] = m_Tasks[1]] /\ m_Tasks[1] \in Task \cup {NoTask}
    BY <1>3, <2>1 DEF Front
  <2>3. UNCHANGED <<ran, cpc, ctask, nextTask>>
    BY <1>3 DEF Front
  <2>4. QueuedOnce'
    BY <2>1, <2>2, <2>3
  <2>5. HeldOnce'
    BY <2>1, <2>2, <2>3
  <2>6. ComingOnce'
    BY <2>1, <2>2, <2>3
  <2> QED
    BY <2>3, <2>4, <2>5, <2>6
<1>4. ASSUME NEW w \in Worker, Pop(w) PROVE PlacesInv'
  <2>1. /\ Len(m_Tasks') = Len(m_Tasks) - 1 /\ Len(m_Tasks) \in Nat \ {0}
        /\ \A i \in 1..Len(m_Tasks') : m_Tasks'[i] = m_Tasks[i + 1]
    BY <1>4 DEF Pop
  <2>2. UNCHANGED <<task, ran, cpc, ctask, nextTask>>
    BY <1>4 DEF Pop
  <2>3. \A i \in 1..Len(m_Tasks') : i + 1 \in 1..Len(m_Tasks)
    BY <2>1
  <2>4. QueuedOnce'
    <3> SUFFICES ASSUME NEW i \in 1..Len(m_Tasks'), m_Tasks'[i] # NoTask
                 PROVE  /\ m_Tasks'[i] < nextTask /\ m_Tasks'[i] \notin ran
                        /\ \A v \in Worker : task[v] # m_Tasks'[i]
                        /\ \A j \in 1..Len(m_Tasks') : m_Tasks'[i] = m_Tasks'[j] => i = j
      BY <2>2
    <3>1. \A j \in 1..Len(m_Tasks') : m_Tasks[i + 1] = m_Tasks[j + 1] => i + 1 = j + 1
      BY <2>1, <2>3
    <3>2. /\ m_Tasks[i + 1] < nextTask /\ m_Tasks[i + 1] \notin ran
          /\ \A v \in Worker : task[v] # m_Tasks[i + 1]
      BY <2>1, <2>3
    <3>3. \A j \in 1..Len(m_Tasks') : i + 1 = j + 1 => i = j
      BY <2>1
    <3> QED
      BY <2>1, <3>1, <3>2, <3>3
  <2>5. ComingOnce'
    BY <2>1, <2>2, <2>3
  <2> QED
    BY <2>2, <2>4, <2>5
<1>5. ASSUME NEW w \in Worker, RunTask(w) PROVE PlacesInv'
  <2>1. CASE Die("terminate")
    BY <2>1, <1>1
  <2>2. CASE /\ task[w] # NoTask /\ ran' = ran \cup {task[w]} /\ task' = [task EXCEPT ![w] = NoTask]
             /\ UNCHANGED <<m_Tasks, cpc, ctask, nextTask>>
    <3>1. QueuedOnce'
      BY <2>2
    <3>2. HeldOnce'
      BY <2>2
    <3>3. ComingOnce'
      BY <2>2
    <3> QED
      BY <2>2, <3>1, <3>2, <3>3
  <2> QED
    BY <1>5, <2>1, <2>2 DEF RunTask
<1>6. ASSUME NEW c \in Client, assignTask(c) PROVE PlacesInv'
  BY <1>6 DEF assignTask
<1>7. ASSUME NEW c \in Client, push(c) PROVE PlacesInv'
  <2>7. m_Tasks' = Append(m_Tasks, ctask[c])
    BY <1>7 DEF push, TouchQueue
  <2>1. /\ Len(m_Tasks') = Len(m_Tasks) + 1 /\ m_Tasks'[Len(m_Tasks) + 1] = ctask[c]
        /\ \A i \in 1..Len(m_Tasks) : m_Tasks'[i] = m_Tasks[i]
    BY <1>7, <2>7 DEF push
  <2>2. UNCHANGED <<task, ran, ctask, nextTask>> /\ cpc[c] = "push"
        /\ cpc' = [cpc EXCEPT ![c] = "notify"]
    BY <1>7 DEF push
  <2>3. \A i \in 1..Len(m_Tasks') : i \in 1..Len(m_Tasks) \/ i = Len(m_Tasks) + 1
    BY <2>1
  <2>6. /\ ctask[c] < nextTask /\ ctask[c] \notin ran
        /\ \A w \in Worker : task[w] # ctask[c]
        /\ \A i \in 1..Len(m_Tasks) : m_Tasks[i] # ctask[c]
    BY <2>2
  <2>4. QueuedOnce'
    <3> SUFFICES ASSUME NEW i \in 1..Len(m_Tasks'), m_Tasks'[i] # NoTask
                 PROVE  /\ m_Tasks'[i] < nextTask /\ m_Tasks'[i] \notin ran
                        /\ \A v \in Worker : task[v] # m_Tasks'[i]
                        /\ \A j \in 1..Len(m_Tasks') : m_Tasks'[i] = m_Tasks'[j] => i = j
      BY <2>2
    <3>1. CASE i \in 1..Len(m_Tasks)
      BY <3>1, <2>1, <2>3, <2>6
    <3>2. CASE i = Len(m_Tasks) + 1
      BY <3>2, <2>1, <2>3, <2>6
    <3> QED
      BY <3>1, <3>2, <2>3
  <2>5. ComingOnce'
    BY <2>1, <2>2, <2>3
  <2> QED
    BY <2>2, <2>4, <2>5
<1>8. ASSUME NEW c \in Client, assignNotify(c) PROVE PlacesInv'
  BY <1>8 DEF assignNotify
<1>9. CASE DtorClearRunning \/ PoolDtor
  BY <1>9, <1>1 DEF DtorClearRunning, PoolDtor, DtorNotify, DtorJoin
<1>10. CASE UNCHANGED poolVars
  BY <1>10, <1>1 DEF poolVars
<1> QED
  BY <1>2, <1>3, <1>4, <1>5, <1>6, <1>7, <1>8, <1>9, <1>10 DEF PoolNext, workerLoop, Take, PoolClient

(* Nothing is anywhere at the start. *)
LEMMA PlacesInit == PoolInit => PlacesInv
BY DEF PoolInit, PlacesInv, QueuedOnce, HeldOnce, ComingOnce, RanBefore, NoTask

(* Once two threads have been on the queue at a time, they have. *)
LEMMA RacedStays == [PoolNext]_poolVars /\ raced => raced'
<1> SUFFICES ASSUME [PoolNext]_poolVars, raced PROVE raced'
  OBVIOUS
<1> USE DEF outcome, Die, TouchQueue
<1>1. ASSUME NEW w \in Worker, workerLoop(w) \/ SpuriousWakeup(w) PROVE raced'
  BY <1>1 DEF workerLoop, SpuriousWakeup, Lock, Test, Sleep, Take, Undefined, Torn, Front, Pop,
              Unlock, RunTask, Exit
<1>2. ASSUME NEW c \in Client, assignTask(c) \/ PoolClient(c) PROVE raced'
  BY <1>2 DEF assignTask, PoolClient, push, assignNotify
<1>3. CASE DtorClearRunning \/ PoolDtor \/ UNCHANGED poolVars
  BY <1>3 DEF DtorClearRunning, PoolDtor, DtorNotify, DtorJoin, poolVars
<1> QED
  BY <1>1, <1>2, <1>3 DEF PoolNext

LEMMA NeverTwiceAlways == PoolSafety => []NeverTwice
<1> DEFINE Inv == PoolInv /\ (raced \/ PlacesInv)
<1>1. PoolInit => Inv
  BY PoolInvInit, PlacesInit
<1>2. PoolTypeOK /\ Inv /\ [PoolNext]_poolVars => Inv'
  BY PoolInvNext, PlacesNext, RacedStays
<1>3. PoolTypeOK /\ Inv => NeverTwice
  <2> SUFFICES ASSUME PoolTypeOK, PlacesInv
               PROVE  /\ Held \cap ran = {} /\ QueuedTasks \cap (Held \cup ran) = {}
                      /\ \A v, w \in Worker : task[v] = task[w] /\ task[v] # NoTask => v = w
                      /\ \A i, j \in DOMAIN m_Tasks :
                           m_Tasks[i] = m_Tasks[j] /\ m_Tasks[i] # NoTask => i = j
    BY DEF PoolInv, NeverTwice
  <2> QED
    BY DEF PoolTypeOK, PlacesInv, QueuedOnce, HeldOnce, Held, QueuedTasks, NoTask
<1> QED
  BY <1>1, <1>2, <1>3, TypeAlways, PTL DEF PoolSafety

(* Until a worker comes back no task is held by two workers, or queued or  *)
(* run again after it was taken; nor afterwards, by a worker that takes    *)
(* tasks without the mutex, until two threads are on the queue at a time.  *)
THEOREM NeverTwiceCorrect == PoolSpec => []NeverTwice
BY NeverTwiceAlways, PTL DEF PoolSpec

-----------------------------------------------------------------------------
(* While no worker has come back, every task given out is somewhere.       *)

(* A worker holds a task from front to the end of the run, and front has   *)
(* left an empty place in the queue for pop.                               *)
Somewhere(t) ==
  \/ t \in ran \/ \E w \in Worker : task[w] = t
  \/ \E i \in 1..Len(m_Tasks) : m_Tasks[i] = t
  \/ \E c \in Client : cpc[c] = "push" /\ ctask[c] = t
HandInv == \A w \in Worker : wpc[w] \notin {"pop", "unlock", "run"} => task[w] = NoTask
MovedInv == \A w \in Worker : wpc[w] = "pop" => m_Tasks[1] = NoTask
KeptInv == MovedInv /\ \A t \in 1..(nextTask - 1) : Somewhere(t)

(* A worker's hands are empty but between front and the end of the run. *)
LEMMA HandNext == PoolTypeOK /\ HandInv /\ [PoolNext]_poolVars => HandInv'
<1> SUFFICES ASSUME PoolTypeOK, HandInv, [PoolNext]_poolVars PROVE HandInv'
  OBVIOUS
<1> USE DEF PoolTypeOK, HandInv, NoTask, Goto, Die, workers
<1>1. ASSUME NEW w \in Worker, workerLoop(w) \/ SpuriousWakeup(w) PROVE HandInv'
  BY <1>1 DEF workerLoop, SpuriousWakeup, Lock, Test, Sleep, Take, Undefined, Torn, Front, Pop,
              Unlock, RunTask, Exit
<1>2. ASSUME NEW c \in Client, assignTask(c) \/ PoolClient(c) PROVE HandInv'
  BY <1>2 DEF assignTask, PoolClient, push, assignNotify, notify_one, Asleep
<1>3. CASE DtorClearRunning \/ PoolDtor
  BY <1>3 DEF DtorClearRunning, PoolDtor, DtorNotify, DtorJoin, notify_all, Asleep
<1>4. CASE UNCHANGED poolVars
  BY <1>4 DEF poolVars
<1> QED
  BY <1>1, <1>2, <1>3, <1>4 DEF PoolNext

(* While the mutex protects the queue, no task gets lost on its way. *)
LEMMA KeptNext ==
  ASSUME PoolTypeOK, Sound, HandInv, KeptInv, PoolNext, NoneBack'
  PROVE  KeptInv'
<1> USE PoolAssumption
    DEF PoolTypeOK, HandInv, KeptInv, MovedInv, Somewhere, Task, NoTask, Goto, MoveClient, Die,
        workers, clients, locks, outcome
<1>0. \A v \in Worker : wpc[v] \in {"front", "pop"} => mutex = v
  BY DEF Sound, Holding, Inside, NoneBack, Back
<1>1. ASSUME UNCHANGED <<m_Tasks, task, ran, cpc, ctask, nextTask>>,
             \A v \in Worker : wpc'[v] = "pop" => wpc[v] = "pop"
      PROVE  KeptInv'
  BY <1>1
<1>2. ASSUME NEW w \in Worker, Lock(w) \/ Test(w) \/ Sleep(w) \/ SpuriousWakeup(w) \/ Undefined(w)
                               \/ Unlock(w) \/ Exit(w)
      PROVE  KeptInv'
  <2>1. ~Undefined(w)
    BY NotUndefined
  <2> QED
    BY <1>1, <1>2, <2>1 DEF Lock, Test, Sleep, SpuriousWakeup, Unlock, Exit
<1>3. ASSUME NEW w \in Worker, Front(w) PROVE KeptInv'
  <2>1. /\ Len(m_Tasks') = Len(m_Tasks) /\ Len(m_Tasks) \in Nat \ {0}
        /\ \A i \in 1..Len(m_Tasks) : m_Tasks'[i] = IF i = 1 THEN NoTask ELSE m_Tasks[i]
    BY <1>3, FrontMoved DEF Front
  <2>2. /\ task' = [task EXCEPT ![w] = m_Tasks[1]] /\ task[w] = NoTask
        /\ UNCHANGED <<ran, cpc, ctask, nextTask>>
    BY <1>3, <2>1 DEF Front
  <2>3. MovedInv'
    BY <2>1
  <2>4. ASSUME NEW t \in 1..(nextTask - 1) PROVE Somewhere(t)'
    <3>1. CASE \E i \in 1..Len(m_Tasks) : m_Tasks[i] = t
      <4> PICK i \in 1..Len(m_Tasks) : m_Tasks[i] = t
        BY <3>1
      <4>1. CASE i = 1
        BY <4>1, <2>2
      <4>2. CASE i # 1
        BY <4>2, <2>1
      <4> QED
        BY <4>1, <4>2
    <3>2. CASE \E v \in Worker : task[v] = t
      BY <3>2, <2>2
    <3> QED
      BY <3>1, <3>2, <2>2, <2>4
  <2> QED
    BY <2>2, <2>3, <2>4
<1>4. ASSUME NEW w \in Worker, Pop(w) PROVE KeptInv'
  <2>1. /\ Len(m_Tasks') = Len(m_Tasks) - 1 /\ Len(m_Tasks) \in Nat \ {0}
        /\ \A i \in 1..Len(m_Tasks') : m_Tasks'[i] = m_Tasks[i + 1]
    BY <1>4 DEF Pop
  <2>2. UNCHANGED <<task, ran, cpc, ctask, nextTask>> /\ m_Tasks[1] = NoTask
    BY <1>4 DEF Pop
  <2>3. \A v \in Worker : wpc'[v] # "pop"
    BY <1>4, <1>0 DEF Pop
  <2>4. ASSUME NEW t \in 1..(nextTask - 1) PROVE Somewhere(t)'
    <3>1. CASE \E i \in 1..Len(m_Tasks) : m_Tasks[i] = t
      <4> PICK i \in 1..Len(m_Tasks) : m_Tasks[i] = t
        BY <3>1
      <4>1. i # 1 /\ i - 1 \in 1..Len(m_Tasks') /\ (i - 1) + 1 = i
        BY <2>1, <2>2
      <4>2. m_Tasks'[i - 1] = t
        BY <2>1, <4>1
      <4> QED
        BY <4>1, <4>2
    <3> QED
      BY <3>1, <2>2, <2>4
  <2> QED
    BY <2>2, <2>3, <2>4
<1>5. ASSUME NEW w \in Worker, RunTask(w) PROVE KeptInv'
  <2>1. CASE Die("terminate")
    BY <2>1, <1>1
  <2>2. CASE /\ task[w] # NoTask /\ ran' = ran \cup {task[w]} /\ task' = [task EXCEPT ![w] = NoTask]
             /\ UNCHANGED <<m_Tasks, cpc, ctask, nextTask>> /\ wpc' = [wpc EXCEPT ![w] = "while"]
    BY <2>2
  <2> QED
    BY <1>5, <2>1, <2>2 DEF RunTask
<1>6. ASSUME NEW c \in Client, assignTask(c) PROVE KeptInv'
  <2>1. /\ UNCHANGED <<m_Tasks, task, ran, wpc>> /\ nextTask' = nextTask + 1 /\ cpc[c] = "idle"
        /\ cpc' = [cpc EXCEPT ![c] = "push"] /\ ctask' = [ctask EXCEPT ![c] = nextTask]
    BY <1>6 DEF assignTask
  <2>2. ASSUME NEW t \in 1..(nextTask' - 1) PROVE Somewhere(t)'
    <3>1. CASE t = nextTask
      BY <3>1, <2>1
    <3>2. CASE t # nextTask
      <4>1. t \in 1..(nextTask - 1)
        BY <3>2, <2>1
      <4> QED
        BY <4>1, <2>1
    <3> QED
      BY <3>1, <3>2
  <2> QED
    BY <2>1, <2>2
<1>7. ASSUME NEW c \in Client, push(c) PROVE KeptInv'
  <2>1. /\ Len(m_Tasks') = Len(m_Tasks) + 1 /\ m_Tasks'[Len(m_Tasks) + 1] = ctask[c]
        /\ \A i \in 1..Len(m_Tasks) : m_Tasks'[i] = m_Tasks[i]
    <3>1. c \in Touching
      BY <1>7 DEF push, Touching
    <3>2. Touching = {c}
      BY <3>1, Alone
    <3>3. m_Tasks' = Append(m_Tasks, ctask[c])
      BY <1>7, <3>2 DEF push
    <3> QED
      BY <1>7, <3>3 DEF push
  <2>2. UNCHANGED <<task, ran, ctask, nextTask, wpc>> /\ cpc[c] = "push"
        /\ cpc' = [cpc EXCEPT ![c] = "notify"]
    BY <1>7 DEF push
  <2>3. \A v \in Worker : wpc[v] # "pop"
    BY <1>0, <2>2 DEF Sound, Holding
  <2>4. ASSUME NEW t \in 1..(nextTask - 1) PROVE Somewhere(t)'
    <3>1. CASE ctask[c] = t
      BY <3>1, <2>1
    <3>2. CASE \E i \in 1..Len(m_Tasks) : m_Tasks[i] = t
      BY <3>2, <2>1
    <3> QED
      BY <3>1, <3>2, <2>2, <2>4
  <2> QED
    BY <2>2, <2>3, <2>4
<1>8. ASSUME NEW c \in Client, assignNotify(c) PROVE KeptInv'
  BY <1>8 DEF assignNotify, notify_one, Asleep
<1>9. CASE DtorClearRunning \/ PoolDtor
  BY <1>9, <1>1 DEF DtorClearRunning, PoolDtor, DtorNotify, DtorJoin, notify_all, Asleep
<1> QED
  BY <1>2, <1>3, <1>4, <1>5, <1>6, <1>7, <1>8, <1>9 DEF PoolNext, workerLoop, Take, PoolClient

(* As long as no worker has come back, a task handed over is coming,       *)
(* queued, held by a worker, or run.                                       *)
LEMMA TasksKept == PoolSafety => [](NoneBack => TasksAreKept)
<1> DEFINE Inv == PoolInv /\ (NoneBack => PlacesInv) /\ HandInv /\ (NoneBack => KeptInv)
<1>1. PoolInit => Inv
  <2>1. PoolInit => HandInv /\ KeptInv
    BY DEF PoolInit, HandInv, KeptInv, MovedInv, NoTask
  <2> QED
    BY <2>1, PoolInvInit, PlacesInit
<1>2. PoolTypeOK /\ Inv /\ [PoolNext]_poolVars => Inv'
  <2> SUFFICES ASSUME PoolTypeOK, Inv, [PoolNext]_poolVars, NoneBack' PROVE PlacesInv' /\ KeptInv'
    BY PoolInvNext, HandNext
  <2>1. CASE UNCHANGED poolVars
    <3>1. PlacesInv'
      BY <2>1 DEF poolVars, workers, clients, NoneBack, Back, locks, PlacesInv, QueuedOnce, HeldOnce,
             ComingOnce, RanBefore
    <3> QED
      BY <2>1, <3>1 DEF poolVars, workers, clients, locks, outcome, KeptInv, MovedInv, Somewhere, NoneBack, Back
  <2>2. CASE PoolNext
    <3>1. NoneBack
      BY <2>2, BackStays
    <3>2. Sound
      BY <3>1 DEF PoolInv, Sound
    <3>3. PoolInv'
      BY PoolInvNext
    <3>4. PlacesInv'
      BY <3>1, <3>3, PlacesNext DEF PoolInv
    <3> QED
      BY <2>2, <3>1, <3>2, <3>4, KeptNext
  <2> QED
    BY <2>1, <2>2
<1>3. PoolTypeOK /\ Inv => (NoneBack => TasksAreKept)
  <2> SUFFICES ASSUME PoolTypeOK, Inv, NoneBack
               PROVE  Coming \cup QueuedTasks \cup Held \cup ran = 1..(nextTask - 1)
    BY DEF TasksAreKept
  <2>1. Coming \cup QueuedTasks \cup Held \cup ran \subseteq 1..(nextTask - 1)
    <3> USE DEF PoolTypeOK, Task, NoTask, PlacesInv
    <3>1. \A t \in Task : t < nextTask => t \in 1..(nextTask - 1)
      OBVIOUS
    <3>2. \A c \in Client : cpc[c] = "push" => ctask[c] \in 1..(nextTask - 1)
      BY <3>1 DEF ComingOnce
    <3>3. \A i \in DOMAIN m_Tasks : m_Tasks[i] # NoTask => m_Tasks[i] \in 1..(nextTask - 1)
      BY <3>1 DEF QueuedOnce
    <3>4. \A w \in Worker : task[w] # NoTask => task[w] \in 1..(nextTask - 1)
      BY <3>1 DEF HeldOnce
    <3>5. ran \subseteq 1..(nextTask - 1)
      BY <3>1 DEF RanBefore
    <3> QED
      BY <3>2, <3>3, <3>4, <3>5 DEF Coming, QueuedTasks, Held
  <2>2. ASSUME NEW t \in 1..(nextTask - 1)
        PROVE  t \in Coming \cup QueuedTasks \cup Held \cup ran
    <3>1. t # NoTask
      BY DEF NoTask, PoolTypeOK
    <3>2. DOMAIN m_Tasks = 1..Len(m_Tasks)
      BY DEF PoolTypeOK
    <3>3. Somewhere(t)
      BY DEF KeptInv
    <3> QED
      BY <3>1, <3>2, <3>3 DEF Somewhere, Coming, QueuedTasks, Held
  <2> QED
    BY <2>1, <2>2
<1> QED
  BY <1>1, <1>2, <1>3, TypeAlways, PTL DEF PoolSafety

-----------------------------------------------------------------------------
(* No notification of assignTask is lost before a worker comes back.       *)

(* A worker finds the queue empty from the test of the predicate until it  *)
(* sleeps, and from then on every task that is queued is covered.          *)
CoverInv ==
  /\ m_running => \A w \in Worker : wpc[w] = "block" => m_Tasks = <<>>
  /\ m_running /\ Asleep # {} => Len(m_Tasks) <= Cardinality(Takers) + Cardinality(Notifying)

(* Takers and clients that notify can be counted. *)
LEMMA Counted ==
  ASSUME NEW T \in SUBSET Worker, NEW N \in SUBSET Client
  PROVE  IsFiniteSet(T) /\ IsFiniteSet(N) /\ Cardinality(T) \in Nat /\ Cardinality(N) \in Nat
BY PoolAssumption, FS_Subset, FS_CardinalityType

LEMMA CountedBefore ==
  /\ IsFiniteSet(Takers) /\ Cardinality(Takers) \in Nat
  /\ IsFiniteSet(Notifying) /\ Cardinality(Notifying) \in Nat
BY Counted DEF Takers, Notifying

(* An empty queue needs no cover. *)
LEMMA EmptyCovers == ASSUME m_Tasks' = <<>> PROVE CoverInv'
<1>1. Takers' \in SUBSET Worker /\ Notifying' \in SUBSET Client
  BY DEF Takers, Notifying
<1>2. Cardinality(Takers') \in Nat /\ Cardinality(Notifying') \in Nat
  BY <1>1, Counted
<1> QED
  BY <1>2 DEF CoverInv

(* A step that queues nothing, and keeps takers and sleepers. *)
LEMMA SameCover ==
  ASSUME CoverInv, m_running' => m_running, Asleep' \subseteq Asleep,
         UNCHANGED <<m_Tasks, Takers, Notifying>>,
         \A w \in Worker : wpc'[w] = "block" => wpc[w] = "block"
  PROVE  CoverInv'
BY DEF CoverInv

(* A worker tests the predicate with the mutex, takes what it has found,   *)
(* and sleeps only on an empty queue.                                      *)
LEMMA WorkerCovers ==
  ASSUME PoolTypeOK, Sound, CoverInv, NEW w \in Worker, workerLoop(w) \/ SpuriousWakeup(w),
         NoneBack', m_running'
  PROVE  CoverInv'
<1> USE DEF PoolTypeOK, Goto, Die, workers, clients, locks, outcome
<1>0. ASSUME UNCHANGED <<wpc, m_running, m_Tasks, cpc>> PROVE CoverInv'
  BY <1>0, SameCover DEF Asleep, Takers, Notifying
<1>1. CASE Lock(w)
  BY <1>1, SameCover DEF Lock, Asleep, Takers, Notifying
<1>2. CASE Test(w)
  <2>1. CASE m_Tasks = <<>>
    BY <1>2, <2>1, EmptyCovers DEF Test
  <2>2. CASE m_Tasks # <<>>
    <3>1. m_running /\ UNCHANGED <<m_running, m_Tasks, cpc>>
      BY <1>2 DEF Test
    <3>2. /\ wpc[w] \in {"while", "wait", "check"} /\ wpc' = [wpc EXCEPT ![w] = wpc'[w]]
          /\ wpc'[w] \in {"wait", "check", "front"}
      BY <1>2, <2>2, <3>1 DEF Test
    <3> QED
      BY <3>1, <3>2, SameCover DEF Asleep, Takers, Notifying
  <2> QED
    BY <2>1, <2>2
<1>3. CASE Sleep(w)
  <2>1. m_Tasks' = <<>>
    BY <1>3 DEF Sleep, CoverInv
  <2> QED
    BY <2>1, EmptyCovers
<1>4. CASE SpuriousWakeup(w)
  <2>1. /\ UNCHANGED <<m_running, m_Tasks, Notifying>> /\ w \in Asleep /\ w \notin Takers
        /\ \A v \in Worker : wpc'[v] = "block" => wpc[v] = "block"
    BY <1>4 DEF SpuriousWakeup, Asleep, Takers, Notifying
  <2>2. Takers' = Takers \cup {w}
    BY <1>4 DEF SpuriousWakeup, Takers
  <2>3. Cardinality(Takers') = Cardinality(Takers) + 1
    BY <2>1, <2>2, CountedBefore, FS_AddElement
  <2>4. Len(m_Tasks) <= Cardinality(Takers) + Cardinality(Notifying)
    BY <2>1 DEF CoverInv
  <2>5. Len(m_Tasks') <= Cardinality(Takers') + Cardinality(Notifying')
    BY <2>1, <2>3, <2>4, CountedBefore
  <2> QED
    BY <2>1, <2>5 DEF CoverInv
<1>5. CASE Front(w)
  <2>1. Len(m_Tasks') = Len(m_Tasks)
    BY <1>5, FrontMoved DEF Front
  <2>3. UNCHANGED <<m_running, Takers, Notifying, Asleep>>
    BY <1>5 DEF Front, Takers, Notifying, Asleep
  <2>2. \A v \in Worker : wpc'[v] # "block"
    BY <1>5 DEF Front, CoverInv
  <2> QED
    BY <2>1, <2>2, <2>3 DEF CoverInv
<1>6. CASE Pop(w)
  <2>7. Len(m_Tasks') = Len(m_Tasks) - 1 /\ Len(m_Tasks) \in Nat
    BY <1>6 DEF Pop
  <2>1. UNCHANGED <<m_running, Notifying, Asleep>> /\ w \in Takers
    BY <1>6 DEF Pop, Takers, Notifying, Asleep
  <2>2. Takers' = Takers \ {w}
    BY <1>6 DEF Pop, Takers
  <2>3. Cardinality(Takers') = Cardinality(Takers) - 1
    BY <2>1, <2>2, CountedBefore, FS_RemoveElement
  <2>4. \A v \in Worker : wpc'[v] # "block"
    BY <1>6 DEF Pop, CoverInv
  <2>5. Asleep' # {} => Len(m_Tasks) <= Cardinality(Takers) + Cardinality(Notifying)
    BY <2>1 DEF CoverInv
  <2>6. Asleep' # {} => Len(m_Tasks') <= Cardinality(Takers') + Cardinality(Notifying')
    BY <2>1, <2>3, <2>5, <2>7, CountedBefore
  <2> QED
    BY <2>4, <2>6 DEF CoverInv
<1>7. CASE Undefined(w)
  BY <1>7, NotUndefined
<1>8. CASE Unlock(w)
  BY <1>0, <1>8, SameCover DEF Unlock, Asleep, Takers, Notifying
<1>9. CASE RunTask(w)
  <2>1. CASE Die("terminate")
    BY <1>0, <2>1
  <2>2. CASE wpc[w] = "run" /\ wpc' = [wpc EXCEPT ![w] = "while"] /\ UNCHANGED owns
    <3>1. w \notin owns
      BY <2>2 DEF Sound, Holding, Inside
    <3>2. Back(w)'
      BY <2>2, <3>1 DEF Back
    <3> QED
      BY <3>2 DEF NoneBack
  <2> QED
    BY <1>9, <2>1, <2>2 DEF RunTask
<1>10. CASE Exit(w)
  BY <1>10, SameCover DEF Exit, Asleep, Takers, Notifying
<1> QED
  BY <1>1, <1>2, <1>3, <1>4, <1>5, <1>6, <1>7, <1>8, <1>9, <1>10 DEF workerLoop, Take

(* A client that queues a task is one that notifies, and if anybody sleeps *)
(* its notification wakes one who will take it.                            *)
LEMMA OthersCover ==
  ASSUME PoolTypeOK, Sound, CoverInv, m_running',
         \/ \E c \in Client : assignTask(c) \/ PoolClient(c)
         \/ DtorClearRunning \/ PoolDtor
  PROVE  CoverInv'
<1> USE DEF PoolTypeOK, MoveClient, workers, clients, locks, outcome
<1>1. ASSUME NEW c \in Client, assignTask(c) PROVE CoverInv'
  BY <1>1, SameCover DEF assignTask, Asleep, Takers, Notifying
<1>2. ASSUME NEW c \in Client, push(c) PROVE CoverInv'
  <2>7. Len(m_Tasks') = Len(m_Tasks) + 1 /\ Len(m_Tasks) \in Nat
    <3>1. c \in Touching
      BY <1>2 DEF push, Touching
    <3>2. Touching = {c}
      BY <3>1, Alone
    <3>3. m_Tasks' = Append(m_Tasks, ctask[c])
      BY <1>2, <3>2 DEF push
    <3> QED
      BY <1>2, <3>3 DEF push
  <2>1. UNCHANGED <<m_running, wpc, Takers, Asleep>> /\ c \notin Notifying
    BY <1>2 DEF push, Takers, Notifying, Asleep
  <2>2. Notifying' = Notifying \cup {c}
    BY <1>2 DEF push, Notifying
  <2>3. Cardinality(Notifying') = Cardinality(Notifying) + 1
    BY <2>1, <2>2, CountedBefore, FS_AddElement
  <2>4. \A v \in Worker : wpc[v] # "block"
    <3> SUFFICES ASSUME NEW v \in Worker, wpc[v] = "block" PROVE FALSE
      OBVIOUS
    <3>1. mutex = v /\ mutex = c
      BY <1>2 DEF push, Sound, Holding, NoneBack, Back, Inside
    <3> QED
      BY <3>1, PoolAssumption
  <2>5. Asleep' # {} => Len(m_Tasks) <= Cardinality(Takers) + Cardinality(Notifying)
    BY <2>1 DEF CoverInv
  <2>6. Asleep' # {} => Len(m_Tasks') <= Cardinality(Takers') + Cardinality(Notifying')
    BY <2>1, <2>3, <2>5, <2>7, CountedBefore
  <2> QED
    BY <2>1, <2>4, <2>6 DEF CoverInv
<1>3. ASSUME NEW c \in Client, assignNotify(c) PROVE CoverInv'
  <2>5. UNCHANGED <<m_running, m_Tasks>> /\ Len(m_Tasks) \in Nat
    <3>1. UNCHANGED <<m_running, m_Tasks>>
      BY <1>3 DEF assignNotify
    <3>2. Len(m_Tasks) \in Nat
      BY LenProperties
    <3> QED
      BY <3>1, <3>2
  <2>6. cpc[c] = "notify" /\ cpc' = [cpc EXCEPT ![c] = "idle"]
    BY <1>3 DEF assignNotify
  <2>1. c \in Notifying /\ Notifying' = Notifying \ {c}
    BY <2>6 DEF Notifying
  <2>2. Cardinality(Notifying') = Cardinality(Notifying) - 1
    BY <2>1, CountedBefore, FS_RemoveElement
  <2>3. CASE Asleep = {} /\ UNCHANGED wpc
    BY <2>5, <2>3 DEF CoverInv, Asleep
  <2>4. ASSUME NEW w \in Asleep, wpc' = [wpc EXCEPT ![w] = "wakeup"] PROVE CoverInv'
    <3>1. Takers' = Takers \cup {w} /\ w \notin Takers
      BY <2>4 DEF Asleep, Takers
    <3>2. Cardinality(Takers') = Cardinality(Takers) + 1
      BY <3>1, CountedBefore, FS_AddElement
    <3>3. Len(m_Tasks) <= Cardinality(Takers) + Cardinality(Notifying)
      BY <2>5, <2>4 DEF CoverInv
    <3>4. Len(m_Tasks') <= Cardinality(Takers') + Cardinality(Notifying')
      BY <2>5, <2>2, <3>2, <3>3, CountedBefore
    <3>5. \A v \in Worker : wpc'[v] = "block" => wpc[v] = "block"
      BY <2>4
    <3> QED
      BY <2>5, <3>4, <3>5 DEF CoverInv
  <2> QED
    BY <1>3, <2>3, <2>4 DEF assignNotify, notify_one
<1>4. CASE DtorClearRunning
  BY <1>4 DEF DtorClearRunning
<1>5. CASE DtorNotify
  <2>1. UNCHANGED <<m_running, m_Tasks>> /\ Asleep' = {}
        /\ \A v \in Worker : wpc'[v] = "block" => wpc[v] = "block"
    BY <1>5 DEF DtorNotify, notify_all, Asleep
  <2> QED
    BY <2>1 DEF CoverInv
<1>6. CASE DtorJoin
  BY <1>6, SameCover DEF DtorJoin, Asleep, Takers, Notifying
<1> QED
  BY <1>1, <1>2, <1>3, <1>4, <1>5, <1>6 DEF PoolClient, PoolDtor

(* While a worker sleeps there is, for each queued task, a worker about to *)
(* take one or a client about to wake one: before a worker comes back no   *)
(* notification falls on the gap between the test and the sleep.           *)
LEMMA TasksCovered == PoolSafety => [](NoneBack => TasksAreCovered)
<1> DEFINE Inv == PoolInv /\ (NoneBack => CoverInv)
<1>1. PoolInit => Inv
  BY PoolInvInit DEF PoolInit, CoverInv, Asleep
<1>2. PoolTypeOK /\ Inv /\ [PoolNext]_poolVars => Inv'
  <2> SUFFICES ASSUME PoolTypeOK, Inv, [PoolNext]_poolVars, NoneBack', m_running' PROVE CoverInv'
    BY PoolInvNext DEF CoverInv
  <2>1. CASE UNCHANGED poolVars
    BY <2>1 DEF poolVars, workers, clients, locks, outcome, CoverInv, NoneBack, Back, Asleep, Takers, Notifying
  <2>2. CASE PoolNext
    <3>1. NoneBack
      BY <2>2, BackStays
    <3>2. Sound
      BY <3>1 DEF PoolInv, Sound
    <3> QED
      BY <2>2, <3>1, <3>2, WorkerCovers, OthersCover DEF PoolNext
  <2> QED
    BY <2>1, <2>2
<1>3. Inv => (NoneBack => TasksAreCovered)
  BY DEF CoverInv, TasksAreCovered
<1> QED
  BY <1>1, <1>2, <1>3, TypeAlways, PTL DEF PoolSafety

LEMMA NoneLostAlways == PoolSafety => []NoneLost
<1>1. (NoneBack => TasksAreKept) /\ (NoneBack => TasksAreCovered) => NoneLost
  BY DEF NoneLost
<1> QED
  BY <1>1, TasksKept, TasksCovered, PTL

(* Until a worker comes back nothing is lost: every task handed over is    *)
(* coming, queued, held or run, and while a worker sleeps each queued one  *)
(* has somebody who will take it or wake one who will.                     *)
THEOREM NoneLostCorrect == PoolSpec => []NoneLost
BY NoneLostAlways, PTL DEF PoolSpec
=============================================================================
