------------------------------ MODULE ThreadPool ------------------------------
(***************************************************************************)
(* http::ThreadPool: the workers (workerLoop), the threads that hand tasks *)
(* over (assignTask) and the thread that destroys the pool.                *)
(*                                                                         *)
(* workerLoop unlocks _lock before it runs a task and never locks it       *)
(* again.  What the C++ library makes of that is modelled as it is built   *)
(* (libstdc++ on glibc): m_tasksCV.wait then tests its predicate without   *)
(* the mutex, releases m_tasksMutex whoever holds it and has the mutex     *)
(* again when it returns, while _lock still says it does not own it.  So   *)
(* mutex, the holder in the kernel's eyes, and owns, the workers whose     *)
(* _lock owns it, are two variables.                                       *)
(***************************************************************************)
EXTENDS Naturals, Sequences, FiniteSets

CONSTANTS
  Worker,    \* the threads of m_Workers
  Client,    \* threads that call assignTask
  MaxTasks   \* bound: how many tasks are assigned

Nobody == "nobody"
NoTask == 0    \* a moved-from std::function

ASSUME PoolAssumption ==
  /\ Worker \cap Client = {} /\ Nobody \notin Worker \cup Client
  /\ IsFiniteSet(Worker) /\ IsFiniteSet(Client) /\ MaxTasks \in Nat

VARIABLES
  m_running, m_Tasks,
  mutex, owns,       \* m_tasksMutex, and _M_owns of the workers' _lock
  wpc, task,         \* each worker, and its local task
  cpc, ctask,        \* each client, and the task it hands over
  nextTask,          \* the next task a client will hand over
  ran,               \* the tasks that have been run
  dpc,               \* the destructor
  failed,            \* how the program has died, or "none"
  raced              \* history: two threads have been on the queue at a time

locks   == <<mutex, owns>>
workers == <<wpc, task, ran>>
clients == <<cpc, ctask, nextTask>>
outcome == <<failed, raced>>
poolVars == <<m_running, m_Tasks, locks, workers, clients, dpc, outcome>>

PoolInit ==
  /\ m_running = TRUE /\ m_Tasks = <<>>
  /\ mutex = Nobody /\ owns = {}
  /\ wpc = [w \in Worker |-> "start"] /\ task = [w \in Worker |-> NoTask] /\ ran = {}
  /\ cpc = [c \in Client |-> "idle"] /\ ctask = [c \in Client |-> NoTask]
  /\ nextTask = 1 /\ dpc = "alive" /\ failed = "none" /\ raced = FALSE

Running == failed = "none"
Die(how) ==
  /\ failed' = how
  /\ UNCHANGED <<m_running, m_Tasks, locks, workers, clients, dpc, raced>>

(* Wakes one sleeper, or none if there is none. *)
Asleep == {w \in Worker : wpc[w] = "asleep"}
notify_one ==
  \/ Asleep = {} /\ UNCHANGED wpc
  \/ \E w \in Asleep : wpc' = [wpc EXCEPT ![w] = "wakeup"]
notify_all == wpc' = [w \in Worker |-> IF w \in Asleep THEN "wakeup" ELSE wpc[w]]

(* Who is on the queue; two at a time, or one that takes from an empty     *)
(* queue, may do anything, and the history notes it.                       *)
Touching == {w \in Worker : wpc[w] \in {"front", "pop"}} \cup {c \in Client : cpc[c] = "push"}
TouchQueue(x) == failed' = failed /\ raced' = (raced \/ Touching # {x})

-----------------------------------------------------------------------------
(* assignTask, in the three steps another thread can come between.         *)

MoveClient(c, from, to) == cpc[c] = from /\ cpc' = [cpc EXCEPT ![c] = to]

MutAssignTask(c) ==
  /\ Running /\ mutex = Nobody /\ nextTask <= MaxTasks
  /\ MoveClient(c, "idle", "push") /\ mutex' = c
  /\ nextTask' = nextTask + 1
  /\ UNCHANGED <<m_running, m_Tasks, owns, workers, ctask, dpc, outcome>>
assignTask(c) ==
  /\ Running /\ mutex = Nobody /\ nextTask <= MaxTasks
  /\ MoveClient(c, "idle", "push") /\ mutex' = c
  /\ ctask' = [ctask EXCEPT ![c] = nextTask] /\ nextTask' = nextTask + 1
  /\ UNCHANGED <<m_running, m_Tasks, owns, workers, dpc, outcome>>

(* The lock_guard unlocks whether or not the mutex is still held.  What is *)
(* pushed while another thread is on the queue may be lost.                *)
push(c) ==
  /\ Running /\ TouchQueue(c)
  /\ MoveClient(c, "push", "notify") /\ mutex' = Nobody
  /\ m_Tasks' \in {Append(m_Tasks, ctask[c])} \cup (IF Touching # {c} THEN {m_Tasks} ELSE {})
  /\ UNCHANGED <<m_running, owns, workers, ctask, nextTask, dpc>>

MutAssignNotify(c) ==
  /\ Running /\ MoveClient(c, "notify", "idle")
  /\ UNCHANGED <<m_running, m_Tasks, locks, wpc, task, ran, ctask, nextTask, dpc, outcome>>
assignNotify(c) ==
  /\ Running /\ MoveClient(c, "notify", "idle") /\ notify_one
  /\ UNCHANGED <<m_running, m_Tasks, locks, task, ran, ctask, nextTask, dpc, outcome>>

-----------------------------------------------------------------------------
(* workerLoop.                                                             *)

Goto(w, from, to) == wpc[w] = from /\ wpc' = [wpc EXCEPT ![w] = to]

(* Taking the mutex: _lock when the thread starts, and m_tasksCV.wait when *)
(* it returns, which leaves _M_owns alone.                                 *)
MutLock(w) ==
  /\ Running /\ Goto(w, "start", "while") /\ owns' = owns \cup {w} /\ mutex' = w
  /\ UNCHANGED <<m_running, m_Tasks, task, ran, clients, dpc, outcome>>
Lock(w) ==
  /\ Running /\ mutex = Nobody /\ mutex' = w
  /\ \/ Goto(w, "start", "while") /\ owns' = owns \cup {w}
     \/ Goto(w, "wakeup", "wait") /\ UNCHANGED owns
  /\ UNCHANGED <<m_running, m_Tasks, task, ran, clients, dpc, outcome>>

(* The loop's condition, the predicate of the wait, and the break. *)
Test(w) ==
  /\ Running
  /\ \/ Goto(w, "while", IF m_running THEN "wait" ELSE "exit")
     \/ Goto(w, "wait", IF m_Tasks # <<>> \/ ~m_running THEN "check" ELSE "block")
     \/ Goto(w, "check", IF m_running THEN "front" ELSE "exit")
  /\ UNCHANGED <<m_running, m_Tasks, locks, task, ran, clients, dpc, outcome>>

Sleep(w) ==
  /\ Running /\ Goto(w, "block", "asleep") /\ mutex' = Nobody
  /\ UNCHANGED <<m_running, m_Tasks, owns, task, ran, clients, dpc, outcome>>

SpuriousWakeup(w) ==
  /\ Running /\ Goto(w, "asleep", "wakeup")
  /\ UNCHANGED <<m_running, m_Tasks, locks, task, ran, clients, dpc, outcome>>

(* front is moved from, then popped. *)
Front(w) ==
  /\ m_Tasks # <<>> /\ Goto(w, "front", "pop") /\ TouchQueue(w)
  /\ task' = [task EXCEPT ![w] = Head(m_Tasks)]
  /\ m_Tasks' = [m_Tasks EXCEPT ![1] = NoTask]
  /\ UNCHANGED <<m_running, locks, ran, clients, dpc>>
Pop(w) ==
  /\ m_Tasks # <<>> /\ Goto(w, "pop", "unlock") /\ TouchQueue(w)
  /\ m_Tasks' = Tail(m_Tasks)
  /\ UNCHANGED <<m_running, locks, task, ran, clients, dpc>>

(* With another thread on the queue, or with nothing in it: two workers    *)
(* move from the same front and both have its task, two pops remove one    *)
(* element, the moved-from memory of an empty queue is no task, or the     *)
(* program dies of it.                                                     *)
Torn(w) ==
  /\ \/ /\ Goto(w, "front", "pop")
        /\ task' = [task EXCEPT ![w] = IF m_Tasks = <<>> THEN NoTask ELSE Head(m_Tasks)]
     \/ Goto(w, "pop", "unlock") /\ UNCHANGED task
  /\ failed' = failed /\ raced' = TRUE
  /\ UNCHANGED <<m_running, m_Tasks, locks, ran, clients, dpc>>
Undefined(w) ==
  /\ wpc[w] \in {"front", "pop"} /\ (m_Tasks = <<>> \/ Touching # {w})
  /\ Torn(w) \/ Die("undefined")
Take(w) == Running /\ (Front(w) \/ Pop(w) \/ Undefined(w))

(* _lock.unlock throws when _lock does not own the mutex, and nobody       *)
(* catches that.                                                           *)
Unlock(w) ==
  /\ Running
  /\ \/ w \notin owns /\ wpc[w] = "unlock" /\ Die("terminate")
     \/ /\ w \in owns /\ Goto(w, "unlock", "run") /\ mutex' = Nobody /\ owns' = owns \ {w}
        /\ UNCHANGED <<m_running, m_Tasks, task, ran, clients, dpc, outcome>>

(* An empty std::function throws, too. *)
RunTask(w) ==
  /\ Running
  /\ \/ task[w] = NoTask /\ wpc[w] = "run" /\ Die("terminate")
     \/ /\ task[w] # NoTask /\ Goto(w, "run", "while")
        /\ ran' = ran \cup {task[w]} /\ task' = [task EXCEPT ![w] = NoTask]
        /\ UNCHANGED <<m_running, m_Tasks, locks, clients, dpc, outcome>>

(* ~unique_lock unlocks only what it owns. *)
Exit(w) ==
  /\ Running /\ Goto(w, "exit", "done")
  /\ mutex' = IF w \in owns THEN Nobody ELSE mutex
  /\ UNCHANGED <<m_running, m_Tasks, owns, task, ran, clients, dpc, outcome>>

workerLoop(w) ==
  Lock(w) \/ Test(w) \/ Sleep(w) \/ Take(w) \/ Unlock(w) \/ RunTask(w) \/ Exit(w)

-----------------------------------------------------------------------------
(* ~ThreadPool: no mutex is taken.                                         *)

DtorClearRunning ==
  /\ Running /\ dpc = "alive" /\ dpc' = "notify" /\ m_running' = FALSE
  /\ UNCHANGED <<m_Tasks, locks, workers, clients, outcome>>

MutDtorNotify ==
  /\ Running /\ dpc = "notify" /\ dpc' = "join"
  /\ UNCHANGED <<m_running, m_Tasks, locks, workers, clients, outcome>>
DtorNotify ==
  /\ Running /\ dpc = "notify" /\ dpc' = "join" /\ notify_all
  /\ UNCHANGED <<m_running, m_Tasks, locks, task, ran, clients, outcome>>

DtorJoin ==
  /\ Running /\ dpc = "join" /\ \A w \in Worker : wpc[w] = "done"
  /\ dpc' = "dead"
  /\ UNCHANGED <<m_running, m_Tasks, locks, workers, clients, outcome>>

-----------------------------------------------------------------------------
(* A pool is destroyed when nobody uses it any more, and not used after.   *)
InUse == \E c \in Client : cpc[c] # "idle"

PoolDtor == DtorNotify \/ DtorJoin
PoolClient(c) == push(c) \/ assignNotify(c)

PoolNext ==
  \/ \E w \in Worker : workerLoop(w) \/ SpuriousWakeup(w)
  \/ \E c \in Client : (dpc = "alive" /\ assignTask(c)) \/ PoolClient(c)
  \/ (~InUse /\ DtorClearRunning) \/ PoolDtor

(* Threads that can run do, and a free mutex is granted in the end.  A     *)
(* task returns.                                                           *)
PoolFairness ==
  /\ \A w \in Worker : WF_poolVars(workerLoop(w)) /\ SF_poolVars(Lock(w))
  /\ \A c \in Client : WF_poolVars(PoolClient(c))
  /\ WF_poolVars(PoolDtor)

PoolSafety == PoolInit /\ [][PoolNext]_poolVars
PoolSpec == PoolSafety /\ PoolFairness

-----------------------------------------------------------------------------
Task == 1..MaxTasks

(* Every variable has its type; a task is never invented. *)
PoolTypeOK ==
  /\ m_running \in BOOLEAN /\ m_Tasks \in Seq(Task \cup {NoTask})
  /\ mutex \in Worker \cup Client \cup {Nobody} /\ owns \subseteq Worker
  /\ wpc \in [Worker -> {"start", "while", "wait", "block", "asleep", "wakeup", "check",
                         "front", "pop", "unlock", "run", "exit", "done"}]
  /\ task \in [Worker -> Task \cup {NoTask}] /\ ran \subseteq Task
  /\ cpc \in [Client -> {"idle", "push", "notify"}]
  /\ ctask \in [Client -> Task \cup {NoTask}] /\ nextTask \in 1..(MaxTasks + 1)
  /\ \A c \in Client : cpc[c] = "push" => ctask[c] \in Task
  /\ dpc \in {"alive", "notify", "join", "dead"}
  /\ failed \in {"none", "terminate", "undefined"} /\ raced \in BOOLEAN

(* A worker that has run a task and gone on without its lock. *)
Back(w) == w \notin owns /\ wpc[w] \notin {"start", "run"}
NoneBack == \A w \in Worker : ~Back(w)

Inside == {"while", "wait", "block", "check", "front", "pop", "unlock", "exit"}

(* As long as no worker has come back from a task, m_tasksMutex does what  *)
(* it is for: whoever is in a critical section holds it, so the queue that *)
(* a worker has found filled still is when it takes the front, and the     *)
(* front is a task.  Inductive.                                            *)
Holding ==
  /\ \A w \in Worker : w \in owns /\ wpc[w] \in Inside => mutex = w
  /\ \A w \in Worker : w \in owns => wpc[w] \in Inside \cup {"asleep", "wakeup", "done"}
  /\ \A c \in Client : cpc[c] = "push" => mutex = c
Filled ==
  /\ \A i \in 1..Len(m_Tasks) :
       m_Tasks[i] = NoTask => i = 1 /\ \E w \in Worker : wpc[w] = "pop"
  /\ \A w \in Worker :
       /\ wpc[w] \in {"front", "pop"} \/ (wpc[w] = "check" /\ m_running) => m_Tasks # <<>>
       /\ wpc[w] \in {"pop", "unlock", "run"} => task[w] \in Task
PoolInv == NoneBack => Holding /\ Filled /\ failed = "none" /\ ~raced

(* One thread at a time touches the queue, and the program does not die of *)
(* it, before a worker comes back.                                         *)
Exclusion ==
  NoneBack => (\A x, y \in Touching : x = y) /\ failed = "none" /\ ~raced

Held == {task[w] : w \in Worker} \ {NoTask}
Coming == {ctask[c] : c \in {d \in Client : cpc[d] = "push"}}
QueuedTasks == {m_Tasks[i] : i \in DOMAIN m_Tasks} \ {NoTask}

(* No task is held by two workers, queued again or run again once it has   *)
(* been taken, while the mutex does its work; and not later either, when a *)
(* worker is back and takes tasks without it, until two threads are on the *)
(* queue at a time: then both may take the same task.                      *)
NeverTwice ==
  NoneBack \/ ~raced =>
    /\ Held \cap ran = {} /\ QueuedTasks \cap (Held \cup ran) = {}
    /\ \A v, w \in Worker : task[v] = task[w] /\ task[v] # NoTask => v = w
    /\ \A i, j \in DOMAIN m_Tasks : m_Tasks[i] = m_Tasks[j] /\ m_Tasks[i] # NoTask => i = j

(* A task handed over is coming, queued, held by a worker, or run.         *)
TasksAreKept == Coming \cup QueuedTasks \cup Held \cup ran = 1..(nextTask - 1)

(* Who will look at the queue again: a worker that is not asleep, from its *)
(* start to the pop, and a client that still has to notify one.            *)
Takers == {w \in Worker : wpc[w] \in {"start", "while", "wait", "wakeup", "check", "front", "pop"}}
Notifying == {c \in Client : cpc[c] = "notify"}

(* While a worker sleeps there is somebody about to take each of the       *)
(* queued tasks, or to wake one who will.                                  *)
TasksAreCovered ==
  m_running /\ Asleep # {} => Len(m_Tasks) <= Cardinality(Takers) + Cardinality(Notifying)

(* As long as no worker has come back nothing is lost: neither a task that *)
(* was handed over nor the notification of assignTask, which comes after   *)
(* the push and without the mutex.                                         *)
NoneLost == NoneBack => TasksAreKept /\ TasksAreCovered

(* While one worker has not run its task yet, and the pool is not          *)
(* destroyed, a queued task is run, or the program dies of the worker that *)
(* takes it, or two threads have been on the queue, which may drop it: no  *)
(* notification of assignTask is lost.                                     *)
QueuedIsRun ==
  \A t \in Task : (t \in QueuedTasks) ~>
    (t \in ran \/ failed # "none" \/ raced \/ dpc # "alive" \/ \A w \in Worker : Back(w))

(* ~ThreadPool returns if its notification does not fall between a         *)
(* worker's test of the predicate and its sleep, and no worker that has    *)
(* come back is about to leave with the mutex.                             *)
PoolDtorReturns ==
  (dpc = "notify" /\ \A w \in Worker : wpc[w] # "block" /\ (Back(w) => wpc[w] = "while"))
    ~> (dpc = "dead" \/ failed # "none")

-----------------------------------------------------------------------------
(* What a comment of the repository says, and the code does not.           *)

(* Server.cpp:93-94: a request that is handed over is parsed: its task is  *)
(* run, as long as the pool is not destroyed.                              *)
TaskIsRun == \A t \in Task : (t \in QueuedTasks) ~> (t \in ran \/ dpc # "alive")
=============================================================================
