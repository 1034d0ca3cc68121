# HTTP-Sverver: TLA+ models and proofs

The program is an HTTP server on top of the GameNetworkingSockets library. Its
own code is about 2000 lines under `src/include` and `src/src`; `thirdparty/`
holds the library and googletest. It is almost all concurrency: every component
has a thread, a queue and a condition variable of its own, and most of what can
go wrong is two of them meeting in an order nobody tested.

## Inventory

| Component | State | Operations | Threads |
|---|---|---|---|
| `Listener`, `ListenerCore` (`src/Listener/listener.cpp`, `ListenerCore.cpp`) | `m_running`, `m_listening`; the socket and poll group; received, outgoing and error queue | `initSocket`, `startListening`, `stopListening`, the destructor; `run`, `pollMessages`, `pollOnce`, `DestroySocket` | one listening thread per listener; its owner, the network thread |
| `NetworkManagerCore` (`NetworkManagerCore.cpp`) | `m_Listeners`, `m_SocketClientsMap` with every socket's connections, the next handle | the seven calls of the API, `ConnectionServed`, `callbackManager` | only the network thread |
| `NetworkManager` (`NetworkManager.cpp`, `NetworkManager.h`) | `m_running`, `m_Busy`, `m_initialized`, `m_FunctionCalls`, `m_Core` | `init`, `kill`, wrappers that queue a function and wait for its future, `ConnectionServed`, `run`, `tick` | the network thread, any client, every listening thread |
| `ThreadSaveQueue` | a `std::queue` under a mutex | `push`, `try_pop`, `empty`, `clear` | all |
| `ThreadPool` (`src/Server/ThreadPool.cpp`) | `m_Tasks`, `m_running` | `assignTask`, `workerLoop`, the destructor | the workers |
| `Logger` (`include/Logger/Logger.h`) | the message queue, the log file | `write`, `stop`, `logThread`, rotation | the log thread, all writers |
| `Server` (`src/Server/Server.cpp`) | `m_Listener`, `m_bQuit`, two pools | `run`, `pollIncMessages`, `startListening` | the server thread |
| initialization (`HTTPinitialization.cpp`, `main.cpp`) | `isHTTPInitialized` | `initHTTP`, `HTTP_Kill` | main |
| `Error`, `Result`, `Request` | values | none | |

How they interact: a client (the `Server`) calls the `NetworkManager`; the call
is pushed as a function on `m_FunctionCalls`, executed by the network thread on
the `NetworkManagerCore`, and its result comes back in a future. The core owns
the listeners and drives them by flags and queues. A listening thread that has
sent an answer calls `NetworkManager::ConnectionServed`, which queues another
function. The library queues callbacks about connections, which `tick` has
dispatched to `NetworkManagerCore::callbackManager` on the network thread. The
server thread polls for requests through the `NetworkManager` and hands them to the
workers of a `ThreadPool`. Everybody logs; the log thread writes. `main` starts
all of it (`initHTTP`), kills it (`HTTP_Kill`) and destroys the server.

The hard behaviours, each listed with its line under `hazards` in
`PROJECT.json`:

- the socket is closed by the listening thread some time after `stopListening`,
  without the mutex, while the owner may start the next session;
- queued calls, queued callbacks and outgoing messages are about sockets and
  connections that may be gone when they are executed;
- flags cleared and threads notified without the mutex of the condition variable;
- workers that go on without the mutex they have unlocked, a log thread that has
  to empty its queue and rotates files whose stream still buffers entries;
- shutdown at any moment of all that: `~Listener`, `kill`, `~ThreadPool`, the
  logger's `stop`, calls that are pending or still to be pushed, and `HTTP_Kill`
  against `~Server`, each of which destroys what the other uses.

## Modules

| Module | Models | Extends or instantiates |
|---|---|---|
| `ListenerPort` | what a listener promises the registry that owns it | |
| `Listener` | one listener, its thread and its owner | implements `ListenerPort` |
| `NetworkManagerCore` | the registry, its calls, the callbacks of the library | implements `ListenerPort` for each handle |
| `AbstractManager` | what the `NetworkManager` promises its callers | |
| `NetworkManager` | network thread, `init` and `kill`, callers | implements `AbstractManager` |
| `ThreadPool` | workers, clients, destructor | |
| `Server` | server thread, `main`, `HTTP_Kill`, `~Server` | extends `ThreadPool`, implements `AbstractManager` |
| `AbstractLog` | what a logger promises | |
| `Logger` | writers, log thread, rotation, destruction | implements `AbstractLog` |
| `MC...` | what TLC runs; the `.cfg` files give the constants | one of the above |
| `..._proof` | the theorems | one of the above |

`Listener` has one listener and the thread that owns it. The owner's operations
are the listener's as `NetworkManagerCore` calls them, one step each, because
the code runs them under `m_ListenMutex` or, for `initSocket`, reads and writes
handles no other step of the listening thread is about to change. The listening
thread is cut wherever another thread can come in between: `pc` is `lock`,
`wait` (the predicate), `block` (the predicate was false, the thread still has
the mutex), `asleep`, `wakeup`, `check` (the `break`), `loop`, `poll`, `out`,
`inc`, `error` (before `stopListening` on itself), and one step for every line
of `DestroySocket`. `Locked` tells when the listening thread holds the mutex
between two steps; the destructor does not care. Both handles start with any
value of `UninitHandles`, since no constructor sets them. A request is its
connection, abstracted to the socket it was accepted on, and whether its text is
empty. In the library, a socket and its poll group get the same number. A poll
may fail at any time; a history variable remembers whether one has, because what
is said of answers holds until then.

`NetworkManagerCore` has the registry for several listeners. It runs on one
thread, so a call or a callback is a step; between them the listening threads
and the network act. A callback is a snapshot queued by the library; `batch` is
what `RunCallbacks` has taken and dispatches without executing calls in between.
`Connecting` is two steps, `AcceptConnection` and `SetConnectionPollGroup`,
because the listening thread may close the socket in the middle. A failing
assert is a step to `aborted`, after which nothing runs: the repository sets no
build type, so asserts are compiled in. The listening threads are reduced to
what the registry sees of them: they serve outgoing messages, stop themselves
when a poll fails, and close their socket after having left the loop. A listener
that is destroyed may leave its socket behind (`left`), as `Listener` shows.

`NetworkManager` has the network thread, clients in `executeFunktion`, listening
threads in `ConnectionServed`, and a controller that calls `init` and `kill` in
turn. `init`, `kill` and the clients are cut at every access to a shared flag,
which are atomics or, for `m_initialized`, a plain bool. The core is the number
of the `init` that brought it; what its functions do is whether
`m_SocketClientsMap` has entries afterwards. A call of `DestroyListener` and the
`m_Core.reset` of `kill` run `~Listener`, whose join may block for ever (module
`Listener`, `DestructorReturns`, says when it does not): the network thread or the
controller may come to `stuck` there.

`ThreadPool` has the workers, clients in `assignTask` and the destructor.
`workerLoop` unlocks before a task and never locks again. The condition variable
then releases and takes a mutex its lock does not own, so the holder of the mutex
(`mutex`) and the locks that think they own it (`owns`) are two variables, and
what the built program does of it (libstdc++ on glibc) is what the actions do: an
unlock of a lock that does not own throws and ends the program. A data race on the
queue (two threads on it at a time, or one at the front of an empty queue) may end it
too, or go on (`Torn`): two workers take the same task from the front, two pops remove
one element, a push is lost, an empty function is taken. The history variable `raced`
notes that it has come to one.

`Server` is the program around its pool: the server thread is the pool's only
client, and `~Server` calls its destructor. The other pool, `m_APIWorkers`, never
gets a task. `main` runs `HTTP_Kill` and `~Server` in either order (`KillFirst`);
`main.cpp` has `HTTP_Kill` first. Of the `NetworkManager` the server sees whether it
answers, of its core whether a socket is registered, whether one was ever opened, and
whether the listener is there: module `NetworkManager` shows when `kill` returns. The
null pointer of a destroyed logger and the deleted object of the library are steps to
`crashed`. The network thread logs in every callback it runs, also in one that was
queued before or by `DestroyListener`, or that comes of a socket `~Listener` has left
open; so once a socket was opened it may reach for the logger until its end
(`logConnection`). The joins of `destroyLogger` and `~Listener` can block for ever:
`main` is then at `hung`.

`Logger` has the writers, the log thread with its `AsyncFileWriter`, and
`destroyLogger`. Entries are numbered as they are queued and of one size. The file
is what has been flushed (`disk`) and what its stream holds (`buffer`). A rotation
renames the file unless its name is taken (the timestamp is cut off, and two
rotations may get one name) or the renaming fails, and opens it again, which may
fail too. `AbstractLog` is a queue of accepted entries and a file; it loses
an entry only while it is not open, and closes only when all that was accepted
before it was told to is settled.

Two components are modelled twice, from inside and from outside, and a small
abstract specification ties the two views together:

- `ListenerPort`. `NetworkManagerCore` does not have the condition variable of each
  listener, its flags and its error path; it has what the registry sees.
  `ListenerPort` says what that is: the owner registers a socket only when the last one
  is closed, queues messages and stops; the thread takes messages on an open socket, may
  stop by itself, and, once stopped, closes the socket and empties the queue afterwards,
  at some time or never. `Listener` implements it (`PortKept`), with all the detail, and
  so does the listener of every handle in `NetworkManagerCore` (`PortsKept`), whatever
  order calls and callbacks come in. So the registry uses no listener that module
  `Listener` does not have, and what one may do at most, the other is checked against.
  The specification made one difference between the two visible: `DestroySocket` closes
  the socket and empties the queue in two steps, and the owner may restart the listener
  and queue a message in between, which is then lost. `NetworkManagerCore` has both steps
  (`DestroySocket`, `ClearOutgoing`).
- `AbstractManager`. `Server` has only how far `init` and `kill` have got, whether
  sockets are registered and whether the server thread is in a call. `NetworkManager`
  implements `AbstractManager` (`PromiseKept`); the manager as
  `Server` has it takes only steps of it (`ManagerAsPromised`), with the server thread as
  its one caller. That keeps the two views from contradicting each other in what they
  do; it does not make what is shown of the server hold of every manager that implements
  `AbstractManager`. A call is executed
  only before `kill` has joined the thread, and nothing promises that one is answered.

Both are one-way: an abstract specification says what may happen, not that it does, so
neither carries liveness from one module to the other.

A definition named `Mut...` is a plausible bug: what the definition after it might
have been. No specification uses one; replacing the definition by it breaks the
property `PROJECT.json` names.

External, modelled from how this code uses it: condition variables (with
spurious wakeups), `std::unordered_map`, and of the library that sockets and
groups get new handles, that closing a socket ends its connections, that
`AcceptConnection` succeeds only on a connection still connecting, that
`SetConnectionPollGroup` fails for a connection or a group that is gone, and
that changes of state are queued in order. Callbacks for connections the server
closes itself (state `None`) are left out of `NetworkManagerCore`: `callbackManager`
only logs them, which is one way to `logConnection` in `Server`.

## Runs

| Run | Shows |
|---|---|
| `listener` | Two sessions, queues of two, handles that start as 0 or garbage, polls that may fail. The thread polls only open handles and none is orphaned and no request survives its session (all in `HandoverInv`, inductive), and until a poll fails outgoing messages of one session are never sent in the next (`ServedSession`). The listener implements `ListenerPort` (`PortKept`). A start is noticed, a stop of a polling thread closes its socket, and `~Listener` returns if its notification does not fall between test and sleep. |
| `listener_lost_stop` | Violated: a start and a stop that both come before the thread has taken the mutex are never seen by it, and the socket stays open for ever, though the listener is not destroyed. |
| `core` | Two listeners, two sockets, two interchangeable connections. The two maps agree (`RegistryConsistent`), a registered socket is open and its listener's own unless the listener has stopped itself (`SocketsInv`), a connection listed on an open socket is alive or its end is queued (`NoStaleConnections`), and accepted ones are listed (`NoForgottenConnections`). Each listener keeps to `ListenerPort` (`PortsKept`). A listed connection that has ended is taken off (`EndedIsRemoved`). |
| `core_asserts` | Violated: no assert of the core fails. The run stops at the shortest failure, line 233; lines 175, 183, 264 and 270 can fail too. |
| `manager` | Two clients, one listening thread, two lifetimes. `m_Core` is there while it is used and there is one network thread (`CoreOutlivesUse`), it sleeps only while there is nothing to do, it keeps the promise of `AbstractManager` (`PromiseKept`), calls and reports are executed unless the manager is killed, and `kill` returns once no socket is registered, all as long as each `~Listener` that is run returns. |
| `manager_kill_blocks` | Violated: `kill` never returns while a socket is registered. |
| `manager_call_hangs` | Violated: a call that `kill` throws away never returns. |
| `logger` | Two writers, five entries, files of one. The logger implements `AbstractLog` (`LogIsKept`): entries reach the disk in order, each once, and destroying the logger waits for what was logged before. Archives keep all they were given (`ArchivesKept`), no file outgrows the limit by more than the buffer and an entry per failed rotation (in `LoggerInv`), what is queued is handed to the stream of the open file and not left in the queue (`QueuedIsWritten`), `stop` returns if its notification does not fall between test and sleep. |
| `pool` | Two workers, two clients, three tasks. Until a worker comes back from its first task, one thread at a time touches the queue (`Exclusion`), and neither a task nor a notification is lost (`NoneLost`). No task is taken twice (`NeverTwice`), not even by a worker that has come back, until two threads are on the queue at a time. Until then a task is run while a worker is left that has not come back, and the destructor returns if its notification is not lost and no worker that has come back is about to leave with the mutex. |
| `pool_task_lost` | Violated: with one worker the second task is never run. |
| `server` | `HTTP_Kill` and `~Server` in either order, two workers, one request handed over twice. Every step is one the pool allows (`PoolContract`), the manager takes only steps of `AbstractManager` (`ManagerAsPromised`), the server thread never takes the value of an error (`NeverThrows`) and comes to an end (`ServerThreadJoins`). A server destroyed first leaves no thread, listener or registered socket behind that could log (`LoggerOutlivesUse`; what may still do so is a queued callback), and `HTTP_Kill` then returns unless the program dies of one, or of the deleted library (`KillReturnsLast`). In `main.cpp`'s order `NeverThrows` holds for a poor reason: `kill` dies or hangs in `~Listener` before it clears `m_initialized`. |
| `server_kill` | Violated: in `main.cpp`'s order the program dies. The trace has `~Listener`, run by `kill`, log through the null pointer. |

The violated runs are smaller than the others, one actor of each kind where that
is enough: they have to find a behaviour, not to exclude any. What the code or a
comment or test says against each is quoted under `findings`.

Bounds. Two sessions are enough for anything that one session can do to the
next, since `DestroySocket` and the refusal of `initSocket` separate every
session from the one before the last. Two listeners with two sockets are two at a
time, or one that is restarted while its old socket is still being closed. Two
connections let one be listed while another is being accepted or ends. A queue
of two holds a message of an old and of a new session. `MaxFunctions = 2` with
four calls fills a tick and leaves calls over; the code's `MAX_FUNCTIONS_PER_SESSION` is 20.
`RequestLimit` is 100 in the code; 2 is the smallest with a request handed over more than
once. A second request would start the counter again; for that there is only
`ServerTypeOK`, proved for every number of requests.
In the pool the third task is the one a worker takes that has come back while another
still has one. Files of one entry and a buffer of one let each entry be a rotation,
with and without something buffered, and with two names the third rotation
fails. The counters are bounded only in the guards of the steps that raise them.
There is no bound on steps or on callbacks waiting. `CHECK_DEADLOCK FALSE` everywhere:
a destroyed listener, pool or logger, an aborted program and a killed manager
really stop, and the bounds stop the others.

Fairness. Every thread that can run is run (weak fairness of its steps), and a
function once called goes on: destructor, `kill`, `init`, `executeFunktion`,
`assignTask`, `destroyLogger`, `main`. Nothing makes anybody call, connect,
disconnect, log, or wake without a notification. A thread that waits for a mutex
gets it if it is free again and again: strong fairness of `executeNotify` and
`servedNotify`, of the pool's `Lock` and of the server thread's `assign`, which
other threads that pass through the mutex would otherwise prevent in the model; no
run of the code gives a mutex to all others for ever. In `NetworkManagerCore` only
the callbacks are fair: `tick` runs them after at most `MAX_FUNCTIONS_PER_SESSION`
calls. A join is not assumed to return: those that can block for ever, of the log
thread and of a listening thread, end in `hung` or `stuck` where a module sees them from
outside, and block in the module that has them.

## Proofs

Each theorem is about `Spec` (for the pool `PoolSpec`) and holds for every value of the
constants: every number of sockets, listeners, connections, callers, workers,
writers, tasks and entries. The assumptions are those on the constants
(`ListenerAssumption`, `CoreAssumption`, `ManagerAssumption`, `PoolAssumption`,
`ServerAssumption`, `LoggerAssumption`), which every run evaluates; nothing else is
assumed.

`Listener_proof`:

- `TypeCorrect`: `TypeOK`.
- `HandoverCorrect`: `HandoverInv` and with it `PollsLiveHandles` and `NoOrphan`. The
  last two are not inductive: that the thread finds its
  handles open depends on the owner being kept out from `initSocket` until the
  teardown is over. `HandlesInv` says from when to when handles are live,
  `OwnerInv` where the thread can be while the owner is between `initSocket` and
  `startListening` or in the destructor, `SessionInv` that the received queue is empty
  whenever the thread is between two sockets, and `SleepInv` that the thread never
  falls asleep while the listener is switched on, the safe half of `StartIsNoticed`.
  One lemma for each, one step per action.
- `ReceivedCorrect`: `ReceivedSession`, the reading of `SessionInv` that matters to the
  owner: once the thread polls, what the queue holds came in on the socket now open.
- `OutgoingCorrect`: `OutgoingInv`, which is inductive relative to `HandoverInv`; it
  fails once a poll has failed, when the listener stops while its owner has it down as
  listening.
- `PortCorrect`: `PortKept`, the refinement of `ListenerPort`. Opening is the step of
  `startListening`, not that of `initSocket`: only from there on is the socket the
  registry's. The owner's steps need `OwnerInv` (what the registry has is the socket
  of the core, or none), the thread's need `HandlesInv`; one lemma for each side.
- `StartNeverRefused`: the error path of `NetworkManagerCore::startListening` that
  would leave an entry without a listening thread cannot be taken.
- `ServedCorrect`: until a poll fails, `ServedSession`, from `OutgoingInv`.

`NetworkManagerCore_proof`:

- `TypeCorrect` and `RegistryCorrect`: `TypeOK` and `RegistryConsistent`. The type invariant is part of
  the argument: it says that handles and sockets in the maps are ones already
  given out, so that a new one is in neither. `EmplaceMap` and `EraseMap` are the
  lemmas about the maps.
- `SocketsCorrect`: `SocketsInv`, of which `RegisteredSocketIsOpen` is a part. The
  invariant adds that a registered listener is listening or has stopped itself,
  which says when its thread may close the socket, and that no two have the same.
- `PortsCorrect`: `PortsKept`, the refinement of `ListenerPort` by every handle at
  once. A call for one handle must be a stutter for all others (`SamePort`), and a handle
  is alive from the start until it is destroyed, since the index never goes back.

`Connections_proof`, about the callbacks of the same module:

- `NobodyForgotten`: `NoForgottenConnections`. `AcceptedInv` adds that between accepting
  and listing the first callback of the batch is the connection's own; whatever else
  takes connections off the list closes them.
- `NobodyStale`: `NoStaleConnections`. The callbacks waiting are snapshots of the past,
  so the invariant is about the whole queue, `batch` followed by what the library has
  queued since: `SnapshotsInv` says that a snapshot names the socket its connection was
  accepted on, `OnceInv` that a connection connects once, `EndedInv` that the end of
  one that has ended is in the queue, `FreshInv` that one whose first callback is
  still to be run is in no list, and `ListedInv` that a listed one has got past
  connecting. Taking a callback or adding one shifts the queue (`Shift`); the lemmas
  about it say what that leaves alone.

`NetworkManager_proof`: `TypeCorrect`, and `CoreOutlives` and `SleepsIdle` for the
safety properties of the run, from `ManagerInv`: `ThreadInv` says where the network
thread can be at each point of `init` and `kill`, `InitInv` how the three flags and
the core go together, and `SleepInv` why a thread about to sleep has nothing to do
although `m_Busy` is cleared without the mutex: it is cleared only on the way to a
wait that tests what the clearing may have hidden. `PromiseCorrect` is the refinement of
`AbstractManager`: `PhaseInv` says how the flags go with the places of `init` and `kill`,
so that every state is in one of its phases, and that no socket is registered while the
manager is not initialized; `CallInv` that a client has at most one call queued, waits
while it is, and is answered by no other call.

`ThreadPool_proof`: `PoolTypeCorrect`, and `ExclusionCorrect` for `Exclusion`, from
`PoolInv`, which is inductive: while no worker has come back from a task, the mutex is held by exactly
the thread that is inside (`Holding`), and a worker on its way from predicate to
front finds the queue filled (`Filled`). `NeverTwiceCorrect` does not need the mutex until
two threads meet on the queue: `PlacesInv` says that a task is in one place only, coming
from a client, queued, held or run, and that the next one given out is in none; each step
moves a task or drops it, but for a torn one, and that sets `raced`. That nobody has come
back excludes `raced`, by `PoolInv`.
`NoneLostCorrect` has two halves (`TasksKept`, `TasksCovered`). The first adds, as long as no worker has come back, that nothing is dropped: a
worker that takes the front has empty hands (`HandInv`), and one that pops removes the
empty place its front has left (`MovedInv`). The second is the safe half of
`QueuedIsRun`: `assignNotify` is a step after `push`, so a queued task may have no worker
awake for it, but then its client is still about to notify. `CoverInv` counts both against
the queue. A worker that finds the queue empty sleeps before anything can be pushed, as
it has the mutex; `Counted` and the library's theorems on cardinalities do the counting.

`Server_proof`: `ServerTypeCorrect`; `ContractKept` shows that every step of the program is a step of
`PoolNext` or leaves the pool alone, which needs `ServerInv`, where the server thread and
`main` can be at the same time. `StubWithinPromise` is the refinement of
`AbstractManager`, for which `ServerInv` says how the manager's phase goes with where
`main` is. The pool's lemmas are about `PoolSafety`, its specification without
fairness, and `ContractKept` says that the server's runs satisfy that; so `ServerPoolCorrect`
carries `Exclusion`, `NeverTwice` and `NoneLost` over to the server without a proof of their own. `ThreadNeverThrows` and `LoggerOutlives` follow
from the two halves of `ServerInv` for the two orders of `HTTP_Kill` and `~Server`.

`Logger_proof`: `TypeCorrect`; `LoggerCorrect` for `LoggerInv`, the size of files and why
the thread ends only with the queue drained and sleeps only on an empty one (`SleepInv`); `ArchivesCorrect`
for `ArchivesKept`; and `LogImplemented`: `Spec =>
LogIsKept`, the refinement of `AbstractLog`. Under the mapping `durable` is all that was
flushed to any file, `pending` is the stream's buffer, the entry in hand and the
queue in this order; a pop is a stutter, a rotation and a full buffer
persist, a write to a file that is not open loses. `Numbered` and `DrainInv` give the
condition under which `AbstractLog` may close. `ArchivesKept` is recursive over the
archives, and a recursive function cannot be unfolded by induction here. So the proof
carries the equations: `FlattensTo` says that a function satisfying them over the archives exists
and that each such function ends in `rotated`, and a `Rename` extends the function by one
place (`FlatAppend`). The induction is the one over the steps of the run.

Only model-checked: liveness throughout (nothing here proves a property under fairness;
the safe halves of the wakeups are proved, as said above). Every safety property of the
passing runs, and every refinement, is a theorem.

## What is not modelled

The third-party code under `thirdparty/` (the library and googletest) is nearly all of
the source tree, over 100000 lines. It is not this program's, and what the program relies on
of it is modelled as external above; its protocol, encryption and the tests' framework
are left out. Of the program's own code these are left out:

- errors of the disk in writing, flushing or closing an open log file;
- the text of requests, errors, log entries and times, log levels, listener names, ports
  and socket options. No step depends on one, but for a request being empty;
- `Server::parseRequest`, `stopListening`, `pollErrorMessages` and `listenForCommands`, which
  are empty, and `ThreadSaveQueue::wait_pop`, which nothing instantiates;
- `initHTTP`, taken to have succeeded: it runs alone, and its failures end the program;
- `m_eOldState` of a callback, and with it the assert of `NetworkManagerCore.cpp:252`, which
  follows from the states an IP connection of the library goes through;
- `executeFunktion` called on the network thread itself: nothing in the repository does.

Hazards that no property covers say why in `PROJECT.json`: they are undefined or
unspecified whatever the order of steps (`std::ctime`'s shared buffer, a reference to a
request that is gone), or nothing in the repository says what should happen (a
listener destroyed while listening leaves its socket open, the error that stops a listener is
cleared unread, a listener whose memory was not zero cannot be started, the log thread dies
without a file, a call that crosses a restart of the manager is executed by the next core).
Four hazards are covered but for a window their property excludes and their note names:
the notifications of `~Listener`, `~ThreadPool` and `stop` that fall between a test and a
sleep, and a pool whose worker has come back from a task. There the model has the
program hang or die, as the code does, and no sentence of the repository says otherwise.
