-------------------------------- MODULE Logger --------------------------------
(***************************************************************************)
(* The logger of Logger/Logger.h: the threads that log (Logger::log and    *)
(* AsyncLoggerCore::write), the log thread with the AsyncFileWriter it     *)
(* writes through, and the thread that destroys the logger.                *)
(*                                                                         *)
(* write is one step under m_queueMutex, so the mutex is held across steps *)
(* by the log thread only.  Entries are numbered as they are queued and of *)
(* one size, which is the unit of MaxLogSize; the level, the time and the  *)
(* text of an entry are left out.                                          *)
(***************************************************************************)
EXTENDS Naturals, Sequences

CONSTANTS
  Writer,      \* the threads that log
  Names,       \* the names a rotated file can be given
  MaxLogSize,  \* MAXLOGSIZE
  BufferSize,  \* how much the ofstream buffers
  MaxEntries   \* bound: how many entries are written

ASSUME LoggerAssumption ==
  /\ MaxLogSize \in Nat \ {0} /\ BufferSize \in Nat /\ MaxEntries \in Nat

VARIABLES
  m_running, m_MessageQueue,    \* AsyncLoggerCore
  pc, hand,                     \* the log thread, and its local msg
  isOpen, buffer,               \* AsyncFileWriter::m_logFile
  exists, disk, archives,       \* the file m_logPath, and the rotated files
  failedRotations,              \* how often a file too large was kept
  writer,                       \* each writer: whether it has the core in hand
  dpc,                          \* destroyLogger
  failed,                       \* how the program has died, or "none"
  accepted, mark, rotated       \* history: entries queued, those before stop,
                                \* and all that was rotated away

file    == <<isOpen, buffer, exists, disk, archives, failedRotations>>
thread  == <<pc, hand>>
history == <<accepted, mark, rotated>>
vars == <<m_running, m_MessageQueue, thread, file, writer, dpc, failed, history>>

Running == failed = "none"
(* The log thread holds m_queueMutex between its steps. *)
Locked == pc \in {"wait", "block", "pop"}
notify == pc' = IF pc = "asleep" THEN "wakeup" ELSE pc

(* The constructors; the file may not be opened, or not even be there. *)
Init ==
  /\ m_running = TRUE /\ m_MessageQueue = <<>>
  /\ pc = "test" /\ hand = <<>>
  /\ isOpen \in BOOLEAN /\ exists \in BOOLEAN /\ (isOpen => exists)
  /\ buffer = <<>> /\ disk = <<>> /\ archives = <<>> /\ failedRotations = 0
  /\ writer = [w \in Writer |-> FALSE] /\ dpc = "up" /\ failed = "none"
  /\ accepted = 0 /\ mark = 0 /\ rotated = <<>>

Die(how) ==
  /\ failed' = how
  /\ UNCHANGED <<m_running, m_MessageQueue, thread, file, writer, dpc, history>>

-----------------------------------------------------------------------------
(* A writer.                                                               *)

(* pInstance->log up to the call of write: destroyLogger takes the core    *)
(* from the Logger first, and a null pointer is not survived.              *)
log(w) ==
  /\ Running /\ ~writer[w] /\ accepted < MaxEntries
  /\ \/ /\ dpc = "up" /\ writer' = [writer EXCEPT ![w] = TRUE]
        /\ UNCHANGED <<m_running, m_MessageQueue, thread, file, dpc, failed, history>>
     \/ dpc # "up" /\ Die("crash")

MutWrite(w) ==
  /\ Running /\ writer[w] /\ dpc # "dead" /\ ~Locked
  /\ m_MessageQueue' = Append(m_MessageQueue, accepted + 1) /\ accepted' = accepted + 1
  /\ writer' = [writer EXCEPT ![w] = FALSE]
  /\ UNCHANGED <<m_running, pc, hand, file, dpc, failed, mark, rotated>>
(* AsyncLoggerCore::write.  Of a core that has been destroyed it may crash *)
(* or do nothing that anyone sees.                                         *)
write(w) ==
  /\ Running /\ writer[w]
  /\ \/ /\ dpc # "dead" /\ ~Locked
        /\ m_MessageQueue' = Append(m_MessageQueue, accepted + 1) /\ accepted' = accepted + 1
        /\ notify /\ writer' = [writer EXCEPT ![w] = FALSE]
        /\ UNCHANGED <<m_running, hand, file, dpc, failed, mark, rotated>>
     \/ dpc = "dead" /\ Die("crash")
     \/ /\ dpc = "dead" /\ writer' = [writer EXCEPT ![w] = FALSE]
        /\ UNCHANGED <<m_running, m_MessageQueue, thread, file, dpc, failed, history>>

-----------------------------------------------------------------------------
(* The log thread: logThread and writeMessages.                            *)

Goto(from, to) == Running /\ pc = from /\ pc' = to

MutMore == m_running
(* The loop's condition is tested without the mutex. *)
More == m_running \/ m_MessageQueue # <<>>

waitForMessages ==
  /\ \/ Goto("test", IF More THEN "lock" ELSE "flush")
     \/ Goto("lock", "wait")
     \/ Goto("wait", IF m_MessageQueue # <<>> \/ ~m_running THEN "pop" ELSE "block")
     \/ Goto("block", "asleep") \/ Goto("wakeup", "wait")
  /\ UNCHANGED <<m_running, m_MessageQueue, hand, file, writer, dpc, failed, history>>

SpuriousWakeup ==
  /\ Goto("asleep", "wakeup")
  /\ UNCHANGED <<m_running, m_MessageQueue, hand, file, writer, dpc, failed, history>>

(* The loop of writeMessages: the mutex is released while the file is      *)
(* written, or at the end of the scope in logThread.                       *)
popMessage ==
  /\ \/ Goto("pop", "file") /\ m_MessageQueue # <<>>
        /\ hand' = <<Head(m_MessageQueue)>> /\ m_MessageQueue' = Tail(m_MessageQueue)
     \/ Goto("pop", "test") /\ m_MessageQueue = <<>> /\ UNCHANGED <<hand, m_MessageQueue>>
     \/ Goto("relock", "pop") /\ UNCHANGED <<hand, m_MessageQueue>>
  /\ UNCHANGED <<m_running, file, writer, dpc, failed, history>>

MutTooLarge == Len(disk) > MaxLogSize
(* The size of the file, without what is buffered, and the entry's. *)
TooLarge == Len(disk) + 1 > MaxLogSize

(* writeFile: file_size throws when the file is not there. *)
checkSize ==
  /\ \/ ~exists /\ pc = "file" /\ Running /\ Die("terminate")
     \/ /\ exists /\ Goto("file", IF TooLarge THEN "rotate" ELSE "append")
        /\ UNCHANGED <<m_running, m_MessageQueue, hand, file, writer, dpc, failed, history>>

MutArchive(name) == [name |-> "app.log", entries |-> disk \o buffer]
Archive(name) == [name |-> name, entries |-> disk \o buffer]
NameTaken(name) == \E i \in 1..Len(archives) : archives[i].name = name

MutRename(name) ==
  /\ archives' = Append(SelectSeq(archives, LAMBDA a : a.name # name), Archive(name))
  /\ rotated' = rotated \o disk \o buffer
  /\ disk' = <<>> /\ exists' = isOpen' /\ UNCHANGED failedRotations
(* What was flushed goes into the archive, if its name is free. *)
Rename(name) ==
  /\ ~NameTaken(name) /\ archives' = Append(archives, Archive(name))
  /\ rotated' = rotated \o disk \o buffer
  /\ disk' = <<>> /\ exists' = isOpen' /\ UNCHANGED failedRotations

(* The name is taken, or renaming fails: the file is used on. *)
KeepFile ==
  /\ disk' = disk \o buffer /\ failedRotations' = failedRotations + 1
  /\ UNCHANGED <<archives, rotated, exists>>

(* flush and changeLogFileIfNeeded: the file is closed, renamed, and       *)
(* opened again, which may fail and then leaves no file where it was       *)
(* renamed.                                                                *)
rotate ==
  /\ Goto("rotate", "append") /\ buffer' = <<>> /\ isOpen' \in BOOLEAN
  /\ \/ \E name \in Names : Rename(name)
     \/ KeepFile
  /\ UNCHANGED <<m_running, m_MessageQueue, hand, writer, dpc, failed, accepted, mark>>

(* m_logFile << logEntry: buffered, or written with what was buffered if   *)
(* it is long or the buffer full; dropped if the file is not open.         *)
append ==
  /\ Goto("append", "relock") /\ hand' = <<>>
  /\ \/ isOpen /\ Len(buffer) < BufferSize /\ buffer' = buffer \o hand /\ UNCHANGED disk
     \/ isOpen /\ disk' = disk \o buffer \o hand /\ buffer' = <<>>
     \/ ~isOpen /\ UNCHANGED <<buffer, disk>>
  /\ UNCHANGED <<m_running, m_MessageQueue, isOpen, exists, archives, failedRotations,
                 writer, dpc, failed, history>>

flush ==
  /\ Goto("flush", "done") /\ disk' = disk \o buffer /\ buffer' = <<>>
  /\ UNCHANGED <<m_running, m_MessageQueue, hand, isOpen, exists, archives, failedRotations,
                 writer, dpc, failed, history>>

logThread ==
  waitForMessages \/ popMessage \/ checkSize \/ rotate \/ append \/ flush

-----------------------------------------------------------------------------
(* destroyLogger: ~Logger, ~AsyncLoggerCore and its stop.                  *)

stop ==
  /\ Running /\ dpc = "up" /\ dpc' = "notify" /\ m_running' = FALSE /\ mark' = accepted
  /\ UNCHANGED <<m_MessageQueue, thread, file, writer, failed, accepted, rotated>>

MutStopNotify ==
  /\ Running /\ dpc = "notify" /\ dpc' = "join"
  /\ UNCHANGED <<m_running, m_MessageQueue, thread, file, writer, failed, history>>
(* Without the mutex. *)
stopNotify ==
  /\ Running /\ dpc = "notify" /\ dpc' = "join" /\ notify
  /\ UNCHANGED <<m_running, m_MessageQueue, hand, file, writer, failed, history>>

stopJoin ==
  /\ Running /\ dpc = "join" /\ pc = "done" /\ dpc' = "close"
  /\ UNCHANGED <<m_running, m_MessageQueue, thread, file, writer, failed, history>>

(* The file writer closes its file, and the core is gone. *)
destroyed ==
  /\ Running /\ dpc = "close" /\ dpc' = "dead"
  /\ disk' = disk \o buffer /\ buffer' = <<>>
  /\ UNCHANGED <<m_running, m_MessageQueue, thread, isOpen, exists, archives,
                 failedRotations, writer, failed, history>>

destroyLogger == stopNotify \/ stopJoin \/ destroyed

-----------------------------------------------------------------------------
Next ==
  \/ logThread \/ SpuriousWakeup \/ stop \/ destroyLogger
  \/ \E w \in Writer : log(w) \/ write(w)

(* The log thread runs when it can, and a stop once begun is carried on.   *)
Fairness == WF_vars(logThread) /\ WF_vars(destroyLogger)

Spec == Init /\ [][Next]_vars /\ Fairness

-----------------------------------------------------------------------------
Entry == 1..MaxEntries

(* Every variable has its type. *)
TypeOK ==
  /\ m_running \in BOOLEAN /\ m_MessageQueue \in Seq(Nat)
  /\ pc \in {"test", "lock", "wait", "block", "asleep", "wakeup", "pop", "file", "rotate",
             "append", "relock", "flush", "done"}
  /\ hand \in Seq(Nat) /\ isOpen \in BOOLEAN /\ exists \in BOOLEAN
  /\ buffer \in Seq(Nat) /\ disk \in Seq(Nat) /\ archives \in Seq([name : Names, entries : Seq(Nat)])
  /\ failedRotations \in Nat
  /\ writer \in [Writer -> BOOLEAN] /\ dpc \in {"up", "notify", "join", "close", "dead"}
  /\ failed \in {"none", "terminate", "crash"}
  /\ accepted \in Nat /\ mark \in Nat /\ rotated \in Seq(Nat)

(* No file outgrows the limit by more than what the stream buffers, and    *)
(* one entry for every rotation that failed: though the size that is       *)
(* compared does not count the buffer.  Rotated files included.            *)
SizeBound ==
  /\ Len(disk) + Len(buffer) <= MaxLogSize + BufferSize + failedRotations
  /\ \A i \in 1..Len(archives) :
       Len(archives[i].entries) <= MaxLogSize + BufferSize + failedRotations

(* The invariant behind SizeBound and the refinement.  The log thread dies *)
(* of a missing file only if that could not be opened, and a stream that   *)
(* is not open buffers nothing; hand is the entry between queue and file;  *)
(* the thread ends only when all that was queued before stop was taken,    *)
(* and it sleeps on nothing that is queued: write locks what the test of   *)
(* the predicate holds until it sleeps, and notifies.                      *)
FileInv ==
  /\ (isOpen => exists) /\ (~isOpen => buffer = <<>>) /\ Len(buffer) <= BufferSize
  /\ pc = "rotate" => exists
  /\ pc = "append" /\ isOpen =>
       Len(disk) + Len(buffer) < MaxLogSize + BufferSize + failedRotations
HandInv == Len(hand) = IF pc \in {"file", "rotate", "append"} THEN 1 ELSE 0
Numbered ==
  \A i \in 1..Len(m_MessageQueue) : m_MessageQueue[i] = accepted - Len(m_MessageQueue) + i
DrainInv ==
  /\ mark <= accepted /\ Len(m_MessageQueue) <= accepted /\ (m_running <=> dpc = "up")
  /\ pc \in {"flush", "done"} => ~m_running /\ mark <= accepted - Len(m_MessageQueue)
  /\ dpc \in {"close", "dead"} => pc = "done"
  /\ pc = "done" => buffer = <<>>
SleepInv == pc \in {"block", "asleep"} => m_MessageQueue = <<>>
LoggerInv == SizeBound /\ FileInv /\ HandInv /\ Numbered /\ DrainInv /\ SleepInv

(* Nothing rotated is ever lost: the archives hold all of it, in order.    *)
Archived ==
  LET flat[k \in 0..Len(archives)] ==
        IF k = 0 THEN <<>> ELSE flat[k - 1] \o archives[k].entries
  IN  flat[Len(archives)]
ArchivesKept == rotated = Archived

-----------------------------------------------------------------------------
(* The logger implements AbstractLog.                                      *)

Abstract == INSTANCE AbstractLog WITH
  durable <- rotated \o disk,
  pending <- IF dpc = "dead" THEN <<>> ELSE buffer \o hand \o m_MessageQueue,
  status  <- IF dpc = "up" THEN "open" ELSE IF dpc = "dead" THEN "closed" ELSE "closing",
  broken  <- ~isOpen

(* Entries reach the disk in order, each once, over rotations that fail or *)
(* not and files that cannot be opened; destroyLogger returns only with    *)
(* what was logged before it on disk.                                      *)
LogIsKept == Abstract!Spec

(* What is queued is handed to the stream of the open file, and from then  *)
(* on in its buffer, on disk or rotated away, unless the logger is         *)
(* destroyed or dies; only with the file not open may it leave the queue   *)
(* and the hand unwritten.                                                 *)
Holds(entries, e) == \E i \in 1..Len(entries) : entries[i] = e
QueuedIsWritten ==
  \A e \in Entry :
    Holds(m_MessageQueue, e)
      ~> \/ Holds(rotated \o disk \o buffer, e) \/ dpc # "up" \/ failed # "none"
         \/ ~isOpen /\ ~Holds(m_MessageQueue \o hand, e)

(* stop returns whenever its notification does not fall between the test   *)
(* of the wait predicate and the sleep.                                    *)
StopReturns == (dpc = "notify" /\ pc # "block") ~> (dpc = "dead" \/ failed # "none")
=============================================================================
